---------------------------- MODULE BridgeConfig ----------------------------
(***************************************************************************)
(* One contract and its options at the server's createWritBridge and at    *)
(* the page's, with the typed client made beside it: what each refuses     *)
(* when it is created, and what the calls of the bridges it did create run *)
(* into later.                                                             *)
(*                                                                         *)
(* Of a function only what its routing depends on is kept; the rest of the *)
(* contract's shape is well-formed.  A key is a sequence of segments.      *)
(***************************************************************************)
EXTENDS Naturals, Sequences, SequencesExt

CONSTANTS
  Contracts,      \* the functions of the contracts that are tried, in order
  Settings,       \* the options they are tried with
  ServerMembers,  \* BRIDGE_MEMBER_NAMES
  PageMembers     \* BRIDGE_RESERVED_NAMES

Modes == {"required", "recommended", "cloud"}

(* The fields of a function: its key; whether it names hosts of the        *)
(* visitor's network, or has a lan_host setting; its own mode; the mode    *)
(* functionModes gives it; the workflow id it is mapped to; how its linked *)
(* workflow is reached; its package; the value settings suggests for it.   *)
Functions ==
  [key : Seq(STRING), lan : {"no", "hosts", "lan_host"}, mode : Modes \cup {"none"},
   over : Modes \cup {"none"}, cloud : {"none", "number", "digits", "text"},
   linked : {"no", "public", "token"}, package : STRING, suggest : STRING]

Options == [mode : Modes, secret : BOOLEAN, apiKey : BOOLEAN, runToken : BOOLEAN]

ASSUME ConfigAssumption ==
  /\ Contracts \subseteq Seq(Functions)
  /\ Settings \subseteq Options

VARIABLES
  functions, \* contract.functions: never changes
  options,   \* the options of both bridges: never changes
  server,    \* the server's bridge: none, refused, or built
  page,      \* the page's
  client,    \* the typed client's
  call       \* the last call, and how it ended

configVars == <<functions, options, server, page, client, call>>

MadeStates == {"none", "refused", "built"}

NoCall == [by |-> "none"]
Venues == {"user", "away", "cloud", "WRIT_REQUIRED", "CLOUD_NOT_CONFIGURED", "CONFIG_INVALID",
           "BAD_REQUEST"}

ConfigTypeOK ==
  /\ functions \in Seq(Functions)
  /\ options \in Options
  /\ {server, page, client} \subseteq MadeStates
  /\ \/ call = NoCall
     \/ call \in [by : {"user", "server", "page", "client"}, fn : Functions, venue : Venues]

ConfigInit ==
  /\ functions \in Contracts
  /\ options \in Settings
  /\ server = "none" /\ page = "none" /\ client = "none"
  /\ call = NoCall

The == ToSet(functions)
ReservedSegments == {"then", "__proto__", "constructor", "prototype"}

(* checkNamespaces, and no key twice. *)
Clash(fs) ==
  \E i, j \in DOMAIN fs : i # j /\ (fs[i].key = fs[j].key \/ IsStrictPrefix(fs[i].key, fs[j].key))

KeyIsValid(f) == \A i \in DOMAIN f.key : f.key[i] \notin ReservedSegments

(* buildTree: the methods that can be reached once every function had its  *)
(* turn.  A method under another one throws, one in the place of a         *)
(* namespace replaces it.                                                  *)
Plant(tree, f) ==
  IF \E g \in tree : IsStrictPrefix(g.key, f.key) THEN {}
  ELSE {g \in tree : ~IsPrefix(f.key, g.key)} \cup {f}

Tree ==
  LET tree[i \in 0..Len(functions)] ==
        IF i = 0 THEN {} ELSE Plant(tree[i - 1], functions[i])
  IN  tree[Len(functions)]

-----------------------------------------------------------------------------
(* The server                                                              *)

(* validateCloudMapping: digits become a number, other text is refused. *)
ServerMapping(f) == IF f.cloud = "digits" THEN "number" ELSE f.cloud

ServerFunction(f) == KeyIsValid(f) /\ ServerMapping(f) \in {"none", "number"}

(* validateContract *)
ServerContract == (\A f \in The : ServerFunction(f)) /\ ~Clash(functions)

(* localNetworkOf *)
Lan(f) == f.lan # "no"

Explicit(f) == IF f.over # "none" THEN f.over ELSE f.mode

(* The modes map of createWritBridge. *)
\* Seeded fault: a function that reaches the local network inherits a mode.
InheritedMode(f) == IF Explicit(f) # "none" THEN Explicit(f) ELSE options.mode

ServerMode(f) ==
  IF Lan(f) THEN "required" ELSE IF Explicit(f) # "none" THEN Explicit(f) ELSE options.mode

(* The refusals of createWritBridge. *)
ServerAccepts ==
  /\ ServerContract
  /\ \A f \in The :
       /\ Lan(f) => Explicit(f) \in {"none", "required"}
       /\ ServerMode(f) # "required" => f.cloud # "none" /\ options.apiKey
       /\ Head(f.key) \notin ServerMembers
  /\ (\E f \in The : ServerMode(f) # "cloud") => options.secret

CreateServer ==
  /\ server = "none"
  /\ server' = IF ServerAccepts THEN "built" ELSE "refused"
  /\ UNCHANGED <<functions, options, page, client, call>>

(* runCloud *)
CloudVenue(f) ==
  IF ServerMapping(f) = "number" /\ options.apiKey THEN "cloud" ELSE "CLOUD_NOT_CONFIGURED"

(* runOnUser mints a challenge with the secret (requireSecret), and sends  *)
(* no command when the user is away.                                       *)
UserVenues == {"away", IF options.secret THEN "user" ELSE "CONFIG_INVALID"}

(* callForUser *)
UserCallVenues(f) ==
  CASE ServerMode(f) = "cloud" -> {CloudVenue(f)}
    [] ServerMode(f) = "required" -> UserVenues
    [] OTHER -> (UserVenues \ {"away"}) \cup {CloudVenue(f)}

(* callOnCloud, and run for a page (channel.ts) *)
ServerRun(f) == IF ServerMode(f) = "required" THEN "WRIT_REQUIRED" ELSE CloudVenue(f)

Called(by, f, venues) ==
  /\ call' \in {[by |-> by, fn |-> f, venue |-> v] : v \in venues}
  /\ UNCHANGED <<functions, options, server, page, client>>

CallForUser(f) == server = "built" /\ Called("user", f, UserCallVenues(f))
CallOnCloud(f) == server = "built" /\ Called("server", f, {ServerRun(f)})

-----------------------------------------------------------------------------
(* The page                                                                *)

(* validateContractFunction; validateCloudMapping takes any text. *)
PageFunction(f) == KeyIsValid(f)

PageContract == (\A f \in The : PageFunction(f)) /\ ~Clash(functions)

PageMode(f) == IF f.mode # "none" THEN f.mode ELSE options.mode

(* requireRunTokens, of linkedAccessOfContract. *)
TokensFor(fs) == (\E f \in fs : f.linked = "token") => options.runToken

Suggesting == {f \in The : f.suggest # ""}

(* suggestionsByPackage: one value for a package's setting, and none for a *)
(* function that installs nothing (installedOnly).                         *)
SuggestionsAgree ==
  /\ \A f \in Suggesting : PageMode(f) # "cloud"
  /\ \A f, g \in Suggesting : f.package = g.package => f.suggest = g.suggest

(* The values the connect requests carry for a package (contractRequests). *)
Suggested(package) ==
  {f.suggest : f \in {g \in Suggesting : g.package = package}}

(* validateBridgeOptions *)
PageAccepts ==
  /\ PageContract
  /\ \A f \in The :
       /\ Head(f.key) \notin PageMembers
       /\ Lan(f) => PageMode(f) = "required"
  /\ TokensFor({f \in The : PageMode(f) # "cloud"})
  /\ SuggestionsAgree

CreatePage ==
  /\ page = "none"
  /\ page' = IF PageAccepts THEN "built" ELSE "refused"
  /\ UNCHANGED <<functions, options, server, client, call>>

(* WritSession.call: a run token is asked for before the call goes out. *)
LocalVenue(f) == IF f.linked = "token" /\ ~options.runToken THEN "BAD_REQUEST" ELSE "user"

(* #call; #cloud asks the server. *)
PageCall(f) ==
  /\ page = "built"
  /\ \/ /\ PageMode(f) # "cloud"
        /\ Called("page", f, {LocalVenue(f)})
     \/ /\ PageMode(f) # "required" /\ server = "built"
        /\ Called("page", f, {ServerRun(f)})

(* createWritClient: every function of the contract is called locally. *)
CreateClient ==
  /\ client = "none"
  /\ client' = IF PageContract /\ TokensFor(The) THEN "built" ELSE "refused"
  /\ UNCHANGED <<functions, options, server, page, call>>

ClientCall(f) == client = "built" /\ Called("client", f, {LocalVenue(f)})

-----------------------------------------------------------------------------
ConfigNext ==
  \/ CreateServer \/ CreatePage \/ CreateClient
  \/ \E f \in The : CallForUser(f) \/ CallOnCloud(f) \/ PageCall(f) \/ ClientCall(f)

ConfigSpec == ConfigInit /\ [][ConfigNext]_configVars

-----------------------------------------------------------------------------
(* A call of a bridge or client that was created never runs into what its  *)
(* configuration lacks: "Refuses, at creation, anything that would fail    *)
(* later" (createWritBridge).                                              *)
NothingFailsLater ==
  call # NoCall => call.venue \notin {"CLOUD_NOT_CONFIGURED", "CONFIG_INVALID", "BAD_REQUEST"}

(* What reaches the visitor's network never runs on Writ Cloud, whatever   *)
(* mode it inherits and whoever calls it (localNetworkOf).                 *)
LanStaysHome == call # NoCall /\ Lan(call.fn) => call.venue # "cloud"

(* Every function can be called under its key, whatever the order they     *)
(* come in (checkNamespaces, buildTree).                                   *)
EveryKeyIsReached == "built" \in {server, page, client} => Tree = The

(* A page that knows the server's modes, none of them overridden there, is *)
(* never told that what it asks Writ Cloud for runs only with Writ         *)
(* (PageMode in the page, ServerMode in the server).                       *)
PagesAgree ==
  call # NoCall /\ call.by = "page" /\ call.fn.over = "none" => call.venue # "WRIT_REQUIRED"

(* A package is asked for with one value of its setting, that of every key *)
(* that suggests one (suggestionsByPackage).                               *)
OneValuePerPackage ==
  page = "built" => \A f \in Suggesting : Suggested(f.package) = {f.suggest}

(* What createWritBridge and createWritClient let through works later.     *)
ConfigInv ==
  /\ ConfigTypeOK
  /\ NothingFailsLater /\ LanStaysHome /\ EveryKeyIsReached /\ PagesAgree /\ OneValuePerPackage
=============================================================================
