------------------------------ MODULE ServerMC ------------------------------
(* The parts of a server, each checked by itself in one run: the calls of a  *)
(* bridge over memoryStore, the runs its pages ask for, the receipts it      *)
(* verifies, and what it and its pages refuse when they are created.         *)
EXTENDS CloudRuns, Receipts, BridgeConfig

CONSTANTS Calls, Pages, Posts, SlowClock, user

VARIABLES
  part,
  caller, answer, sentAge, pend, queue, result, spent, poll, gone, held,
  inbox, job, runs, verdicts, post

(* A required call and two tabs of its user. *)
Bridge == INSTANCE BridgeCommands WITH
  Users <- {user},
  CallUser <- [c \in Calls |-> user],
  PageUser <- [p \in Pages |-> user],
  Mode <- [c \in Calls |-> "required"],
  MaxBatch <- 1,
  SharedStore <- FALSE,
  age <- sentAge

(* One function however it is routed, and two however they are named and   *)
(* whatever they suggest, with all the options.                            *)
Plain == [key |-> <<"pos">>, lan |-> "no", mode |-> "none", over |-> "none", cloud |-> "number",
          linked |-> "no", package |-> "p", suggest |-> ""]
Routed ==
  {[Plain EXCEPT !.lan = l, !.mode = m, !.over = o, !.cloud = c, !.linked = k] :
     l \in {"no", "hosts", "lan_host"}, m \in Modes \cup {"none"}, o \in Modes \cup {"none"},
     c \in {"none", "number", "digits", "text"}, k \in {"no", "public", "token"}}
Named ==
  {[Plain EXCEPT !.key = k, !.mode = m, !.suggest = s] :
     k \in {<<"pos">>, <<"pos", "receive">>, <<"pos", "then">>, <<"user">>, <<"venue">>},
     m \in {"none", "cloud"}, s \in {"", "x", "y"}}

MCContracts ==
  {<<f>> : f \in Routed} \cup {<<f, [g EXCEPT !.package = p]>> : f, g \in Named, p \in {"p", "q"}}

bridgeVars == <<caller, answer, sentAge, pend, queue, result, spent, poll, gone, held,
                inbox, job, runs, verdicts, post>>
allVars == <<part, vars, bridgeVars, receiptVars, configVars>>

\* A part that is not checked stays in one initial state.
MCInit ==
  /\ part \in {"bridge", "runs", "verify", "config"}
  /\ Init /\ Bridge!Init
  /\ IF part = "verify" THEN ReceiptsInit ELSE ReceiptsInit /\ devices = "off"
  /\ IF part = "config" THEN ConfigInit
     ELSE /\ functions = <<Plain>>
          /\ options = [mode |-> "required", secret |-> TRUE, apiKey |-> TRUE, runToken |-> TRUE]
          /\ server = "none" /\ page = "none" /\ client = "none" /\ call = NoCall

InBridge(A) == part = "bridge" /\ A /\ UNCHANGED <<part, vars, receiptVars, configVars>>
InRuns(A) == part = "runs" /\ A /\ UNCHANGED <<part, bridgeVars, receiptVars, configVars>>
InVerify(A) == part = "verify" /\ A /\ UNCHANGED <<part, vars, bridgeVars, configVars>>
InConfig(A) == part = "config" /\ A /\ UNCHANGED <<part, vars, bridgeVars, receiptVars>>

MCNext ==
  InBridge(Bridge!Next) \/ InRuns(Next) \/ InVerify(ReceiptsNext) \/ InConfig(ConfigNext)

MCSpec == MCInit /\ [][MCNext]_allVars

NothingLeftBehind == Bridge!NothingLeftBehind
GenuineResultIsAccepted == Bridge!GenuineResultIsAccepted
=============================================================================
