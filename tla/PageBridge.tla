----------------------------- MODULE PageBridge -----------------------------
(***************************************************************************)
(* The bridge in the visitor's page (BridgeRuntime and Slots, bridge.ts):  *)
(* the session with the visitor's Writ and what it grants, readiness, the  *)
(* calls of the page and the commands of its server, their places among    *)
(* the calls that run at once, suggested settings, and destroy().          *)
(*                                                                         *)
(* The banner is here what its handle promises: it tells that nothing was  *)
(* found, hands one session over, or is closed.                            *)
(***************************************************************************)
EXTENDS Naturals, SequencesExt

CONSTANTS
  LocalKeys,   \* #localKeys, which may run on the visitor's computer
  Contracts,   \* which of them a contract requires
  Calls,       \* calls of the page
  Commands,    \* commands of its server
  Suggestions, \* calls of suggestSettings
  MaxLocal,    \* MAX_LOCAL_CALLS_IN_FLIGHT
  MaxSessions, \* bound: sessions made
  MaxChanges   \* bound: changes the visitor makes to the grant

ASSUME ConstantsAssumption ==
  /\ LocalKeys # {} /\ Contracts \subseteq SUBSET LocalKeys
  /\ Calls \cap Commands = {}
  /\ MaxLocal \in Nat \ {0}
  /\ {MaxSessions, MaxChanges} \subseteq Nat

VARIABLES
  bridge,  \* the fields of BridgeRuntime, and the banners it started
  call,    \* call[c]: a call or a command
  free,    \* #slots: #free
  queue,   \* #slots: #queue
  suggest, \* suggest[s]: a call of suggestSettings
  grant,   \* the keys the visitor's Writ grants this site
  changes  \* bound: changes of grant made

vars == <<bridge, call, free, queue, suggest, grant, changes>>
world == <<grant, changes>>

Work == Calls \cup Commands
BannerStages == {"none", "looking", "shown", "consent", "handed", "closing", "over"}
CallStages == {"new", "checking", "granting", "queued", "holding", "running", "cloud", "done"}
Settled == {"pending", "resolved", "rejected"}

Bridges ==
  [required : SUBSET LocalKeys, session : 0..MaxSessions, granted : SUBSET LocalKeys, checked : BOOLEAN, ended : BOOLEAN,
   ready : BOOLEAN, promise : Settled, sessionReady : Seq(Settled), generation : Nat,
   banner : Seq(BannerStages), refreshing : 0..MaxSessions, destroyed : BOOLEAN,
   revision : Nat, bannerRevision : Nat, made : 0..MaxSessions, sent : Nat, lacked : BOOLEAN]

TypeOK ==
  /\ bridge \in Bridges
  /\ call \in [Work -> [stage : CallStages, key : LocalKeys \cup {"none"}, on : Nat, aborted : BOOLEAN]]
  /\ free \in 0..MaxLocal
  /\ queue \in Seq(Work)
  /\ suggest \in [Suggestions -> [stage : {"new", "waiting", "connecting", "ok", "failed"}, on : Nat, revision : Nat]]
  /\ grant \subseteq LocalKeys
  /\ changes \in 0..MaxChanges

(* The constructor and start(): the first banner is looking.  made, sent   *)
(* and lacked are history: sessions made, the last revision of suggestions *)
(* a connect request carried, whether Writ was once found wanting.         *)
Init ==
  /\ \E required \in Contracts :
       bridge = [required |-> required, session |-> 0, granted |-> {}, checked |-> FALSE, ended |-> FALSE,
                 ready |-> FALSE, promise |-> "pending", sessionReady |-> <<"pending">>, generation |-> 1,
                 banner |-> <<"looking">>, refreshing |-> 0, destroyed |-> FALSE,
                 revision |-> 0, bannerRevision |-> 0, made |-> 0, sent |-> 0, lacked |-> FALSE]
  /\ call = [c \in Work |-> [stage |-> "new", key |-> "none", on |-> 0, aborted |-> FALSE]]
  /\ free = MaxLocal
  /\ queue = <<>>
  /\ suggest = [s \in Suggestions |-> [stage |-> "new", on |-> 0, revision |-> 0]]
  /\ grant \in SUBSET LocalKeys
  /\ changes = 0

-----------------------------------------------------------------------------
(* Readiness and the session.  Each operator is the bridge after the method*)

(* A promise settles once. *)
Settle(p, how) == IF p = "pending" THEN how ELSE p

Recommended(b) == LocalKeys \ b.required

Able(b) == IF b.required # {} THEN b.session # 0 /\ b.required \subseteq b.granted ELSE b.checked

UpdateReady(b) ==
  IF b.destroyed \/ b.ready = Able(b) THEN b
  ELSE [b EXCEPT !.ready = Able(b), !.promise = IF Able(b) THEN Settle(@, "resolved") ELSE "pending"]

MarkChecked(b) == IF b.checked THEN b ELSE UpdateReady([b EXCEPT !.checked = TRUE])

SettleSessionReady(b, how) == [b EXCEPT !.sessionReady[Len(b.sessionReady)] = Settle(@, how)]

Adopt(b, s, keys) ==
  IF b.destroyed THEN b
  ELSE UpdateReady(SettleSessionReady(MarkChecked([b EXCEPT !.session = s, !.granted = keys]), "resolved"))

EndLocal(b) ==
  LET e == SettleSessionReady(MarkChecked([b EXCEPT !.ended = TRUE]), "rejected")
  IN IF e.required # {} /\ ~e.ready THEN [e EXCEPT !.promise = Settle(@, "rejected")] ELSE UpdateReady(e)

(* destroy() of a banner's handle; one that handed over has nothing to say.*)
Removed(stage) == IF stage \in {"looking", "shown", "consent"} THEN "closing" ELSE "over"
RemoveBanner(b) == [b EXCEPT !.banner[Len(b.banner)] = IF @ = "closing" THEN @ ELSE Removed(@)]

StartLocal(b) ==
  LET r == RemoveBanner(b)
  IN [r EXCEPT !.generation = Len(r.banner) + 1, !.banner = Append(@, "looking")]

(* Mutant: those who wait for a session keep waiting on the old promise. *)
ResetLocalKeepsPromise(b) ==
  StartLocal(UpdateReady([b EXCEPT !.session = 0, !.granted = {}, !.lacked = TRUE]))

ResetLocal(b) ==
  StartLocal(UpdateReady([b EXCEPT !.session = 0, !.granted = {}, !.lacked = TRUE,
                                   !.sessionReady = Append(@, "pending")]))

(* A banner that was removed no longer has the generation of the bridge;   *)
(* the next one starts with a number of its own.                           *)
ReplaceSession(b, s, keys) ==
  IF b.destroyed THEN b
  ELSE IF b.session = 0
  THEN IF LocalKeys \subseteq keys THEN Adopt([RemoveBanner(b) EXCEPT !.generation = 0], s, keys) ELSE b
  ELSE IF LocalKeys \subseteq keys THEN UpdateReady([b EXCEPT !.session = s, !.granted = keys])
  ELSE ResetLocal(b)

-----------------------------------------------------------------------------
(* The banner                                                              *)

Current == Len(bridge.banner)
BannerAt(stages) == bridge.banner[Current] \in stages
BannerTo(b, stage) == [b EXCEPT !.banner[Current] = stage]
NewSession == bridge.made + 1
CanMake == bridge.made < MaxSessions
Unmoved == UNCHANGED <<call, free, queue, suggest>>

(* onPending: the first check found something missing. *)
BannerPending ==
  /\ BannerAt({"looking"})
  /\ bridge' = MarkChecked([BannerTo(bridge, "shown") EXCEPT !.lacked = TRUE])
  /\ UNCHANGED world /\ Unmoved

(* onReady: a check found a session that covers every key. *)
BannerResumes ==
  /\ BannerAt({"looking", "shown"}) /\ CanMake
  /\ LocalKeys \subseteq grant
  /\ bridge' = Adopt([BannerTo(bridge, "handed") EXCEPT !.made = @ + 1], NewSession, grant)
  /\ UNCHANGED world /\ Unmoved

(* The visitor clicks Connect: connectRequest is made up at the click. *)
BannerAsks ==
  /\ BannerAt({"shown"})
  /\ bridge' = [BannerTo(bridge, "consent") EXCEPT !.bannerRevision = bridge.revision, !.sent = bridge.revision]
  /\ UNCHANGED world /\ Unmoved

BannerDeclined ==
  /\ BannerAt({"consent"})
  /\ bridge' = BannerTo(bridge, "shown")
  /\ UNCHANGED world /\ Unmoved

(* The visitor binds every key the banner asked for. *)
BannerConnects ==
  /\ BannerAt({"consent"}) /\ CanMake
  /\ grant' = LocalKeys
  /\ bridge' = Adopt([BannerTo(bridge, "handed") EXCEPT !.made = @ + 1], NewSession, LocalKeys)
  /\ UNCHANGED changes /\ Unmoved

(* A banner can be dismissed only where nothing is required; one dismissed *)
(* earlier in this tab closes by itself.                                   *)
BannerDismissed ==
  /\ BannerAt({"looking", "shown", "consent"})
  /\ bridge.required = {}
  /\ bridge' = [BannerTo(bridge, "closing") EXCEPT !.lacked = TRUE]
  /\ UNCHANGED world /\ Unmoved

(* Mutant: the rejection of a banner that was removed ends the setup, too. *)
AnyBannerCloses(n) ==
  /\ bridge.banner[n] = "closing"
  /\ LET b == [bridge EXCEPT !.banner[n] = "over"] IN bridge' = IF b.destroyed THEN b ELSE EndLocal(b)
  /\ UNCHANGED world /\ Unmoved

(* The rejection of a banner's session: onLocalClosed. *)
BannerClosed(n) ==
  /\ bridge.banner[n] = "closing"
  /\ LET b == [bridge EXCEPT !.banner[n] = "over"]
     IN bridge' = IF n = b.generation /\ ~b.destroyed THEN EndLocal(b) ELSE b
  /\ UNCHANGED world /\ Unmoved

(* In Writ, the visitor binds or unbinds keys of this site. *)
VisitorChanges ==
  /\ changes < MaxChanges
  /\ changes' = changes + 1
  /\ grant' \in SUBSET LocalKeys \ {grant}
  /\ UNCHANGED bridge /\ Unmoved

-----------------------------------------------------------------------------
(* Calls                                                                   *)

SessionFor(key) == IF bridge.session # 0 /\ key \in bridge.granted THEN bridge.session ELSE 0
Done(c) == [call[c] EXCEPT !.stage = "done"]

(* Slots.acquire *)
Acquire(c, v) ==
  IF v.aborted THEN call' = [call EXCEPT ![c] = [v EXCEPT !.stage = "done"]] /\ UNCHANGED <<free, queue>>
  ELSE IF free > 0
  THEN /\ call' = [call EXCEPT ![c] = [v EXCEPT !.stage = "holding"]]
       /\ free' = free - 1
       /\ UNCHANGED queue
  ELSE /\ call' = [call EXCEPT ![c] = [v EXCEPT !.stage = "queued"]]
       /\ queue' = Append(queue, c)
       /\ UNCHANGED free

(* The finally block that calls release(), and the call is over. *)
Release(c) ==
  IF queue = <<>>
  THEN call' = [call EXCEPT ![c] = Done(c)] /\ free' = free + 1 /\ UNCHANGED queue
  ELSE /\ call' = [call EXCEPT ![c] = Done(c), ![Head(queue)].stage = "holding"]
       /\ queue' = Tail(queue)
       /\ UNCHANGED free

Local(c, v) == Acquire(c, [v EXCEPT !.on = bridge.session])
Elsewhere(c, v, stage) == call' = [call EXCEPT ![c] = [v EXCEPT !.stage = stage]] /\ UNCHANGED <<free, queue>>
(* A fetch whose signal has aborted is not made. *)
Cloud(c, v) == Elsewhere(c, v, IF v.aborted THEN "done" ELSE "cloud")

CallRecommended(c, v) ==
  IF ~bridge.checked /\ ~bridge.ended THEN Elsewhere(c, v, "checking")
  ELSE IF SessionFor(v.key) # 0 THEN Local(c, v) ELSE Cloud(c, v)

CallRequired(c, v) ==
  IF SessionFor(v.key) # 0 THEN Local(c, v)
  ELSE IF bridge.ended THEN Elsewhere(c, v, "done")
  ELSE Elsewhere(c, [v EXCEPT !.on = Len(bridge.sessionReady)], "granting")

Begin(c) ==
  /\ c \in Calls
  /\ call[c].stage = "new"
  /\ ~bridge.destroyed
  /\ \E k \in LocalKeys :
       LET v == [call[c] EXCEPT !.key = k]
       IN IF k \in Recommended(bridge) THEN CallRecommended(c, v) ELSE CallRequired(c, v)
  /\ UNCHANGED <<bridge, suggest, world>>

(* #runCommand; the channel gives it none once it was stopped. *)
RunCommand(c) ==
  /\ c \in Commands
  /\ call[c].stage = "new"
  /\ ~bridge.destroyed
  /\ \E k \in LocalKeys :
       LET v == [call[c] EXCEPT !.key = k]
       IN IF SessionFor(k) # 0 THEN Local(c, v) ELSE Elsewhere(c, v, "done")
  /\ UNCHANGED <<bridge, suggest, world>>

(* The first check is done. *)
Checked(c) ==
  /\ call[c].stage = "checking"
  /\ bridge.checked
  /\ IF SessionFor(call[c].key) # 0 THEN Local(c, call[c]) ELSE Cloud(c, call[c])
  /\ UNCHANGED <<bridge, suggest, world>>

(* #waitForGrant goes on: the session it waited for is there, or never     *)
(* will be.                                                                *)
GrantKnown(c) ==
  /\ call[c].stage = "granting"
  /\ bridge.sessionReady[call[c].on] # "pending"
  /\ IF bridge.sessionReady[call[c].on] = "resolved" /\ SessionFor(call[c].key) # 0
     THEN Local(c, call[c])
     ELSE Elsewhere(c, call[c], "done")
  /\ UNCHANGED <<bridge, suggest, world>>

(* untilAborted, or the fetch, rejects. *)
WaitAborted(c) ==
  /\ call[c].stage \in {"checking", "granting", "cloud"}
  /\ call[c].aborted
  /\ Elsewhere(c, call[c], "done")
  /\ UNCHANGED <<bridge, suggest, world>>

CloudAnswers(c) ==
  /\ call[c].stage = "cloud"
  /\ Elsewhere(c, call[c], "done")
  /\ UNCHANGED <<bridge, suggest, world>>

(* Mutant: the signal is not looked at between the slot and the run. *)
StartsAnyway(c) ==
  /\ call[c].stage = "holding"
  /\ Elsewhere(c, call[c], "running")
  /\ UNCHANGED <<bridge, suggest, world>>

(* session.call *)
Starts(c) ==
  /\ call[c].stage = "holding"
  /\ ~call[c].aborted
  /\ Elsewhere(c, call[c], "running")
  /\ UNCHANGED <<bridge, suggest, world>>

(* It ends with its result or an error, or at once when it was aborted. *)
RunEnds(c) ==
  /\ (call[c].stage = "running" \/ (call[c].stage = "holding" /\ call[c].aborted))
  /\ Release(c)
  /\ UNCHANGED <<bridge, suggest, world>>

(* It ends with NOT_GRANTED or GRANT_STALE: the grant is read again. *)
RunRefused(c) ==
  /\ call[c].stage = "running"
  /\ ~call[c].aborted
  /\ Release(c)
  /\ LET s == call[c].on
     IN bridge' = IF bridge.refreshing # 0 \/ s # bridge.session \/ bridge.destroyed THEN bridge
                  ELSE [bridge EXCEPT !.refreshing = s]
  /\ UNCHANGED <<suggest, world>>

RefreshAnswers ==
  /\ bridge.refreshing # 0
  /\ LET b == [bridge EXCEPT !.refreshing = 0]
     IN bridge' = IF bridge.refreshing # b.session \/ b.destroyed THEN b
                  ELSE IF LocalKeys \subseteq grant THEN [b EXCEPT !.granted = grant]
                  ELSE ResetLocal([b EXCEPT !.granted = grant])
  /\ UNCHANGED <<call, free, queue, suggest, world>>

RefreshFails ==
  /\ bridge.refreshing # 0
  /\ bridge' = [bridge EXCEPT !.refreshing = 0]
  /\ UNCHANGED <<call, free, queue, suggest, world>>

(* Mutant: a call that is aborted in line keeps its place. *)
AbortedStays(c) == [call[c] EXCEPT !.aborted = TRUE]
(* The abort event of a call's signal; one that waits for a slot leaves    *)
(* the line and is over.                                                   *)
Aborted(c) ==
  IF call[c].stage = "queued" THEN [Done(c) EXCEPT !.aborted = TRUE] ELSE [call[c] EXCEPT !.aborted = TRUE]
Under(c) == call[c].stage \notin {"new", "done"}

(* The page, or the channel, aborts one. *)
Abort(c) ==
  /\ Under(c) /\ ~call[c].aborted
  /\ call' = [call EXCEPT ![c] = Aborted(c)]
  /\ queue' = RemoveFirst(queue, c)
  /\ UNCHANGED <<bridge, free, suggest, world>>

(* destroy() *)
Destroy ==
  /\ ~bridge.destroyed
  /\ LET b == SettleSessionReady(RemoveBanner([bridge EXCEPT !.destroyed = TRUE, !.generation = 0]), "rejected")
     IN bridge' = [b EXCEPT !.ready = FALSE, !.promise = IF b.ready THEN "rejected" ELSE Settle(@, "rejected")]
  /\ call' = [c \in Work |-> IF Under(c) THEN Aborted(c) ELSE call[c]]
  /\ queue' = <<>>
  /\ UNCHANGED <<free, suggest, world>>

-----------------------------------------------------------------------------
(* suggestSettings                                                         *)

SuggestTo(s, v) == suggest' = [suggest EXCEPT ![s] = v]
Connecting(v) == [v EXCEPT !.stage = "connecting"]
Carries(b) == [b EXCEPT !.sent = b.revision]

Suggest(s) ==
  /\ suggest[s].stage = "new"
  /\ ~bridge.destroyed
  /\ LET b == [bridge EXCEPT !.revision = @ + 1]
         v == [suggest[s] EXCEPT !.revision = b.revision, !.on = Len(b.sessionReady)]
     IN IF b.session = 0 THEN bridge' = b /\ SuggestTo(s, [v EXCEPT !.stage = "waiting"])
        ELSE bridge' = Carries(b) /\ SuggestTo(s, Connecting(v))
  /\ UNCHANGED <<call, free, queue, world>>

(* The visitor is connected: with these values, or to be asked again. *)
SuggestGoesOn(s) ==
  /\ suggest[s].stage = "waiting"
  /\ ~bridge.destroyed
  /\ bridge.sessionReady[suggest[s].on] = "resolved"
  /\ IF bridge.bannerRevision >= suggest[s].revision
     THEN bridge' = bridge /\ SuggestTo(s, [suggest[s] EXCEPT !.stage = "ok"])
     ELSE bridge' = Carries(bridge) /\ SuggestTo(s, Connecting(suggest[s]))
  /\ UNCHANGED <<call, free, queue, world>>

(* connect() answers the whole grant of this site. *)
SuggestConnects(s) ==
  /\ suggest[s].stage = "connecting" /\ CanMake
  /\ \E k \in LocalKeys : grant' = grant \cup {k}
  /\ bridge' = ReplaceSession([bridge EXCEPT !.made = @ + 1], NewSession, grant')
  /\ SuggestTo(s, [suggest[s] EXCEPT !.stage = "ok"])
  /\ UNCHANGED <<call, free, queue, changes>>

(* Declined, failed, or the setup ended; destroy() ends both waits. *)
SuggestFails(s) ==
  /\ \/ suggest[s].stage = "connecting"
     \/ suggest[s].stage = "waiting" /\ (bridge.destroyed \/ bridge.sessionReady[suggest[s].on] = "rejected")
  /\ SuggestTo(s, [suggest[s] EXCEPT !.stage = "failed"])
  /\ UNCHANGED <<bridge, call, free, queue, world>>

-----------------------------------------------------------------------------
CallStep(c) ==
  \/ Checked(c) \/ GrantKnown(c) \/ WaitAborted(c) \/ CloudAnswers(c)
  \/ Starts(c) \/ RunEnds(c)

BannerStep == BannerPending \/ BannerResumes \/ \E n \in 1..Current : BannerClosed(n)

Next ==
  \/ BannerStep \/ BannerAsks \/ BannerDeclined \/ BannerConnects \/ BannerDismissed
  \/ VisitorChanges
  \/ \E c \in Work : CallStep(c) \/ Begin(c) \/ RunCommand(c) \/ RunRefused(c) \/ Abort(c)
  \/ RefreshAnswers \/ RefreshFails
  \/ Destroy
  \/ \E s \in Suggestions : Suggest(s) \/ SuggestGoesOn(s) \/ SuggestConnects(s) \/ SuggestFails(s)

Spec == Init /\ [][Next]_vars

(* The promises a call waits for settle, cloud answers and runs end (the   *)
(* timers of #cloud and of the extension), the first check ends, and the   *)
(* rejection of a removed banner arrives.                                  *)
FairSpec == Spec /\ WF_vars(BannerStep) /\ \A c \in Work : WF_vars(CallStep(c))

-----------------------------------------------------------------------------
(* Properties                                                              *)

(* ready() and status().ready tell the truth at every moment: with a       *)
(* required function, that the session grants them all; else that the first*)
(* check is over (#updateReady).  Nothing is ready once destroyed, and     *)
(* ready() rejects for no other reason.                                    *)
ReadyIsTrue ==
  /\ bridge.ready = (~bridge.destroyed /\ Able(bridge))
  /\ ~bridge.destroyed => bridge.promise = IF bridge.ready THEN "resolved" ELSE "pending"
  /\ bridge.destroyed => bridge.promise = "rejected"

(* A banner that can still bring a session is the one the bridge listens   *)
(* to; it closes by itself only where nothing is required.                 *)
BannerIsHeard ==
  /\ bridge.banner # <<>>
  /\ bridge.generation \in {0, Current}
  /\ BannerAt({"looking", "shown", "consent"}) => bridge.generation = Current /\ ~bridge.destroyed
  /\ bridge.generation # 0 /\ BannerAt({"closing"}) => bridge.required = {} /\ bridge.lacked

(* The last promise of a session is open only while a banner can settle it,*)
(* and is open whenever there is no session and the setup did not end.     *)
PromisesFit ==
  /\ bridge.sessionReady # <<>>
  /\ \A n \in DOMAIN bridge.sessionReady :
       bridge.sessionReady[n] = "pending" =>
         /\ n = Len(bridge.sessionReady)
         /\ bridge.session = 0 /\ ~bridge.destroyed
         /\ bridge.generation = Current
         /\ BannerAt({"looking", "shown", "consent", "closing"})
  /\ bridge.session = 0 /\ ~bridge.ended /\ ~bridge.destroyed => Last(bridge.sessionReady) = "pending"

(* Whoever waits for the visitor's Writ will be told: the promise waited   *)
(* for is settled, or it is the one the next session settles and a banner  *)
(* that can bring it is up; and without a session there is such a promise  *)
(* to wait for (#resetLocal, #replaceSession, #endLocal).                  *)
WaitersAreHeard ==
  LET on == {call[c].on : c \in {c \in Work : call[c].stage = "granting"}}
              \cup {suggest[s].on : s \in {s \in Suggestions : suggest[s].stage = "waiting"}}
  IN on \subseteq DOMAIN bridge.sessionReady /\ PromisesFit

(* While a function is required, the setup never ends but by destroy(), so *)
(* no required call is told so (#onLocalClosed, the generation).           *)
SetupGoesOn == bridge.required # {} => ~bridge.ended

(* A session in use grants every local key as far as the page was told: the*)
(* loss of one drops it (#refreshGrants, #replaceSession).                 *)
SessionIsComplete == bridge.session # 0 => LocalKeys \subseteq bridge.granted

(* Slots: as many calls run as slots were taken, none waits while a slot is*)
(* free, and the line holds exactly those that wait.                       *)
Are(stages) == {c \in Work : call[c].stage \in stages}
Taken == Are({"holding", "running"})
SlotsAreConserved ==
  /\ IsFiniteSet(Taken) /\ free + Cardinality(Taken) = MaxLocal
  /\ free > 0 => queue = <<>>
  /\ ToSet(queue) = Are({"queued"}) /\ IsInjective(queue)

(* A visitor with Writ never runs on the cloud by a race: a call goes there*)
(* only when a check found Writ wanting, or its grant was lost, and never  *)
(* when the function is required (#waitChecked).                           *)
CloudIsNoRace ==
  /\ \A c \in Are({"checking", "cloud"}) : call[c].key \in Recommended(bridge) /\ c \in Calls
  /\ Are({"cloud"}) # {} => bridge.lacked
  /\ (bridge.checked \/ bridge.ended) /\ bridge.session = 0 => bridge.lacked

(* Once destroyed, what is still under way was told to stop, and nothing   *)
(* waits for a slot (destroy).                                             *)
DestroyedIsQuiet ==
  bridge.destroyed => queue = <<>> /\ \A c \in Work : Under(c) => call[c].aborted

(* destroy() cancels: no call starts, anywhere, once it returned.          *)
NothingStartsOnceDestroyed ==
  [][bridge.destroyed =>
       \A c \in DOMAIN call : call'[c].stage \in {"queued", "holding", "running", "cloud"} => call'[c].stage = call[c].stage]_vars

(* Every recommended call settles, and every call once destroyed (#call,   *)
(* #waitChecked, untilAborted, Slots, destroy).                            *)
MustSettle(c) == Under(c) /\ (call[c].key \in Recommended(bridge) \/ bridge.destroyed)
CallsSettle == \A c \in Work : MustSettle(c) ~> call[c].stage = "done"

(* suggestSettings resolves only when its values went out in a connect.    *)
SuggestionsAreShown ==
  /\ bridge.bannerRevision <= bridge.sent /\ bridge.sent <= bridge.revision
  /\ \A s \in Suggestions :
       /\ suggest[s].stage # "new" => suggest[s].revision <= bridge.revision
       /\ suggest[s].stage \in {"connecting", "ok"} => suggest[s].revision <= bridge.sent

(* Session, grants and readiness agree at every moment, the setup goes on  *)
(* while a function is required, no slot is lost or given twice, no call   *)
(* runs on the cloud by a race, and a suggestion that resolved was shown   *)
(* (#adopt, #resetLocal, #replaceSession, #refreshGrants, #updateReady,    *)
(* #endLocal, Slots, #waitChecked, suggestSettings).                       *)
BridgeInv ==
  /\ TypeOK /\ SessionIsComplete /\ ReadyIsTrue /\ SetupGoesOn /\ BannerIsHeard
  /\ SlotsAreConserved /\ CloudIsNoRace /\ DestroyedIsQuiet /\ SuggestionsAreShown
=============================================================================
