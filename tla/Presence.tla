------------------------------ MODULE Presence ------------------------------
(***************************************************************************)
(* What the server knows of a user's pages: the presence record that hello *)
(* and every poll read and write back (channel.ts, hello and touchPresence)*)
(* and that routeFor (bridge.ts) reads to route a call of one function.    *)
(*                                                                         *)
(* All pages are one user's.  Of a page's readiness only what routeFor     *)
(* tells apart is kept: "no" (Writ is not ready), "other" (ready, the      *)
(* function is not granted), "granted".                                    *)
(***************************************************************************)
EXTENDS Naturals

CONSTANTS
  Pages,
  HelloSlots,   \* bound: hello requests in flight, of one page or of all;
                \* one poll is in flight besides
  MaxTurns,     \* bound: pages opened or paused, and changes of readiness, in all
  Stores        \* the stores a bridge may be given: "memory" (memoryStore,
                \* one process), "redis" (redisStore: others run between the
                \* GET and the SET of a request)

ASSUME PresenceAssumption ==
  /\ "poll" \notin HelloSlots
  /\ MaxTurns \in Nat
  /\ Stores \subseteq {"memory", "redis"}

VARIABLES
  store,     \* options.store: never changes
  tab,       \* the channel of a page, see Tabs
  says,      \* a page's readiness
  lastHello, \* the readiness of the last hello a page sent
  turns,     \* pages opened or paused and readiness changes so far
  req,       \* req[p][s]: the request of page p in slot s
  presence,  \* the user's record
  online,    \* its last_seen is at most PRESENCE_TTL_MS old
  reported   \* history: a hello that said ready was stored

pageVars == <<tab, says, lastHello, turns>>
presenceVars == <<store, tab, says, lastHello, turns, req, presence, online, reported>>

(* Not started; started; started and hidden for so long that it is paused; *)
(* stopped, or refused by the server: either says nothing any more.  A tab *)
(* that comes later is another page.                                       *)
Tabs == {"new", "open", "paused", "over"}
Readiness == {"no", "other", "granted"}
Slots == HelloSlots \cup {"poll"}

(* No record tells routeFor what one that never was ready does. *)
NoRecord == [says |-> "no", ever |-> FALSE]
Records == [says : Readiness, ever : BOOLEAN]

NoRequest == [stage |-> "none"]
RequestRecords ==
  [stage : {"sent"}, says : Readiness]
    \cup [stage : {"read"}, says : Readiness, saw : Records]

PresenceTypeOK ==
  /\ store \in Stores
  /\ tab \in [Pages -> Tabs]
  /\ says \in [Pages -> Readiness]
  /\ lastHello \in [Pages -> Readiness \cup {"none"}]
  /\ turns \in 0..MaxTurns
  /\ req \in [Pages -> [Slots -> RequestRecords \cup {NoRequest}]]
  /\ presence \in Records
  /\ online \in BOOLEAN
  /\ reported \in BOOLEAN

PresenceInit ==
  /\ store \in Stores
  /\ tab = [p \in Pages |-> "new"]
  /\ says = [p \in Pages |-> "no"]
  /\ lastHello = [p \in Pages |-> "none"]
  /\ turns = 0
  /\ req = [p \in Pages |-> [s \in Slots |-> NoRequest]]
  /\ presence = NoRecord
  /\ online = FALSE
  /\ reported = FALSE

-----------------------------------------------------------------------------
(* The page                                                                *)

IsFree(s) == \A p \in Pages : req[p][s] = NoRequest

Send(p, s, r) ==
  /\ IsFree(s)
  /\ req' = [req EXCEPT ![p][s] = [stage |-> "sent", says |-> r]]

(* The rest of #hello, with readiness r.  A hello that repeats the last    *)
(* one is not sent unless forced.                                          *)
Greet(p, r, force) ==
  IF force \/ r # lastHello[p]
  THEN /\ \E s \in HelloSlots : IsFree(s)
       /\ Send(p, CHOOSE s \in HelloSlots : IsFree(s), r)
       /\ lastHello' = [lastHello EXCEPT ![p] = r]
  ELSE UNCHANGED <<req, lastHello>>

BecomesTab(p, to) == tab' = [tab EXCEPT ![p] = to]

(* What the channel knew is of no more use. *)
IsOver(p) ==
  /\ BecomesTab(p, "over")
  /\ says' = [says EXCEPT ![p] = "no"]
  /\ lastHello' = [lastHello EXCEPT ![p] = "none"]

CountTurn == turns < MaxTurns /\ turns' = turns + 1

Open(p) ==
  /\ tab[p] = "new"
  /\ CountTurn
  /\ BecomesTab(p, "open")
  /\ Greet(p, says[p], TRUE)
  /\ UNCHANGED <<says, presence, online, reported, store>>

Started(p) == tab[p] \in {"open", "paused"}

(* destroy: no hello says goodbye. *)
Leave(p) ==
  /\ Started(p)
  /\ IsOver(p)
  /\ UNCHANGED <<turns, req, presence, online, reported, store>>

(* The page was hidden for BRIDGE_HIDDEN_PAUSE_MS: its poll is aborted and *)
(* its timer disarmed; what the server is doing goes on.                   *)
Pause(p) ==
  /\ tab[p] = "open"
  /\ CountTurn
  /\ BecomesTab(p, "paused")
  /\ UNCHANGED <<says, lastHello, req, presence, online, reported, store>>

(* A paused page is shown again. *)
Resume(p) ==
  /\ tab[p] = "paused"
  /\ BecomesTab(p, "open")
  /\ Greet(p, says[p], TRUE)
  /\ UNCHANGED <<says, turns, presence, online, reported, store>>

(* The bridge's readiness changed: notify, which greets though the page is *)
(* paused.                                                                 *)
Change(p) ==
  /\ Started(p)
  /\ CountTurn
  /\ \E r \in Readiness \ {says[p]} :
       /\ says' = [says EXCEPT ![p] = r]
       /\ Greet(p, r, FALSE)
  /\ UNCHANGED <<tab, presence, online, reported, store>>

(* #shouldPoll: only then is there a loop, and a hello timer. *)
ShouldPollNow(p) == tab[p] = "open" /\ says[p] # "no"

\* Seeded fault: the timer's hello is not forced.
HelloTimerIdle(p) ==
  /\ ShouldPollNow(p)
  /\ Greet(p, says[p], FALSE)
  /\ UNCHANGED <<tab, says, turns, presence, online, reported, store>>

(* BRIDGE_HELLO_INTERVAL_MS passed. *)
HelloTimer(p) ==
  /\ ShouldPollNow(p)
  /\ Greet(p, says[p], TRUE)
  /\ UNCHANGED <<tab, says, turns, presence, online, reported, store>>

Poll(p) ==
  /\ ShouldPollNow(p)
  /\ Send(p, "poll", "no")   \* a poll says nothing of the page
  /\ UNCHANGED <<pageVars, presence, online, reported, store>>

-----------------------------------------------------------------------------
(* The server                                                              *)

(* touchPresence: the record that was read, seen now. *)
Touched(saw) == saw

(* hello: the page's readiness, and whether any hello said ready. *)
\* Seeded fault: the record that was read is not looked at.
GreetedAnew(saw, r) == [says |-> r, ever |-> r # "no"]

Greeted(saw, r) == [says |-> r, ever |-> saw.ever \/ r # "no"]

Store(p, s, saw) ==
  LET r == req[p][s].says IN
  /\ presence' = IF s = "poll" THEN Touched(saw) ELSE Greeted(saw, r)
  /\ online' = TRUE
  /\ reported' = (reported \/ (s # "poll" /\ r # "no"))

(* The request is over; a hello whose answer the page did not hear is      *)
(* forgotten, so that it is sent again.                                    *)
Answered(p, s, heard) ==
  /\ req' = [req EXCEPT ![p][s] = NoRequest]
  /\ lastHello' =
       IF ~heard /\ s # "poll" /\ lastHello[p] = req[p][s].says
       THEN [lastHello EXCEPT ![p] = "none"] ELSE lastHello

(* What a request uses of the record it read. *)
Seen(s) == IF s = "poll" THEN presence ELSE [NoRecord EXCEPT !.ever = presence.ever]

Read(p, s) ==
  /\ store = "redis"
  /\ req[p][s].stage = "sent"
  /\ req' = [req EXCEPT ![p][s] = [stage |-> "read", says |-> @.says, saw |-> Seen(s)]]
  /\ UNCHANGED <<pageVars, presence, online, reported, store>>

Write(p, s) ==
  /\ IF store = "redis"
     THEN req[p][s].stage = "read" /\ Store(p, s, req[p][s].saw)
     ELSE req[p][s].stage = "sent" /\ Store(p, s, presence)
  /\ \E heard \in BOOLEAN : Answered(p, s, heard)
  /\ UNCHANGED <<tab, says, turns, store>>

(* The request, or the store, failed. *)
Fail(p, s) ==
  /\ req[p][s] # NoRequest
  /\ Answered(p, s, FALSE)
  /\ UNCHANGED <<tab, says, turns, presence, online, reported, store>>

(* The server refuses the token before it looks at anything: the page that *)
(* hears so is done (#refused).                                            *)
RefusePage(p, s) ==
  /\ req[p][s].stage = "sent"
  /\ req' = [req EXCEPT ![p][s] = NoRequest]
  /\ IsOver(p)
  /\ UNCHANGED <<turns, presence, online, reported, store>>

(* PRESENCE_TTL_MS passed since the record was written. *)
GrowOld ==
  /\ online
  /\ online' = FALSE
  /\ UNCHANGED <<pageVars, req, presence, reported, store>>

(* routeFor *)
Route ==
  CASE online /\ presence.says = "granted" -> "user"
    [] online /\ presence.says = "other"   -> "NOT_GRANTED"
    [] online                              -> "WRIT_REQUIRED"
    [] presence.ever                       -> "USER_OFFLINE"
    [] OTHER                               -> "WRIT_REQUIRED"

-----------------------------------------------------------------------------
PresenceNext ==
  \/ \E p \in Pages : Open(p) \/ Leave(p) \/ Pause(p) \/ Resume(p) \/ Change(p) \/ HelloTimer(p) \/ Poll(p)
  \/ \E p \in Pages, s \in Slots : Read(p, s) \/ Write(p, s) \/ Fail(p, s) \/ RefusePage(p, s)
  \/ GrowOld

PresenceSpec == PresenceInit /\ [][PresenceNext]_presenceVars

(* The hello timer of a page that is shown, ready and not refused ticks,   *)
(* whatever became of the hellos before, and time passes.  Assumed of the  *)
(* network: a page that goes on greeting is heard now and then, while any  *)
(* one hello may fail, or hang for ever (#post has no timer).              *)
PresenceFairness ==
  /\ WF_presenceVars(GrowOld)
  /\ \A p \in Pages :
       /\ SF_presenceVars(HelloTimer(p))
       /\ SF_presenceVars(\E s \in HelloSlots : Read(p, s))
       /\ SF_presenceVars(\E s \in HelloSlots : Write(p, s))

PresenceLiveSpec == PresenceSpec /\ PresenceFairness

-----------------------------------------------------------------------------
(* With memoryStore, a call for a user who is away tells offline from      *)
(* never ready.  With either store, no call is routed to a page of a user  *)
(* never reported ready (routeFor).                                        *)
AwayCodeIsTrue ==
  /\ store = "memory" /\ ~online =>
       Route = IF reported THEN "USER_OFFLINE" ELSE "WRIT_REQUIRED"
  /\ Route = "user" => reported

Granting(p) == tab[p] = "open" /\ says[p] = "granted"

(* While there is a page with the function granted that is neither hidden  *)
(* for long nor refused, it is found again and again, though another       *)
(* page's hello, or an older one of its own, says otherwise in between     *)
(* (the hello timer of BridgeChannel).                                     *)
ReadyPageIsFound == []<>(Route = "user" \/ ~\E p \in Pages : Granting(p))

(* Once no such page is left, memoryStore stops routing calls to the       *)
(* user's computer, though the last hellos arrived out of order or not at  *)
(* all, and though a hidden tab still has the function (routeFor's         *)
(* last_seen).  Over Redis a poll that races every hello can keep the old  *)
(* readiness alive.                                                        *)
StaleReadinessEnds ==
  store = "memory" =>
    (<>[](\A p \in Pages : ~Granting(p)) => <>[](Route # "user"))

(* The server learns what the pages are ready for, and that they no longer *)
(* are (hello, touchPresence, routeFor).                                   *)
ReadinessIsLearnt == ReadyPageIsFound /\ StaleReadinessEnds

(* No record says more than hellos have reported, nor does one that a      *)
(* request has read and not yet written back.  Over memoryStore, where     *)
(* none is read so long before, the record never forgets a hello that said *)
(* ready (hello, touchPresence).                                           *)
RecordsAreBacked ==
  LET Backed(r) == r.says # "no" \/ r.ever => reported
  IN  /\ Backed(presence)
      /\ \A p \in Pages, s \in Slots : req[p][s].stage = "read" => Backed(req[p][s].saw)
      /\ store = "memory" =>
           /\ presence.ever = reported
           /\ \A p \in Pages, s \in Slots : req[p][s].stage # "read"

(* Every state of the record and its requests is well-formed, and the away *)
(* code a call gets from it is true (routeFor, hello, touchPresence).      *)
PresenceInv == PresenceTypeOK /\ RecordsAreBacked /\ AwayCodeIsTrue
=============================================================================
