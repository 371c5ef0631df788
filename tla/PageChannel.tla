---------------------------- MODULE PageChannel -----------------------------
(***************************************************************************)
(* The page's side of the page channel (web/src/bridge-channel.ts): one    *)
(* poll loop, the hello timer, the pause of a hidden page, and the posts   *)
(* that carry the results of commands.                                     *)
(*                                                                         *)
(* A step is a stretch of JavaScript without an await.  Its nested calls   *)
(* are operators from one value of the record ch to the next.              *)
(***************************************************************************)
EXTENDS Naturals, FiniteSets

CONSTANTS
  ChannelCommands, \* commands the server may send this page
  MaxHellos,       \* bound: hello requests in flight
  MaxAttempts,     \* BRIDGE_RESULT_ATTEMPTS
  MaxMoves         \* bound: changes of readiness and of visibility

ASSUME ChannelAssumption ==
  {MaxHellos, MaxAttempts, MaxMoves} \subseteq Nat \ {0}

VARIABLES
  ch,       \* the fields of the BridgeChannel
  ready,    \* what readiness().ready answers
  hidden,   \* document.hidden
  moves,    \* readiness and visibility changes so far
  hellos,   \* hello requests in flight
  job       \* job[k]: command k on this page

channelVars == <<ch, ready, hidden, moves, hellos, job>>

LoopStages == {"off", "polling", "aborted", "backoff", "resting", "woken"}
States == {"idle", "polling", "retrying", "paused", "unauthorized", "stopped"}
JobStages == {"none", "running", "posting", "pausing", "done"}
NoJob == [stage |-> "none", attempt |-> 0, final |-> FALSE]

ChannelTypeOK ==
  /\ ch \in [started : BOOLEAN, stopped : BOOLEAN, paused : BOOLEAN, unauthorized : BOOLEAN,
             looping : BOOLEAN, retrying : BOOLEAN, helloTimer : BOOLEAN, hiddenTimer : BOOLEAN,
             loop : LoopStages, loops : 0..2, state : States]
  /\ ready \in BOOLEAN
  /\ hidden \in BOOLEAN
  /\ moves \in 0..MaxMoves
  /\ hellos \in 0..MaxHellos
  /\ job \in [ChannelCommands -> [stage : JobStages, attempt : 0..MaxAttempts, final : BOOLEAN]]

ChannelInit ==
  /\ ch = [started |-> FALSE, stopped |-> FALSE, paused |-> FALSE, unauthorized |-> FALSE,
           looping |-> FALSE, retrying |-> FALSE, helloTimer |-> FALSE, hiddenTimer |-> FALSE,
           loop |-> "off", loops |-> 0, state |-> "idle"]
  /\ ready \in BOOLEAN
  /\ hidden \in BOOLEAN
  /\ moves = 0
  /\ hellos = 0
  /\ job = [k \in ChannelCommands |-> NoJob]

-----------------------------------------------------------------------------
(* The methods that every step is made of                                  *)

StateOf(c) ==
  CASE c.stopped -> "stopped"
    [] ~c.stopped /\ c.unauthorized -> "unauthorized"
    [] ~c.stopped /\ ~c.unauthorized /\ c.paused -> "paused"
    [] OTHER -> IF ~c.looping THEN "idle" ELSE IF c.retrying THEN "retrying" ELSE "polling"

UpdateState(c) == [c EXCEPT !.state = StateOf(c)]

ShouldPoll(c, r) == c.started /\ ~c.stopped /\ ~c.paused /\ ~c.unauthorized /\ r

(* #wake, and #pollAbort.abort(): the loop goes on in a later microtask.   *)
Interrupt(c) ==
  [c EXCEPT !.loop = CASE @ = "polling" -> "aborted"
                       [] @ \in {"backoff", "resting"} -> "woken"
                       [] OTHER -> @]

StartLoop(c) == [c EXCEPT !.looping = TRUE, !.loops = @ + 1, !.loop = "polling"]

(* Mutant: polling that stops clears #looping while the loop still awaits. *)
SyncForgetsLoop(c, r) ==
  IF ShouldPoll(c, r)
  THEN UpdateState([(IF c.looping THEN c ELSE StartLoop(c)) EXCEPT !.helloTimer = TRUE])
  ELSE UpdateState([Interrupt(c) EXCEPT !.helloTimer = FALSE, !.looping = FALSE])

Sync(c, r) ==
  IF ShouldPoll(c, r)
  THEN UpdateState([(IF c.looping THEN c ELSE StartLoop(c)) EXCEPT !.helloTimer = TRUE])
  ELSE UpdateState([Interrupt(c) EXCEPT !.helloTimer = FALSE])

Refused(c) ==
  IF c.unauthorized THEN c
  ELSE UpdateState([Interrupt(c) EXCEPT !.unauthorized = TRUE, !.helloTimer = FALSE])

EndLoop(c) == UpdateState([c EXCEPT !.loop = "off", !.looping = FALSE, !.loops = @ - 1])

(* The head of the while loop. *)
Turn(c, r) == IF ShouldPoll(c, r) THEN [c EXCEPT !.loop = "polling"] ELSE EndLoop(c)

(* Mutant: hello with a refused token. *)
HelloAlways(c, force) ==
  \/ hellos < MaxHellos /\ hellos' = hellos + 1
  \/ ~force /\ UNCHANGED hellos

(* The part of #hello before its request: nothing once over.  Whether an   *)
(* unforced hello repeats the last one is a matter of module Presence.     *)
Hello(c, force) ==
  IF c.stopped \/ c.unauthorized THEN UNCHANGED hellos
  ELSE \/ hellos < MaxHellos /\ hellos' = hellos + 1
       \/ ~force /\ UNCHANGED hellos

-----------------------------------------------------------------------------
(* What the bridge and the document call                                   *)

Start ==
  /\ ~ch.started /\ ~ch.stopped
  /\ ch' = Sync([ch EXCEPT !.started = TRUE, !.hiddenTimer = hidden], ready)
  /\ Hello(ch, TRUE)
  /\ UNCHANGED <<ready, hidden, moves, job>>

(* The bridge changes its readiness and calls notify(). *)
Notify ==
  /\ moves < MaxMoves
  /\ moves' = moves + 1
  /\ ready' = ~ready
  /\ IF ch.started /\ ~ch.stopped
     THEN Hello(ch, FALSE) /\ ch' = Sync(ch, ready')
     ELSE UNCHANGED <<ch, hellos>>
  /\ UNCHANGED <<hidden, job>>

Stop ==
  /\ ~ch.stopped
  /\ ch' = UpdateState([Interrupt(ch) EXCEPT !.stopped = TRUE, !.helloTimer = FALSE, !.hiddenTimer = FALSE])
  /\ UNCHANGED <<ready, hidden, moves, hellos, job>>

Listening == ch.started /\ ~ch.stopped

Hide ==
  /\ ~hidden
  /\ moves < MaxMoves
  /\ moves' = moves + 1
  /\ hidden' = TRUE
  /\ ch' = IF Listening /\ ~ch.paused THEN [ch EXCEPT !.hiddenTimer = TRUE] ELSE ch
  /\ UNCHANGED <<ready, hellos, job>>

(* Mutant: the page that is shown again waits for the next change. *)
ShownIdle(c, r) == UpdateState([c EXCEPT !.paused = FALSE, !.retrying = FALSE])

(* #visibilityChanged of a paused page. *)
Shown(c, r) == Sync([c EXCEPT !.paused = FALSE, !.retrying = FALSE], r)

Show ==
  /\ hidden
  /\ moves < MaxMoves
  /\ moves' = moves + 1
  /\ hidden' = FALSE
  /\ LET c == [ch EXCEPT !.hiddenTimer = FALSE]
     IN  IF ~Listening THEN UNCHANGED <<ch, hellos>>
         ELSE IF ch.paused THEN ch' = Shown(c, ready) /\ Hello(c, TRUE)
         ELSE ch' = c /\ UNCHANGED hellos
  /\ UNCHANGED <<ready, job>>

HiddenTooLong ==
  /\ ch.hiddenTimer
  /\ LET c == [ch EXCEPT !.hiddenTimer = FALSE]
     IN  ch' = IF c.stopped \/ ~hidden THEN c ELSE Sync([c EXCEPT !.paused = TRUE], ready)
  /\ UNCHANGED <<ready, hidden, moves, hellos, job>>

HelloTick ==
  /\ ch.helloTimer
  /\ Hello(ch, TRUE)
  /\ UNCHANGED <<ch, ready, hidden, moves, job>>

-----------------------------------------------------------------------------
(* Answers, and the loop                                                   *)

HelloAnswer ==
  /\ hellos > 0
  /\ hellos' = hellos - 1
  /\ ch' \in {ch, Refused(ch)}
  /\ UNCHANGED <<ready, hidden, moves, job>>

PollRefused ==
  /\ ch.loop = "polling"
  /\ ch' = EndLoop(Refused(ch))
  /\ UNCHANGED <<ready, hidden, moves, hellos, job>>

PollFails ==
  /\ ch.loop = "polling"
  /\ ch' = UpdateState([ch EXCEPT !.retrying = TRUE, !.loop = "backoff"])
  /\ UNCHANGED <<ready, hidden, moves, hellos, job>>

(* #accept of what came: a command this page has not seen runs, or is      *)
(* answered at once when it is malformed or expired.                       *)
PollAnswers(new) ==
  /\ ch.loop = "polling"
  /\ \A k \in new : job[k].stage = "none"
  /\ \E runs \in SUBSET new :
       job' = [k \in ChannelCommands |->
                 IF k \in runs THEN [NoJob EXCEPT !.stage = "running"]
                 ELSE IF k \in new THEN [NoJob EXCEPT !.stage = "posting", !.attempt = 1]
                 ELSE job[k]]
  /\ LET c == UpdateState([ch EXCEPT !.retrying = FALSE])
     IN  ch' = IF new = {} THEN [c EXCEPT !.loop = "resting"] ELSE Turn(c, ready)
  /\ UNCHANGED <<ready, hidden, moves, hellos>>

(* The poll's answer, after as long as the server held it, is empty. *)
PollEmpty ==
  /\ ch.loop = "polling"
  /\ ch' = Turn(UpdateState([ch EXCEPT !.retrying = FALSE]), ready)
  /\ UNCHANGED <<ready, hidden, moves, hellos, job>>

(* An aborted poll rejects; a sleep is over, or was cut short. *)
LoopGoesOn ==
  /\ ch.loop \in {"aborted", "backoff", "resting", "woken"}
  /\ ch' = Turn(ch, ready)
  /\ UNCHANGED <<ready, hidden, moves, hellos, job>>

-----------------------------------------------------------------------------
(* #execute and #deliver                                                   *)

(* The head of #deliver's loop: one more post, unless the token is refused.*)
Attempt(j) ==
  IF ch.unauthorized THEN [j EXCEPT !.stage = "done"]
  ELSE [j EXCEPT !.stage = "posting", !.attempt = @ + 1, !.final = ch.stopped]


(* The command's run settles; stop() aborts it, so it settles then, too. *)
RunSettles(k) ==
  /\ job[k].stage = "running"
  /\ job' = [job EXCEPT ![k] = Attempt(@)]
  /\ UNCHANGED <<ch, ready, hidden, moves, hellos>>

PostAccepted(k) ==
  /\ job[k].stage = "posting"
  /\ job' = [job EXCEPT ![k].stage = "done"]
  /\ UNCHANGED <<ch, ready, hidden, moves, hellos>>

PostRefused(k) ==
  /\ job[k].stage = "posting"
  /\ job' = [job EXCEPT ![k].stage = "done"]
  /\ ch' = Refused(ch)
  /\ UNCHANGED <<ready, hidden, moves, hellos>>

GivesUp(j, expired) == j.final \/ ch.stopped \/ j.attempt >= MaxAttempts \/ expired

(* No answer, a 5xx, 408 or 429. *)
PostFails(k) ==
  /\ job[k].stage = "posting"
  /\ \E expired \in BOOLEAN :
       LET j == job[k]
       IN  job' = [job EXCEPT ![k] =
                     IF GivesUp(j, expired)
                     THEN [j EXCEPT !.stage = "done"]
                     ELSE [j EXCEPT !.stage = "pausing"]]
  /\ UNCHANGED <<ch, ready, hidden, moves, hellos>>

PostAgain(k) ==
  /\ job[k].stage = "pausing"
  /\ job' = [job EXCEPT ![k] = Attempt(@)]
  /\ UNCHANGED <<ch, ready, hidden, moves, hellos>>

JobSteps(k) == RunSettles(k) \/ PostAccepted(k) \/ PostRefused(k) \/ PostFails(k) \/ PostAgain(k)

ChannelNext ==
  \/ Start \/ Notify \/ Stop \/ Hide \/ Show
  \/ HiddenTooLong \/ HelloTick \/ HelloAnswer
  \/ PollRefused \/ PollFails \/ PollEmpty \/ LoopGoesOn
  \/ \E new \in SUBSET ChannelCommands : PollAnswers(new)
  \/ \E k \in ChannelCommands : JobSteps(k)

ChannelSpec == ChannelInit /\ [][ChannelNext]_channelVars

(* Promises that are settled run their continuations, timers fire, and a   *)
(* run ends (its call has a guard timer).  Nothing is assumed of polls, nor*)
(* of posts: #post sets no timer.                                          *)
ChannelFairness ==
  /\ WF_channelVars(LoopGoesOn)
  /\ \A k \in ChannelCommands : WF_channelVars(RunSettles(k)) /\ WF_channelVars(PostAgain(k))

ChannelFairSpec == ChannelSpec /\ ChannelFairness

-----------------------------------------------------------------------------
(* Properties                                                              *)

(* However start, notify, stop, visibility and answers interleave, there is*)
(* one poll loop at most, and #looping says whether (#sync, #loop).        *)
OneLoop == ch.loops <= 1 /\ (ch.looping <=> ch.loops = 1)

(* After stop() or a refused token nothing is left that would send again:  *)
(* no poll, no sleep before one, no hello timer (stop, #refused).          *)
NothingArmedOnceOver ==
  ch.stopped \/ ch.unauthorized =>
    /\ ~ch.helloTimer
    /\ ch.loop \in {"off", "aborted", "woken"}
    /\ ch.stopped => ~ch.hiddenTimer

(* A refused or stopped channel begins no poll and no hello (#hello, #loop)*)
SilentOnceOver ==
  [][ch.stopped \/ ch.unauthorized => hellos' <= hellos /\ ch'.loop # "polling"]_channelVars

(* The state the listener was last told is the channel's (#updateState is  *)
(* called after every change it depends on).                               *)
ListenerIsRight == ch.state = StateOf(ch)

(* A page that should poll comes to poll: no wake-up is lost between a     *)
(* loop that ends and a change that wants it to go on (#sync, #loop).      *)
PollsWhenReady ==
  ShouldPoll(ch, ready) ~> (ch.loop = "polling" \/ ~ShouldPoll(ch, ready))


(* #looping is TRUE exactly while the loop awaits something (#loop).       *)
LoopIsSomewhere == ch.looping <=> ch.loop # "off"

(* A command that is yet to be posted, or posted again, has an attempt     *)
(* left (#deliver).                                                        *)
AttemptsAreLeft ==
  \A k \in ChannelCommands : job[k].stage \in {"running", "pausing"} => job[k].attempt < MaxAttempts

(* What every state of the channel keeps: one loop, a listener that knows  *)
(* the state, and nothing armed once it is over (#sync, #loop,             *)
(* #updateState, stop, #refused).                                          *)
ChannelInv ==
  ChannelTypeOK /\ OneLoop /\ LoopIsSomewhere /\ ListenerIsRight /\ NothingArmedOnceOver /\ AttemptsAreLeft
=============================================================================
