------------------------------ MODULE CloudRuns -----------------------------
(***************************************************************************)
(* The runs on Writ Cloud that one user's pages ask for: run (channel.ts)  *)
(* with its limit per user, and runOnCloud (cloud.ts), which dispatches a  *)
(* run and reads its task until it ends.                                   *)
(*                                                                         *)
(* Time passes in ticks of a second or more; the shortest budget of a read *)
(* is one tick.                                                            *)
(***************************************************************************)
EXTENDS Naturals, FiniteSets

CONSTANTS
  Requests,
  MaxPageRuns,  \* MAX_PAGE_RUNS_PER_USER
  Timeout,      \* timeoutMs
  ReadTime,     \* CLOUD_REQUEST_TIMEOUT_MS
  MaxPause,     \* CLOUD_POLL_MAX_MS
  OddReads,     \* CLOUD_UNRECOGNISED_READS
  MaxStall      \* bound: ticks a run's bodies may lag behind their headers

ASSUME ConstantsAssumption ==
  /\ {MaxPageRuns, Timeout, ReadTime, MaxPause, OddReads} \subseteq Nat \ {0}
  /\ MaxStall \in Nat

VARIABLES
  run,      \* run[r]: the handler of request r
  task,     \* task[r]: the task on Writ Cloud
  pageRuns, \* pageRuns.get(user)
  age,      \* history: age[r]: ticks since runOnCloud began
  stall     \* history: stall[r]: those it spent waiting for a body

history == <<age, stall>>
vars == <<run, task, pageRuns, age, stall>>

InFlight == {"dispatching", "refusing", "dispatched", "reading", "answered", "sleeping", "ended"}
Stages == InFlight \cup {"new", "authorizing", "done"}
(* What the handler tells the page: the data or an error code; "refused"   *)
(* stands for every code that says why Writ Cloud or the server said no.   *)
Outcomes == {"none", "data", "refused", "RATE_LIMITED", "CANCELLED", "CLOUD_UNAVAILABLE", "RUN_FAILED", "TIMEOUT"}
(* "odd" is a status this SDK does not know; "failed" is a success that    *)
(* carries an error, too.                                                  *)
TaskEnds == {"succeeded", "failed", "timed_out", "cancelled"}
TaskStates == {"none", "pending", "odd"} \cup TaskEnds

TypeOK ==
  /\ run \in [Requests -> [stage : Stages, timer : 0..(ReadTime + MaxPause), odd : 0..OddReads,
                           left : 0..Timeout, gone : BOOLEAN, outcome : Outcomes]]
  /\ task \in [Requests -> TaskStates]
  /\ pageRuns \in Nat
  /\ age \in [Requests -> Nat]
  /\ stall \in [Requests -> 0..MaxStall]

Init ==
  /\ run = [r \in Requests |-> [stage |-> "new", timer |-> 0, odd |-> 0, left |-> Timeout,
                                gone |-> FALSE, outcome |-> "none"]]
  /\ task = [r \in Requests |-> "none"]
  /\ pageRuns = 0
  /\ age = [r \in Requests |-> 0]
  /\ stall = [r \in Requests |-> 0]

Least(a, b) == IF a < b THEN a ELSE b
Most(a, b) == IF a > b THEN a ELSE b

At(r, s) == run[r].stage = s
Becomes(r, v) == run' = [run EXCEPT ![r] = v]
(* runOnCloud returned or threw; the finally block of run is next. *)
End(r, o) == Becomes(r, [run[r] EXCEPT !.stage = "ended", !.timer = 0, !.outcome = o])
(* run throws before it counts the request. *)
Refuse(r, o) == Becomes(r, [run[r] EXCEPT !.stage = "done", !.outcome = o])

-----------------------------------------------------------------------------
(* run                                                                     *)

(* The checks of key, mode, inputs and options, then authorizeRun.         *)
Arrive(r) ==
  /\ At(r, "new")
  /\ \/ Becomes(r, [run[r] EXCEPT !.stage = "authorizing"])
     \/ Refuse(r, "refused")
  /\ UNCHANGED <<task, pageRuns, history>>

Dispatching(r) ==
  [run[r] EXCEPT !.stage = "dispatching", !.timer = Least(ReadTime, Most(1, run[r].left))]

(* Mutant: the limit is read before the await only. *)
AuthorizedLater(r) ==
  /\ At(r, "authorizing")
  /\ pageRuns' = pageRuns + 1
  /\ Becomes(r, Dispatching(r))
  /\ UNCHANGED <<task, history>>

(* authorizeRun answered: the limit is read and the request counted in one *)
(* step, after the await.                                                  *)
Authorized(r) ==
  /\ At(r, "authorizing")
  /\ pageRuns < MaxPageRuns
  /\ pageRuns' = pageRuns + 1
  /\ Becomes(r, Dispatching(r))
  /\ UNCHANGED <<task, history>>

NotAuthorized(r) ==
  /\ At(r, "authorizing")
  /\ Refuse(r, "refused")
  /\ UNCHANGED <<task, pageRuns, history>>

TooMany(r) ==
  /\ At(r, "authorizing")
  /\ pageRuns >= MaxPageRuns
  /\ Refuse(r, "RATE_LIMITED")
  /\ UNCHANGED <<task, pageRuns, history>>

Release(r) ==
  /\ At(r, "ended")
  /\ pageRuns' = pageRuns - 1
  /\ Becomes(r, [run[r] EXCEPT !.stage = "done"])
  /\ UNCHANGED <<task, history>>

(* The page leaves: the signal of its request aborts. *)
PageLeaves(r) ==
  /\ run[r].stage \in InFlight \ {"ended"}
  /\ ~run[r].gone
  /\ Becomes(r, [run[r] EXCEPT !.gone = TRUE])
  /\ UNCHANGED <<task, pageRuns, history>>

-----------------------------------------------------------------------------
(* runOnCloud                                                              *)

(* Writ Cloud may have started the run whatever the SDK hears of it.       *)
CloudMayTake(r) == task' \in {task, [task EXCEPT ![r] = "pending"]}

(* timedFetch rejects: no connection, its timer, or the signal.            *)
DispatchLost(r) ==
  /\ At(r, "dispatching")
  /\ CloudMayTake(r)
  /\ End(r, IF run[r].gone THEN "CANCELLED" ELSE "CLOUD_UNAVAILABLE")
  /\ UNCHANGED <<pageRuns, history>>

DispatchRefused(r) ==
  /\ At(r, "dispatching")
  /\ ~run[r].gone
  /\ CloudMayTake(r)
  /\ Becomes(r, [run[r] EXCEPT !.stage = "refusing", !.timer = 0])
  /\ UNCHANGED <<pageRuns, history>>

(* The body says why, and the status which code.                           *)
RefusalRead(r) ==
  /\ At(r, "refusing")
  /\ \E o \in {"refused", "RATE_LIMITED", "CLOUD_UNAVAILABLE", "RUN_FAILED"} :
       /\ o # "CLOUD_UNAVAILABLE" => task[r] = "none"
       /\ End(r, o)
  /\ UNCHANGED <<task, pageRuns, history>>

(* The headers of the dispatch's answer: the timer is cleared. *)
Dispatched(r) ==
  /\ At(r, "dispatching")
  /\ ~run[r].gone
  /\ task' = [task EXCEPT ![r] = "pending"]
  /\ Becomes(r, [run[r] EXCEPT !.stage = "dispatched", !.timer = 0])
  /\ UNCHANGED <<pageRuns, history>>

(* The top of the loop. *)
Reading(r) ==
  IF run[r].gone THEN [run[r] EXCEPT !.stage = "ended", !.timer = 0, !.outcome = "CANCELLED"]
  ELSE [run[r] EXCEPT !.stage = "reading", !.timer = Least(ReadTime, Most(1, run[r].left))]

TaskIdRead(r) ==
  /\ At(r, "dispatched")
  /\ \/ Becomes(r, Reading(r))
     \/ End(r, "CLOUD_UNAVAILABLE")
  /\ UNCHANGED <<task, pageRuns, history>>

(* The end of the loop body: the deadline, or a pause (the interval, or the*)
(* Retry-After of a 429).                                                  *)
Pauses(v) ==
  IF v.left = 0
  THEN {[v EXCEPT !.stage = "ended", !.timer = 0, !.outcome = "TIMEOUT"]}
  ELSE {[v EXCEPT !.stage = "sleeping", !.timer = p] : p \in 0..Least(MaxPause, v.left)}

(* No answer in time, an abort, a 5xx, a 404 or a 429. *)
ReadFails(r) ==
  /\ At(r, "reading")
  /\ \E v \in Pauses(run[r]) : Becomes(r, v)
  /\ UNCHANGED <<task, pageRuns, history>>

ReadRefused(r) ==
  /\ At(r, "reading")
  /\ ~run[r].gone
  /\ \E o \in {"refused", "CLOUD_UNAVAILABLE"} : End(r, o)
  /\ UNCHANGED <<task, pageRuns, history>>

ReadAnswered(r) ==
  /\ At(r, "reading")
  /\ ~run[r].gone
  /\ Becomes(r, [run[r] EXCEPT !.stage = "answered", !.timer = 0])
  /\ UNCHANGED <<task, pageRuns, history>>

(* runFailure and dataOf: what the page hears of a run that ended. *)
AnswerFor(t) ==
  CASE t = "succeeded" -> "data" [] t = "timed_out" -> "TIMEOUT"
    [] t = "cancelled" -> "CANCELLED" [] t = "failed" -> "RUN_FAILED"

Unknown(v) ==
  IF v.odd + 1 >= OddReads
  THEN {[v EXCEPT !.stage = "ended", !.odd = @ + 1, !.outcome = "RUN_FAILED"]}
  ELSE Pauses([v EXCEPT !.odd = @ + 1])

(* The body of a result that was read.                                     *)
StatusRead(r) ==
  /\ At(r, "answered")
  /\ CASE task[r] \in TaskEnds -> End(r, AnswerFor(task[r]))
       [] task[r] = "pending" -> \E v \in Pauses([run[r] EXCEPT !.odd = 0]) : Becomes(r, v)
       [] OTHER -> \E v \in Unknown(run[r]) : Becomes(r, v)
  /\ UNCHANGED <<task, pageRuns, history>>

(* A body that is no JSON object says nothing. *)
BodyUseless(r) ==
  /\ At(r, "answered")
  /\ \E v \in Pauses(run[r]) : Becomes(r, v)
  /\ UNCHANGED <<task, pageRuns, history>>

Wakes(r) ==
  /\ At(r, "sleeping")
  /\ run[r].timer = 0 \/ run[r].gone
  /\ Becomes(r, Reading(r))
  /\ UNCHANGED <<task, pageRuns, history>>

-----------------------------------------------------------------------------
(* Writ Cloud, and time                                                    *)

TaskMoves(r) ==
  /\ task[r] \in {"pending", "odd"}
  /\ \E s \in {"pending", "odd"} \cup TaskEnds : s # task[r] /\ task' = [task EXCEPT ![r] = s]
  /\ UNCHANGED <<run, pageRuns, history>>

Sooner(n) == IF n > 0 THEN n - 1 ELSE 0

(* Headers came, and their body did not: timedFetch has cleared its timer, *)
(* and the signal is not looked at.                                        *)
AwaitsBody(r) == run[r].stage \in {"refusing", "dispatched", "answered"}

(* A timer that is due, and a signal that aborted, act before the next tick*)
Waits(r) ==
  \/ run[r].stage \in {"new", "authorizing", "done"}
  \/ run[r].stage \in {"dispatching", "reading", "sleeping"} /\ run[r].timer > 0 /\ ~run[r].gone
  \/ AwaitsBody(r) /\ stall[r] < MaxStall

Tick ==
  /\ \A r \in Requests : Waits(r)
  /\ \E r \in Requests : run[r].stage \in InFlight /\ age[r] <= Timeout + MaxStall + 1
  /\ run' = [r \in Requests |->
               IF run[r].stage \in InFlight
               THEN [run[r] EXCEPT !.left = Sooner(@), !.timer = Sooner(@)] ELSE run[r]]
  /\ age' = [r \in Requests |-> IF run[r].stage \in InFlight THEN age[r] + 1 ELSE age[r]]
  /\ stall' = [r \in Requests |-> IF AwaitsBody(r) THEN stall[r] + 1 ELSE stall[r]]
  /\ UNCHANGED <<task, pageRuns>>

HandlerStep(r) ==
  \/ Authorized(r) \/ NotAuthorized(r) \/ TooMany(r) \/ Release(r)
  \/ DispatchLost(r) \/ DispatchRefused(r) \/ RefusalRead(r) \/ Dispatched(r) \/ TaskIdRead(r)
  \/ ReadFails(r) \/ ReadRefused(r) \/ ReadAnswered(r)
  \/ StatusRead(r) \/ BodyUseless(r) \/ Wakes(r)

Next ==
  \/ \E r \in Requests : HandlerStep(r) \/ Arrive(r) \/ PageLeaves(r) \/ TaskMoves(r)
  \/ Tick

Spec == Init /\ [][Next]_vars

-----------------------------------------------------------------------------
(* Properties                                                              *)

(* pageRuns counts the runs in flight, so no more than the limit run at    *)
(* once and an abandoned or failed run frees its place (run).              *)
LimitHolds ==
  /\ pageRuns = Cardinality({r \in Requests : run[r].stage \in InFlight})
  /\ pageRuns <= MaxPageRuns

(* What the page hears is what happened: data of a run that succeeded,     *)
(* failure of one that failed or kept answering a status this SDK does not *)
(* know, TIMEOUT after the time the page gave, or of a run that timed out, *)
(* CANCELLED when the page left or the run was cancelled (runOnCloud).     *)
AnswerIsTrue ==
  \A r \in Requests :
    /\ run[r].outcome = "data" => task[r] = "succeeded"
    /\ run[r].outcome = "RUN_FAILED" =>
         task[r] \in {"none", "failed"} \/ run[r].odd = OddReads
    /\ run[r].outcome = "TIMEOUT" => age[r] >= Timeout \/ task[r] = "timed_out"
    /\ run[r].outcome = "CANCELLED" => run[r].gone \/ task[r] = "cancelled"

(* A run is over by its deadline and the budget of one last read, but for  *)
(* the time the bodies of Writ Cloud's answers lag behind their headers,   *)
(* which nothing bounds (the deadline of runOnCloud; timedFetch clears its *)
(* timer with the headers).                                                *)
EndsInTime ==
  \A r \in Requests : run[r].stage # "done" => age[r] <= Timeout + 1 + stall[r]

(* A run that has no outcome goes on; a read, a pause and the deadline are *)
(* timed so that what is left of them ends in time (the deadline, the      *)
(* budget of a read and the pauses of runOnCloud).                         *)
RunsAreTimed ==
  \A r \in Requests :
    LET stage == run[r].stage
        deadline == Timeout + stall[r]
    IN /\ run[r].outcome # "none" => stage \in {"ended", "done"}
       /\ stage \notin {"ended", "done"} => run[r].odd < OddReads
       /\ run[r].left = IF age[r] < Timeout THEN Timeout - age[r] ELSE 0
       /\ stage \in {"new", "authorizing"} => age[r] = 0
       /\ stage \in {"dispatching", "sleeping"} => age[r] + run[r].timer <= deadline
       /\ stage \in {"refusing", "dispatched"} => age[r] <= deadline
       /\ stage = "reading" => age[r] + run[r].timer <= deadline + 1

(* Never more runs than the limit, every place freed, what a page hears is *)
(* what happened, and in time (run, runOnCloud).                           *)
CloudInv == TypeOK /\ LimitHolds /\ AnswerIsTrue /\ EndsInTime /\ RunsAreTimed
=============================================================================
