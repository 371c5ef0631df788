------------------------------ MODULE AgentRuns ------------------------------
(***************************************************************************)
(* Waiting for one run (client.ts runs.events and workflows.runAndWait,    *)
(* cloud.ts builds.startAndWait): a stream of events that may drop at any  *)
(* moment and is opened again, polls when it cannot be, and a deadline.    *)
(*                                                                         *)
(* The daemon is external and does what the API description says of        *)
(* /v1/runs/{id}/events: a subscription to a live run is seeded with       *)
(* "started" and gets what happens from then on; of a run that is over it  *)
(* gets the terminal event only.                                           *)
(***************************************************************************)
EXTENDS Naturals, SequencesExt

CONSTANTS Steps,        \* bound: events of the run between the first and the last
          MaxReconnects \* opts.maxReconnects of events()

ASSUME RunsAssumption == {Steps, MaxReconnects} \subseteq Nat

VARIABLES how,    \* the method that waits: "events", "runAndWait" or "build"
          run,    \* the last event that happened: 0 is "started", Over the terminal one
          frames, \* of the open stream, those not read yet
          reader, \* the phase of the method, and its counters
          given,    \* what the caller was given
          late    \* the deadline is past

runsVars == <<how, run, frames, reader, given, late>>

Over == Steps + 1

Reader == [phase |-> "connecting", seen |-> 0, delivered |-> 0, attempts |-> 0, outcome |-> "none"]

\* The run was just started; a build may be answered without being built.
RunsInit ==
  /\ how \in {"events", "runAndWait", "build"}
  /\ run \in 0..Over
  /\ how = "events" \/ run < Over
  /\ frames = <<>>
  /\ reader = [Reader EXCEPT !.phase = IF how = "build" THEN "polling" ELSE "connecting"]
  /\ given = <<>>
  /\ late = FALSE

Ended(outcome) == [reader EXCEPT !.phase = "done", !.outcome = outcome]

-----------------------------------------------------------------------------
(* The daemon, and time. *)

Happens ==
  /\ run < Over
  /\ run' = run + 1
  /\ frames' = IF reader.phase = "reading" THEN Append(frames, run + 1) ELSE frames
  /\ UNCHANGED <<how, reader, given, late>>

DeadlinePasses ==
  /\ how # "events" /\ ~late
  /\ late' = TRUE
  /\ UNCHANGED <<how, run, frames, reader, given>>

-----------------------------------------------------------------------------
(* runs.events *)

\* runAndWait asks for no reconnects: it has its polls.
Reconnects == IF how = "events" THEN MaxReconnects ELSE 0

\* What follows when events() throws: its caller hears it, runAndWait polls.
Thrown == IF how = "events" THEN Ended("thrown") ELSE [reader EXCEPT !.phase = "polling"]

Connects ==
  /\ reader.phase = "connecting"
  /\ frames' = IF run = Over THEN <<Over>> ELSE <<0>>
  /\ reader' = [reader EXCEPT !.phase = "reading", !.seen = 0]
  /\ UNCHANGED <<how, run, given, late>>

\* http.stream throws outside of the loop's try.
ConnectFails ==
  /\ reader.phase = "connecting"
  /\ reader' = Thrown
  /\ UNCHANGED <<how, run, frames, given, late>>

\* Mutant: each stream is counted alone.
ForgetsDelivered(seen) == FALSE

\* The frame is taken for one that was delivered before the drop.
IsReplayed(seen) == seen <= reader.delivered

Reads ==
  /\ reader.phase = "reading" /\ frames # <<>>
  /\ frames' = Tail(frames)
  /\ LET seen == reader.seen + 1
         event == Head(frames)
     IN  IF IsReplayed(seen)
         THEN reader' = [reader EXCEPT !.seen = seen] /\ UNCHANGED given
         ELSE /\ given' = Append(given, event)
              /\ reader' = IF event # Over THEN [reader EXCEPT !.seen = seen, !.delivered = seen]
                           ELSE IF how = "events" THEN Ended("returned")
                           ELSE [reader EXCEPT !.phase = "finishing"]
  /\ UNCHANGED <<how, run, late>>

\* The stream ends without a terminal event, cleanly or not: what was sent and
\* not read is lost.  The daemon closes it behind the terminal event.
StreamEnds ==
  /\ reader.phase = "reading"
  /\ frames' = <<>>
  /\ reader' = IF reader.attempts >= Reconnects THEN Thrown
               ELSE [reader EXCEPT !.phase = "backoff", !.attempts = @ + 1]
  /\ UNCHANGED <<how, run, given, late>>

BackoffOver ==
  /\ reader.phase = "backoff"
  /\ reader' = [reader EXCEPT !.phase = "connecting"]
  /\ UNCHANGED <<how, run, frames, given, late>>

\* The caller breaks out of the loop or aborts its signal.
CallerStops ==
  /\ how = "events" /\ reader.phase \in {"connecting", "reading", "backoff"}
  /\ reader' = Ended("stopped")
  /\ frames' = <<>>
  /\ UNCHANGED <<how, run, given, late>>

-----------------------------------------------------------------------------
(* runAndWait and startAndWait. *)

\* The timer aborts the stream.
Aborts ==
  /\ how = "runAndWait" /\ late /\ reader.phase \in {"connecting", "reading"}
  /\ reader' = Ended("timeout")
  /\ frames' = <<>>
  /\ UNCHANGED <<how, run, given, late>>

\* Mutant: the deadline is looked at by the stream only.
PollsOn == [reader EXCEPT !.phase = "sleeping"]

AfterPoll == IF late THEN Ended("timeout") ELSE [reader EXCEPT !.phase = "sleeping"]

Polls ==
  /\ reader.phase = "polling"
  /\ reader' = IF run < Over THEN AfterPoll
               ELSE IF how = "build" THEN Ended("returned")
               ELSE [reader EXCEPT !.phase = "finishing"]
  /\ UNCHANGED <<how, run, frames, given, late>>

Wakes ==
  /\ reader.phase = "sleeping"
  /\ reader' = [reader EXCEPT !.phase = "polling"]
  /\ UNCHANGED <<how, run, frames, given, late>>

\* The last runs.get, and results().
Finishes ==
  /\ reader.phase = "finishing"
  /\ reader' = Ended("returned")
  /\ UNCHANGED <<how, run, frames, given, late>>

\* A request of a poll fails: nothing catches it.
RequestFails ==
  /\ reader.phase \in {"polling", "finishing"}
  /\ reader' = Ended("thrown")
  /\ UNCHANGED <<how, run, frames, given, late>>

ReaderMoves == Connects \/ ConnectFails \/ Reads \/ BackoffOver \/ Aborts \/ Polls \/ Wakes \/ Finishes

RunsNext == Happens \/ DeadlinePasses \/ ReaderMoves \/ StreamEnds \/ CallerStops \/ RequestFails

RunsSpec == RunsInit /\ [][RunsNext]_runsVars

\* Requests to the daemon end (AgentRequests), timers fire, and the daemon closes
\* the stream of a run that is over.  That a run ends is not promised, nor that a
\* poll of a build does: no timer limits a request to Writ Cloud (cloud.ts #send).
Moves == \/ how # "build" /\ ReaderMoves
         \/ Wakes
         \/ run = Over /\ frames = <<>> /\ StreamEnds

RunsFairness == WF_runsVars(Moves) /\ WF_runsVars(DeadlinePasses)

FairRunsSpec == RunsSpec /\ RunsFairness

-----------------------------------------------------------------------------
(* Properties. *)

RunsTypeOK ==
  /\ how \in {"events", "runAndWait", "build"} /\ run \in 0..Over /\ late \in BOOLEAN
  /\ frames \in Seq(0..Over) /\ given \in Seq(0..Over)
  /\ reader \in [phase : {"connecting", "reading", "backoff", "polling", "sleeping", "finishing", "done"},
                 seen : Nat, delivered : Nat, attempts : 0..MaxReconnects,
                 outcome : {"none", "returned", "thrown", "timeout", "stopped"}]

\* The caller is given no event twice and none before an earlier one, however
\* often the stream is opened again and whatever the daemon sends then.
NoneTwice == \A i, j \in 1..Len(given) : i < j => given[i] < given[j]

\* What the waiting ends with is true: it returns of a run that is over, and is
\* timed out only past the deadline.
EndIsTrue ==
  /\ reader.outcome = "returned" => run = Over /\ (how = "events" => Last(given) = Over)
  /\ reader.outcome = "timeout" => late

\* What the stream still holds is in order and new to the caller, but for the
\* first frame of a stream: that one is counted as delivered as soon as anything
\* was (events, the count of frames).
StreamFits ==
  /\ \A i \in 1..Len(frames) : frames[i] <= run
  /\ \A i, j \in 1..Len(frames) : i < j => frames[i] < frames[j]
  /\ \A i \in 1..Len(given) : given[i] <= run
  /\ given # <<>> /\ reader.phase \in {"connecting", "reading", "backoff"} => reader.delivered > 0
  /\ given # <<>> /\ reader.phase = "reading" =>
       \A i \in 1..Len(frames) : reader.seen > 0 \/ i > 1 => Last(given) < frames[i]

\* Only a wait that is over has an outcome, and only a run that is over is read
\* a last time; events() itself never polls.
EndFits ==
  /\ reader.outcome # "none" => reader.phase = "done"
  /\ reader.phase = "finishing" => run = Over
  /\ how = "events" => reader.phase \notin {"polling", "sleeping", "finishing"}

\* The events given are in order and not repeated, and the end of the wait is
\* true (events, runAndWait, startAndWait).
RunsInv == RunsTypeOK /\ NoneTwice /\ EndIsTrue /\ StreamFits /\ EndFits

\* runAndWait ends whether or not the run does, and an iteration of the events ends
\* once the run is over (client.ts "Overall deadline", maxReconnects).  So does the
\* wait for a build, unless one get() never ends: it does not poll on for ever.
WaitEnds ==
  /\ how = "runAndWait" ~> reader.phase = "done"
  /\ how = "events" /\ run = Over ~> reader.phase = "done"
  /\ how = "build" ~> (reader.phase = "done" \/ [](reader.phase = "polling"))

\* "already-delivered frames are suppressed by sequence: the caller sees one
\* continuous, gap-free, duplicate-free stream" (client.ts:176): a frame that is
\* not given to the caller is one of an event it has.
OnlyDeliveredAreSuppressed ==
  [][(reader.phase = "reading" /\ reader'.seen > reader.seen /\ given' = given) =>
       Head(frames) \in ToSet(given)]_runsVars
=============================================================================
