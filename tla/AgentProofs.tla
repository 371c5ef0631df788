---------------------------- MODULE AgentProofs ----------------------------
(***************************************************************************)
(* The agent SDK.  For any run, reconnects and deadline: RunsInv of        *)
(* AgentRuns.  For any changes and pages: WatchInv of ChangeWatch.  For    *)
(* any requests, attempts and timers: RequestsInv of AgentRequests.        *)
(***************************************************************************)
EXTENDS AgentRequests, AgentRuns, ChangeWatch, TLAPS

-----------------------------------------------------------------------------
(* Waiting for one run                                                     *)

LEMMA OverIsLast == Over \in Nat /\ Reconnects \in 0..MaxReconnects
  BY RunsAssumption DEF Over, Reconnects

(* One more of a sequence that is in order.                                *)
LEMMA AppendInOrder ==
  ASSUME NEW s \in Seq(Nat), NEW e \in Nat,
         \A i, j \in 1..Len(s) : i < j => s[i] < s[j],
         \A i \in 1..Len(s) : s[i] < e
  PROVE  LET t == Append(s, e)
         IN  /\ Len(t) = Len(s) + 1 /\ t[Len(t)] = e
             /\ \A i \in 1..Len(s) : t[i] = s[i]
             /\ \A i, j \in 1..Len(t) : i < j => t[i] < t[j]
OBVIOUS

(* The last of a sequence that is in order bounds it.                      *)
LEMMA LastBounds ==
  ASSUME NEW s \in Seq(Nat), s # <<>>, \A i, j \in 1..Len(s) : i < j => s[i] < s[j]
  PROVE  /\ Last(s) = s[Len(s)] /\ Len(s) \in 1..Len(s) /\ Last(s) \in Nat
         /\ \A i \in 1..Len(s) : s[i] <= Last(s)
BY DEF Last

LEMMA RunsInitInv == RunsInit => RunsInv
<1> SUFFICES ASSUME RunsInit PROVE RunsInv
  OBVIOUS
<1>1. Over \in Nat /\ 0 \in 0..MaxReconnects
  BY RunsAssumption DEF Over
<1>2. RunsTypeOK
  <2>1. /\ how \in {"events", "runAndWait", "build"} /\ run \in 0..Over /\ late \in BOOLEAN
        /\ frames \in Seq(0..Over) /\ given \in Seq(0..Over)
    <3>1. /\ how \in {"events", "runAndWait", "build"} /\ run \in 0..Over /\ late = FALSE
          /\ frames = <<>> /\ given = <<>>
      BY DEF RunsInit
    <3>2. <<>> \in Seq(0..Over) /\ FALSE \in BOOLEAN
      OBVIOUS
    <3>3. QED
      BY <3>1, <3>2, Zenon
  <2>2. reader \in [phase : {"connecting", "reading", "backoff", "polling", "sleeping", "finishing", "done"},
                    seen : Nat, delivered : Nat, attempts : 0..MaxReconnects,
                    outcome : {"none", "returned", "thrown", "timeout", "stopped"}]
    <3>1. CASE how = "build"
      BY <1>1, <3>1 DEF RunsInit, Reader
    <3>2. CASE how # "build"
      BY <1>1, <3>2 DEF RunsInit, Reader
    <3>3. QED
      BY <3>1, <3>2
  <2>3. QED
    BY <2>1, <2>2 DEF RunsTypeOK
<1>3. /\ frames = <<>> /\ given = <<>> /\ reader.outcome = "none"
      /\ reader.phase \in {"polling", "connecting"} /\ (how = "events" => reader.phase = "connecting")
  BY DEF RunsInit, Reader
<1>4. QED
  BY <1>2, <1>3 DEF RunsInv, NoneTwice, EndIsTrue, StreamFits, EndFits

(* An event happens: it is later than all that was sent and given.         *)
LEMMA HappensKeeps ==
  ASSUME RunsInv, Happens
  PROVE  RunsInv'
<1>1. /\ run \in 0..Over /\ run < Over /\ run' = run + 1 /\ Over \in Nat
      /\ UNCHANGED <<how, reader, given, late>>
      /\ frames \in Seq(0..Over) /\ given \in Seq(0..Over)
  BY OverIsLast DEF RunsInv, RunsTypeOK, Happens
<1>2. frames' = frames \/ (frames' = Append(frames, run + 1))
  BY DEF Happens
<1>3. run + 1 \in 0..Over /\ run + 1 \in Nat /\ frames \in Seq(Nat) /\ given \in Seq(Nat)
  BY <1>1
<1>4. RunsTypeOK'
  <2>1. run' \in 0..Over /\ frames' \in Seq(0..Over)
    <3>1. CASE frames' = frames
      BY <1>1, <1>3, <3>1
    <3>2. CASE frames' = Append(frames, run + 1)
      BY <1>1, <1>3, <3>2
    <3>3. QED
      BY <1>2, <3>1, <3>2
  <2>2. QED
    BY <1>1, <2>1 DEF RunsInv, RunsTypeOK
<1>5. NoneTwice' /\ EndFits' /\ EndIsTrue'
  BY <1>1 DEF RunsInv, NoneTwice, EndFits, EndIsTrue
<1>6. \A i \in 1..Len(given) : given[i] <= run /\ given[i] <= run + 1 /\ given[i] \in Nat
  BY <1>1 DEF RunsInv, StreamFits
<1>7. StreamFits'
  <2>1. CASE frames' = frames
    BY <1>1, <1>3, <1>6, <2>1 DEF RunsInv, StreamFits
  <2>2. CASE frames' = Append(frames, run + 1)
    <3>1. \A i \in 1..Len(frames) : frames[i] < run + 1
      BY <1>1, <1>3 DEF RunsInv, StreamFits
    <3>2. /\ Len(frames') = Len(frames) + 1 /\ frames'[Len(frames')] = run + 1
          /\ \A i \in 1..Len(frames) : frames'[i] = frames[i]
          /\ \A i, j \in 1..Len(frames') : i < j => frames'[i] < frames'[j]
      BY <1>3, <2>2, <3>1, AppendInOrder DEF RunsInv, StreamFits
    <3>3. ASSUME NEW i \in 1..Len(frames')
          PROVE  i \in 1..Len(frames) \/ frames'[i] = run + 1
      BY <1>3, <3>2
    <3>4. \A i \in 1..Len(frames') : frames'[i] <= run'
      <4> SUFFICES ASSUME NEW i \in 1..Len(frames') PROVE frames'[i] <= run + 1
        BY <1>1
      <4>1. CASE i \in 1..Len(frames)
        <5>1. frames'[i] = frames[i] /\ frames[i] \in Nat /\ frames[i] < run + 1
          BY <1>3, <3>1, <3>2, <4>1
        <5>2. QED
          BY <1>3, <5>1
      <4>2. CASE frames'[i] = run + 1
        BY <1>3, <4>2
      <4>3. QED
        BY <3>3, <4>1, <4>2
    <3>5. given # <<>> => Last(given) < run + 1
      <4> SUFFICES ASSUME given # <<>> PROVE Last(given) < run + 1
        OBVIOUS
      <4>1. Last(given) = given[Len(given)] /\ Len(given) \in 1..Len(given)
        BY <1>3, LastBounds DEF RunsInv, NoneTwice
      <4>2. QED
        BY <1>1, <1>6, <4>1
    <3>6. ASSUME given # <<>>, reader.phase = "reading", NEW i \in 1..Len(frames'), reader.seen > 0 \/ i > 1
          PROVE  Last(given) < frames'[i]
      BY <3>2, <3>3, <3>5, <3>6 DEF RunsInv, StreamFits
    <3>7. QED
      BY <1>1, <1>6, <3>2, <3>4, <3>6 DEF RunsInv, StreamFits
  <2>3. QED
    BY <1>2, <2>1, <2>2
<1>8. QED
  BY <1>4, <1>5, <1>7 DEF RunsInv

(* A frame is skipped, or given to the caller.                             *)
LEMMA ReadsKeeps ==
  ASSUME RunsInv, Reads
  PROVE  RunsInv'
<1> DEFINE seen == reader.seen + 1
           event == Head(frames)
<1>1. /\ reader.phase = "reading" /\ frames # <<>> /\ frames' = Tail(frames)
      /\ UNCHANGED <<how, run, late>> /\ Over \in Nat
      /\ frames \in Seq(0..Over) /\ given \in Seq(0..Over) /\ frames \in Seq(Nat) /\ given \in Seq(Nat)
      /\ reader.outcome = "none" /\ seen \in Nat /\ seen > 0 /\ reader.seen \in Nat /\ reader.delivered \in Nat
  BY OverIsLast DEF RunsInv, RunsTypeOK, EndFits, Reads
<1>2. /\ 1 \in 1..Len(frames) /\ event = frames[1] /\ event \in 0..Over /\ event <= run /\ run \in 0..Over
      /\ Len(frames') = Len(frames) - 1 /\ frames' \in Seq(0..Over)
      /\ \A i \in 1..Len(frames') : i + 1 \in 1..Len(frames) /\ frames'[i] = frames[i + 1] /\ event < frames'[i]
  <2>1. 1 \in 1..Len(frames) /\ event = frames[1] /\ event \in 0..Over /\ Len(frames') = Len(frames) - 1
        /\ frames' \in Seq(0..Over)
        /\ \A i \in 1..Len(frames') : i + 1 \in 1..Len(frames) /\ frames'[i] = frames[i + 1]
    BY <1>1
  <2>2. event <= run /\ run \in 0..Over /\ \A i \in 1..Len(frames') : event < frames'[i]
    BY <1>1, <2>1 DEF RunsInv, RunsTypeOK, StreamFits
  <2>3. QED
    BY <2>1, <2>2
<1>3. /\ \A i \in 1..Len(frames') : frames'[i] <= run
      /\ \A i, j \in 1..Len(frames') : i < j => frames'[i] < frames'[j]
  BY <1>1, <1>2 DEF RunsInv, StreamFits
<1>4. CASE IsReplayed(seen)
  <2>1. reader' = [reader EXCEPT !.seen = seen] /\ given' = given
    BY <1>4 DEF Reads
  <2>2. /\ reader'.seen = seen /\ reader'.phase = "reading" /\ reader'.outcome = "none"
        /\ reader'.delivered = reader.delivered /\ RunsTypeOK'
    BY <1>1, <1>2, <2>1 DEF RunsInv, RunsTypeOK
  <2>3. given # <<>> => \A i \in 1..Len(frames') : Last(given) < frames'[i]
    <3> SUFFICES ASSUME given # <<>>, NEW i \in 1..Len(frames') PROVE Last(given) < frames'[i]
      OBVIOUS
    <3>1. i + 1 \in 1..Len(frames) /\ frames'[i] = frames[i + 1] /\ i + 1 > 1
      BY <1>1, <1>2
    <3>2. QED
      BY <1>1, <3>1 DEF RunsInv, StreamFits
  <2>4. StreamFits'
    BY <1>1, <1>3, <2>1, <2>2, <2>3 DEF RunsInv, StreamFits
  <2>5. NoneTwice' /\ EndIsTrue' /\ EndFits'
    BY <1>1, <2>1, <2>2 DEF RunsInv, NoneTwice, EndIsTrue, EndFits
  <2>6. QED
    BY <2>2, <2>4, <2>5 DEF RunsInv
<1>5. CASE ~IsReplayed(seen)
  <2>1. /\ given' = Append(given, event)
        /\ reader' = IF event # Over THEN [reader EXCEPT !.seen = seen, !.delivered = seen]
                     ELSE IF how = "events" THEN Ended("returned")
                     ELSE [reader EXCEPT !.phase = "finishing"]
    BY <1>5 DEF Reads
  <2>2. \A i \in 1..Len(given) : given[i] < event
    <3> SUFFICES ASSUME NEW i \in 1..Len(given) PROVE given[i] < event
      OBVIOUS
    <3>1. given # <<>> /\ reader.delivered > 0
      BY <1>1 DEF RunsInv, StreamFits
    <3>2. reader.seen > 0
      BY <1>1, <1>5, <3>1 DEF IsReplayed
    <3>3. Last(given) < event
      BY <1>1, <1>2, <3>1, <3>2 DEF RunsInv, StreamFits
    <3>4. given[i] <= Last(given) /\ Last(given) \in Nat /\ given[i] \in Nat
      BY <1>1, <3>1, LastBounds DEF RunsInv, NoneTwice
    <3>5. QED
      BY <1>2, <3>3, <3>4
  <2>3. /\ Len(given') = Len(given) + 1 /\ given'[Len(given')] = event
        /\ \A i \in 1..Len(given) : given'[i] = given[i]
        /\ \A i, j \in 1..Len(given') : i < j => given'[i] < given'[j]
    <3>1. event \in Nat /\ \A i, j \in 1..Len(given) : i < j => given[i] < given[j]
      BY <1>1, <1>2 DEF RunsInv, NoneTwice
    <3> HIDE DEF event
    <3>2. QED
      BY <1>1, <2>1, <2>2, <3>1, AppendInOrder
  <2>4. given' \in Seq(0..Over) /\ given' # <<>> /\ Last(given') = event
    <3> HIDE DEF event
    <3>1. given' \in Seq(0..Over)
      BY <1>1, <1>2, <2>1
    <3>2. given' # <<>>
      BY <1>1, <2>3
    <3>3. QED
      BY <2>3, <3>1, <3>2 DEF Last
  <2>5. \A i \in 1..Len(given') : given'[i] <= run'
    <3> HIDE DEF event
    <3>1. \A i \in 1..Len(given) : given[i] <= run
      BY DEF RunsInv, StreamFits
    <3>2. \A i \in 1..Len(given') : i \in 1..Len(given) \/ i = Len(given')
      BY <1>1, <2>3
    <3>3. QED
      BY <1>1, <1>2, <2>3, <3>1, <3>2
  <2>6. NoneTwice'
    BY <2>3 DEF NoneTwice
  <2>7. CASE event # Over
    <3>1. /\ reader'.seen = seen /\ reader'.phase = "reading" /\ reader'.outcome = "none"
          /\ reader'.delivered = seen /\ RunsTypeOK'
      BY <1>1, <1>2, <2>1, <2>4, <2>7 DEF RunsInv, RunsTypeOK
    <3>2. StreamFits'
      BY <1>1, <1>2, <1>3, <2>4, <2>5, <3>1 DEF StreamFits
    <3>3. EndIsTrue' /\ EndFits'
      BY <3>1 DEF EndIsTrue, EndFits
    <3>4. QED
      BY <2>6, <3>1, <3>2, <3>3 DEF RunsInv
  <2>8. CASE event = Over
    <3>1. run = Over
      BY <1>1, <1>2, <2>8
    <3>2. /\ RunsTypeOK' /\ reader'.phase \in {"done", "finishing"}
          /\ reader'.phase = "done" => how = "events"
          /\ reader'.phase = "finishing" => how # "events" /\ reader'.outcome = "none"
          /\ reader'.outcome \in {"none", "returned"}
      BY <1>1, <1>2, <2>1, <2>4, <2>8 DEF RunsInv, RunsTypeOK, Ended
    <3>3. StreamFits'
      BY <1>1, <1>3, <2>5, <3>2 DEF StreamFits
    <3>4. EndIsTrue' /\ EndFits'
      BY <1>1, <2>4, <2>8, <3>1, <3>2 DEF EndIsTrue, EndFits
    <3>5. QED
      BY <2>6, <3>2, <3>3, <3>4 DEF RunsInv
  <2>9. QED
    BY <2>7, <2>8
<1>6. QED
  BY <1>4, <1>5

(* Every other step gives the caller nothing, and empties the stream or    *)
(* opens one.                                                              *)
LEMMA WaitKeeps ==
  ASSUME RunsInv,
         UNCHANGED <<how, run, given>>, late' \in BOOLEAN, late => late',
         frames' \in {frames, <<>>, << 0 >>} \/ (frames' = <<Over>> /\ run = Over),
         NEW stage \in {"connecting", "reading", "backoff", "polling", "sleeping", "finishing", "done"},
         NEW seen \in {0, reader.seen}, NEW attempts \in 0..MaxReconnects,
         NEW outcome \in {"none", "returned", "thrown", "timeout", "stopped"},
         reader' = [reader EXCEPT !.phase = stage, !.seen = seen, !.attempts = attempts, !.outcome = outcome],
         stage \in {"connecting", "reading", "backoff"} => reader.phase \in {"connecting", "reading", "backoff"},
         stage = "reading" => \/ reader.phase = "reading" /\ frames' = frames /\ seen = reader.seen
                              \/ Len(frames') = 1 /\ seen = 0,
         outcome # "none" => stage = "done",
         stage = "finishing" => run = Over,
         how = "events" => stage \notin {"polling", "sleeping", "finishing"},
         outcome = "returned" => run = Over /\ (how = "events" => Last(given) = Over),
         outcome = "timeout" => late'
  PROVE  RunsInv'
<1>1. /\ reader'.phase = stage /\ reader'.seen = seen /\ reader'.outcome = outcome
      /\ reader'.delivered = reader.delivered /\ Over \in Nat /\ run \in 0..Over
  BY OverIsLast DEF RunsInv, RunsTypeOK
<1>2. RunsTypeOK'
  <2>1. frames' \in Seq(0..Over)
    <3>1. frames \in Seq(0..Over) /\ 0 \in 0..Over /\ Over \in 0..Over
      BY <1>1 DEF RunsInv, RunsTypeOK
    <3>2. <<>> \in Seq(0..Over) /\ <<0>> \in Seq(0..Over) /\ <<Over>> \in Seq(0..Over)
      BY <3>1
    <3>3. QED
      BY <3>1, <3>2, Zenon
  <2>2. seen \in Nat
    BY DEF RunsInv, RunsTypeOK
  <2>3. reader' \in [phase : {"connecting", "reading", "backoff", "polling", "sleeping", "finishing", "done"},
                    seen : Nat, delivered : Nat, attempts : 0..MaxReconnects,
                    outcome : {"none", "returned", "thrown", "timeout", "stopped"}]
    BY <2>2 DEF RunsInv, RunsTypeOK
  <2>4. QED
    BY <2>1, <2>3 DEF RunsInv, RunsTypeOK
<1>3. NoneTwice' /\ EndIsTrue' /\ EndFits'
  BY <1>1 DEF RunsInv, NoneTwice, EndIsTrue, EndFits
<1>4. /\ \A i \in 1..Len(frames') : frames'[i] <= run
      /\ \A i, j \in 1..Len(frames') : i < j => frames'[i] < frames'[j]
  <2>1. CASE frames' = frames
    BY <2>1 DEF RunsInv, StreamFits
  <2>2. CASE frames' = <<>>
    BY <2>2
  <2>3. CASE frames' = <<0>> \/ (frames' = <<Over>> /\ run = Over)
    BY <1>1, <2>3
  <2>4. QED
    BY <2>1, <2>2, <2>3
<1>5. StreamFits'
  BY <1>1, <1>4 DEF RunsInv, StreamFits
<1>6. QED
  BY <1>2, <1>3, <1>5 DEF RunsInv

LEMMA WaitStepKeeps ==
  ASSUME RunsInv,
         DeadlinePasses \/ Connects \/ ConnectFails \/ StreamEnds \/ BackoffOver \/ CallerStops
           \/ Aborts \/ Polls \/ Wakes \/ Finishes \/ RequestFails
  PROVE  RunsInv'
<1> DEFINE R(stage, seen, attempts, outcome) ==
             [reader EXCEPT !.phase = stage, !.seen = seen, !.attempts = attempts, !.outcome = outcome]
           Keeps(stage, outcome) == reader' = R(stage, reader.seen, reader.attempts, outcome)
<1>1. /\ reader.attempts \in 0..MaxReconnects
      /\ reader.outcome # "none" => reader.phase = "done"
      /\ late \in BOOLEAN /\ run \in 0..Over /\ Over \in Nat
      /\ reader.phase \in {"connecting", "reading", "backoff", "polling", "sleeping", "finishing", "done"}
      /\ reader.outcome \in {"none", "returned", "thrown", "timeout", "stopped"}
  BY OverIsLast DEF RunsInv, RunsTypeOK, EndFits
<1>2. CASE DeadlinePasses
  <2>1. UNCHANGED <<how, run, frames, reader, given>> /\ late' = TRUE
    BY <1>2 DEF DeadlinePasses
  <2>2. RunsTypeOK' /\ NoneTwice' /\ EndIsTrue'
    BY <2>1 DEF RunsInv, RunsTypeOK, NoneTwice, EndIsTrue
  <2>3. StreamFits' /\ EndFits'
    BY <2>1 DEF RunsInv, StreamFits, EndFits
  <2>4. QED
    BY <2>2, <2>3 DEF RunsInv
<1>3. CASE Connects
  <2>1. /\ reader' = R("reading", 0, reader.attempts, reader.outcome)
        /\ UNCHANGED <<how, run, given, late>> /\ reader.phase = "connecting"
        /\ frames' = <<0>> \/ (frames' = <<Over>> /\ run = Over)
    BY <1>3 DEF Connects, RunsInv, RunsTypeOK
  <2>2. Len(frames') = 1
    BY <2>1
  <2>3. QED
    BY <1>1, <2>1, <2>2, WaitKeeps
<1>4. CASE ConnectFails
  <2>1. /\ UNCHANGED <<how, run, frames, given, late>> /\ reader.phase = "connecting"
        /\ IF how = "events" THEN Keeps("done", "thrown") ELSE Keeps("polling", reader.outcome)
    BY <1>4 DEF ConnectFails, Thrown, Ended, RunsInv, RunsTypeOK
  <2>2. QED
    BY <1>1, <2>1, WaitKeeps
<1>5. CASE StreamEnds
  <2>1. UNCHANGED <<how, run, given, late>> /\ frames' = <<>> /\ reader.phase = "reading"
    BY <1>5 DEF StreamEnds
  <2>2. CASE reader.attempts >= Reconnects
    <3>1. IF how = "events" THEN Keeps("done", "thrown") ELSE Keeps("polling", reader.outcome)
      BY <1>5, <2>2 DEF StreamEnds, Thrown, Ended, RunsInv, RunsTypeOK
    <3>2. QED
      BY <1>1, <2>1, <3>1, WaitKeeps
  <2>3. CASE ~(reader.attempts >= Reconnects)
    <3> DEFINE n == reader.attempts + 1
    <3>1. n \in 0..MaxReconnects
      BY <1>1, <2>3, OverIsLast, RunsAssumption
    <3>2. reader' = R("backoff", reader.seen, n, reader.outcome)
      BY <1>5, <2>3 DEF StreamEnds, RunsInv, RunsTypeOK
    <3> HIDE DEF n
    <3>3. QED
      BY <1>1, <2>1, <3>1, <3>2, WaitKeeps
  <2>4. QED
    BY <2>2, <2>3
<1>6. CASE BackoffOver
  <2>1. /\ UNCHANGED <<how, run, frames, given, late>> /\ reader.phase = "backoff"
        /\ Keeps("connecting", reader.outcome)
    BY <1>6 DEF BackoffOver, RunsInv, RunsTypeOK
  <2>2. QED
    BY <1>1, <2>1, WaitKeeps
<1>7. CASE CallerStops
  <2>1. UNCHANGED <<how, run, given, late>> /\ frames' = <<>> /\ Keeps("done", "stopped")
    BY <1>7 DEF CallerStops, Ended, RunsInv, RunsTypeOK
  <2>2. QED
    BY <1>1, <2>1, WaitKeeps
<1>8. CASE Aborts
  <2>1. UNCHANGED <<how, run, given, late>> /\ frames' = <<>> /\ late /\ Keeps("done", "timeout")
    BY <1>8 DEF Aborts, Ended, RunsInv, RunsTypeOK
  <2>2. QED
    BY <1>1, <2>1, WaitKeeps
<1>9. CASE Polls
  <2>1. /\ UNCHANGED <<how, run, frames, given, late>> /\ reader.phase = "polling" /\ how # "events"
        /\ \/ late /\ Keeps("done", "timeout")
           \/ Keeps("sleeping", reader.outcome)
           \/ run = Over /\ Keeps("done", "returned")
           \/ run = Over /\ Keeps("finishing", reader.outcome)
    <3>1. /\ UNCHANGED <<how, run, frames, given, late>> /\ reader.phase = "polling" /\ how # "events"
      BY <1>9 DEF Polls, RunsInv, EndFits
    <3>2. CASE run < Over
      BY <1>9, <3>1, <3>2 DEF Polls, AfterPoll, Ended, RunsInv, RunsTypeOK
    <3>3. CASE run = Over
      <4>1. reader' = IF how = "build" THEN Ended("returned") ELSE [reader EXCEPT !.phase = "finishing"]
        BY <1>1, <1>9, <3>3 DEF Polls
      <4>2. Keeps("done", "returned") \/ Keeps("finishing", reader.outcome)
        BY <4>1 DEF Ended, RunsInv, RunsTypeOK
      <4>3. QED
        BY <3>1, <3>3, <4>2
    <3>4. QED
      BY <1>1, <3>2, <3>3
  <2>2. QED
    BY <1>1, <2>1, WaitKeeps
<1>10. CASE Wakes
  <2>1. /\ UNCHANGED <<how, run, frames, given, late>> /\ reader.phase = "sleeping" /\ how # "events"
        /\ Keeps("polling", reader.outcome)
    BY <1>10 DEF Wakes, RunsInv, RunsTypeOK, EndFits
  <2>2. QED
    BY <1>1, <2>1, WaitKeeps
<1>11. CASE Finishes
  <2>1. /\ UNCHANGED <<how, run, frames, given, late>> /\ run = Over /\ how # "events"
        /\ Keeps("done", "returned")
    BY <1>11 DEF Finishes, Ended, RunsInv, RunsTypeOK, EndFits
  <2>2. QED
    BY <1>1, <2>1, WaitKeeps
<1>12. CASE RequestFails
  <2>1. UNCHANGED <<how, run, frames, given, late>> /\ Keeps("done", "thrown")
    BY <1>12 DEF RequestFails, Ended, RunsInv, RunsTypeOK
  <2>2. QED
    BY <1>1, <2>1, WaitKeeps
<1>13. QED
  BY <1>2, <1>3, <1>4, <1>5, <1>6, <1>7, <1>8, <1>9, <1>10, <1>11, <1>12

(* However long the run, however often its stream drops and whatever the   *)
(* daemon sends then: no event is given twice or before an earlier one, a  *)
(* wait returns only of a run that is over and is timed out only past its  *)
(* deadline (runs.events, runAndWait, startAndWait).                       *)
THEOREM RunsInvHolds == RunsSpec => []RunsInv
<1>1. RunsInv /\ [RunsNext]_runsVars => RunsInv'
  <2> SUFFICES ASSUME RunsInv, [RunsNext]_runsVars PROVE RunsInv'
    OBVIOUS
  <2>1. CASE UNCHANGED runsVars
    BY <2>1 DEF runsVars, RunsInv, RunsTypeOK, NoneTwice, EndIsTrue, StreamFits, EndFits
  <2>2. QED
    BY <2>1, HappensKeeps, ReadsKeeps, WaitStepKeeps DEF RunsNext, ReaderMoves
<1>2. QED
  BY <1>1, RunsInitInv, PTL DEF RunsSpec

-----------------------------------------------------------------------------
(* Watching for changes                                                    *)

\* What a cursor or a row can be.
Marks == [at : Nat, id : Int]

LEMMA AfterIsAnOrder ==
  ASSUME NEW a \in Marks, NEW b \in Marks, NEW c \in Marks
  PROVE  /\ ~After(a, a)
         /\ After(a, b) => ~After(b, a)
         /\ After(a, b) /\ After(b, c) => After(a, c)
         /\ After(a, b) /\ ~After(c, b) => After(a, c)
         /\ ~After(a, b) /\ ~After(b, a) => a = b
BY DEF Marks, After

(* What is left when the first of a sequence is taken.                     *)
LEMMA TailOf ==
  ASSUME NEW S, NEW s \in Seq(S), s # <<>>
  PROVE  /\ Head(s) = s[1] /\ Head(s) \in S /\ Tail(s) \in Seq(S)
         /\ Len(s) \in Nat \ {0} /\ Len(Tail(s)) = Len(s) - 1
         /\ \A i \in 1..Len(Tail(s)) : i + 1 \in 1..Len(s) /\ i + 1 > 1 /\ Tail(s)[i] = s[i + 1]
         /\ \A x : x \in ToSet(s) => x = Head(s) \/ x \in ToSet(Tail(s))
<1>1. /\ Head(s) = s[1] /\ Head(s) \in S /\ Tail(s) \in Seq(S)
      /\ Len(s) \in Nat \ {0} /\ Len(Tail(s)) = Len(s) - 1
      /\ \A i \in 1..Len(Tail(s)) : i + 1 \in 1..Len(s) /\ i + 1 > 1 /\ Tail(s)[i] = s[i + 1]
  OBVIOUS
<1>2. ASSUME NEW x \in ToSet(s), x # Head(s)
      PROVE  x \in ToSet(Tail(s))
  <2>1. PICK j \in 1..Len(s) : s[j] = x
    BY <1>2 DEF ToSet
  <2>2. j - 1 \in 1..Len(Tail(s))
    BY <1>1, <1>2, <2>1
  <2>3. Tail(s)[j - 1] = x /\ DOMAIN Tail(s) = 1..Len(Tail(s))
    BY <1>1, <2>1, <2>2
  <2>4. QED
    BY <2>2, <2>3 DEF ToSet
<1>3. QED
  BY <1>1, <1>2

LEMMA AppendTo ==
  ASSUME NEW S, NEW s \in Seq(S), NEW e \in S
  PROVE  LET t == Append(s, e)
         IN  /\ t \in Seq(S) /\ t # <<>> /\ Last(t) = e /\ e \in ToSet(t)
             /\ Len(t) = Len(s) + 1 /\ t[Len(t)] = e
             /\ \A i \in 1..Len(s) : t[i] = s[i]
             /\ \A x \in ToSet(s) : x \in ToSet(t)
<1> DEFINE t == Append(s, e)
<1>1. /\ t \in Seq(S) /\ t # <<>> /\ Len(t) = Len(s) + 1 /\ t[Len(t)] = e
      /\ \A i \in 1..Len(s) : t[i] = s[i]
  OBVIOUS
<1>2. DOMAIN t = 1..Len(t) /\ Len(t) \in 1..Len(t) /\ DOMAIN s = 1..Len(s) /\ 1..Len(s) \subseteq 1..Len(t)
  BY <1>1
<1> HIDE DEF t
<1>3. e \in ToSet(t) /\ \A x \in ToSet(s) : x \in ToSet(t)
  BY <1>1, <1>2 DEF ToSet
<1>4. Last(t) = e
  BY <1>1 DEF Last
<1>5. QED
  BY <1>1, <1>3, <1>4 DEF t

(* A page holds rows.                                                      *)
LEMMA PageOfRows ==
  ASSUME NEW rows, NEW p \in SeqOf(rows, PageSize)
  PROVE  p \in Seq(rows)
BY WatchAssumption DEF SeqOf

(* What the invariant says of rows, cursors and pages.                     *)
LEMMA WatchFacts ==
  ASSUME WatchInv
  PROVE  /\ Changes \subseteq Marks /\ None \in Marks /\ Floor \in Marks
         /\ cursor \in Marks /\ start \in Marks /\ None \notin Changes
         /\ Rows \subseteq Changes /\ \A r \in Rows : r.at <= clock
         /\ batch \in Seq(Changes) /\ got \in Seq(Changes)
         /\ clock \in Nat
         /\ \A i \in 1..Len(batch) : batch[i] \in Changes
<1>1. /\ Changes \subseteq Marks /\ None \in Marks /\ Floor \in Marks /\ None \notin Changes
  <2>1. Changes \subseteq Marks
    <3>1. 1..MaxTime \subseteq Nat /\ Ids \subseteq Int
      BY WatchAssumption
    <3>2. QED
      BY <3>1 DEF Changes, Marks
  <2>2. None \in Marks /\ Floor \in Marks
    BY DEF Marks, None, Floor
  <2>3. None \notin Changes
    <3>1. \A c \in Changes : c.at > 0
      BY WatchAssumption DEF Changes
    <3>2. QED
      BY <3>1 DEF None
  <2>4. QED
    BY <2>1, <2>2, <2>3
<1>2. /\ feed \in [Ids -> 0..MaxTime] /\ clock \in 1..MaxTime /\ MaxTime \in Nat
      /\ batch \in Seq(Changes) /\ got \in Seq(Changes)
      /\ {cursor, start} \subseteq {None, Floor} \cup Changes
      /\ \A i \in Ids : feed[i] <= clock
  BY WatchAssumption DEF WatchInv, WatchTypeOK, PageFits
<1>3. /\ Rows \subseteq Changes /\ \A r \in Rows : r.at <= clock
  BY <1>2 DEF Rows, Row, Changes
<1>4. cursor \in Marks /\ start \in Marks /\ clock \in Nat
  BY <1>1, <1>2
<1>5. QED
  BY <1>1, <1>2, <1>3, <1>4

LEMMA WatchInitInv == WatchInit => WatchInv
<1> SUFFICES ASSUME WatchInit PROVE WatchInv
  OBVIOUS
<1>1. /\ feed \in [Ids -> 0..1] /\ clock = 1 /\ batch = <<>> /\ full = FALSE /\ got = <<>> /\ signal = FALSE
      /\ phase \in {"fetching", "head"} /\ start = cursor
      /\ 1 \in 1..MaxTime /\ 0..1 \subseteq 0..MaxTime
      /\ phase = "head" => cursor = None
  BY WatchAssumption DEF WatchInit
<1>2. cursor \in {None, Floor} \cup Changes /\ cursor.at <= 1
  <2>1. CASE cursor \in Rows
    BY <1>1, <2>1 DEF Rows, Row, Changes
  <2>2. CASE cursor \in {None, Floor}
    BY <2>2 DEF None, Floor
  <2>3. QED
    BY <2>1, <2>2 DEF WatchInit
<1>3. WatchTypeOK
  <2>1. <<>> \in Seq(Changes) /\ feed \in [Ids -> 0..MaxTime]
    BY <1>1
  <2>2. QED
    BY <1>1, <1>2, <2>1 DEF WatchTypeOK
<1>4. NoRepeats
  BY <1>1 DEF NoRepeats
<1>5. NoGaps
  BY <1>1 DEF NoGaps
<1>6. PageFits
  <2>1. Len(batch) = 0 /\ \A i \in Ids : feed[i] <= 1
    BY <1>1
  <2>2. QED
    BY <1>1, <1>2, <2>1 DEF PageFits
<1>7. QED
  BY <1>3, <1>4, <1>5, <1>6 DEF WatchInv

(* Changes are detected: all of them come after the cursor and the page.   *)
LEMMA DetectsKeeps ==
  ASSUME WatchInv, Detects
  PROVE  WatchInv'
<1>1. /\ clock < MaxTime /\ clock' = clock + 1 /\ clock \in 1..MaxTime /\ MaxTime \in Nat
      /\ UNCHANGED <<phase, cursor, batch, full, got, signal, start>>
      /\ feed \in [Ids -> 0..MaxTime] /\ \A i \in Ids : feed[i] <= clock
  BY WatchAssumption DEF Detects, WatchInv, WatchTypeOK, PageFits
<1>2. PICK found \in SUBSET Ids : feed' = [i \in Ids |-> IF i \in found THEN clock + 1 ELSE feed[i]]
  BY DEF Detects
<1>3. /\ feed' \in [Ids -> 0..MaxTime] /\ clock' \in 1..MaxTime
      /\ \A i \in Ids : feed'[i] <= clock'
  BY <1>1, <1>2
<1>4. WatchTypeOK'
  BY <1>1, <1>3 DEF WatchInv, WatchTypeOK
<1>5. \A r \in Rows' : r \in Rows \/ r.at = clock + 1
  <2> SUFFICES ASSUME NEW r \in Rows' PROVE r \in Rows \/ r.at = clock + 1
    OBVIOUS
  <2>1. PICK i \in Ids : feed'[i] > 0 /\ r = [at |-> feed'[i], id |-> i]
    BY DEF Rows, Row
  <2>2. feed'[i] = feed[i] \/ feed'[i] = clock + 1
    BY <1>2
  <2>3. QED
    BY <2>1, <2>2 DEF Rows, Row
<1>6. /\ cursor \in Marks /\ cursor.at <= clock /\ cursor.at \in Nat
      /\ \A i \in 1..Len(batch) : batch[i].at <= clock /\ batch[i].at \in Nat
  BY WatchFacts DEF WatchInv, PageFits, Marks
<1>7. NoRepeats'
  BY <1>1 DEF WatchInv, NoRepeats
<1>8. NoGaps'
  <2> SUFFICES ASSUME NEW r \in Rows', start # None, After(r, start), ~After(r, cursor)
               PROVE  r \in ToSet(got)
    BY <1>1 DEF NoGaps, After
  <2>1. r.at # clock + 1
    BY <1>1, <1>6 DEF After
  <2>2. QED
    BY <1>5, <2>1 DEF WatchInv, NoGaps
<1>9. PageFits'
  <2>1. ASSUME NEW r \in Rows', r \notin Rows, NEW i \in 1..Len(batch)
        PROVE  After(r, batch[i])
    BY <1>1, <1>5, <1>6, <2>1 DEF After
  <2>2. /\ cursor.at <= clock' /\ \A i \in 1..Len(batch) : batch[i].at <= clock'
    BY <1>1, <1>6
  <2>3. CASE cursor = None
    BY <1>1, <1>3, <2>2, <2>3 DEF WatchInv, PageFits, After
  <2>4. CASE cursor # None
    <3>1. CASE \A i \in 1..Len(batch) : ~After(batch[i], cursor)
      BY <1>1, <1>3, <2>2, <2>4, <3>1 DEF WatchInv, PageFits, After
    <3>2. CASE ~ \A i \in 1..Len(batch) : ~After(batch[i], cursor)
      <4>1. /\ \A i, j \in 1..Len(batch) : i < j => After(batch[j], batch[i])
            /\ phase = "yielding" =>
                 \A r \in Rows : After(r, cursor) /\ r \notin ToSet(batch) =>
                               \A i \in 1..Len(batch) : After(r, batch[i])
        BY <2>4, <3>2 DEF WatchInv, PageFits
      <4>2. phase = "yielding" =>
              \A r \in Rows' : After(r, cursor) /\ r \notin ToSet(batch) =>
                             \A i \in 1..Len(batch) : After(r, batch[i])
        BY <2>1, <4>1
      <4>3. QED
        BY <1>1, <1>3, <2>2, <2>4, <4>1, <4>2 DEF WatchInv, PageFits, After
    <3>3. QED
      BY <3>1, <3>2
  <2>5. QED
    BY <2>3, <2>4
<1>10. QED
  BY <1>4, <1>7, <1>8, <1>9 DEF WatchInv

(* The head of the feed is where a fresh watch begins.                     *)
LEMMA HeadReadKeeps ==
  ASSUME WatchInv, HeadRead
  PROVE  WatchInv'
<1>1. /\ UNCHANGED <<feed, clock, batch, full, got, signal>> /\ start' = cursor'
      /\ phase = "head" /\ phase' \in {"aborted", "fetching"}
      /\ cursor = None /\ start = None /\ got = <<>> /\ Rows' = Rows /\ batch = <<>>
  <2>1. cursor = None /\ (got # <<>> => cursor = Last(got))
    BY DEF WatchInv, PageFits, HeadRead
  <2>2. got = <<>>
    <3> SUFFICES ASSUME got # <<>> PROVE FALSE
      OBVIOUS
    <3>1. Last(got) \in Changes
      BY WatchFacts DEF Last
    <3>2. QED
      BY <2>1, <3>1, WatchFacts
  <2>3. QED
    BY <2>1, <2>2 DEF HeadRead, NextPage, WatchInv, PageFits, Rows, Row
<1>2. /\ cursor' \in {Floor} \cup Changes /\ cursor' # None /\ cursor'.at <= clock'
      /\ \A r \in Rows : r = cursor' \/ ~After(r, cursor') \/ Rows = {}
  <2>1. CASE Rows = {}
    <3>1. cursor' = Floor
      BY <2>1 DEF HeadRead
    <3>2. QED
      BY <1>1, <2>1, <3>1, WatchFacts DEF Floor, None
  <2>2. CASE Rows # {}
    <3>1. cursor' \in Rows /\ \A r \in Rows \ {cursor'} : After(cursor', r)
      BY <2>2 DEF HeadRead
    <3>2. QED
      BY <1>1, <3>1, WatchFacts, AfterIsAnOrder
  <2>3. QED
    BY <2>1, <2>2
<1>3. WatchTypeOK'
  BY <1>1, <1>2 DEF WatchInv, WatchTypeOK, Stopped
<1>4. NoRepeats' /\ NoGaps'
  BY <1>1 DEF WatchInv, NoRepeats, NoGaps
<1>5. PageFits'
  BY <1>1, <1>2 DEF WatchInv, PageFits
<1>6. QED
  BY <1>3, <1>4, <1>5 DEF WatchInv

(* A page: what it leaves out is behind it.                                *)
LEMMA FetchesKeeps ==
  ASSUME WatchInv, Fetches
  PROVE  WatchInv'
<1>1. /\ UNCHANGED <<feed, clock, cursor, got, signal, start>> /\ Rows' = Rows
      /\ phase' = "yielding" /\ full' \in BOOLEAN
  BY DEF Fetches, Rows, Row
<1>2. PICK echoes \in BOOLEAN : batch' \in Page(echoes)
  BY DEF Fetches
<1> DEFINE rows == {r \in Rows : After(r, cursor) \/ (echoes /\ r = cursor)}
<1>3. batch' \in Seq(Rows)
  <2>1. CASE cursor = None
    <3>1. batch' \in SeqOf(Rows, PageSize)
      BY <1>2, <2>1 DEF Page, Newest
    <3>2. QED
      BY <3>1, PageOfRows
  <2>2. CASE cursor # None
    <3>1. batch' \in SeqOf(rows, PageSize)
      BY <1>2, <2>2 DEF Page, Oldest
    <3>2. batch' \in Seq(rows) /\ rows \subseteq Rows
      BY <3>1, PageOfRows
    <3>3. QED
      BY <3>2
  <2>3. QED
    BY <2>1, <2>2
<1>4. batch' \in Seq(Changes) /\ \A i \in 1..Len(batch') : batch'[i] \in Rows /\ batch'[i].at <= clock
  BY <1>3, WatchFacts
<1>5. WatchTypeOK'
  BY <1>1, <1>4 DEF WatchInv, WatchTypeOK
<1>6. NoRepeats' /\ NoGaps'
  BY <1>1 DEF WatchInv, NoRepeats, NoGaps
<1>7. PageFits'
  <2>1. CASE cursor = None
    <3>1. \A i, j \in 1..Len(batch') : i < j => After(batch'[i], batch'[j])
      BY <1>2, <2>1 DEF Page, Newest
    <3>2. QED
      BY <1>1, <1>4, <2>1, <3>1 DEF WatchInv, PageFits
  <2>2. CASE cursor # None
    <3>1. /\ \A i, j \in 1..Len(batch') : i < j => After(batch'[j], batch'[i])
          /\ \A r \in rows \ ToSet(batch') : \A i \in 1..Len(batch') : After(r, batch'[i])
      BY <1>2, <2>2 DEF Page, Oldest
    <3>2. \A r \in Rows : After(r, cursor) /\ r \notin ToSet(batch') => \A i \in 1..Len(batch') : After(r, batch'[i])
      BY <3>1
    <3>3. QED
      BY <1>1, <1>4, <2>2, <3>1, <3>2 DEF WatchInv, PageFits
  <2>3. QED
    BY <2>1, <2>2
<1>8. QED
  BY <1>5, <1>6, <1>7 DEF WatchInv

(* The watcher looks at a change: passed, it is not new; yielded, it is    *)
(* the first after the cursor.                                             *)
LEMMA LooksAtKeeps ==
  ASSUME WatchInv, LooksAt
  PROVE  WatchInv'
<1> DEFINE r == Head(batch)
           rest == Tail(batch)
<1>1. /\ UNCHANGED <<feed, clock, full, signal>> /\ Rows' = Rows /\ batch' = rest
      /\ phase = "yielding" /\ batch # <<>>
  BY DEF LooksAt, Rows, Row
<1>2. /\ r = batch[1] /\ r \in Changes /\ rest \in Seq(Changes)
      /\ Len(batch) \in Nat \ {0} /\ 1 \in 1..Len(batch)
      /\ \A i \in 1..Len(rest) : i + 1 \in 1..Len(batch) /\ i + 1 > 1 /\ rest[i] = batch[i + 1]
      /\ \A x : x \in ToSet(batch) => x = r \/ x \in ToSet(rest)
  <2>1. batch \in Seq(Changes)
    BY WatchFacts
  <2>2. QED
    BY <1>1, <2>1, TailOf
<1>3. \A i, j \in 1..Len(rest) : i < j => i + 1 < j + 1
  BY <1>2
<1>4. /\ \A i \in 1..Len(rest) : rest[i] \in Changes /\ rest[i].at <= clock
      /\ r.at <= clock /\ r \in Marks /\ cursor \in Marks /\ r # None
      /\ \A i \in 1..Len(rest) : rest[i] \in Marks
  BY <1>2, WatchFacts DEF WatchInv, PageFits
<1> HIDE DEF r, rest
<1>5. CASE Passes(r)
  <2>1. UNCHANGED <<phase, cursor, got, start>> /\ cursor # None /\ ~After(r, cursor)
    BY <1>5 DEF LooksAt, Passes, r
  <2>2. WatchTypeOK'
    BY <1>1, <1>2, <2>1 DEF WatchInv, WatchTypeOK
  <2>3. NoRepeats' /\ NoGaps'
    BY <1>1, <2>1 DEF WatchInv, NoRepeats, NoGaps
  <2>4. CASE \A i \in 1..Len(batch) : ~After(batch[i], cursor)
    <3>1. \A i \in 1..Len(rest) : ~After(rest[i], cursor)
      BY <1>2, <2>4
    <3>2. PageFits'
      BY <1>1, <1>4, <2>1, <3>1 DEF WatchInv, PageFits
    <3>3. QED
      BY <2>2, <2>3, <3>2 DEF WatchInv
  <2>5. CASE ~ \A i \in 1..Len(batch) : ~After(batch[i], cursor)
    <3>1. /\ \A i, j \in 1..Len(batch) : i < j => After(batch[j], batch[i])
          /\ \A x \in Rows : After(x, cursor) /\ x \notin ToSet(batch) =>
                            \A i \in 1..Len(batch) : After(x, batch[i])
      BY <1>1, <2>1, <2>5 DEF WatchInv, PageFits
    <3>2. \A i, j \in 1..Len(rest) : i < j => After(rest[j], rest[i])
      BY <1>2, <1>3, <3>1
    <3>3. \A x \in Rows : After(x, cursor) /\ x \notin ToSet(rest) =>
                          \A i \in 1..Len(rest) : After(x, rest[i])
      BY <1>2, <2>1, <3>1
    <3>4. PageFits'
      BY <1>1, <1>4, <2>1, <3>2, <3>3 DEF WatchInv, PageFits
    <3>5. QED
      BY <2>2, <2>3, <3>4 DEF WatchInv
  <2>6. QED
    BY <2>4, <2>5
<1>6. CASE ~Passes(r)
  <2>1. /\ got' = Append(got, r) /\ cursor' = r /\ start' = (IF start = None THEN r ELSE start)
        /\ phase' \in {"aborted", "yielding"}
    BY <1>6 DEF LooksAt, NextChange, r
  <2>2. /\ got' \in Seq(Changes) /\ got' # <<>> /\ Last(got') = r /\ r \in ToSet(got')
        /\ Len(got') = Len(got) + 1 /\ got'[Len(got')] = r
        /\ \A i \in 1..Len(got) : got'[i] = got[i]
        /\ \A x \in ToSet(got) : x \in ToSet(got')
    <3>1. got \in Seq(Changes)
      BY WatchFacts
    <3>2. QED
      BY <1>2, <2>1, <3>1, AppendTo
  <2>3. WatchTypeOK'
    BY <1>1, <1>2, <2>1, <2>2 DEF WatchInv, WatchTypeOK, Stopped
  <2>4. cursor = None \/ After(r, cursor)
    BY <1>6 DEF Passes
  <2>5. NoRepeats'
    <3>1. \A i \in 1..Len(got) : After(r, got[i])
      <4> SUFFICES ASSUME NEW i \in 1..Len(got) PROVE After(r, got[i])
        OBVIOUS
      <4>1. /\ got \in Seq(Changes) /\ got # <<>> /\ cursor = got[Len(got)] /\ got[i] \in Changes
            /\ cursor \in Changes /\ Len(got) \in 1..Len(got)
        BY WatchFacts DEF WatchInv, PageFits, Last
      <4>2. After(r, cursor) /\ got[i] \in Marks
        BY <2>4, <4>1, WatchFacts
      <4>3. i = Len(got) \/ After(cursor, got[i])
        BY <4>1 DEF WatchInv, NoRepeats
      <4>4. QED
        BY <1>4, <4>1, <4>2, <4>3, AfterIsAnOrder
    <3>2. got \in Seq(Changes) /\ Len(got) \in Nat
      BY WatchFacts
    <3> SUFFICES ASSUME NEW i \in 1..Len(got'), NEW j \in 1..Len(got'), i < j
                 PROVE  After(got'[j], got'[i])
      BY DEF NoRepeats
    <3>3. i \in 1..Len(got) /\ (j \in 1..Len(got) \/ j = Len(got'))
      BY <2>2, <3>2
    <3>4. CASE j \in 1..Len(got)
      BY <2>2, <3>3, <3>4 DEF WatchInv, NoRepeats
    <3>5. CASE j = Len(got')
      BY <2>2, <3>1, <3>3, <3>5
    <3>6. QED
      BY <3>3, <3>4, <3>5
  <2>6. CASE cursor = None
    <3>1. start = None /\ \A i, j \in 1..Len(batch) : i < j => After(batch[i], batch[j])
      BY <2>6 DEF WatchInv, PageFits
    <3>2. \A i \in 1..Len(rest) : After(r, rest[i])
      BY <1>2, <3>1
    <3>3. \A i \in 1..Len(rest) : ~After(rest[i], r)
      BY <1>4, <3>2, AfterIsAnOrder
    <3>4. NoGaps'
      BY <1>1, <2>1, <3>1 DEF NoGaps
    <3>5. PageFits'
      BY <1>1, <1>4, <2>1, <2>2, <3>1, <3>3 DEF WatchInv, PageFits
    <3>6. QED
      BY <2>3, <2>5, <3>4, <3>5 DEF WatchInv
  <2>7. CASE cursor # None
    <3>1. start # None /\ start' = start /\ After(r, cursor)
      BY <2>1, <2>4, <2>7 DEF WatchInv, PageFits
    <3>2. /\ \A i, j \in 1..Len(batch) : i < j => After(batch[j], batch[i])
          /\ \A x \in Rows : After(x, cursor) /\ x \notin ToSet(batch) =>
                            \A i \in 1..Len(batch) : After(x, batch[i])
      BY <1>1, <1>2, <2>7, <3>1 DEF WatchInv, PageFits
    <3>3. \A i, j \in 1..Len(rest) : i < j => After(rest[j], rest[i])
      BY <1>2, <1>3, <3>2
    <3>4. ASSUME NEW x \in Rows, After(x, r), x \notin ToSet(rest)
          PROVE  \A i \in 1..Len(rest) : After(x, rest[i])
      <4>1. x \in Marks
        BY WatchFacts
      <4>2. After(x, cursor) /\ x # r
        BY <1>4, <3>1, <3>4, <4>1, AfterIsAnOrder
      <4>3. QED
        BY <1>2, <3>2, <3>4, <4>2
    <3>5. PageFits'
      BY <1>1, <1>4, <2>1, <2>2, <3>1, <3>3, <3>4 DEF WatchInv, PageFits
    <3>6. NoGaps'
      <4> SUFFICES ASSUME NEW x \in Rows, After(x, start), ~After(x, r)
                   PROVE  x \in ToSet(got')
        BY <1>1, <2>1, <3>1 DEF NoGaps
      <4>1. CASE ~After(x, cursor)
        BY <2>2, <3>1, <4>1 DEF WatchInv, NoGaps
      <4>2. CASE After(x, cursor)
        <5>1. x \in ToSet(batch)
          BY <1>2, <3>2, <4>2
        <5>2. PICK i \in 1..Len(batch) : x = batch[i]
          BY <5>1, WatchFacts DEF ToSet
        <5>3. i = 1
          BY <1>2, <3>2, <5>2
        <5>4. QED
          BY <1>2, <2>2, <5>2, <5>3
      <4>3. QED
        BY <4>1, <4>2
    <3>7. QED
      BY <2>3, <2>5, <3>5, <3>6 DEF WatchInv
  <2>8. QED
    BY <2>6, <2>7
<1>7. QED
  BY <1>5, <1>6

(* The other steps move the watcher alone, and none of them to a page.     *)
LEMMA QuietWatchKeeps ==
  ASSUME WatchInv,
         HeadFails \/ FetchFails \/ PageEnds \/ SleepEnds \/ SignalAborts \/ Breaks
  PROVE  WatchInv'
<1>1. /\ UNCHANGED <<feed, clock, cursor, batch, full, got, start>> /\ Rows' = Rows
      /\ phase' \in {"head", "fetching", "yielding", "sleeping"} \cup Stopped
      /\ phase' \in {"head", "yielding"} => phase' = phase
      /\ signal' \in BOOLEAN
  BY DEF HeadFails, FetchFails, PageEnds, SleepEnds, SignalAborts, Breaks, NextPage, Stopped, Rows, Row,
         WatchInv, WatchTypeOK
<1>2. WatchTypeOK'
  BY <1>1 DEF WatchInv, WatchTypeOK
<1>3. NoRepeats' /\ NoGaps'
  BY <1>1 DEF WatchInv, NoRepeats, NoGaps
<1>4. PageFits'
  BY <1>1 DEF WatchInv, PageFits
<1>5. QED
  BY <1>2, <1>3, <1>4 DEF WatchInv

(* Whatever is detected while a page is looked at, however many changes    *)
(* share a time and whichever requests fail: the changes come in the order *)
(* of their detection, none twice, and the cursor passes none that was not *)
(* yielded (watchChanges).                                                 *)
THEOREM WatchInvHolds == WatchSpec => []WatchInv
<1>1. WatchInv /\ [WatchNext]_watchVars => WatchInv'
  <2> SUFFICES ASSUME WatchInv, [WatchNext]_watchVars PROVE WatchInv'
    OBVIOUS
  <2>1. CASE UNCHANGED watchVars
    <3>1. UNCHANGED <<feed, clock, phase, cursor, batch, full, got, signal, start>> /\ Rows' = Rows
      BY <2>1 DEF watchVars, Rows, Row
    <3>2. WatchTypeOK' /\ NoRepeats' /\ NoGaps' /\ PageFits'
      BY <3>1 DEF WatchInv, WatchTypeOK, NoRepeats, NoGaps, PageFits
    <3>3. QED
      BY <3>2 DEF WatchInv
  <2>2. QED
    BY <2>1, DetectsKeeps, HeadReadKeeps, FetchesKeeps, LooksAtKeeps, QuietWatchKeeps
       DEF WatchNext, WatcherMoves
<1>2. QED
  BY <1>1, WatchInitInv, PTL DEF WatchSpec

-----------------------------------------------------------------------------
(* The transport                                                           *)

USE MaxAttemptsAssumption, RequestsAssumption

-----------------------------------------------------------------------------
(* What an operation asks of the transport *)

(* An error status is an answer only to an operation of the daemon.        *)
Shape(v) ==
  /\ v.also \subseteq {409, 504}
  /\ v.lane \in {"local", "metered", "keyless"}
  /\ v.also # {} => v.lane = "local"

LEMMA VerbShape ==
  /\ \A api, method, names : \A v \in Local(api, method, names) : Shape(v)
  /\ \A api, method, names : \A v \in Metered(api, method, names) : Shape(v)
  /\ \A api, method, names : \A v \in Verb(api, method, {}, "keyless", names) : Shape(v)
  /\ \A api, method, names : \A v \in Verb(api, method, {409}, "local", names) : Shape(v)
  /\ \A api, method, names : \A v \in Verb(api, method, {504}, "local", names) : Shape(v)
  /\ \A api : \A v \in Resource(api) : Shape(v)
  /\ \A api : \A v \in CloudResource(api) : Shape(v)
<1>1. /\ \A api, method, names : \A v \in Local(api, method, names) : Shape(v)
      /\ \A api, method, names : \A v \in Metered(api, method, names) : Shape(v)
      /\ \A api, method, names : \A v \in Verb(api, method, {}, "keyless", names) : Shape(v)
      /\ \A api, method, names : \A v \in Verb(api, method, {409}, "local", names) : Shape(v)
      /\ \A api, method, names : \A v \in Verb(api, method, {504}, "local", names) : Shape(v)
  BY DEF Local, Metered, Verb, Shape
<1>2. /\ \A api : \A v \in Resource(api) : Shape(v)
      /\ \A api : \A v \in CloudResource(api) : Shape(v)
  BY <1>1 DEF Resource, CloudResource
<1>3. QED
  BY <1>1, <1>2

LEMMA LocalShape == \A v \in LocalVerbs : Shape(v)
<1>1. /\ \A v \in AgentApi : Shape(v)
      /\ \A v \in VaultApi : Shape(v)
      /\ \A v \in WsTicket : Shape(v)
      /\ \A v \in DatasetsApi : Shape(v)
  BY VerbShape DEF AgentApi, VaultApi, WsTicket, DatasetsApi
<1>2. /\ \A v \in RunsApi : Shape(v)
      /\ \A v \in WorkflowsApi : Shape(v)
      /\ \A v \in CrawlApi : Shape(v)
  <2>1. \A v \in RunsApi : Shape(v)
    BY VerbShape DEF RunsApi
  <2>2. \A v \in WorkflowsApi : Shape(v)
    <3> SUFFICES ASSUME NEW v \in WorkflowsApi PROVE Shape(v)
      OBVIOUS
    <3>0. \A api, method, names : \A w \in Verb(api, method, {504}, "local", names) : Shape(w)
      BY VerbShape
    <3>1. CASE v \in Verb("workflows", "POST", {504}, "local", {"run and wait"})
      BY <3>0, <3>1
    <3>2. CASE v \in Verb("workflows", "POST", {409}, "local", {"cancel"})
      BY <3>2, VerbShape
    <3>3. CASE \/ v \in Resource("workflows")
               \/ \E method, names : v \in Local("workflows", method, names)
      BY <3>3, VerbShape
    <3>4. QED
      BY <3>1, <3>2, <3>3 DEF WorkflowsApi
  <2>3. \A v \in CrawlApi : Shape(v)
    <3> SUFFICES ASSUME NEW v \in CrawlApi PROVE Shape(v)
      OBVIOUS
    <3>0. \A api, method, names : \A w \in Verb(api, method, {504}, "local", names) : Shape(w)
      BY VerbShape
    <3>1. CASE v \in Verb("crawl", "POST", {504}, "local", {"runSaved and wait"})
      BY <3>0, <3>1
    <3>2. CASE \E method, names : v \in Local("crawl", method, names)
      BY <3>2, VerbShape
    <3>3. QED
      BY <3>1, <3>2 DEF CrawlApi
  <2>4. QED
    BY <2>1, <2>2, <2>3
<1>3. /\ \A v \in MonitorsApi : Shape(v)
      /\ \A v \in SelectorsApi : Shape(v)
      /\ \A v \in ExtractorsApi : Shape(v)
      /\ \A v \in AutomationsApi : Shape(v)
      /\ \A v \in PersonasApi : Shape(v)
  BY VerbShape DEF MonitorsApi, SelectorsApi, ExtractorsApi, AutomationsApi, PersonasApi
<1>4. /\ \A v \in SecretsApi : Shape(v)
      /\ \A v \in FilesApi : Shape(v)
      /\ \A v \in DataApi : Shape(v)
      /\ \A v \in KeysApi : Shape(v)
  BY VerbShape DEF SecretsApi, FilesApi, DataApi, KeysApi
<1>5. QED
  BY <1>1, <1>2, <1>3, <1>4 DEF LocalVerbs

LEMMA CloudShape == \A v \in CloudVerbs : Shape(v)
<1>1. /\ \A v \in CloudMonitors : Shape(v)
      /\ \A v \in CloudAutomations : Shape(v)
      /\ \A v \in CloudPersonas : Shape(v)
  BY VerbShape DEF CloudMonitors, CloudAutomations, CloudPersonas
<1>2. /\ \A v \in CloudBuilds : Shape(v)
      /\ \A v \in CloudCrawls : Shape(v)
      /\ \A v \in KeylessVerbs : Shape(v)
  BY VerbShape DEF CloudBuilds, CloudCrawls, KeylessVerbs
<1>3. QED
  BY <1>1, <1>2 DEF CloudVerbs

LEMMA SendableShape ==
  ASSUME NEW q \in Sendable
  PROVE  /\ q.safe \in BOOLEAN /\ q.also \subseteq {409, 504}
         /\ q.lane \in {"local", "metered", "keyless"}
         /\ q.also # {} => IsLocal(q)
<1>1. PICK v \in Verbs : q = Request(v)
  BY DEF Sendable
<1>2. Shape(v)
  BY LocalShape, CloudShape DEF Verbs
<1>3. q.safe = (v.method \in SafeMethods) /\ q.also = v.also /\ q.lane = v.lane
  BY <1>1 DEF Request
<1>4. QED
  BY <1>2, <1>3 DEF Shape, IsLocal

LEMMA VerbIsSendable ==
  ASSUME NEW v \in Verbs
  PROVE  Request(v) \in Sendable
BY DEF Sendable

-----------------------------------------------------------------------------
(* The records of a call and of its attempt *)

LEMMA AttemptsBounded ==
  ASSUME NEW q
  PROVE  Attempts(q) \in 1..MaxAttempts
BY DEF Attempts

LEMMA IdleFields ==
  /\ Idle \in CallRecords
  /\ Idle.phase = "idle" /\ Idle.request = NoRequest /\ Idle.tries = 0 /\ Idle.key = "none"
  /\ Idle.outcome = "none" /\ ~Idle.token
<1> DEFINE Phases == {"idle", "connecting", "sent", "waiting", "done"}
           zero == 0
           Rec(ph, q, n, key, o) ==
             [phase |-> ph, request |-> q, tries |-> n, key |-> key, outcome |-> o, token |-> FALSE]
<1>1. ASSUME NEW ph \in Phases, NEW q \in Sendable \cup {NoRequest}, NEW n \in 0..MaxAttempts,
             NEW key \in Requests \cup {"none"}, NEW o \in Outcomes
      PROVE  LET k == Rec(ph, q, n, key, o)
             IN  /\ k \in CallRecords
                 /\ k.phase = ph /\ k.request = q /\ k.tries = n /\ k.key = key
                 /\ k.outcome = o /\ ~k.token
  BY DEF CallRecords
<1>2. Idle = Rec("idle", NoRequest, zero, "none", "none")
  BY DEF Idle
<1>3. zero \in 0..MaxAttempts /\ "idle" \in Phases /\ "none" \in Outcomes
  BY DEF Outcomes
<1>4. NoRequest \in Sendable \cup {NoRequest} /\ "none" \in Requests \cup {"none"}
  OBVIOUS
<1> HIDE DEF Rec, Phases, zero
<1>5. LET k == Rec("idle", NoRequest, zero, "none", "none")
      IN  /\ k \in CallRecords
          /\ k.phase = "idle" /\ k.request = NoRequest /\ k.tries = zero /\ k.key = "none"
          /\ k.outcome = "none" /\ ~k.token
  BY <1>1, <1>3, <1>4
<1>6. QED
  BY <1>2, <1>5 DEF zero

LEMMA CalledFields ==
  ASSUME NEW r \in Requests, NEW q \in Sendable
  PROVE  LET k == Called(r, q)
         IN  /\ k \in CallRecords
             /\ k.phase = "idle" /\ k.request = q /\ k.tries = 0 /\ k.key = IdempotencyKey(r, q)
             /\ k.outcome = "none" /\ ~k.token
<1>1. IdempotencyKey(r, q) \in Requests \cup {"none"}
  BY DEF IdempotencyKey
<1>2. ASSUME NEW k \in CallRecords, NEW key \in Requests \cup {"none"}
      PROVE  LET n == [k EXCEPT !.request = q, !.key = key]
             IN  /\ n \in CallRecords
                 /\ n.phase = k.phase /\ n.request = q /\ n.tries = k.tries /\ n.key = key
                 /\ n.outcome = k.outcome /\ n.token = k.token
  BY DEF CallRecords
<1>3. QED
  BY <1>1, <1>2, IdleFields DEF Called

LEMMA PhaseFields ==
  ASSUME NEW k \in CallRecords, NEW ph \in {"idle", "connecting", "sent", "waiting", "done"}
  PROVE  LET n == [k EXCEPT !.phase = ph]
         IN  /\ n \in CallRecords
             /\ n.phase = ph /\ n.request = k.request /\ n.tries = k.tries /\ n.key = k.key
             /\ n.outcome = k.outcome /\ n.token = k.token
BY DEF CallRecords

LEMMA AttemptFields ==
  ASSUME NEW k \in CallRecords, k.tries < MaxAttempts
  PROVE  LET n == Attempt(k)
         IN  /\ n \in CallRecords
             /\ n.phase = "sent" /\ n.request = k.request /\ n.tries = k.tries + 1 /\ n.key = k.key
             /\ n.outcome = k.outcome /\ n.token = k.token
<1>1. k.tries + 1 \in 0..MaxAttempts /\ "sent" \in {"idle", "connecting", "sent", "waiting", "done"}
  BY DEF CallRecords
<1>2. QED
  BY <1>1 DEF CallRecords, Attempt

LEMMA EndFields ==
  ASSUME NEW k \in CallRecords, NEW o \in Outcomes
  PROVE  LET n == End(k, o)
         IN  /\ n \in CallRecords
             /\ n.phase = "done" /\ n.request = k.request /\ n.tries = k.tries /\ n.key = k.key
             /\ n.outcome = o /\ n.token = k.token
<1>1. "done" \in {"idle", "connecting", "sent", "waiting", "done"}
  OBVIOUS
<1>2. QED
  BY <1>1 DEF CallRecords, End

LEMMA TokenFields ==
  ASSUME NEW k \in CallRecords, NEW t \in BOOLEAN
  PROVE  LET n == [k EXCEPT !.token = t]
         IN  /\ n \in CallRecords
             /\ n.phase = k.phase /\ n.request = k.request /\ n.tries = k.tries /\ n.key = k.key
             /\ n.outcome = k.outcome /\ (n.token <=> t)
BY DEF CallRecords

LEMMA OnWireFields ==
  ASSUME NEW k \in CallRecords
  PROVE  LET w == OnWire(k)
         IN  w \in WireRecords /\ w.at = "out" /\ w.key = k.key /\ ~w.token
BY DEF CallRecords, WireRecords, OnWire, Statuses

LEMMA QuietFields == Quiet \in WireRecords /\ Quiet.at = "none" /\ ~Quiet.token
BY DEF WireRecords, Quiet, Statuses

Back(w, status, minted) == [w EXCEPT !.at = "back", !.status = status, !.token = minted]

LEMMA BackFields ==
  ASSUME NEW w \in WireRecords, NEW status \in Statuses, NEW minted \in BOOLEAN
  PROVE  LET n == Back(w, status, minted)
         IN  /\ n \in WireRecords
             /\ n.at = "back" /\ n.status = status /\ n.key = w.key /\ (n.token <=> minted)
<1>1. "back" \in {"none", "out", "blocked", "back"}
  OBVIOUS
<1>2. QED
  BY <1>1 DEF WireRecords, Back

LEMMA BlockedFields ==
  ASSUME NEW w \in WireRecords
  PROVE  LET n == [w EXCEPT !.at = "blocked"]
         IN  /\ n \in WireRecords
             /\ n.at = "blocked" /\ n.status = w.status /\ n.key = w.key /\ n.token = w.token
<1>1. "blocked" \in {"none", "out", "blocked", "back"}
  OBVIOUS
<1>2. QED
  BY <1>1 DEF WireRecords

-----------------------------------------------------------------------------
(* The invariant, call by call *)

OutcomeFits(r) ==
  Done(r) =>
    /\ (req[r].outcome = "ok" /\ 409 \notin req[r].request.also) => executed[r] > 0
    /\ req[r].outcome = "still_running" => executed[r] > 0
    /\ req[r].outcome \in {"not_sent", "discovery"} => executed[r] = 0

CallFits(r) ==
  /\ PhaseFits(r) /\ WireFits(r) /\ KeyFits(r)
  /\ OutcomeFits(r) /\ (Unsafe(r) => executed[r] <= 1)

LEMMA InvByCall ==
  /\ RequestsInv => /\ TypeOK /\ DiscoveryIsShared /\ DeviceTokenIsKept
                    /\ \A r \in Requests : CallFits(r)
  /\ TypeOK' /\ DiscoveryIsShared' /\ DeviceTokenIsKept' /\ (\A r \in Requests : CallFits(r)')
       => RequestsInv'
BY DEF RequestsInv, CallFits, OutcomeFits, OutcomeIsTrue, ExecutedAtMostOnce, Unsafe

(* A step that leaves a call, its attempt and its key alone.               *)
LEMMA OtherFits ==
  ASSUME NEW s \in Requests, CallFits(s), hasKey' = hasKey, req'[s] = req[s], wire'[s] = wire[s],
         executed'[s] = executed[s], answered'[s] = answered[s]
  PROVE  CallFits(s)'
BY DEF CallFits, PhaseFits, WireFits, KeyFits, OutcomeFits, Unsafe, NotSent, Done

(* A step of one call, which joins no discovery.                           *)
LEMMA OneCall ==
  ASSUME RequestsInv, TypeOK', NEW r \in Requests, CallFits(r)',
         UNCHANGED <<conn, probing, hasKey>>,
         \A s \in Requests : s # r => /\ req'[s] = req[s] /\ wire'[s] = wire[s]
                                      /\ executed'[s] = executed[s] /\ answered'[s] = answered[s],
         req'[r].phase # "connecting",
         device' \in {device, "issued"},
         Done(r)' /\ req'[r].token => (Done(r) /\ req[r].token) \/ device' = "issued"
  PROVE  RequestsInv'
<1>1. \A s \in Requests : CallFits(s)'
  BY InvByCall, OtherFits
<1>2. DiscoveryIsShared'
  <2>1. Connecting' \subseteq Connecting
    BY DEF Connecting
  <2>2. QED
    BY <2>1 DEF RequestsInv, DiscoveryIsShared
<1>3. DeviceTokenIsKept'
  BY DEF RequestsInv, DeviceTokenIsKept, Done
<1>4. QED
  BY <1>1, <1>2, <1>3, InvByCall

LEMMA InitRequests == Init => RequestsInv
<1> SUFFICES ASSUME Init PROVE RequestsInv
  OBVIOUS
<1>1. \A r \in Requests : req[r] = Idle /\ wire[r] = Quiet /\ executed[r] = 0 /\ answered[r] = 0
  BY DEF Init
<1>2. TypeOK
  <2>1. 0 \in 0..MaxAttempts
    OBVIOUS
  <2>2. req \in [Requests -> CallRecords] /\ wire \in [Requests -> WireRecords]
    BY IdleFields, QuietFields DEF Init
  <2>3. executed \in [Requests -> 0..MaxAttempts] /\ answered \in [Requests -> {0} \cup Carried]
    BY <2>1 DEF Init
  <2>4. QED
    BY <2>2, <2>3 DEF Init, TypeOK
<1>3. DiscoveryIsShared /\ DeviceTokenIsKept
  BY <1>1, IdleFields DEF Init, DiscoveryIsShared, DeviceTokenIsKept, Connecting, Done
<1>4. OutcomeIsTrue /\ ExecutedAtMostOnce
  BY <1>1, IdleFields DEF OutcomeIsTrue, ExecutedAtMostOnce, Done
<1>5. \A r \in Requests : PhaseFits(r) /\ WireFits(r) /\ KeyFits(r)
  BY <1>1, IdleFields, QuietFields DEF PhaseFits, WireFits, KeyFits, Unsafe
<1>6. QED
  BY <1>2, <1>3, <1>4, <1>5 DEF RequestsInv

-----------------------------------------------------------------------------
(* Sending *)

(* An attempt of a call that has some left is sent. *)
LEMMA SentFits ==
  ASSUME NEW r \in Requests, NEW k \in CallRecords, NEW q \in Sendable,
         TypeOK, CallFits(r), hasKey' = hasKey,
         k.request = q, k.key = IdempotencyKey(r, q), k.outcome = "none", ~k.token,
         k.tries < Attempts(q),
         q.safe \/ ~IsLocal(q) \/ executed[r] = 0,
         req[r].phase = "idle" \/ req[r].request = q, req[r].phase = "idle" => executed[r] = 0,
         req'[r] = Attempt(k), wire'[r] = OnWire(k),
         executed'[r] = executed[r], answered'[r] = answered[r]
  PROVE  CallFits(r)' /\ req'[r] \in CallRecords /\ wire'[r] \in WireRecords
         /\ req'[r].phase = "sent"
<1>1. k.tries < MaxAttempts /\ k.tries \in Nat
  BY AttemptsBounded DEF CallRecords
<1>2. /\ req'[r] \in CallRecords
      /\ req'[r].phase = "sent" /\ req'[r].request = q /\ req'[r].tries = k.tries + 1
      /\ req'[r].key = k.key /\ req'[r].outcome = "none" /\ ~req'[r].token
  BY <1>1, AttemptFields
<1>3. wire'[r] \in WireRecords /\ wire'[r].at = "out" /\ wire'[r].key = k.key /\ ~wire'[r].token
  BY OnWireFields
<1>4. PhaseFits(r)'
  BY <1>1, <1>2, <1>3 DEF PhaseFits, NotSent
<1>5. WireFits(r)'
  BY <1>2, <1>3 DEF WireFits
<1>6. executed[r] \in Nat
  BY DEF TypeOK
<1>7. KeyFits(r)' /\ (Unsafe(r)' => executed'[r] <= 1)
  BY <1>2, <1>3, <1>6 DEF CallFits, KeyFits, Unsafe
<1>8. QED
  BY <1>2, <1>3, <1>4, <1>5, <1>7 DEF CallFits, OutcomeFits, Done

LEMMA CallStep ==
  ASSUME RequestsInv, NEW r \in Requests, Call(r)
  PROVE  RequestsInv'
<1>0. TypeOK /\ CallFits(r)
  BY InvByCall
<1>1. PICK v \in Verbs : CallRefused(r, v) \/ CallSent(r, v) \/ CallConnects(r, v)
  BY DEF Call
<1> DEFINE q == Request(v)  k == Called(r, q)
<1>2. q \in Sendable
  BY VerbIsSendable
<1> HIDE DEF q
<1>3. /\ k \in CallRecords
      /\ k.phase = "idle" /\ k.request = q /\ k.tries = 0 /\ k.key = IdempotencyKey(r, q)
      /\ k.outcome = "none" /\ ~k.token
  BY <1>2, CalledFields
<1> HIDE DEF k
<1>4. req[r].phase = "idle"
  BY <1>1 DEF CallRefused, CallSent, CallConnects
<1>5. executed[r] = 0 /\ wire[r].at = "none" /\ answered[r] = 0
  BY <1>0, <1>4 DEF CallFits, PhaseFits, NotSent, KeyFits, TypeOK, Carried
<1>6. CASE CallRefused(r, v)
  <2>1. /\ req' = [req EXCEPT ![r] = End(k, "not_sent")]
        /\ UNCHANGED <<wire, conn, probing, hasKey, device, executed, answered>>
    BY <1>6 DEF CallRefused, k, q
  <2>2. "not_sent" \in Outcomes
    BY DEF Outcomes
  <2>3. req'[r] = End(k, "not_sent")
    BY <1>0, <2>1 DEF TypeOK
  <2>4. /\ req'[r] \in CallRecords
        /\ req'[r].phase = "done" /\ req'[r].request = q /\ req'[r].key = IdempotencyKey(r, q)
        /\ req'[r].outcome = "not_sent" /\ ~req'[r].token
    BY <1>3, <2>2, <2>3, EndFields
  <2>5. TypeOK'
    BY <1>0, <2>1, <2>3, <2>4 DEF TypeOK
  <2>6. wire'[r] = wire[r] /\ executed'[r] = 0 /\ answered'[r] = 0
    BY <1>5, <2>1
  <2>7. CallFits(r)'
    <3>1. PhaseFits(r)'
      BY <1>2, <1>5, <2>4, <2>6 DEF PhaseFits
    <3>2. WireFits(r)'
      <4>1. ~wire[r].token
        BY <1>0, <1>5 DEF CallFits, WireFits
      <4>2. QED
        BY <1>5, <2>4, <2>6, <4>1 DEF WireFits
    <3>3. KeyFits(r)' /\ OutcomeFits(r)' /\ (Unsafe(r)' => executed'[r] <= 1)
      BY <1>5, <2>4, <2>6 DEF KeyFits, OutcomeFits
    <3>4. QED
      BY <3>1, <3>2, <3>3 DEF CallFits
  <2>8. QED
    BY <1>0, <2>1, <2>4, <2>5, <2>7, OneCall DEF TypeOK, Done
<1>7. CASE CallSent(r, v)
  <2>1. /\ req' = [req EXCEPT ![r] = Attempt(k)] /\ wire' = [wire EXCEPT ![r] = OnWire(k)]
        /\ UNCHANGED <<conn, probing, hasKey, device, executed, answered>>
    BY <1>7 DEF CallSent, k, q
  <2>2. req'[r] = Attempt(k) /\ wire'[r] = OnWire(k)
    BY <1>0, <2>1 DEF TypeOK
  <2>3. k.tries < Attempts(q)
    BY <1>3, AttemptsBounded
  <2>4. CallFits(r)' /\ req'[r] \in CallRecords /\ wire'[r] \in WireRecords /\ req'[r].phase = "sent"
    BY <1>0, <1>2, <1>3, <1>4, <1>5, <2>1, <2>2, <2>3, SentFits
  <2>5. TypeOK'
    BY <1>0, <2>1, <2>2, <2>4 DEF TypeOK
  <2>6. QED
    BY <1>0, <2>1, <2>4, <2>5, OneCall DEF TypeOK, Done
<1>8. CASE CallConnects(r, v)
  <2>1. /\ req' = [req EXCEPT ![r] = [k EXCEPT !.phase = "connecting"]]
        /\ conn' = "pending" /\ conn # "up" /\ IsLocal(q)
        /\ probing' = IF conn = "none" THEN probing + 1 ELSE probing
        /\ UNCHANGED <<wire, hasKey, device, executed, answered>>
    BY <1>8 DEF CallConnects, k, q
  <2>2. /\ req'[r] = [k EXCEPT !.phase = "connecting"]
        /\ \A s \in Requests : s # r => req'[s] = req[s]
    BY <1>0, <2>1 DEF TypeOK
  <2>3. /\ req'[r] \in CallRecords
        /\ req'[r].phase = "connecting" /\ req'[r].request = q /\ req'[r].tries = 0
        /\ req'[r].key = IdempotencyKey(r, q) /\ req'[r].outcome = "none" /\ ~req'[r].token
    <3>1. "connecting" \in {"idle", "connecting", "sent", "waiting", "done"}
      OBVIOUS
    <3>2. LET n == [k EXCEPT !.phase = "connecting"]
          IN  /\ n \in CallRecords
              /\ n.phase = "connecting" /\ n.request = k.request /\ n.tries = k.tries /\ n.key = k.key
              /\ n.outcome = k.outcome /\ n.token = k.token
      BY <1>3, <3>1, PhaseFields
    <3>3. QED
      BY <1>3, <2>2, <3>2
  <2>4. TypeOK'
    BY <1>0, <2>1, <2>2, <2>3 DEF TypeOK
  <2>5. wire'[r] = wire[r] /\ executed'[r] = 0 /\ answered'[r] = 0
    BY <1>5, <2>1
  <2>6. CallFits(r)'
    <3>1. PhaseFits(r)'
      BY <1>2, <1>5, <2>3, <2>5 DEF PhaseFits
    <3>2. WireFits(r)'
      <4>1. ~wire[r].token
        BY <1>0, <1>5 DEF CallFits, WireFits
      <4>2. QED
        BY <1>5, <2>3, <2>5, <4>1 DEF WireFits
    <3>3. KeyFits(r)' /\ OutcomeFits(r)' /\ (Unsafe(r)' => executed'[r] <= 1)
      BY <1>5, <2>3, <2>5 DEF KeyFits, OutcomeFits, Done
    <3>4. QED
      BY <3>1, <3>2, <3>3 DEF CallFits
  <2>7. \A s \in Requests : CallFits(s)'
    BY <2>1, <2>2, <2>6, InvByCall, OtherFits
  <2>8. DiscoveryIsShared'
    BY <1>0, <2>1 DEF RequestsInv, DiscoveryIsShared, TypeOK
  <2>9. DeviceTokenIsKept'
    BY <2>1, <2>2, <2>3 DEF RequestsInv, DeviceTokenIsKept, Done
  <2>10. QED
    BY <2>4, <2>7, <2>8, <2>9, InvByCall
<1>9. QED
  BY <1>1, <1>6, <1>7, <1>8

-----------------------------------------------------------------------------
(* Discovery *)

LEMMA ConnectingFields ==
  ASSUME RequestsInv, NEW r \in Connecting
  PROVE  /\ r \in Requests /\ req[r] \in CallRecords /\ req[r].request \in Sendable
         /\ req[r].key = IdempotencyKey(r, req[r].request)
         /\ req[r].tries = 0 /\ req[r].outcome = "none" /\ ~req[r].token
         /\ req[r].phase = "connecting"
         /\ executed[r] = 0 /\ answered[r] = 0 /\ wire[r].at = "none" /\ ~wire[r].token
<1>1. r \in Requests /\ req[r].phase = "connecting"
  BY DEF Connecting
<1>2. TypeOK /\ PhaseFits(r) /\ WireFits(r) /\ KeyFits(r)
  BY <1>1 DEF RequestsInv
<1>3. executed[r] = 0 /\ wire[r].at = "none"
  BY <1>1, <1>2 DEF PhaseFits, NotSent
<1>4. QED
  BY <1>1, <1>2, <1>3 DEF PhaseFits, WireFits, KeyFits, TypeOK, Carried

LEMMA DaemonFoundStep ==
  ASSUME RequestsInv, DaemonFound
  PROVE  RequestsInv'
<1>0. TypeOK /\ DiscoveryIsShared /\ DeviceTokenIsKept
  BY InvByCall
<1>1. \A r \in Requests :
        IF r \in Connecting THEN req'[r] = Attempt(req[r]) /\ wire'[r] = OnWire(req[r])
        ELSE req'[r] = req[r] /\ wire'[r] = wire[r]
  BY DEF DaemonFound
<1>2. \A r \in Connecting :
        CallFits(r)' /\ req'[r] \in CallRecords /\ wire'[r] \in WireRecords /\ req'[r].phase = "sent"
  <2> SUFFICES ASSUME NEW r \in Connecting
               PROVE  CallFits(r)' /\ req'[r] \in CallRecords /\ wire'[r] \in WireRecords
                      /\ req'[r].phase = "sent"
    OBVIOUS
  <2>1. /\ r \in Requests /\ req[r] \in CallRecords /\ req[r].request \in Sendable
        /\ req[r].key = IdempotencyKey(r, req[r].request)
        /\ req[r].tries = 0 /\ req[r].outcome = "none" /\ ~req[r].token /\ executed[r] = 0
    BY ConnectingFields
  <2>2. req[r].tries < Attempts(req[r].request)
    BY <2>1, AttemptsBounded
  <2>3. CallFits(r)
    BY <2>1, InvByCall
  <2>4. UNCHANGED <<hasKey, executed, answered>>
    BY DEF DaemonFound
  <2>5. QED
    BY <1>0, <1>1, <2>1, <2>2, <2>3, <2>4, SentFits
<1>3. \A r \in Requests : CallFits(r)'
  BY <1>1, <1>2, InvByCall, OtherFits DEF DaemonFound
<1>4. TypeOK'
  <2>1. \A r \in Requests : req'[r] \in CallRecords /\ wire'[r] \in WireRecords
    BY <1>0, <1>1, <1>2 DEF TypeOK
  <2>2. req' \in [Requests -> CallRecords] /\ wire' \in [Requests -> WireRecords]
    BY <2>1 DEF DaemonFound
  <2>3. probing' \in Nat
    BY <1>0 DEF TypeOK, DaemonFound
  <2>4. QED
    BY <1>0, <2>2, <2>3 DEF TypeOK, DaemonFound
<1>5. DiscoveryIsShared'
  <2>1. \A r \in Requests : req'[r].phase # "connecting"
    BY <1>1, <1>2 DEF Connecting
  <2>2. QED
    BY <1>0, <2>1 DEF DiscoveryIsShared, DaemonFound, Connecting
<1>6. DeviceTokenIsKept'
  BY <1>0, <1>1, <1>2 DEF DeviceTokenIsKept, Done, DaemonFound
<1>7. QED
  BY <1>3, <1>4, <1>5, <1>6, InvByCall

LEMMA NoDaemonFoundStep ==
  ASSUME RequestsInv, NoDaemonFound
  PROVE  RequestsInv'
<1>0. TypeOK /\ DiscoveryIsShared /\ DeviceTokenIsKept
  BY InvByCall
<1>1. \A r \in Requests : req'[r] = IF r \in Connecting THEN End(req[r], "discovery") ELSE req[r]
  BY DEF NoDaemonFound
<1>2. \A r \in Connecting : CallFits(r)' /\ req'[r] \in CallRecords /\ req'[r].phase = "done" /\ ~req'[r].token
  <2> SUFFICES ASSUME NEW r \in Connecting
               PROVE  CallFits(r)' /\ req'[r] \in CallRecords /\ req'[r].phase = "done" /\ ~req'[r].token
    OBVIOUS
  <2>1. /\ r \in Requests /\ req[r] \in CallRecords /\ req[r].request \in Sendable
        /\ req[r].key = IdempotencyKey(r, req[r].request) /\ ~req[r].token
        /\ executed[r] = 0 /\ answered[r] = 0 /\ wire[r].at = "none" /\ ~wire[r].token
    BY ConnectingFields
  <2>2. "discovery" \in Outcomes
    BY DEF Outcomes
  <2>3. /\ req'[r] \in CallRecords
        /\ req'[r].phase = "done" /\ req'[r].request = req[r].request /\ req'[r].key = req[r].key
        /\ req'[r].outcome = "discovery" /\ ~req'[r].token
    BY <1>1, <2>1, <2>2, EndFields
  <2>4. UNCHANGED <<wire, hasKey, executed, answered>>
    BY DEF NoDaemonFound
  <2>5. PhaseFits(r)'
    BY <2>1, <2>3, <2>4 DEF PhaseFits
  <2>6. WireFits(r)'
    BY <2>1, <2>3, <2>4 DEF WireFits
  <2>7. KeyFits(r)' /\ OutcomeFits(r)' /\ (Unsafe(r)' => executed'[r] <= 1)
    BY <2>1, <2>3, <2>4 DEF KeyFits, OutcomeFits
  <2>8. QED
    BY <2>3, <2>5, <2>6, <2>7 DEF CallFits
<1>3. \A r \in Requests : CallFits(r)'
  BY <1>1, <1>2, InvByCall, OtherFits DEF NoDaemonFound
<1>4. TypeOK'
  <2>1. \A r \in Requests : req'[r] \in CallRecords
    BY <1>0, <1>1, <1>2 DEF TypeOK
  <2>2. req' \in [Requests -> CallRecords]
    BY <2>1 DEF NoDaemonFound
  <2>3. probing' \in Nat
    BY <1>0 DEF TypeOK, NoDaemonFound
  <2>4. QED
    BY <1>0, <2>2, <2>3 DEF TypeOK, NoDaemonFound
<1>5. DiscoveryIsShared'
  <2>1. \A r \in Requests : req'[r].phase # "connecting"
    BY <1>1, <1>2 DEF Connecting
  <2>2. QED
    BY <1>0, <2>1 DEF DiscoveryIsShared, NoDaemonFound, Connecting
<1>6. DeviceTokenIsKept'
  BY <1>0, <1>1, <1>2 DEF DeviceTokenIsKept, Done, NoDaemonFound
<1>7. QED
  BY <1>3, <1>4, <1>5, <1>6, InvByCall

-----------------------------------------------------------------------------
(* What a caller hears, and its timers *)

(* A call in flight ends or waits, and its attempt is heard or given up.   *)
LEMMA CallerStep ==
  ASSUME RequestsInv, NEW r \in Requests, InFlight(r), NEW k \in CallRecords, NEW w \in WireRecords,
         req' = [req EXCEPT ![r] = k], wire' = [wire EXCEPT ![r] = w],
         UNCHANGED <<conn, probing, hasKey, executed, answered>>,
         k.request = req[r].request, k.key = req[r].key,
         w = Quiet \/ (w = wire[r] /\ k.phase = "done"),
         \/ /\ k.phase = "done" /\ k.outcome \notin {"not_sent", "discovery"}
            /\ (k.outcome = "ok" /\ 409 \notin k.request.also) \/ k.outcome = "still_running"
               => executed[r] > 0
         \/ /\ k.phase = "waiting" /\ k.tries > 0 /\ k.tries < Attempts(k.request)
            /\ k.outcome = "none" /\ ~k.token /\ w = Quiet,
         device' \in {device, "issued"}, k.token => device' = "issued"
  PROVE  RequestsInv'
<1>0. TypeOK /\ CallFits(r)
  BY InvByCall
<1>1. req'[r] = k /\ wire'[r] = w
  BY <1>0 DEF TypeOK
<1>2. TypeOK'
  BY <1>0 DEF TypeOK
<1>3. req[r].phase # "idle" /\ req[r].phase # "connecting" /\ req[r].phase # "done"
  BY DEF InFlight
<1>4. /\ k.request \in Sendable /\ k.key = IdempotencyKey(r, k.request)
      /\ Unsafe(r) <=> ~k.request.safe
  BY <1>0, <1>3 DEF CallFits, PhaseFits, Unsafe
<1>5. /\ k.phase \in {"done", "waiting"}
      /\ k.phase = "waiting" => k.outcome = "none"
  OBVIOUS
<1>6. PhaseFits(r)'
  BY <1>1, <1>4, <1>5, QuietFields DEF PhaseFits, NotSent
<1>7. WireFits(r)'
  BY <1>0, <1>1, QuietFields DEF CallFits, WireFits
<1>8. KeyFits(r)'
  BY <1>0, <1>1, <1>4, <1>5, QuietFields DEF CallFits, KeyFits, Unsafe
<1>9. OutcomeFits(r)' /\ (Unsafe(r)' => executed'[r] <= 1)
  BY <1>0, <1>1, <1>4, <1>5 DEF CallFits, OutcomeFits, Unsafe, Done
<1>10. CallFits(r)'
  BY <1>6, <1>7, <1>8, <1>9 DEF CallFits
<1>11. \A s \in Requests : s # r => /\ req'[s] = req[s] /\ wire'[s] = wire[s]
                                    /\ executed'[s] = executed[s] /\ answered'[s] = answered[s]
  BY <1>0 DEF TypeOK
<1>12. QED
  BY <1>1, <1>2, <1>5, <1>10, <1>11, OneCall

LEMMA AnswerEndsStep ==
  ASSUME RequestsInv, NEW r \in Requests, NEW patient \in BOOLEAN, NEW readable \in BOOLEAN,
         AnswerEnds(r, patient, readable)
  PROVE  RequestsInv'
<1> DEFINE q == req[r].request
           outcome == IF readable THEN Outcome(q, wire[r].status) ELSE "connection"
           k == [End(req[r], outcome) EXCEPT !.token = wire[r].token]
<1>0. TypeOK /\ CallFits(r) /\ req[r] \in CallRecords /\ wire[r] \in WireRecords
  BY InvByCall DEF TypeOK
<1>1. /\ wire[r].at = "back" /\ req[r].phase = "sent"
      /\ device' = Absorb(q, wire[r])
      /\ req' = [req EXCEPT ![r] = k] /\ wire' = [wire EXCEPT ![r] = Quiet]
      /\ UNCHANGED <<conn, probing, hasKey, executed, answered>>
  BY DEF AnswerEnds
<1>2. outcome \in {"ok", "still_running", "error", "connection"}
  BY DEF Outcome
<1>3. q \in Sendable
  BY <1>0, <1>1 DEF CallFits, PhaseFits
<1>4. (outcome = "ok" /\ 409 \notin q.also) \/ outcome = "still_running" => wire[r].status \in {200, 504}
  BY <1>3, SendableShape DEF Outcome
<1>5. wire[r].status \in {200, 504} => executed[r] > 0
  BY <1>0, <1>1 DEF CallFits, WireFits
<1>6. device' \in {device, "issued"} /\ (wire[r].token => device' = "issued")
  BY <1>0, <1>1 DEF Absorb, CallFits, WireFits
<1>7. /\ End(req[r], outcome) \in CallRecords /\ wire[r].token \in BOOLEAN
      /\ End(req[r], outcome).phase = "done" /\ End(req[r], outcome).request = q
      /\ End(req[r], outcome).key = req[r].key /\ End(req[r], outcome).outcome = outcome
  <2>1. outcome \in Outcomes
    BY <1>2 DEF Outcomes
  <2>2. QED
    BY <1>0, <2>1, EndFields DEF WireRecords
<1>8. /\ k \in CallRecords /\ k.phase = "done" /\ k.request = q /\ k.key = req[r].key
      /\ k.outcome = outcome /\ (k.token <=> wire[r].token)
  BY <1>7, TokenFields
<1> HIDE DEF k, outcome
<1>9. k.outcome \notin {"not_sent", "discovery"}
  BY <1>2, <1>8
<1>10. (k.outcome = "ok" /\ 409 \notin k.request.also) \/ k.outcome = "still_running" => executed[r] > 0
  BY <1>4, <1>5, <1>8
<1>11. k.token => device' = "issued"
  BY <1>6, <1>8
<1>12. InFlight(r) /\ Quiet \in WireRecords
  BY <1>1, QuietFields DEF InFlight
<1>13. QED
  BY <1>1, <1>6, <1>8, <1>9, <1>10, <1>11, <1>12, CallerStep

(* Its last attempt was not this one. *)
LEMMA WaitsStep ==
  ASSUME RequestsInv, NEW r \in Requests, req[r].phase = "sent",
         req[r].tries < Attempts(req[r].request),
         req' = [req EXCEPT ![r] = [req[r] EXCEPT !.phase = "waiting"]],
         wire' = [wire EXCEPT ![r] = Quiet],
         UNCHANGED <<conn, probing, hasKey, device, executed, answered>>
  PROVE  RequestsInv'
<1> DEFINE k == [req[r] EXCEPT !.phase = "waiting"]
<1>0. TypeOK /\ CallFits(r) /\ req[r] \in CallRecords
  BY InvByCall DEF TypeOK
<1>1. "waiting" \in {"idle", "connecting", "sent", "waiting", "done"}
  OBVIOUS
<1>2. /\ k \in CallRecords /\ k.phase = "waiting" /\ k.request = req[r].request /\ k.tries = req[r].tries
      /\ k.key = req[r].key /\ k.outcome = req[r].outcome /\ k.token = req[r].token
  BY <1>0, <1>1, PhaseFields
<1>3. req[r].tries > 0 /\ req[r].outcome = "none" /\ ~req[r].token
  BY <1>0 DEF CallFits, PhaseFits
<1> HIDE DEF k
<1>4. req' = [req EXCEPT ![r] = k]
  BY DEF k
<1>5. QED
  BY <1>2, <1>3, <1>4, CallerStep, QuietFields DEF InFlight

(* It ends unanswered: its connection is lost, or its timer is over.       *)
LEMMA EndsUnansweredStep ==
  ASSUME RequestsInv, NEW r \in Requests, InFlight(r), NEW o \in {"connection", "timeout"},
         NEW w \in {Quiet, wire[r]},
         req' = [req EXCEPT ![r] = End(req[r], o)], wire' = [wire EXCEPT ![r] = w],
         UNCHANGED <<conn, probing, hasKey, device, executed, answered>>
  PROVE  RequestsInv'
<1> DEFINE k == End(req[r], o)
<1>0. TypeOK /\ CallFits(r) /\ req[r] \in CallRecords /\ w \in WireRecords
  BY InvByCall, QuietFields DEF TypeOK
<1>1. o \in Outcomes
  BY DEF Outcomes
<1>2. /\ k \in CallRecords /\ k.phase = "done" /\ k.request = req[r].request
      /\ k.key = req[r].key /\ k.outcome = o /\ k.token = req[r].token
  BY <1>0, <1>1, EndFields
<1>3. ~req[r].token
  BY <1>0 DEF CallFits, PhaseFits, InFlight
<1> HIDE DEF k
<1>4. req' = [req EXCEPT ![r] = k]
  BY DEF k
<1>5. QED
  BY <1>0, <1>2, <1>3, <1>4, CallerStep

LEMMA HearsStep ==
  ASSUME RequestsInv, NEW r \in Requests, Hears(r)
  PROVE  RequestsInv'
<1>1. CASE \E patient, readable \in BOOLEAN : AnswerEnds(r, patient, readable)
  BY <1>1, AnswerEndsStep
<1>2. CASE AnswerRetried(r)
  <2>1. req' = [req EXCEPT ![r] = [req[r] EXCEPT !.phase = "waiting"]]
    BY <1>2 DEF AnswerRetried
  <2>2. QED
    BY <1>2, <2>1, WaitsStep DEF AnswerRetried
<1>3. CASE ConnectionLost(r)
  <2>1. CASE req[r].tries >= Attempts(req[r].request)
    BY <1>3, <2>1, EndsUnansweredStep DEF ConnectionLost, InFlight
  <2>2. CASE ~(req[r].tries >= Attempts(req[r].request))
    <3>1. req[r].tries < Attempts(req[r].request)
      BY <2>2, AttemptsBounded, InvByCall DEF TypeOK, CallRecords
    <3>2. QED
      BY <1>3, <2>2, <3>1, WaitsStep DEF ConnectionLost
  <2>3. QED
    BY <2>1, <2>2
<1>4. QED
  BY <1>1, <1>2, <1>3 DEF Hears

LEMMA BackoffEndsStep ==
  ASSUME RequestsInv, NEW r \in Requests, BackoffEnds(r)
  PROVE  RequestsInv'
<1>0. TypeOK /\ CallFits(r) /\ req[r] \in CallRecords
  BY InvByCall DEF TypeOK
<1>1. /\ req[r].phase = "waiting"
      /\ req' = [req EXCEPT ![r] = Attempt(req[r])] /\ wire' = [wire EXCEPT ![r] = OnWire(req[r])]
      /\ UNCHANGED <<conn, probing, hasKey, device, executed, answered>>
  BY DEF BackoffEnds
<1>2. req'[r] = Attempt(req[r]) /\ wire'[r] = OnWire(req[r])
  BY <1>0, <1>1 DEF TypeOK
<1> DEFINE q == req[r].request
<1>3. /\ q \in Sendable /\ req[r].key = IdempotencyKey(r, q)
      /\ req[r].tries < Attempts(q) /\ req[r].tries > 0 /\ req[r].tries \in Nat
      /\ req[r].outcome = "none" /\ ~req[r].token
  BY <1>0, <1>1 DEF CallFits, PhaseFits, CallRecords
<1>4. q.safe \/ ~IsLocal(q)
  BY <1>3 DEF Attempts
<1>5. CallFits(r)' /\ req'[r] \in CallRecords /\ wire'[r] \in WireRecords /\ req'[r].phase = "sent"
  BY <1>0, <1>1, <1>2, <1>3, <1>4, SentFits
<1>6. TypeOK'
  BY <1>0, <1>1, <1>2, <1>5 DEF TypeOK
<1>7. QED
  BY <1>0, <1>1, <1>5, <1>6, OneCall DEF TypeOK, Done

LEMMA TimesOutStep ==
  ASSUME RequestsInv, NEW r \in Requests, TimesOut(r)
  PROVE  RequestsInv'
<1>1. wire' = [wire EXCEPT ![r] = wire[r]]
  BY InvByCall DEF TypeOK, TimesOut
<1>2. QED
  BY <1>1, EndsUnansweredStep DEF TimesOut

-----------------------------------------------------------------------------
(* The servers *)

(* A server takes an attempt up, and maybe answers it.                     *)
LEMMA ServerStep ==
  ASSUME RequestsInv, NEW r \in Requests, wire[r].at # "none", NEW w \in WireRecords,
         wire' = [wire EXCEPT ![r] = w], w.at \in {"blocked", "back"}, w.key = wire[r].key,
         w.token => w.at = "back" /\ ~hasKey /\ ~IsLocal(req[r].request),
         UNCHANGED <<req, conn, probing, hasKey, device>>,
         NEW e \in 0..MaxAttempts, executed' = [executed EXCEPT ![r] = e], e >= executed[r],
         w.at = "blocked" \/ w.status \in {200, 504} => e > 0,
         Unsafe(r) => e <= 1,
         answered' \in [Requests -> {0} \cup Carried],
         \A s \in Requests : s # r => answered'[s] = answered[s],
         Unsafe(r) /\ ~IsLocal(req[r].request) /\ e > 0 => answered'[r] # 0,
         answered'[r] # 0 => e > 0
  PROVE  RequestsInv'
<1>0. TypeOK /\ CallFits(r) /\ DiscoveryIsShared /\ DeviceTokenIsKept
  BY InvByCall
<1>1. wire'[r] = w /\ executed'[r] = e /\ req'[r] = req[r]
  BY <1>0 DEF TypeOK
<1>2. TypeOK'
  BY <1>0 DEF TypeOK
<1>3. ~NotSent(r) /\ req[r].phase # "waiting"
  BY <1>0 DEF CallFits, PhaseFits
<1>4. executed[r] \in Nat
  BY <1>0 DEF TypeOK
<1>5. PhaseFits(r)'
  BY <1>0, <1>1, <1>3 DEF CallFits, PhaseFits, NotSent
<1>6. WireFits(r)'
  BY <1>0, <1>1 DEF CallFits, WireFits
<1>7. KeyFits(r)'
  BY <1>1 DEF KeyFits, Unsafe
<1>8. OutcomeFits(r)'
  BY <1>0, <1>1, <1>3, <1>4 DEF CallFits, OutcomeFits, Done, NotSent
<1>9. (Unsafe(r) => executed[r] <= 1)'
  BY <1>1 DEF Unsafe
<1>10. CallFits(r)'
  BY <1>5, <1>6, <1>7, <1>8, <1>9 DEF CallFits
<1>11. \A s \in Requests : s # r => /\ wire'[s] = wire[s] /\ executed'[s] = executed[s]
  BY <1>0 DEF TypeOK
<1>12. \A s \in Requests : CallFits(s)'
  BY <1>10, <1>11, InvByCall, OtherFits
<1>13. DiscoveryIsShared' /\ DeviceTokenIsKept'
  BY <1>0 DEF DiscoveryIsShared, DeviceTokenIsKept, Connecting, Done
<1>14. QED
  BY <1>2, <1>12, <1>13, InvByCall

(* What reached a server is an attempt of a call of the SDK.               *)
LEMMA AttemptOnWire ==
  ASSUME RequestsInv, NEW r \in Requests, wire[r].at # "none"
  PROVE  /\ wire[r] \in WireRecords /\ req[r].request \in Sendable
         /\ wire[r].key = IdempotencyKey(r, req[r].request)
         /\ Unsafe(r) <=> ~req[r].request.safe
         /\ executed[r] \in 0..MaxAttempts
         /\ executed = [executed EXCEPT ![r] = executed[r]]
<1>1. TypeOK /\ CallFits(r)
  BY InvByCall
<1>2. req[r].phase # "idle"
  BY <1>1 DEF CallFits, PhaseFits, NotSent
<1>3. QED
  BY <1>1, <1>2 DEF CallFits, PhaseFits, WireFits, Unsafe, TypeOK

(* The count of a call that is carried out again.                          *)
LEMMA CountedOnce ==
  ASSUME RequestsInv, NEW r \in Requests
  PROVE  \E e \in 1..MaxAttempts :
           /\ CountOne(r) = [executed EXCEPT ![r] = e] /\ e >= executed[r]
           /\ executed[r] = 0 => e = 1
<1>1. executed \in [Requests -> 0..MaxAttempts] /\ executed[r] \in 0..MaxAttempts
  BY DEF RequestsInv, TypeOK
<1> DEFINE e == IF executed[r] = MaxAttempts THEN executed[r] ELSE executed[r] + 1
<1>2. e \in 1..MaxAttempts /\ e >= executed[r] /\ (executed[r] = 0 => e = 1)
  BY <1>1
<1>3. CountOne(r) = [executed EXCEPT ![r] = e]
  BY DEF CountOne
<1>4. QED
  BY <1>2, <1>3

LEMMA ExecutesStep ==
  ASSUME RequestsInv, NEW r \in Requests, Executes(r)
  PROVE  RequestsInv'
<1>0. TypeOK /\ CallFits(r)
  BY InvByCall
<1>1. /\ wire[r].at = "out" /\ (wire[r].key \in Requests => answered[wire[r].key] = 0)
      /\ executed' = CountOne(r) /\ UNCHANGED <<req, conn, probing, hasKey, device>>
  BY DEF Executes
<1>2. PICK status \in Carried, minted \in BOOLEAN :
        /\ Mints(r, minted) /\ Answers(r, status, minted)
        /\ answered' = [k \in Requests |-> IF k = wire[r].key THEN status ELSE answered[k]]
  BY DEF Executes
<1>3. /\ wire[r] \in WireRecords /\ req[r].request \in Sendable
      /\ wire[r].key = IdempotencyKey(r, req[r].request)
      /\ Unsafe(r) <=> ~req[r].request.safe
  BY <1>1, AttemptOnWire
<1>4. PICK e \in 1..MaxAttempts :
        /\ CountOne(r) = [executed EXCEPT ![r] = e] /\ e >= executed[r]
        /\ executed[r] = 0 => e = 1
  BY CountedOnce
<1> DEFINE w == Back(wire[r], status, minted)
<1>5. status \in Statuses /\ status # 0
  BY DEF Statuses, Carried
<1>6. /\ w \in WireRecords /\ w.at = "back" /\ w.status = status /\ w.key = wire[r].key
      /\ (w.token <=> minted)
  BY <1>3, <1>5, BackFields
<1>7. wire' = [wire EXCEPT ![r] = w]
  BY <1>2 DEF Answers, Back
<1> HIDE DEF w
<1>8. w.token => ~hasKey /\ ~IsLocal(req[r].request)
  BY <1>2, <1>6 DEF Mints
<1>9. Unsafe(r) => executed[r] = 0
  <2>1. CASE IsLocal(req[r].request)
    BY <1>0, <1>1, <2>1 DEF CallFits, KeyFits
  <2>2. CASE ~IsLocal(req[r].request)
    <3>1. Unsafe(r) => wire[r].key = r /\ answered[r] = 0
      BY <1>1, <1>3, <2>2 DEF IdempotencyKey
    <3>2. executed[r] \in Nat
      BY <1>0 DEF TypeOK
    <3>3. QED
      BY <1>0, <2>2, <3>1, <3>2 DEF CallFits, KeyFits
  <2>3. QED
    BY <2>1, <2>2
<1>10. wire[r].key \in {r, "none"}
  BY <1>3 DEF IdempotencyKey
<1>11. /\ answered' \in [Requests -> {0} \cup Carried]
       /\ \A s \in Requests : s # r => answered'[s] = answered[s]
  BY <1>0, <1>2, <1>10 DEF TypeOK
<1>12. Unsafe(r) /\ ~IsLocal(req[r].request) => answered'[r] # 0
  BY <1>2, <1>3, <1>5 DEF IdempotencyKey
<1>13. e \in 0..MaxAttempts /\ e > 0 /\ (Unsafe(r) => e <= 1)
  BY <1>4, <1>9
<1>14. wire[r].at # "none" /\ w.at \in {"blocked", "back"} /\ executed' = [executed EXCEPT ![r] = e]
  BY <1>1, <1>4, <1>6
<1>15. QED
  BY <1>1, <1>4, <1>6, <1>7, <1>8, <1>11, <1>12, <1>13, <1>14, ServerStep

LEMMA StartsAndBlocksStep ==
  ASSUME RequestsInv, NEW r \in Requests, StartsAndBlocks(r)
  PROVE  RequestsInv'
<1>0. TypeOK /\ CallFits(r)
  BY InvByCall
<1>1. /\ wire[r].at = "out" /\ 504 \in req[r].request.also
      /\ wire' = [wire EXCEPT ![r] = [wire[r] EXCEPT !.at = "blocked"]]
      /\ executed' = CountOne(r) /\ UNCHANGED <<req, conn, probing, hasKey, device, answered>>
  BY DEF StartsAndBlocks, Waits
<1>2. wire[r] \in WireRecords /\ req[r].request \in Sendable
  BY <1>1, AttemptOnWire
<1>3. IsLocal(req[r].request)
  BY <1>1, <1>2, SendableShape
<1>4. PICK e \in 1..MaxAttempts :
        /\ CountOne(r) = [executed EXCEPT ![r] = e] /\ e >= executed[r]
        /\ executed[r] = 0 => e = 1
  BY CountedOnce
<1> DEFINE w == [wire[r] EXCEPT !.at = "blocked"]
<1>5. /\ w \in WireRecords /\ w.at = "blocked" /\ w.key = wire[r].key /\ w.token = wire[r].token
  BY <1>2, BlockedFields
<1>6. ~w.token
  BY <1>0, <1>1, <1>5 DEF CallFits, WireFits
<1> HIDE DEF w
<1>7. wire' = [wire EXCEPT ![r] = w]
  BY <1>1 DEF w
<1>8. Unsafe(r) => executed[r] = 0
  BY <1>0, <1>1, <1>3 DEF CallFits, KeyFits
<1>9. answered \in [Requests -> {0} \cup Carried]
  BY <1>0 DEF TypeOK
<1>10. e \in 0..MaxAttempts /\ e > 0 /\ (Unsafe(r) => e <= 1)
  BY <1>4, <1>8
<1>11. wire[r].at # "none" /\ w.at \in {"blocked", "back"} /\ executed' = [executed EXCEPT ![r] = e]
  BY <1>1, <1>4, <1>5
<1>12. QED
  BY <1>1, <1>3, <1>4, <1>5, <1>6, <1>7, <1>9, <1>10, <1>11, ServerStep

(* An attempt is answered, and nothing is carried out.                     *)
LEMMA AnsweredStep ==
  ASSUME RequestsInv, NEW r \in Requests, wire[r].at # "none",
         NEW status \in Statuses, NEW minted \in BOOLEAN,
         Mints(r, minted), Answers(r, status, minted),
         status \in {200, 504} => executed[r] > 0,
         UNCHANGED <<req, conn, probing, hasKey, device, executed, answered>>
  PROVE  RequestsInv'
<1>0. TypeOK /\ CallFits(r)
  BY InvByCall
<1>1. /\ wire[r] \in WireRecords /\ executed[r] \in 0..MaxAttempts
      /\ executed' = [executed EXCEPT ![r] = executed[r]]
  BY AttemptOnWire
<1> DEFINE w == Back(wire[r], status, minted)
<1>2. /\ w \in WireRecords /\ w.at = "back" /\ w.status = status /\ w.key = wire[r].key
      /\ (w.token <=> minted)
  BY <1>1, BackFields
<1>3. wire' = [wire EXCEPT ![r] = w]
  BY DEF Answers, Back
<1> HIDE DEF w
<1>4. w.token => w.at = "back" /\ ~hasKey /\ ~IsLocal(req[r].request)
  BY <1>2 DEF Mints
<1>5. answered' \in [Requests -> {0} \cup Carried]
  BY <1>0 DEF TypeOK
<1>6. /\ Unsafe(r) => executed[r] <= 1
      /\ Unsafe(r) /\ ~IsLocal(req[r].request) /\ executed[r] > 0 => answered'[r] # 0
      /\ answered'[r] # 0 => executed[r] > 0
  BY <1>0 DEF CallFits, KeyFits
<1>7. w.at = "blocked" \/ w.status \in {200, 504} => executed[r] > 0
  BY <1>2
<1>8. executed[r] >= executed[r] /\ w.at \in {"blocked", "back"}
  BY <1>1, <1>2
<1>9. QED
  BY <1>1, <1>2, <1>3, <1>4, <1>5, <1>6, <1>7, <1>8, ServerStep

LEMMA UnblocksStep ==
  ASSUME RequestsInv, NEW r \in Requests, Unblocks(r)
  PROVE  RequestsInv'
<1>1. PICK status \in {200, 504} : Answers(r, status, FALSE)
  BY DEF Unblocks
<1>2. status \in Statuses /\ Mints(r, FALSE)
  BY DEF Statuses, Carried, Mints
<1>3. wire[r].at = "blocked" /\ executed[r] > 0
  BY InvByCall DEF Unblocks, CallFits, WireFits
<1>4. QED
  BY <1>1, <1>2, <1>3, AnsweredStep DEF Unblocks

LEMMA RefusesStep ==
  ASSUME RequestsInv, NEW r \in Requests, Refuses(r)
  PROVE  RequestsInv'
<1>1. PICK status \in NotCarried, minted \in BOOLEAN : Mints(r, minted) /\ Answers(r, status, minted)
  BY DEF Refuses
<1>2. status \in Statuses /\ status \notin {200, 504}
  BY DEF Statuses, NotCarried
<1>3. QED
  BY <1>1, <1>2, AnsweredStep DEF Refuses

LEMMA ReplaysStep ==
  ASSUME RequestsInv, NEW r \in Requests, Replays(r)
  PROVE  RequestsInv'
<1>0. TypeOK /\ CallFits(r)
  BY InvByCall
<1>1. wire[r].at = "out" /\ wire[r].key \in Requests /\ answered[wire[r].key] # 0
      /\ Answers(r, answered[wire[r].key], FALSE)
  BY DEF Replays
<1>2. wire[r].key = r
  BY <1>1, AttemptOnWire DEF IdempotencyKey
<1>3. executed[r] > 0
  BY <1>0, <1>1, <1>2 DEF CallFits, KeyFits
<1>4. answered[wire[r].key] \in Statuses /\ Mints(r, FALSE)
  BY <1>0, <1>1 DEF TypeOK, Statuses, Mints
<1>5. QED
  BY <1>1, <1>3, <1>4, AnsweredStep DEF Replays

-----------------------------------------------------------------------------

(* What callers are told is true, nothing unsafe is carried out twice, one *)
(* discovery runs at a time and the token that was issued is kept, however *)
(* the attempts of any number of calls interleave with the losses, timers  *)
(* and servers they meet (http.ts, discovery.ts, retry.ts, cloud.ts #send).*)
THEOREM RequestsInvHolds == Spec => []RequestsInv
<1>1. RequestsInv /\ [Next]_vars => RequestsInv'
  <2> SUFFICES ASSUME RequestsInv, [Next]_vars PROVE RequestsInv'
    OBVIOUS
  <2>1. ASSUME NEW r \in Requests, Call(r) \/ Hears(r) \/ BackoffEnds(r) \/ TimesOut(r)
        PROVE  RequestsInv'
    BY <2>1, CallStep, HearsStep, BackoffEndsStep, TimesOutStep
  <2>2. ASSUME NEW r \in Requests,
               Executes(r) \/ StartsAndBlocks(r) \/ Unblocks(r) \/ Refuses(r) \/ Replays(r)
        PROVE  RequestsInv'
    BY <2>2, ExecutesStep, StartsAndBlocksStep, UnblocksStep, RefusesStep, ReplaysStep
  <2>3. CASE Probes
    BY <2>3, DaemonFoundStep, NoDaemonFoundStep DEF Probes
  <2>4. CASE UNCHANGED vars
    BY <2>4 DEF vars, RequestsInv, TypeOK, OutcomeIsTrue, ExecutedAtMostOnce, DiscoveryIsShared,
                DeviceTokenIsKept, PhaseFits, WireFits, KeyFits, NotSent, Unsafe, Connecting, Done
  <2>5. QED
    BY <2>1, <2>2, <2>3, <2>4 DEF Next
<1>2. QED
  BY <1>1, InitRequests, PTL DEF Spec
=============================================================================
