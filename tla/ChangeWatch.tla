----------------------------- MODULE ChangeWatch -----------------------------
(***************************************************************************)
(* watchChanges (cloud.ts), the loop behind every watch(): it walks the    *)
(* feed of detected changes with a cursor of time and id, while changes    *)
(* are detected, detected again, and requests fail.                        *)
(*                                                                         *)
(* The feed is external: after a cursor it answers oldest first, without   *)
(* one newest first; a change detected again keeps its id and takes the    *)
(* new time; what is detected together has one time.                       *)
(***************************************************************************)
EXTENDS Integers, SequencesExt

CONSTANTS Ids,      \* the ids of changes, numbers
          PageSize, \* opts.pageSize
          MaxTime   \* bound: times at which something is detected

ASSUME WatchAssumption == Ids \subseteq Nat /\ {PageSize, MaxTime} \subseteq Nat \ {0}

VARIABLES feed,   \* feed[i]: when change i was last detected, 0 for never
          clock,  \* the time of the last detection
          phase,  \* of the watcher
          cursor, \* since and sinceId; None when there is no since
          batch,  \* rows of the page that were not looked at yet
          full,   \* that page was full
          got,    \* the changes yielded
          signal, \* opts.signal is aborted
          start   \* history: the cursor the watch began after

watchVars == <<feed, clock, phase, cursor, batch, full, got, signal, start>>

Row(i) == [at |-> feed[i], id |-> i]
Changes == [at : 1..MaxTime, id : Ids]
None == [at |-> 0, id |-> -1]
Floor == [at |-> 0, id |-> 0]
Rows == {Row(i) : i \in {j \in Ids : feed[j] > 0}}

After(r, c) == r.at > c.at \/ (r.at = c.at /\ r.id > c.id)

\* The oldest rows and the newest ones, at most PageSize, in order: what a page
\* leaves out comes behind all that it holds.
Oldest(rows) ==
  {p \in SeqOf(rows, PageSize) :
     /\ \A i, j \in 1..Len(p) : i < j => After(p[j], p[i])
     /\ \A r \in rows \ ToSet(p) : Len(p) = PageSize /\ \A i \in 1..Len(p) : After(r, p[i])}
Newest(rows) ==
  {p \in SeqOf(rows, PageSize) :
     /\ \A i, j \in 1..Len(p) : i < j => After(p[i], p[j])
     /\ \A r \in rows \ ToSet(p) : Len(p) = PageSize /\ \A i \in 1..Len(p) : After(p[i], r)}

Stopped == {"thrown", "aborted"}

\* A watch resumes at a change, replays from the floor, or reads the head.
WatchInit ==
  /\ feed \in [Ids -> 0..1] /\ clock = 1
  /\ batch = <<>> /\ full = FALSE /\ got = <<>> /\ signal = FALSE
  /\ \/ cursor \in Rows \cup {Floor} /\ phase = "fetching"
     \/ cursor = None /\ phase = "head"
  /\ start = cursor

-----------------------------------------------------------------------------
(* The feed. *)

Detects ==
  /\ clock < MaxTime
  /\ clock' = clock + 1
  /\ \E found \in SUBSET Ids \ {{}} :
       feed' = [i \in Ids |-> IF i \in found THEN clock + 1 ELSE feed[i]]
  /\ UNCHANGED <<phase, cursor, batch, full, got, signal, start>>

\* A server may echo the row of the cursor.
Page(echoes) ==
  IF cursor = None THEN Newest(Rows)
  ELSE Oldest({r \in Rows : After(r, cursor) \/ (echoes /\ r = cursor)})

-----------------------------------------------------------------------------
(* The watcher. *)

\* The condition of the loop.
NextPage == IF signal THEN "aborted" ELSE "fetching"

HeadRead ==
  /\ phase = "head"
  /\ IF Rows = {} THEN cursor' = Floor
     ELSE cursor' \in Rows /\ \A r \in Rows \ {cursor'} : After(cursor', r)
  /\ start' = cursor'
  /\ phase' = NextPage
  /\ UNCHANGED <<feed, clock, batch, full, got, signal>>

\* Survived: the watch goes on without a cursor.
HeadFails ==
  /\ phase = "head"
  /\ phase' \in {NextPage, "thrown"}
  /\ UNCHANGED <<feed, clock, cursor, batch, full, got, signal, start>>

Fetches ==
  /\ phase = "fetching"
  /\ \E echoes \in BOOLEAN : batch' \in Page(echoes)
  /\ full' = (Len(batch') = PageSize)
  /\ phase' = "yielding"
  /\ UNCHANGED <<feed, clock, cursor, got, signal, start>>

\* Mutant: a failed page ends the watch in silence.
FetchKills ==
  /\ phase = "fetching"
  /\ phase' = "over"
  /\ UNCHANGED <<feed, clock, cursor, batch, full, got, signal, start>>

\* onError decides; when it survives, the watch backs off and asks again.
FetchFails ==
  /\ phase = "fetching"
  /\ IF signal THEN phase' = "aborted" ELSE phase' \in {"sleeping", "thrown"}
  /\ UNCHANGED <<feed, clock, cursor, batch, full, got, signal, start>>

NextChange == IF signal THEN "aborted" ELSE "yielding"

\* Mutants: the cursor is the time alone; there is no guard.
PassesTime(r) == r.at <= cursor.at
PassesNone(r) == FALSE

\* Strictly advancing: the row of the cursor, or one before it, is passed.
Passes(r) == cursor # None /\ ~After(r, cursor)

LooksAt ==
  /\ phase = "yielding" /\ batch # <<>>
  /\ batch' = Tail(batch)
  /\ LET r == Head(batch)
     IN  IF Passes(r) THEN UNCHANGED <<phase, cursor, got, start>>
         ELSE /\ got' = Append(got, r)
              /\ cursor' = r
              /\ start' = IF start = None THEN r ELSE start
              /\ phase' = NextChange
  /\ UNCHANGED <<feed, clock, full, signal>>

\* Behind a full page there is more: no pause.
PageEnds ==
  /\ phase = "yielding" /\ batch = <<>>
  /\ phase' = IF signal THEN "aborted" ELSE IF full THEN "fetching" ELSE "sleeping"
  /\ UNCHANGED <<feed, clock, cursor, batch, full, got, signal, start>>

SleepEnds ==
  /\ phase = "sleeping"
  /\ phase' = "fetching"
  /\ UNCHANGED <<feed, clock, cursor, batch, full, got, signal, start>>

\* The pause ends at once, a request goes on and one change more may be yielded.
SignalAborts ==
  /\ phase \notin Stopped /\ ~signal
  /\ signal' = TRUE
  /\ phase' = IF phase = "sleeping" THEN "aborted" ELSE phase
  /\ UNCHANGED <<feed, clock, cursor, batch, full, got, start>>

\* The caller breaks out of its loop over the changes.
Breaks ==
  /\ phase = "yielding" /\ got # <<>>
  /\ phase' = "aborted"
  /\ UNCHANGED <<feed, clock, cursor, batch, full, got, signal, start>>

WatcherMoves == HeadRead \/ LooksAt \/ PageEnds \/ SleepEnds

WatchNext == Detects \/ WatcherMoves \/ HeadFails \/ Fetches \/ FetchFails \/ SignalAborts \/ Breaks

WatchSpec == WatchInit /\ [][WatchNext]_watchVars

\* The loop goes on, and the feed is not down for ever.  A page of it that never
\* comes, nor fails, is the feed down: no timer limits the request (cloud.ts #send).
WatchFairness == WF_watchVars(WatcherMoves) /\ SF_watchVars(Fetches)

FairWatchSpec == WatchSpec /\ WatchFairness

-----------------------------------------------------------------------------
(* Properties. *)

WatchTypeOK ==
  /\ feed \in [Ids -> 0..MaxTime] /\ clock \in 1..MaxTime /\ {full, signal} \subseteq BOOLEAN
  /\ phase \in {"head", "fetching", "yielding", "sleeping"} \cup Stopped
  /\ batch \in Seq(Changes) /\ got \in Seq(Changes)
  /\ {cursor, start} \subseteq {None, Floor} \cup Changes

\* Each change yielded is a later detection than the one before it.
NoRepeats == \A i, j \in 1..Len(got) : i < j => After(got[j], got[i])

\* The cursor passes no change that was not yielded, though some share its time
\* and others are detected while a page is looked at.
NoGaps ==
  \A r \in Rows : start # None /\ After(r, start) /\ ~After(r, cursor) => r \in ToSet(got)

\* What is left of a page is in order and ahead of every change that is in the feed
\* and not on it; of a page that was asked for without a cursor only the first
\* change is looked at, all others are behind it.
PageFits ==
  /\ cursor = None <=> start = None
  /\ phase = "head" => cursor = None /\ batch = <<>>
  /\ got # <<>> => cursor = Last(got)
  /\ cursor.at <= clock /\ \A i \in 1..Len(batch) : batch[i].at <= clock
  /\ \A i \in Ids : feed[i] <= clock
  /\ IF cursor = None THEN \A i, j \in 1..Len(batch) : i < j => After(batch[i], batch[j])
     ELSE \/ \A i \in 1..Len(batch) : ~After(batch[i], cursor)
          \/ /\ \A i, j \in 1..Len(batch) : i < j => After(batch[j], batch[i])
             /\ phase = "yielding" =>
                  \A r \in Rows : After(r, cursor) /\ r \notin ToSet(batch) =>
                                \A i \in 1..Len(batch) : After(r, batch[i])

\* "in detection order, without gaps or repeats" (cloud.ts watch), from the change
\* the watch begins after.
WatchInv == WatchTypeOK /\ NoRepeats /\ NoGaps /\ PageFits

\* The watch catches up again and again: every change that stays the last
\* detection of its row is yielded, unless the watch was stopped by its caller or
\* by an error that onError rethrows.
CaughtUp == start # None => \A r \in Rows : After(r, start) => r \in ToSet(got)
EveryChangeComes == []<>(CaughtUp \/ phase \in Stopped \/ signal)
=============================================================================
