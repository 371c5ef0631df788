---------------------------- MODULE MemoryQueue -----------------------------
(***************************************************************************)
(* One user's command queue in memoryStore (store.ts), the store of a      *)
(* single server process.  A stretch of code without an await is one step; *)
(* callers (runOnUser) and polls (channel.ts) interleave between them.     *)
(* Time passes in ticks; a timer that is due fires before the next tick.   *)
(***************************************************************************)
EXTENDS QueueParameters

CONSTANTS
  Ttl,      \* Ttl[c]: the ttlMs enqueue is given, in ticks
  Patience, \* Patience[c]: how long the caller waits before withdraw
  MaxTakes  \* bound: takes a poll begins

ASSUME MemoryAssumption == Times(Ttl, Patience) /\ MaxTakes \in Nat

VARIABLES
  queue,    \* the entries of queues.get(user)
  pendings, \* commands in the map of pending commands
  life,     \* life[c]: ticks until c's entries expire
  waiter,   \* waiter[c]: where the caller of c is
  left,     \* left[c]: ticks until it withdraws
  removed,  \* removed[c]: what withdraw answered
  poller,   \* poller[t]: stage, batch, ticks left, aborted
  takes,    \* takes[t]: takes begun
  given     \* history: commands takeNow answered

callVars == <<waiter, left, removed>>
memoryVars == <<queue, pendings, life, waiter, left, removed, poller, takes, given>>

NoTake == [stage |-> "out", batch |-> <<>>, left |-> 0, aborted |-> FALSE]
WaiterStages == {"new", "waiting", "running", "withdrawn", "done"}
Pollers == [stage : {"out", "looking", "asleep", "holding"}, batch : Seq(Commands),
            left : 0..PollWait, aborted : BOOLEAN]

MemoryTypeOK ==
  /\ queue \in Seq(Commands)
  /\ IsInjective(queue)
  /\ pendings \subseteq Commands
  /\ life \in [Commands -> Nat] /\ left \in [Commands -> Nat]
  /\ \A c \in Commands : life[c] <= Ttl[c] /\ left[c] <= Patience[c]
  /\ waiter \in [Commands -> WaiterStages]
  /\ removed \in [Commands -> {"nothing", "removed", "taken"}]
  /\ poller \in [Takers -> Pollers]
  /\ \A t \in Takers :
       /\ poller[t].batch # <<>> <=> poller[t].stage = "holding"
       /\ ToSet(poller[t].batch) \cap ToSet(queue) = {}
  /\ takes \in [Takers -> 0..MaxTakes]
  /\ given \subseteq Commands

MemoryInit ==
  /\ queue = <<>>
  /\ pendings = {}
  /\ life = Ttl
  /\ waiter = [c \in Commands |-> "new"]
  /\ left = [c \in Commands |-> 0]
  /\ removed = [c \in Commands |-> "nothing"]
  /\ poller = [t \in Takers |-> NoTake]
  /\ takes = [t \in Takers |-> 0]
  /\ given = {}

(* The commands whose entries have not expired. *)
Live == {c \in Commands : life[c] > 0}

(* wakeAll(queueWaiters, user) *)
WakeAll(old) ==
  [t \in Takers |-> IF old[t].stage = "asleep" THEN [old[t] EXCEPT !.stage = "looking"] ELSE old[t]]

(* What sweep keeps: all, or what is live when its last run is 30 s ago. *)
Sweeps == {Commands, Live}

-----------------------------------------------------------------------------
(* The caller: enqueue, withdraw, resolve and cancel                       *)

WaiterGoes(c, from, to) ==
  /\ waiter[c] = from
  /\ waiter' = [waiter EXCEPT ![c] = to]

Enqueue(c) ==
  /\ WaiterGoes(c, "new", "waiting")
  /\ \E kept \in Sweeps :
       /\ queue' = Append(Keep(queue, kept), c)
       /\ pendings' = (pendings \cap kept) \cup {c}
  /\ left' = [left EXCEPT ![c] = Patience[c]]
  /\ poller' = WakeAll(poller)
  /\ UNCHANGED <<life, removed, takes, given>>

WithdrawEntry(c) ==
  /\ left[c] = 0
  /\ IF c \in ToSet(queue)
     THEN /\ WaiterGoes(c, "waiting", "withdrawn")
          /\ queue' = Keep(queue, Commands \ {c})
          /\ removed' = [removed EXCEPT ![c] = "removed"]
     ELSE /\ WaiterGoes(c, "waiting", "running")
          /\ removed' = [removed EXCEPT ![c] = "taken"]
          /\ UNCHANGED queue
  /\ UNCHANGED <<pendings, life, left, poller, takes, given>>

(* The result of a page that received c is resolved before its entry       *)
(* expires; the caller collects it.                                        *)
Resolve(c) ==
  /\ c \in (given \cap pendings \cap Live) \ ToSet(queue)
  /\ \A t \in Takers : c \notin ToSet(poller[t].batch)
  /\ \E from \in {"waiting", "running"} : WaiterGoes(c, from, "done")
  /\ pendings' = pendings \ {c}
  /\ UNCHANGED <<queue, life, left, removed, poller, takes, given>>

(* cancel, after withdraw or when the budget is over (TIMEOUT). *)
Cancel(c) ==
  /\ \E from \in {"withdrawn", "running"} : WaiterGoes(c, from, "done")
  /\ pendings' = pendings \ {c}
  /\ UNCHANGED <<queue, life, left, removed, poller, takes, given>>

-----------------------------------------------------------------------------
(* The poll: take and requeue                                              *)

PollerBecomes(t, r) == poller' = [poller EXCEPT ![t] = r]

TakeBegins(t) ==
  /\ poller[t].stage = "out"
  /\ takes[t] < MaxTakes
  /\ takes' = [takes EXCEPT ![t] = @ + 1]
  /\ \E kept \in Sweeps :
       queue' = Keep(queue, kept) /\ pendings' = pendings \cap kept
  /\ PollerBecomes(t, [NoTake EXCEPT !.stage = "looking", !.left = PollWait])
  /\ UNCHANGED <<life, callVars, given>>

(* takeNow: the first live entries; expired ones are dropped. *)
TakeSome(t) ==
  /\ poller[t].stage = "looking"
  /\ LET live == Keep(queue, Live)
         n == IF Len(live) < MaxBatch THEN Len(live) ELSE MaxBatch
     IN  /\ n > 0
         /\ PollerBecomes(t, [poller[t] EXCEPT !.stage = "holding", !.batch = SubSeq(live, 1, n)])
         /\ queue' = SubSeq(live, n + 1, Len(live))
         /\ given' = given \cup ToSet(SubSeq(live, 1, n))
  /\ UNCHANGED <<pendings, life, callVars, takes>>

(* None is queued: the take ends, or parks in the same step. *)
TakeNone(t) ==
  /\ poller[t].stage = "looking"
  /\ Keep(queue, Live) = <<>>
  /\ queue' = <<>>
  /\ PollerBecomes(t, IF poller[t].left = 0 \/ poller[t].aborted
                      THEN NoTake ELSE [poller[t] EXCEPT !.stage = "asleep"])
  /\ UNCHANGED <<pendings, life, callVars, takes, given>>

ParkEnds(t) ==
  /\ poller[t].stage = "asleep"
  /\ poller[t].left = 0
  /\ PollerBecomes(t, [poller[t] EXCEPT !.stage = "looking"])
  /\ UNCHANGED <<queue, pendings, life, callVars, takes, given>>

(* The page leaves: the signal of its request aborts and wakes its take.   *)
SignalAborts(t) ==
  /\ poller[t].stage # "out"
  /\ ~poller[t].aborted
  /\ PollerBecomes(t, [poller[t] EXCEPT !.aborted = TRUE,
                                        !.stage = IF @ = "asleep" THEN "looking" ELSE @])
  /\ UNCHANGED <<queue, pendings, life, callVars, takes, given>>

PollAnswers(t) ==
  /\ poller[t].stage = "holding"
  /\ ~poller[t].aborted
  /\ PollerBecomes(t, NoTake)
  /\ UNCHANGED <<queue, pendings, life, callVars, takes, given>>

(* Mutant: the batch goes to the end. *)
PutFrontLast(back) == queue \o back

(* requeue: the entries still pending go to the front. *)
PutFront(back) == back \o queue

PollRequeues(t) ==
  /\ poller[t].stage = "holding"
  /\ poller[t].aborted
  /\ LET back == Keep(poller[t].batch, pendings \cap Live)
         rest == [poller EXCEPT ![t] = NoTake]
     IN  IF back = <<>>
         THEN poller' = rest /\ UNCHANGED queue
         ELSE poller' = WakeAll(rest) /\ queue' = PutFront(back)
  /\ UNCHANGED <<pendings, life, callVars, takes, given>>

-----------------------------------------------------------------------------
(* Time                                                                    *)

Less(n) == IF n > 0 THEN n - 1 ELSE 0

Enqueued(c) == waiter[c] # "new"

MemoryTick ==
  /\ \A c \in Commands : waiter[c] = "waiting" => left[c] > 0
  /\ \A t \in Takers : poller[t].stage = "out" \/ (poller[t].stage = "asleep" /\ poller[t].left > 0)
  /\ \/ \E c \in Live : Enqueued(c)
     \/ \E t \in Takers : poller[t].stage = "asleep"
  /\ life' = [c \in Commands |-> IF Enqueued(c) THEN Less(life[c]) ELSE life[c]]
  /\ left' = [c \in Commands |-> Less(left[c])]
  /\ poller' = [t \in Takers |-> [poller[t] EXCEPT !.left = Less(@)]]
  /\ UNCHANGED <<queue, pendings, waiter, removed, takes, given>>

CallStep(c) == Enqueue(c) \/ WithdrawEntry(c) \/ Resolve(c) \/ Cancel(c)
PollGoesOn(t) == TakeSome(t) \/ TakeNone(t) \/ ParkEnds(t) \/ PollAnswers(t) \/ PollRequeues(t)

MemoryNext ==
  \/ \E c \in Commands : CallStep(c)
  \/ \E t \in Takers : PollGoesOn(t) \/ TakeBegins(t) \/ SignalAborts(t)
  \/ MemoryTick

MemorySpec == MemoryInit /\ [][MemoryNext]_memoryVars

-----------------------------------------------------------------------------
(* Properties                                                              *)

(* The commands whose own time has passed, or that no call waits for. *)
Lapsed == {c \in Commands : c \notin Live \/ waiter[c] = "done"}

(* A poll never sleeps beside a command it could answer (take and park     *)
(* have no await between them, and requeue wakes like enqueue).            *)
NobodySleepsBeside ==
  (\E t \in Takers : poller[t].stage = "asleep") => ToSet(queue) \cap Live = {}

(* Nothing is in two places, and no poll sleeps beside a command (takeNow, *)
(* park, wakeAll).                                                         *)
MemoryQueueInv == MemoryTypeOK /\ NobodySleepsBeside

(* What the promise of the store interface speaks of, in memoryStore: a    *)
(* command may vanish when nobody waits for it any more, too.              *)
Batches == [t \in Takers |-> poller[t].batch]

MemoryPromise == INSTANCE UserQueue WITH
  line <- queue,
  hands <- Batches,
  taken <- given,
  lost <- {},
  over <- Lapsed,
  told <- removed
=============================================================================
