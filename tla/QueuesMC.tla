------------------------------ MODULE QueuesMC ------------------------------
(* The queues of both stores, each checked by itself in one run, and the     *)
(* promise both keep.                                                        *)
EXTENDS RedisQueue, MemoryQueue

VARIABLE backend

allVars == <<backend, vars, memoryVars>>

\* The queue that is not checked stays in its initial state.
MCInit == backend \in {"redis", "memory"} /\ Init /\ MemoryInit

InRedis(A) == backend = "redis" /\ A /\ UNCHANGED <<backend, memoryVars>>
InMemory(A) == backend = "memory" /\ A /\ UNCHANGED <<backend, vars>>

MCNext == InRedis(Next) \/ InMemory(MemoryNext)

\* A server goes on with what it began, and time passes.
MCFairness ==
  /\ \A t \in Takers : WF_allVars(InRedis(TakerMoves(t)) \/ InMemory(PollGoesOn(t)))
  /\ WF_allVars(\E c \in Commands :
       InRedis(Push(c) \/ PExpire(c) \/ WakePages(c) \/ Withdraw(c)) \/ InMemory(WithdrawEntry(c)))
  /\ WF_allVars(InRedis(ListExpires \/ Tick) \/ InMemory(MemoryTick))

MCSpec == MCInit /\ [][MCNext]_allVars /\ MCFairness

(* Either queue keeps the promise of the store interface (take, requeue and*)
(* withdraw in store.ts): oldest first, nothing vanishes before its own    *)
(* time to live, a batch goes back in its order, withdraw tells the truth. *)
(* In memory a command may vanish, too, when nobody waits for it any more; *)
(* in Redis the promise needs calls of one timeout, and no list that       *)
(* expires while a command is added to it: see WithdrawTellsTruth.         *)
KeepsPromise == MemoryPromise!Spec /\ RedisPromise!Spec

Taking(t) == taker[t].stage = "reading" \/ poller[t].stage = "looking"
NotTaking(t) == taker[t].stage = "out" /\ poller[t].stage = "out"

(* Every take ends, whatever messages are lost and whoever else takes the  *)
(* commands it was woken for (take, park).                                 *)
TakeEnds == \A t \in Takers : Taking(t) ~> NotTaking(t)

(* Nothing is in two places, and no poll sleeps beside a command: in memory*)
(* never, in Redis no longer than the safety poll, though wake messages are*)
(* lost or come before the waiter is there (take, park, wakeAll, publish). *)
QueuesInv == RedisQueueInv /\ MemoryQueueInv

\* The calls' timeouts, in ticks: all alike in Redis, different in memory.
CONSTANTS c1, c2, t1, t2

EvenLife == [c \in Commands |-> 3]
EvenPickup == [c \in Commands |-> 2]
MixedTtl == [c \in Commands |-> IF c = c2 THEN 2 ELSE 4]
MixedPatience == [c \in Commands |-> IF c = c2 THEN 1 ELSE 2]
=============================================================================
