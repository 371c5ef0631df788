----------------------------- MODULE RedisQueue -----------------------------
(***************************************************************************)
(* One user's command queue in redisStore (redis-store.ts): every store    *)
(* method is several Redis commands, and the callers (runOnUser) and the   *)
(* waiting polls of all server instances interleave between them.          *)
(*                                                                         *)
(* Time passes in ticks.  A Redis command takes less than a tick, and a    *)
(* timer that is due fires before the next tick; wake messages may take    *)
(* any time or be lost.  Any command may fail, before or after Redis       *)
(* carried it out (its answer is lost).                                    *)
(***************************************************************************)
EXTENDS Integers, QueueParameters

CONSTANTS
  Life,       \* Life[c]: the ttlMs enqueue is given, in ticks
  Pickup,     \* Pickup[c]: how long the caller waits before withdraw
  MaxPolls,   \* bound: polls a taker makes
  Local,      \* the takers on the instance the callers are on
  SafetyPoll, \* SAFETY_POLL_MS
  MidEnqueue  \* FALSE: no list expires between the RPUSH and the PEXPIRE
              \* of one enqueue; TRUE: Redis as it is

ASSUME ConstantsAssumption ==
  /\ Local \subseteq Takers
  /\ MidEnqueue \in BOOLEAN
  /\ SafetyPoll \in Nat \ {0}
  /\ MaxPolls \in Nat
  /\ Times(Life, Pickup)

VARIABLES
  list,    \* queue:<user>
  ttl,     \* the ticks that key has left, NoTtl when none is set
  caller,  \* caller[c]: where the caller of c is
  wait,    \* wait[c]: the ticks until that caller withdraws c
  told,    \* what withdraw answered
  taker,   \* taker[t]: stage, batch, ticks left of the take, timer, aborted
  polls,   \* polls[t]: takes begun
  flying,  \* takers whose instance a wake message is on its way to
  age,     \* history: ticks since c was pushed
  idle,    \* history: ticks c is in the list, since it was last put there
  taken,   \* history: commands LPOP answered
  lost     \* history: commands a failed LPOP or LPUSH left nowhere

callerVars == <<caller, wait, told>>
vars == <<list, ttl, caller, wait, told, taker, polls, flying, age, idle, taken, lost>>

NoTtl == -1
CallerStages == {"new", "set", "pushed", "timed", "waiting", "done", "threw"}
TakerStages == {"out", "reading", "parking", "asleep", "holding", "returned"}
Away == [stage |-> "out", batch |-> <<>>, left |-> 0, timer |-> 0, aborted |-> FALSE]

RedisTakers ==
  [stage : TakerStages, batch : Seq(Commands), left : 0..PollWait, timer : 0..PollWait,
   aborted : BOOLEAN]

TypeOK ==
  /\ list \in Seq(Commands)
  /\ IsInjective(list)
  /\ ttl \in Nat \cup {NoTtl}
  /\ caller \in [Commands -> CallerStages]
  /\ wait \in [Commands -> Nat] /\ age \in [Commands -> Nat] /\ idle \in [Commands -> Nat]
  /\ \A c \in Commands : wait[c] <= Pickup[c] /\ age[c] <= Life[c]
  /\ told \in [Commands -> {"nothing", "removed", "taken"}]
  /\ taker \in [Takers -> RedisTakers]
  /\ \A t \in Takers :
       /\ Len(taker[t].batch) <= MaxBatch
       /\ taker[t].batch # <<>> <=> taker[t].stage = "holding"
       /\ ToSet(taker[t].batch) \cap ToSet(list) = {}
  /\ polls \in [Takers -> 0..MaxPolls]
  /\ flying \subseteq Takers \ Local
  /\ taken \subseteq Commands /\ lost \subseteq Commands

Init ==
  /\ list = <<>>
  /\ ttl = NoTtl
  /\ caller = [c \in Commands |-> "new"]
  /\ wait = [c \in Commands |-> 0]
  /\ told = [c \in Commands |-> "nothing"]
  /\ taker = [t \in Takers |-> Away]
  /\ polls = [t \in Takers |-> 0]
  /\ flying = {}
  /\ age = [c \in Commands |-> 0]
  /\ idle = [c \in Commands |-> 0]
  /\ taken = {}
  /\ lost = {}

-----------------------------------------------------------------------------
(* Redis                                                                   *)

(* The list becomes l.  Redis deletes a list, and its time to live with    *)
(* it, when its last member goes.                                          *)
ListBecomes(l) ==
  /\ list' = l
  /\ ttl' = IF l = <<>> THEN NoTtl ELSE ttl

(* PEXPIRE: the time to live of the whole list, whatever it was. *)
Expire(c) == IF list = <<>> THEN NoTtl ELSE Life[c]

(* publish: waiters of this process wake at once, the others by message.   *)
Woken(old, who) ==
  [t \in Takers |-> IF t \in who /\ old[t].stage = "asleep"
                    THEN [old[t] EXCEPT !.stage = "reading", !.timer = 0]
                    ELSE old[t]]

Publish(old) ==
  /\ taker' = Woken(old, Local)
  /\ flying' = flying \cup (Takers \ Local)

ListExpires ==
  /\ ttl = 0
  /\ MidEnqueue \/ \A c \in Commands : caller[c] # "pushed"
  /\ ListBecomes(<<>>)
  /\ UNCHANGED <<callerVars, taker, polls, flying, age, idle, taken, lost>>

-----------------------------------------------------------------------------
(* enqueue and withdraw, called by runOnUser                               *)

Goes(c, from, to) ==
  /\ caller[c] = from
  /\ caller' = [caller EXCEPT ![c] = to]

SetPending(c) ==
  /\ Goes(c, "new", "set")
  /\ UNCHANGED <<list, ttl, wait, told, taker, polls, flying, age, idle, taken, lost>>

Push(c) ==
  /\ Goes(c, "set", "pushed")
  /\ ListBecomes(Append(list, c))
  /\ UNCHANGED <<wait, told, taker, polls, flying, age, idle, taken, lost>>

PExpire(c) ==
  /\ Goes(c, "pushed", "timed")
  /\ ttl' = Expire(c)
  /\ UNCHANGED <<list, wait, told, taker, polls, flying, age, idle, taken, lost>>

WakePages(c) ==
  /\ Goes(c, "timed", "waiting")
  /\ Publish(taker)
  /\ wait' = [wait EXCEPT ![c] = Pickup[c]]
  /\ UNCHANGED <<list, ttl, told, polls, age, idle, taken, lost>>

(* A Redis command of enqueue fails: the call fails, what was done stays.  *)
EnqueueThrows(c) ==
  /\ \E from \in {"new", "set", "pushed", "timed"} : Goes(c, from, "threw")
  /\ UNCHANGED <<list, ttl, wait, told, taker, polls, flying, age, idle, taken, lost>>

(* The outcome of a command some page received comes in time. *)
Collect(c) ==
  /\ c \in taken \ ToSet(list)
  /\ \A t \in Takers : c \notin ToSet(taker[t].batch)
  /\ Goes(c, "waiting", "done")
  /\ wait' = [wait EXCEPT ![c] = 0]
  /\ UNCHANGED <<list, ttl, told, taker, polls, flying, age, idle, taken, lost>>

(* No outcome came within PICKUP_TIMEOUT_MS: LREM. *)
Withdraw(c) ==
  /\ wait[c] = 0
  /\ Goes(c, "waiting", "done")
  /\ IF c \in ToSet(list)
     THEN /\ ListBecomes(Keep(list, Commands \ {c}))
          /\ told' = [told EXCEPT ![c] = "removed"]
     ELSE /\ told' = [told EXCEPT ![c] = "taken"]
          /\ UNCHANGED <<list, ttl>>
  /\ UNCHANGED <<wait, taker, polls, flying, age, idle, taken, lost>>

(* The answer to awaitResult or withdraw is lost, or neither was carried   *)
(* out: the call fails, and the command may be gone.                       *)
CallThrows(c) ==
  /\ Goes(c, "waiting", "threw")
  /\ \/ UNCHANGED <<list, ttl>>
     \/ wait[c] = 0 /\ ListBecomes(Keep(list, Commands \ {c}))
  /\ wait' = [wait EXCEPT ![c] = 0]
  /\ UNCHANGED <<told, taker, polls, flying, age, idle, taken, lost>>

-----------------------------------------------------------------------------
(* take and requeue, called by poll (channel.ts)                           *)

Moves(t, from) == taker[t].stage = from
Becomes(t, r) == taker' = [taker EXCEPT ![t] = r]

Poll(t) ==
  /\ Moves(t, "out")
  /\ polls[t] < MaxPolls
  /\ polls' = [polls EXCEPT ![t] = @ + 1]
  /\ Becomes(t, [Away EXCEPT !.stage = "reading", !.left = PollWait])
  /\ UNCHANGED <<list, ttl, callerVars, flying, age, idle, taken, lost>>

(* LPOP takes as many as the poll asks for. *)
Count == IF Len(list) < MaxBatch THEN Len(list) ELSE MaxBatch
Oldest == SubSeq(list, 1, Count)

LPop(t) ==
  /\ Moves(t, "reading")
  /\ list # <<>>
  /\ ListBecomes(SubSeq(list, Count + 1, Len(list)))

PopSome(t) ==
  /\ LPop(t)
  /\ Becomes(t, [taker[t] EXCEPT !.stage = "holding", !.batch = Oldest])
  /\ taken' = taken \cup ToSet(Oldest)
  /\ UNCHANGED <<callerVars, polls, flying, age, idle, lost>>

(* The answer of LPOP is lost: poll answers 500, and nobody has the batch. *)
PopLost(t) ==
  /\ LPop(t)
  /\ Becomes(t, Away)
  /\ lost' = lost \cup ToSet(Oldest)
  /\ UNCHANGED <<callerVars, polls, flying, age, idle, taken>>

(* Mutant: no safety poll. *)
ParkTimeWhole(t) == taker[t].left

(* Mutant: a take that finds nothing waits again although its time is over. *)
PopNoneAgain(t) ==
  /\ Moves(t, "reading")
  /\ list = <<>>
  /\ Becomes(t, [taker[t] EXCEPT !.stage = "parking"])
  /\ UNCHANGED <<list, ttl, callerVars, polls, flying, age, idle, taken, lost>>

(* LPOP answered none: the take ends, or waits for a wake message. *)
PopNone(t) ==
  /\ Moves(t, "reading")
  /\ list = <<>>
  /\ Becomes(t, IF taker[t].left = 0 \/ taker[t].aborted
                THEN Away ELSE [taker[t] EXCEPT !.stage = "parking"])
  /\ UNCHANGED <<list, ttl, callerVars, polls, flying, age, idle, taken, lost>>

ParkTime(t) == IF taker[t].left < SafetyPoll THEN taker[t].left ELSE SafetyPoll

(* park, once it is subscribed: a message that came before finds no waiter.*)
Park(t) ==
  /\ Moves(t, "parking")
  /\ Becomes(t, [taker[t] EXCEPT !.stage = "asleep", !.timer = ParkTime(t)])
  /\ UNCHANGED <<list, ttl, callerVars, polls, flying, age, idle, taken, lost>>

TimerFires(t) ==
  /\ Moves(t, "asleep")
  /\ taker[t].timer = 0
  /\ taker' = Woken(taker, {t})
  /\ UNCHANGED <<list, ttl, callerVars, polls, flying, age, idle, taken, lost>>

MessageArrives(t) ==
  /\ t \in flying
  /\ flying' = flying \ {t}
  /\ taker' = Woken(taker, {t})
  /\ UNCHANGED <<list, ttl, callerVars, polls, age, idle, taken, lost>>

MessageLost(t) ==
  /\ t \in flying
  /\ flying' = flying \ {t}
  /\ UNCHANGED <<list, ttl, callerVars, taker, polls, age, idle, taken, lost>>

(* The page leaves: the signal of its request aborts, which wakes a parked *)
(* take; one that is about to park sleeps until its timer or a message.    *)
PageLeaves(t) ==
  /\ taker[t].stage \in {"reading", "parking", "asleep", "holding"}
  /\ ~taker[t].aborted
  /\ taker' = Woken([taker EXCEPT ![t].aborted = TRUE], {t})
  /\ UNCHANGED <<list, ttl, callerVars, polls, flying, age, idle, taken, lost>>

Answer(t) ==
  /\ Moves(t, "holding")
  /\ ~taker[t].aborted
  /\ Becomes(t, Away)
  /\ UNCHANGED <<list, ttl, callerVars, polls, flying, age, idle, taken, lost>>

(* LPUSH puts each value before the one it pushed before. *)
LPush(values) == Reverse(values) \o list

Requeue(t) ==
  /\ Moves(t, "holding")
  /\ taker[t].aborted
  /\ ListBecomes(LPush(Reverse(taker[t].batch)))
  /\ Becomes(t, [taker[t] EXCEPT !.stage = "returned", !.batch = <<>>])
  /\ idle' = [c \in Commands |-> IF c \in ToSet(taker[t].batch) THEN 0 ELSE idle[c]]
  /\ UNCHANGED <<callerVars, polls, flying, age, taken, lost>>

RequeuePublish(t) ==
  /\ Moves(t, "returned")
  /\ Publish([taker EXCEPT ![t] = Away])
  /\ UNCHANGED <<list, ttl, callerVars, polls, age, idle, taken, lost>>

(* LPUSH fails: the batch is in nobody's hands and not in the list. *)
RequeueLost(t) ==
  /\ Moves(t, "holding")
  /\ taker[t].aborted
  /\ Becomes(t, Away)
  /\ lost' = lost \cup ToSet(taker[t].batch)
  /\ UNCHANGED <<list, ttl, callerVars, polls, flying, age, idle, taken>>

(* A command of take fails, and was not carried out, or one of requeue,    *)
(* and was: poll answers 500.                                              *)
PollThrows(t) ==
  /\ taker[t].stage \in {"reading", "parking", "returned"}
  /\ Becomes(t, Away)
  /\ UNCHANGED <<list, ttl, callerVars, polls, flying, age, idle, taken, lost>>

-----------------------------------------------------------------------------
(* Time                                                                    *)

Sooner(n) == IF n > 0 THEN n - 1 ELSE n

Pushed(c) == caller[c] \in {"pushed", "timed", "waiting", "done"}

(* No Redis command is under way, no timer is due. *)
Quiet ==
  /\ ttl # 0
  /\ \A c \in Commands :
       /\ caller[c] \notin {"set", "pushed", "timed"}
       /\ caller[c] = "waiting" => wait[c] > 0
  /\ \A t \in Takers :
       \/ taker[t].stage = "out"
       \/ taker[t].stage = "asleep" /\ taker[t].timer > 0

Tick ==
  /\ Quiet
  /\ \/ \E c \in Commands : Pushed(c) /\ age[c] < Life[c]
     \/ \E t \in Takers : taker[t].stage = "asleep"
     \/ ttl > 0
  /\ ttl' = Sooner(ttl)
  /\ wait' = [c \in Commands |-> Sooner(wait[c])]
  /\ age' = [c \in Commands |-> IF Pushed(c) /\ age[c] < Life[c] THEN age[c] + 1 ELSE age[c]]
  /\ idle' = [c \in Commands |-> IF c \in ToSet(list) THEN idle[c] + 1 ELSE 0]
  /\ taker' = [t \in Takers |-> [taker[t] EXCEPT !.left = Sooner(@), !.timer = Sooner(@)]]
  /\ UNCHANGED <<list, caller, told, polls, flying, taken, lost>>

CallerStep(c) ==
  \/ SetPending(c) \/ Push(c) \/ PExpire(c) \/ WakePages(c) \/ EnqueueThrows(c)
  \/ Collect(c) \/ Withdraw(c) \/ CallThrows(c)

TakerMoves(t) ==
  \/ PopSome(t) \/ PopNone(t) \/ Park(t) \/ TimerFires(t)
  \/ Answer(t) \/ Requeue(t) \/ RequeuePublish(t)

TakerStep(t) ==
  \/ TakerMoves(t) \/ Poll(t) \/ PageLeaves(t) \/ PollThrows(t)
  \/ PopLost(t) \/ RequeueLost(t) \/ MessageArrives(t) \/ MessageLost(t)

Next ==
  \/ \E c \in Commands : CallerStep(c)
  \/ \E t \in Takers : TakerStep(t)
  \/ ListExpires
  \/ Tick

Spec == Init /\ [][Next]_vars

-----------------------------------------------------------------------------
(* Properties                                                              *)

(* The commands whose own time has passed, or that no call waits for. *)
Over == {c \in Commands : age[c] = Life[c] \/ caller[c] = "threw"}

(* When withdraw answers false, a page took the command (store.ts,         *)
(* withdraw) or a Redis command failed and left it nowhere; runOnUser then *)
(* waits for its result and calls no one else.                             *)
WithdrawTellsTruth == \A c \in Commands : told[c] = "taken" => c \in taken \cup lost

(* A wake message that is lost, or published before park has its waiter,   *)
(* delays a waiting page by at most the safety poll (redis-store.ts, park).*)
PickedUpInTime ==
  \A t \in Takers, c \in ToSet(list) :
    taker[t].stage = "asleep" => idle[c] <= SafetyPoll

(* Nothing is in two places, and no poll sleeps long beside a command      *)
(* (take, requeue, park).                                                  *)
RedisQueueInv == TypeOK /\ PickedUpInTime

(* What the promise of the store interface speaks of, in redisStore. *)
InHand == [t \in Takers |-> taker[t].batch]

RedisPromise == INSTANCE UserQueue WITH
  line <- list,
  hands <- InHand,
  over <- Over
=============================================================================
