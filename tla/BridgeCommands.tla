--------------------------- MODULE BridgeCommands ---------------------------
(***************************************************************************)
(* A server-side call to a function on the visitor's computer:             *)
(*                                                                         *)
(*   caller (bridge.ts, callForUser / runOnUser)                           *)
(*     | enqueue, awaitResult, withdraw, cancel                            *)
(*   store  (store.ts, WritBridgeStore)                                    *)
(*     | take, requeue                | pending, spendNonce, resolve       *)
(*   poll handler (channel.ts)      result handler (channel.ts, verify.ts) *)
(*     | the commands answered        | POST { result }, retried           *)
(*   page   (web/src/bridge-channel.ts, web/src/bridge.ts)                 *)
(*                                                                         *)
(* Every await of the code is a point where another actor may step.  The   *)
(* order of a user's queue is the stores' business (WritBridgeStore        *)
(* implementations); here the queue is the set of commands no page took,   *)
(* and take answers any batch of it.                                       *)
(***************************************************************************)
EXTENDS Naturals, FiniteSets

CONSTANTS
  Calls,        \* one command each: its id is the nonce of its challenge
  Pages,        \* tabs; each has at most one poll open
  Posts,        \* result requests the server handles at a time
  Users,
  CallUser,     \* the user a call is for
  PageUser,     \* the user a page's token names
  Mode,         \* the effective mode of the call's function
  MaxBatch,     \* MAX_COMMANDS_PER_POLL
  SlowClock,    \* pages whose clock never reaches a command's expires_at
  SharedStore   \* TRUE: redisStore, several server processes, operations
                \* that can throw.  FALSE: memoryStore, one process.

ASSUME ConstantsAssumption ==
  /\ CallUser \in [Calls -> Users]
  /\ PageUser \in [Pages -> Users]
  /\ Mode \in [Calls -> {"required", "recommended", "cloud"}]
  /\ MaxBatch \in Nat \ {0}
  /\ SlowClock \subseteq Pages
  /\ SharedStore \in BOOLEAN

VARIABLES
  caller,   \* where callForUser is
  answer,   \* what the caller got
  age,      \* time since the command was sent, see Ages
  pend,     \* pending commands the store remembers
  queue,    \* queue[u]: u's commands no page took
  result,   \* result[c]: an outcome the caller has not collected
  spent,    \* nonces recorded as spent
  poll,     \* the state of a page's poll on the server
  gone,     \* the request's signal is aborted
  held,     \* commands a poll took and has not answered
  inbox,    \* commands on their way to the page in a poll's answer
  job,      \* what a page does with a command
  runs,     \* history: how often a page started a command
  verdicts, \* history: how often a receipt for the command was accepted
  post      \* result requests being handled

callVars  == <<caller, answer, age>>
storeVars == <<pend, queue, result, spent>>
pollVars  == <<poll, gone, held>>
pageVars  == <<inbox, job, runs>>
postVars  == <<verdicts, post>>
vars == <<caller, answer, age, pend, queue, result, spent, poll, gone, held,
          inbox, job, runs, verdicts, post>>

(* A command's life in four stretches: until expires_at a page may start   *)
(* it; until the caller's budget (timeout + RESULT_GRACE_MS) its result is *)
(* waited for; one second later the store forgets it and its challenge     *)
(* expires.                                                                *)
Fresh == 0
Expired == 1
BudgetSpent == 2
Forgotten == 3
Ages == Fresh..Forgotten

AwayCodes == {"NOT_GRANTED", "WRIT_REQUIRED", "USER_OFFLINE"}

CallerStates == {"idle", "routing", "sending", "pickup", "withdrawing",
                 "cancelAway", "waiting", "cancelTimeout", "cloud", "done"}

Answers == {"none", "data", "cloud", "cloudError", "callError", "RESULT_UNVERIFIED",
            "TIMEOUT", "INTERNAL"} \cup AwayCodes

(* What a page says of a command it ended: a success or a failure with a   *)
(* genuine receipt; a receipt that another command's challenge or an       *)
(* unknown device signed ("foreign"), or that does not match the inputs or *)
(* data sent with it ("tampered"); NOT_GRANTED without a receipt           *)
(* ("refused"), any other error without one ("error").                     *)
Bodies == {"success", "failure", "foreign", "tampered", "refused", "error"}

(* What the server makes of it for the caller. *)
Outcomes == {"data", "failed", "refused", "error", "unverified"}

JobStates == {"none", "accepted", "running", "over"} \cup Bodies

NoPost == [stage |-> "none"]
PostRecords ==
  [stage : {"lookup", "verify"}, page : Pages, call : Calls, says : Bodies]
    \cup [stage : {"resolve", "push"}, page : Pages, call : Calls, says : Outcomes]

TypeOK ==
  /\ caller \in [Calls -> CallerStates]
  /\ answer \in [Calls -> Answers]
  /\ age \in [Calls -> Ages]
  /\ pend \subseteq Calls
  /\ queue \in [Users -> SUBSET Calls]
  /\ result \in [Calls -> Outcomes \cup {"none"}]
  /\ spent \subseteq Calls
  /\ poll \in [Pages -> {"idle", "taking", "answering", "requeueing"}]
  /\ gone \in [Pages -> BOOLEAN]
  /\ held \in [Pages -> SUBSET Calls]
  /\ inbox \in [Pages -> SUBSET Calls]
  /\ job \in [Pages -> [Calls -> JobStates]]
  /\ runs \in [Calls -> Nat]
  /\ verdicts \in [Calls -> Nat]
  /\ post \in [Posts -> PostRecords \cup {NoPost}]

Init ==
  /\ caller = [c \in Calls |-> "idle"]
  /\ answer = [c \in Calls |-> "none"]
  /\ age = [c \in Calls |-> Fresh]
  /\ pend = {}
  /\ queue = [u \in Users |-> {}]
  /\ result = [c \in Calls |-> "none"]
  /\ spent = {}
  /\ poll = [p \in Pages |-> "idle"]
  /\ gone = [p \in Pages |-> FALSE]
  /\ held = [p \in Pages |-> {}]
  /\ inbox = [p \in Pages |-> {}]
  /\ job = [p \in Pages |-> [c \in Calls |-> "none"]]
  /\ runs = [c \in Calls |-> 0]
  /\ verdicts = [c \in Calls |-> 0]
  /\ post = [h \in Posts |-> NoPost]

-----------------------------------------------------------------------------
(* The store.  Only the variables an operation changes are primed.         *)

Queued(c) == c \in queue[CallUser[c]]

Push(c) == [queue EXCEPT ![CallUser[c]] = @ \cup {c}]
Pull(c) == [queue EXCEPT ![CallUser[c]] = @ \ {c}]

(* memoryStore drops entries whose time is over when it reads a queue;     *)
(* a Redis list has no such filter.                                        *)
Takeable(u) ==
  {c \in queue[u] : SharedStore \/ age[c] # Forgotten}

(* memoryStore puts back only what is still pending, redisStore everything *)
(* it is given.                                                            *)
Requeued(cmds) ==
  {c \in cmds : SharedStore \/ c \in pend}

-----------------------------------------------------------------------------
(* The caller                                                              *)

Step(c, from, to) == caller[c] = from /\ caller' = [caller EXCEPT ![c] = to]

Return(c, what) ==
  /\ caller' = [caller EXCEPT ![c] = "done"]
  /\ answer' = [answer EXCEPT ![c] = what]

(* The user is away: a recommended function runs on Writ Cloud instead.    *)
Away(c, code) ==
  IF Mode[c] = "recommended"
  THEN caller' = [caller EXCEPT ![c] = "cloud"] /\ UNCHANGED answer
  ELSE Return(c, code)

Begin(c) ==
  /\ Step(c, "idle", IF Mode[c] = "cloud" THEN "cloud" ELSE "routing")
  /\ UNCHANGED <<answer, age, storeVars, pollVars, pageVars, postVars>>

(* routeFor, or the last look waitForUser took. *)
Route(c) ==
  /\ caller[c] = "routing"
  /\ \/ Step(c, "routing", "sending") /\ UNCHANGED answer
     \/ \E code \in AwayCodes : Away(c, code)
  /\ UNCHANGED <<age, storeVars, pollVars, pageVars, postVars>>

Enqueue(c) ==
  /\ Step(c, "sending", "pickup")
  /\ pend' = pend \cup {c}
  /\ queue' = Push(c)
  /\ UNCHANGED <<answer, age, result, spent, pollVars, pageVars, postVars>>

(* What the caller makes of an outcome.  NOT_GRANTED without a receipt     *)
(* means that nothing ran on the visitor's computer.                       *)
Settle(c, outcome) ==
  CASE outcome = "data"       -> Return(c, "data")
    [] outcome = "refused"    -> Away(c, "NOT_GRANTED")
    [] outcome = "unverified" -> Return(c, "RESULT_UNVERIFIED")
    [] OTHER                  -> Return(c, "callError")

Collect(c) ==
  /\ caller[c] \in {"pickup", "waiting"}
  /\ result[c] # "none"
  /\ Settle(c, result[c])
  /\ result' = [result EXCEPT ![c] = "none"]
  /\ UNCHANGED <<age, pend, queue, spent, pollVars, pageVars, postVars>>

(* PICKUP_TIMEOUT_MS, or the whole budget when that is shorter, brought no *)
(* outcome.                                                                *)
PickupOver(c) ==
  /\ result[c] = "none"
  /\ Step(c, "pickup", "withdrawing")
  /\ UNCHANGED <<answer, age, storeVars, pollVars, pageVars, postVars>>

\* Seeded fault: the caller goes elsewhere without looking at withdraw's answer.
WithdrawBlind(c) ==
  /\ Step(c, "withdrawing", "cancelAway")
  /\ queue' = Pull(c)
  /\ UNCHANGED <<answer, age, pend, result, spent, pollVars, pageVars, postVars>>

Withdraw(c) ==
  /\ Step(c, "withdrawing", IF Queued(c) THEN "cancelAway" ELSE "waiting")
  /\ queue' = Pull(c)
  /\ UNCHANGED <<answer, age, pend, result, spent, pollVars, pageVars, postVars>>

\* Seeded fault: the deadline is met only when it is seen in time.
BudgetMissed(c) ==
  /\ age[c] = BudgetSpent
  /\ result[c] = "none"
  /\ Step(c, "waiting", "cancelTimeout")
  /\ UNCHANGED <<answer, age, storeVars, pollVars, pageVars, postVars>>

BudgetOver(c) ==
  /\ age[c] >= BudgetSpent
  /\ result[c] = "none"
  /\ Step(c, "waiting", "cancelTimeout")
  /\ UNCHANGED <<answer, age, storeVars, pollVars, pageVars, postVars>>

\* Seeded fault: the caller leaves without cancelling the command.
CancelNothing(c) ==
  /\ \/ caller[c] = "cancelAway" /\ Away(c, "USER_OFFLINE")
     \/ caller[c] = "cancelTimeout" /\ Return(c, "TIMEOUT")
  /\ UNCHANGED <<age, storeVars, pollVars, pageVars, postVars>>

Cancel(c) ==
  /\ \/ caller[c] = "cancelAway" /\ Away(c, "USER_OFFLINE")
     \/ caller[c] = "cancelTimeout" /\ Return(c, "TIMEOUT")
  /\ pend' = pend \ {c}
  /\ result' = [result EXCEPT ![c] = "none"]
  /\ UNCHANGED <<age, queue, spent, pollVars, pageVars, postVars>>

CloudEnds(c) ==
  /\ caller[c] = "cloud"
  /\ \E what \in {"cloud", "cloudError"} : Return(c, what)
  /\ UNCHANGED <<age, storeVars, pollVars, pageVars, postVars>>

(* A store operation the caller awaits throws, after any part of its       *)
(* effect.                                                                 *)
CallerThrows(c) ==
  /\ SharedStore
  /\ Return(c, "INTERNAL")
  /\ \/ caller[c] = "routing" /\ UNCHANGED storeVars
     \/ /\ caller[c] = "sending"
        /\ \/ UNCHANGED <<pend, queue>>
           \/ pend' = pend \cup {c} /\ queue' \in {queue, Push(c)}
        /\ UNCHANGED <<result, spent>>
     \/ /\ caller[c] \in {"pickup", "waiting"}
        /\ result' \in {result, [result EXCEPT ![c] = "none"]}
        /\ UNCHANGED <<pend, queue, spent>>
     \/ /\ caller[c] = "withdrawing"
        /\ queue' \in {queue, Pull(c)}
        /\ UNCHANGED <<pend, result, spent>>
     \/ /\ caller[c] \in {"cancelAway", "cancelTimeout"}
        /\ \/ UNCHANGED <<pend, result>>
           \/ pend' = pend \ {c} /\ result' = [result EXCEPT ![c] = "none"]
        /\ UNCHANGED <<queue, spent>>
  /\ UNCHANGED <<age, pollVars, pageVars, postVars>>

Unsent(c) == caller[c] \in {"idle", "routing", "sending"}

(* Time passes for a command that was sent.  The store's own deadline      *)
(* drops the pending command, and memoryStore the outcome nobody collected *)
(* (redisStore keeps an outcome for RESULT_TTL_MS).                        *)
Tick(c) ==
  /\ ~Unsent(c)
  /\ age[c] < Forgotten
  /\ age' = [age EXCEPT ![c] = @ + 1]
  /\ IF age[c] + 1 = Forgotten
     THEN /\ pend' = pend \ {c}
          /\ result' = IF SharedStore THEN result ELSE [result EXCEPT ![c] = "none"]
     ELSE UNCHANGED <<pend, result>>
  /\ UNCHANGED <<caller, answer, queue, spent, pollVars, pageVars, postVars>>

(* The store drops queued commands whose time is over: memoryStore's sweep *)
(* each of them, Redis the whole list once the time its last enqueue set   *)
(* is over (which one that was is not kept: any of the user's may be).     *)
QueueExpires(u) ==
  LET over == {c \in Calls : CallUser[c] = u /\ age[c] = Forgotten} IN
  /\ queue[u] # {} /\ over # {}
  /\ queue' = [queue EXCEPT ![u] = IF SharedStore THEN {} ELSE @ \ over]
  /\ UNCHANGED <<callVars, pend, result, spent, pollVars, pageVars, postVars>>

-----------------------------------------------------------------------------
(* The poll handler                                                        *)

(* The page's loop opens a poll once it has accepted the last answer.      *)
PollStart(p) ==
  /\ poll[p] = "idle"
  /\ inbox[p] = {}
  /\ poll' = [poll EXCEPT ![p] = "taking"]
  /\ gone' = [gone EXCEPT ![p] = FALSE]
  /\ UNCHANGED <<held, callVars, storeVars, pageVars, postVars>>

\* Seeded fault: take reads the queue without removing what it answers.
TakePeek(p) ==
  /\ poll[p] = "taking"
  /\ Takeable(PageUser[p]) # {}
  /\ held' = [held EXCEPT ![p] = Takeable(PageUser[p])]
  /\ poll' = [poll EXCEPT ![p] = "answering"]
  /\ UNCHANGED <<gone, storeVars, callVars, pageVars, postVars>>

Take(p) ==
  LET u == PageUser[p] IN
  /\ poll[p] = "taking"
  /\ \E batch \in SUBSET Takeable(u) :
       /\ batch # {}
       /\ batch = Takeable(u) \/ Cardinality(batch) = MaxBatch
       /\ Cardinality(batch) <= MaxBatch
       /\ held' = [held EXCEPT ![p] = batch]
       /\ queue' = [queue EXCEPT ![u] = Takeable(u) \ batch]
  /\ poll' = [poll EXCEPT ![p] = "answering"]
  /\ UNCHANGED <<gone, pend, result, spent, callVars, pageVars, postVars>>

(* The wait is over, or the page is gone: answer no commands.  With Redis  *)
(* a command may be queued after the last LPOP found none.                 *)
TakeNothing(p) ==
  /\ poll[p] = "taking"
  /\ SharedStore \/ Takeable(PageUser[p]) = {}
  /\ poll' = [poll EXCEPT ![p] = "idle"]
  /\ UNCHANGED <<gone, held, callVars, storeVars, pageVars, postVars>>

(* The page drops its request: stopped, paused, closed, timed out. *)
PageLeaves(p) ==
  /\ poll[p] # "idle"
  /\ ~gone[p]
  /\ gone' = [gone EXCEPT ![p] = TRUE]
  /\ UNCHANGED <<poll, held, callVars, storeVars, pageVars, postVars>>

(* Back from take: the commands go back if the page is gone, else those    *)
(* still fresh are answered and the others dropped.                        *)
Answer(p) ==
  /\ poll[p] = "answering"
  /\ IF gone[p]
     THEN /\ poll' = [poll EXCEPT ![p] = "requeueing"]
          /\ UNCHANGED <<held, inbox>>
     ELSE /\ poll' = [poll EXCEPT ![p] = "idle"]
          /\ held' = [held EXCEPT ![p] = {}]
          /\ inbox' = [inbox EXCEPT ![p] = {c \in held[p] : age[c] = Fresh}]
  /\ UNCHANGED <<gone, job, runs, callVars, storeVars, postVars>>

Requeue(p) ==
  /\ poll[p] = "requeueing"
  /\ poll' = [poll EXCEPT ![p] = "idle"]
  /\ held' = [held EXCEPT ![p] = {}]
  /\ queue' = [queue EXCEPT ![PageUser[p]] = @ \cup Requeued(held[p])]
  /\ UNCHANGED <<gone, pend, result, spent, callVars, pageVars, postVars>>

(* LPOP or LPUSH throws: a command it already popped is lost. *)
PollThrows(p) ==
  /\ SharedStore
  /\ \/ /\ poll[p] = "taking"
        /\ \E lost \in SUBSET queue[PageUser[p]] :
             queue' = [queue EXCEPT ![PageUser[p]] = @ \ lost]
     \/ poll[p] = "requeueing" /\ queue' \in
          {queue, [queue EXCEPT ![PageUser[p]] = @ \cup held[p]]}
  /\ poll' = [poll EXCEPT ![p] = "idle"]
  /\ held' = [held EXCEPT ![p] = {}]
  /\ UNCHANGED <<gone, pend, result, spent, callVars, pageVars, postVars>>

-----------------------------------------------------------------------------
(* The page                                                                *)

(* The answer is lost on its way. *)
LoseAnswer(p) ==
  /\ inbox[p] # {}
  /\ inbox' = [inbox EXCEPT ![p] = {}]
  /\ UNCHANGED <<job, runs, callVars, storeVars, pollVars, postVars>>

(* #accept every command of the answer: skip one already seen, answer an   *)
(* expired one, hand the rest to the runtime.                              *)
Accept(p) ==
  /\ inbox[p] # {}
  /\ inbox' = [inbox EXCEPT ![p] = {}]
  /\ job' = [job EXCEPT ![p] = [c \in Calls |->
       IF c \notin inbox[p] \/ job[p][c] # "none" THEN job[p][c]
       ELSE IF age[c] # Fresh /\ p \notin SlowClock THEN "error"
       ELSE "accepted"]]
  /\ UNCHANGED <<runs, callVars, storeVars, pollVars, postVars>>

SetJob(p, c, to) == job' = [job EXCEPT ![p][c] = to]

(* #runCommand without a session that grants the key, or a session that    *)
(* answers NOT_GRANTED: nothing runs.                                      *)
Refuse(p, c) ==
  /\ job[p][c] = "accepted"
  /\ SetJob(p, c, "refused")
  /\ UNCHANGED <<inbox, runs, callVars, storeVars, pollVars, postVars>>

(* A slot was granted: the visitor's Writ is called. *)
Start(p, c) ==
  /\ job[p][c] = "accepted"
  /\ SetJob(p, c, "running")
  /\ runs' = [runs EXCEPT ![c] = @ + 1]
  /\ UNCHANGED <<inbox, callVars, storeVars, pollVars, postVars>>

(* The call ended, or ended before it started (inputs refused, cancelled   *)
(* while it waited for a slot).                                            *)
Finish(p, c) ==
  /\ \/ job[p][c] = "accepted" /\ SetJob(p, c, "error")
     \/ /\ job[p][c] = "running"
        /\ \E b \in Bodies \ {"refused"} : SetJob(p, c, b)
  /\ UNCHANGED <<inbox, runs, callVars, storeVars, pollVars, postVars>>

(* #deliver stops: its attempts are used up, the command expired, the      *)
(* channel was refused.                                                    *)
GiveUp(p, c) ==
  /\ job[p][c] \in Bodies
  /\ SetJob(p, c, "over")
  /\ UNCHANGED <<inbox, runs, callVars, storeVars, pollVars, postVars>>

(* The tab reloads: all it knew is lost, with it the ids it had seen.      *)
Reload(p) ==
  /\ \E c \in Calls : job[p][c] # "none"
  /\ job' = [job EXCEPT ![p] = [c \in Calls |-> "none"]]
  /\ inbox' = [inbox EXCEPT ![p] = {}]
  /\ gone' = [gone EXCEPT ![p] = poll[p] # "idle"]
  /\ UNCHANGED <<runs, poll, held, callVars, storeVars, postVars>>

-----------------------------------------------------------------------------
(* The result handler                                                      *)

(* A page posts what it has to say.  It posts again when it heard no       *)
(* answer, or a 5xx: the handler of the earlier request may still run.     *)
(* Another user's page may name any id.                                    *)
PostResult(h, p, c) ==
  /\ post[h] = NoPost
  /\ \E b \in Bodies :
       /\ IF PageUser[p] = CallUser[c] THEN job[p][c] = b ELSE b = "error"
       /\ post' = [post EXCEPT ![h] = [stage |-> "lookup", page |-> p, call |-> c, says |-> b]]
  /\ UNCHANGED <<verdicts, callVars, storeVars, pollVars, pageVars>>

(* The request is answered for good, and the page hears it or not. *)
Reply(h) ==
  LET p == post[h].page c == post[h].call IN
  /\ post' = [post EXCEPT ![h] = NoPost]
  /\ \/ UNCHANGED job
     \/ job[p][c] \in Bodies /\ SetJob(p, c, "over")

(* 404: no such command is pending for this page's user. *)
Unknown(h) ==
  /\ post[h].stage = "lookup"
  /\ post[h].call \notin pend \/ PageUser[post[h].page] # CallUser[post[h].call]
  /\ Reply(h)
  /\ UNCHANGED <<verdicts, inbox, runs, callVars, storeVars, pollVars>>

Lookup(h) ==
  /\ post[h].stage = "lookup"
  /\ post[h].call \in pend
  /\ PageUser[post[h].page] = CallUser[post[h].call]
  /\ post' = [post EXCEPT ![h].stage = "verify"]
  /\ UNCHANGED <<verdicts, callVars, storeVars, pollVars, pageVars>>

\* Seeded fault: the pending command is not forgotten.
ResolveAndKeep(c, outcome) ==
  /\ pend' = pend
  /\ result' = IF c \in pend THEN [result EXCEPT ![c] = outcome] ELSE result

(* resolve: the first to delete the pending command hands its outcome over.*)
ResolveWith(c, outcome) ==
  /\ pend' = pend \ {c}
  /\ result' = IF c \in pend THEN [result EXCEPT ![c] = outcome] ELSE result

(* checkReceipt.  A receipt that answers the command spends its challenge  *)
(* before the rest of it is compared.                                      *)
Reaches(b) == b \in {"success", "failure", "tampered"}
\* Seeded fault: spendNonce's answer is ignored.
AcceptedAgain(c, b) == b \in {"success", "failure"} /\ age[c] # Forgotten

Accepted(c, b) == b \in {"success", "failure"} /\ c \notin spent /\ age[c] # Forgotten

OutcomeOf(c, b) ==
  IF b \in {"refused", "error"} THEN b
  ELSE IF ~Accepted(c, b) THEN "unverified"
  ELSE IF b = "success" THEN "data" ELSE "failed"

(* With memoryStore nothing runs between spending the nonce and resolving. *)
Verify(h) ==
  LET c == post[h].call  b == post[h].says IN
  /\ post[h].stage = "verify"
  /\ spent' = IF Reaches(b) /\ age[c] # Forgotten THEN spent \cup {c} ELSE spent
  /\ verdicts' = IF Accepted(c, b) THEN [verdicts EXCEPT ![c] = @ + 1] ELSE verdicts
  /\ IF SharedStore
     THEN /\ post' = [post EXCEPT ![h] = [@ EXCEPT !.stage = "resolve", !.says = OutcomeOf(c, b)]]
          /\ UNCHANGED <<pend, result, job>>
     ELSE ResolveWith(c, OutcomeOf(c, b)) /\ Reply(h)
  /\ UNCHANGED <<queue, inbox, runs, callVars, pollVars>>

\* Seeded fault: resolve does not look at DEL's answer.
ResolveUnseen(h) ==
  /\ post[h].stage = "resolve"
  /\ pend' = pend \ {post[h].call}
  /\ post' = [post EXCEPT ![h].stage = "push"]
  /\ UNCHANGED <<queue, result, spent, verdicts, callVars, pollVars, pageVars>>

(* resolve with Redis: one handler's DEL finds the pending command, and    *)
(* that handler pushes its outcome.  The page hears 204 either way.        *)
Resolve(h) ==
  LET c == post[h].call IN
  /\ post[h].stage = "resolve"
  /\ IF c \in pend
     THEN /\ pend' = pend \ {c}
          /\ post' = [post EXCEPT ![h].stage = "push"]
          /\ UNCHANGED job
     ELSE Reply(h) /\ UNCHANGED pend
  /\ UNCHANGED <<queue, result, spent, verdicts, inbox, runs, callVars, pollVars>>

PushOutcome(h) ==
  /\ post[h].stage = "push"
  /\ result' = [result EXCEPT ![post[h].call] = post[h].says]
  /\ Reply(h)
  /\ UNCHANGED <<pend, queue, spent, verdicts, inbox, runs, callVars, pollVars>>

(* The store throws: 500, and the page will try again.  The operation may  *)
(* have taken effect.                                                      *)
PostThrows(h) ==
  /\ SharedStore
  /\ post[h] # NoPost
  /\ LET c == post[h].call IN
     \/ post[h].stage = "lookup" /\ UNCHANGED <<spent, pend, result>>
     \/ /\ post[h].stage = "verify"
        /\ Reaches(post[h].says)
        /\ spent' \in {spent, spent \cup {c}}
        /\ UNCHANGED <<pend, result>>
     \/ /\ post[h].stage = "resolve"
        /\ pend' \in {pend, pend \ {c}}
        /\ UNCHANGED <<spent, result>>
     \/ /\ post[h].stage = "push"
        /\ result' \in {result, [result EXCEPT ![c] = post[h].says]}
        /\ UNCHANGED <<spent, pend>>
  /\ post' = [post EXCEPT ![h] = NoPost]
  /\ UNCHANGED <<queue, verdicts, callVars, pollVars, pageVars>>

-----------------------------------------------------------------------------
CallerStep(c) ==
  \/ Begin(c) \/ Route(c) \/ Enqueue(c) \/ Collect(c) \/ PickupOver(c) \/ Withdraw(c)
  \/ BudgetOver(c) \/ Cancel(c) \/ CloudEnds(c)

PollStep(p) ==
  \/ PollStart(p) \/ Take(p) \/ TakeNothing(p) \/ PageLeaves(p) \/ Answer(p) \/ Requeue(p)
  \/ PollThrows(p)

PageStep(p) ==
  \/ LoseAnswer(p) \/ Accept(p) \/ Reload(p)
  \/ \E c \in Calls : Refuse(p, c) \/ Start(p, c) \/ Finish(p, c) \/ GiveUp(p, c)

PostStep(h) ==
  \/ \E p \in Pages, c \in Calls : PostResult(h, p, c)
  \/ Unknown(h) \/ Lookup(h) \/ Verify(h) \/ Resolve(h) \/ PushOutcome(h) \/ PostThrows(h)

Next ==
  \/ \E c \in Calls : CallerStep(c) \/ CallerThrows(c) \/ Tick(c)
  \/ \E p \in Pages : PollStep(p) \/ PageStep(p)
  \/ \E h \in Posts : PostStep(h)
  \/ \E u \in Users : QueueExpires(u)

Spec == Init /\ [][Next]_vars

(* What the server's own timers and promises guarantee: a call that began  *)
(* keeps going, and time passes.  Nothing is assumed of pages, and no      *)
(* store operation has to throw.                                           *)
Fairness ==
  \A c \in Calls :
    /\ WF_vars(Tick(c))
    /\ WF_vars(CallerStep(c) /\ caller[c] # "idle")

LiveSpec == Spec /\ Fairness

-----------------------------------------------------------------------------
(* Properties                                                              *)

(* Where a command can still reach a page from. *)
InFlight(c) ==
  \/ Queued(c)
  \/ \E p \in Pages : c \in held[p] \/ c \in inbox[p] \/ job[p][c] = "accepted"

(* The call was handed to Writ Cloud. *)
AtCloud(c) == caller[c] = "cloud" \/ answer[c] \in {"cloud", "cloudError"}

(* The caller was told that nothing ran on the visitor's computer. *)
ToldAway(c) == answer[c] \in AwayCodes

(* A function handed to Writ Cloud, or refused as NOT_GRANTED,             *)
(* WRIT_REQUIRED or USER_OFFLINE, has not run on the visitor's computer    *)
(* and cannot run there any more: no page holds its command                *)
(* (bridge.ts, the two "away" returns of runOnUser).                       *)
OneVenue ==
  \A c \in Calls : AtCloud(c) \/ ToldAway(c) => runs[c] = 0 /\ ~InFlight(c)

(* A command is started at most once, over every tab, reload, lost answer  *)
(* and requeue.                                                            *)
StartedAtMostOnce == \A c \in Calls : runs[c] <= 1

(* A receipt for a command is accepted at most once, however often the     *)
(* page posts it and however the handlers interleave (checkReceipt).       *)
ReceiptAcceptedOnce == \A c \in Calls : verdicts[c] <= 1

(* The data a caller gets comes with an accepted receipt of a run that     *)
(* happened.                                                               *)
DataIsGenuine ==
  \A c \in Calls : answer[c] = "data" => runs[c] = 1 /\ verdicts[c] = 1

(* An outcome is only ever handed over for a command a page took: another  *)
(* user's page that names its id changes nothing (result, the 404).        *)
AnsweredByOwnPage ==
  \A c \in Calls : result[c] # "none" => ~Queued(c)

(* The caller ends with the first outcome: an outcome handed over is never *)
(* replaced by a later one ("exactly one resolve wins").                   *)
FirstOutcomeStands ==
  [][\A c \in Calls : result[c] # "none" => result'[c] \in {result[c], "none"}]_vars

(* Once its caller has an answer, a call leaves nothing behind in a store  *)
(* that does not throw: no pending command, no outcome.                    *)
NothingLeftBehind ==
  \A c \in Calls :
    caller[c] \in {"cloud", "done"} => c \notin pend /\ result[c] = "none"

(* Every call that began ends: no lost command, page or outcome keeps its  *)
(* caller waiting for ever.                                                *)
EveryCallEnds == \A c \in Calls : caller[c] # "idle" ~> caller[c] = "done"

(* The promise of CallVenue. *)
VenueOf(c) ==
  IF AtCloud(c) THEN "cloud"
  ELSE IF ToldAway(c) THEN "away"
  ELSE IF answer[c] = "data" THEN "user"
  ELSE IF caller[c] = "done" THEN "failed" ELSE "none"

CV == INSTANCE CallVenue WITH venue <- [c \in Calls |-> VenueOf(c)]

(* Every behaviour of callers, store, pages and network is one CallVenue   *)
(* allows.                                                                 *)
ImplementsCallVenue == CV!Spec

(* The inductive invariant behind OneVenue and StartedAtMostOnce.          *)
Holds(p, c) == c \in held[p] \/ c \in inbox[p] \/ job[p][c] = "accepted"

NotRun(c) == runs[c] = 0 /\ ~InFlight(c)

(* A page said NOT_GRANTED without a receipt, or the caller has read it.   *)
SaidRefused(c) ==
  \/ \E p \in Pages : job[p][c] = "refused"
  \/ \E h \in Posts : post[h] # NoPost /\ post[h].call = c /\ post[h].says = "refused"
  \/ result[c] = "refused"

OwnQueue ==
  /\ \A u \in Users, c \in Calls : c \in queue[u] => u = CallUser[c]
  /\ \A p \in Pages, c \in Calls : c \in held[p] => PageUser[p] = CallUser[c]

OneHolder ==
  \A c \in Calls :
    /\ \A p \in Pages : Holds(p, c) => ~Queued(c) /\ runs[c] = 0
    /\ \A p, q \in Pages : Holds(p, c) /\ Holds(q, c) => p = q
    /\ \A p \in Pages :
         /\ c \in held[p] => c \notin inbox[p] /\ job[p][c] # "accepted"
         /\ c \in inbox[p] => job[p][c] # "accepted"

NeverSent == {"idle", "routing", "sending", "cancelAway", "cloud"}

NotRunAnywhere ==
  \A c \in Calls :
    /\ caller[c] \in NeverSent \/ AtCloud(c) \/ ToldAway(c) => NotRun(c)
    /\ SaidRefused(c) => NotRun(c) /\ ~Unsent(c)
    /\ Queued(c) => runs[c] = 0
    /\ runs[c] <= 1

(* Evidence that the function ran. *)
SaidRan(c) ==
  \/ \E p \in Pages : job[p][c] \in {"running", "success", "failure", "foreign", "tampered"}
  \/ \E h \in Posts : /\ post[h] # NoPost /\ post[h].call = c
                      /\ post[h].says \in {"success", "failure", "foreign", "tampered", "data", "failed"}
  \/ result[c] \in {"data", "failed"}
  \/ answer[c] = "data"

EvidenceIsTrue == \A c \in Calls : SaidRan(c) => runs[c] = 1

AnsweredMeansDone == \A c \in Calls : answer[c] # "none" => caller[c] = "done"

(* One place holds a command until it starts, and evidence that it did not *)
(* start is never wrong: what makes the venue of a call unique, for any    *)
(* number of calls, pages and requests (runOnUser, poll, result).          *)
IInv == TypeOK /\ OwnQueue /\ OneHolder /\ NotRunAnywhere /\ EvidenceIsTrue /\ AnsweredMeansDone

(* A result request of a page of the call's own user.                      *)
OwnPost(h, c) ==
  post[h] # NoPost /\ post[h].call = c /\ PageUser[post[h].page] = CallUser[c]

(* A page took the command on, said something of it, or an outcome is      *)
(* there.                                                                  *)
Landed(c) ==
  \/ \E p \in Pages : job[p][c] # "none"
  \/ \E h \in Posts : OwnPost(h, c)
  \/ result[c] # "none"

(* A command that landed is on no way to a page, and one page had it: a    *)
(* command goes back to the queue only before it is answered.              *)
LandedOnce ==
  \A c \in Calls :
    /\ Landed(c) => ~Unsent(c) /\ ~Queued(c) /\ \A p \in Pages : c \notin held[p] /\ c \notin inbox[p]
    /\ \A p, q \in Pages : job[p][c] # "none" /\ job[q][c] # "none" => p = q
    /\ \A h \in Posts :
         post[h].stage \in {"verify", "resolve", "push"} /\ post[h].call = c => OwnPost(h, c)

Pushes(h, c) == post[h].stage = "push" /\ post[h].call = c

(* Who deletes the pending command hands its outcome over, alone.          *)
OneOutcome ==
  \A c \in Calls :
    /\ Unsent(c) => c \notin pend
    /\ result[c] # "none" => c \notin pend /\ \A h \in Posts : ~Pushes(h, c)
    /\ \A h \in Posts : Pushes(h, c) => c \notin pend
    /\ \A h, g \in Posts : Pushes(h, c) /\ Pushes(g, c) => h = g

SaidData(c) ==
  \/ \E h \in Posts : post[h] # NoPost /\ post[h].call = c /\ post[h].says = "data"
  \/ result[c] = "data" \/ answer[c] = "data"

(* A receipt was accepted for data, and its nonce is spent since.          *)
DataHasReceipt ==
  \A c \in Calls :
    /\ verdicts[c] = 1 => c \in spent
    /\ SaidData(c) => verdicts[c] = 1

(* What a caller gets is what its own page said of its own command, once   *)
(* and with a receipt (result, checkReceipt, resolve).                     *)
AnswerIsGenuine ==
  /\ ReceiptAcceptedOnce /\ DataIsGenuine /\ AnsweredByOwnPage
  /\ LandedOnce /\ OneOutcome /\ DataHasReceipt

(* A result whose receipt is genuine and matches its data is not refused   *)
(* (verify.ts refuses a receipt that was used before; bridge-channel.ts    *)
(* retries a result after a network failure or a 5xx).                     *)
GenuineResultIsAccepted ==
  [][\A c \in Calls :
       (\E p \in Pages : job[p][c] = "success") => answer'[c] # "RESULT_UNVERIFIED"]_vars
=============================================================================
