------------------------ MODULE BridgeCommandsProofs ------------------------
(***************************************************************************)
(* For any calls, pages, requests and users: type correctness, OneVenue    *)
(* and StartedAtMostOnce of BridgeCommands; what a caller gets is genuine, *)
(* the first outcome stands, the calls implement CallVenue; and, with a    *)
(* store that does not throw, nothing is left behind and no genuine result *)
(* is refused.                                                             *)
(***************************************************************************)
EXTENDS BridgeCommands, TLAPS

USE ConstantsAssumption DEF callVars, storeVars, pollVars, pageVars, postVars

LEMMA InitType == Init => TypeOK
BY DEF Init, TypeOK, CallerStates, Answers, AwayCodes, Ages, Fresh, Forgotten, Outcomes,
       JobStates, Bodies

(* Going away keeps the caller's part of the type invariant. *)
LEMMA AwayType ==
  ASSUME TypeOK, NEW c \in Calls, NEW code \in AwayCodes, Away(c, code)
  PROVE  caller' \in [Calls -> CallerStates] /\ answer' \in [Calls -> Answers]
<1>1. CASE Mode[c] = "recommended"
  BY <1>1 DEF TypeOK, Away, CallerStates
<1>2. CASE Mode[c] # "recommended"
  BY <1>2 DEF TypeOK, Away, Return, CallerStates, Answers
<1>3. QED
  BY <1>1, <1>2

LEMMA CallerType ==
  ASSUME TypeOK, NEW c \in Calls, CallerStep(c) \/ CallerThrows(c) \/ Tick(c)
  PROVE  TypeOK'
<1> USE DEF TypeOK
<1>1. CASE Begin(c)
  BY <1>1 DEF Begin, Step, CallerStates
<1>2. CASE Route(c)
  <2>1. caller' \in [Calls -> CallerStates] /\ answer' \in [Calls -> Answers]
    BY <1>2, AwayType DEF Route, Step, CallerStates
  <2>2. QED
    BY <1>2, <2>1 DEF Route
<1>3. CASE Enqueue(c)
  BY <1>3 DEF Enqueue, Step, Push, CallerStates
<1>4. CASE Collect(c)
  BY <1>4 DEF Collect, Settle, Away, Return, CallerStates, Answers, AwayCodes, Outcomes
<1>5. CASE PickupOver(c)
  BY <1>5 DEF PickupOver, Step, CallerStates
<1>6. CASE Withdraw(c)
  BY <1>6 DEF Withdraw, Step, Pull, CallerStates
<1>7. CASE BudgetOver(c)
  BY <1>7 DEF BudgetOver, Step, CallerStates
<1>8. CASE Cancel(c)
  <2>1. caller' \in [Calls -> CallerStates] /\ answer' \in [Calls -> Answers]
    <3>1. CASE caller[c] = "cancelAway"
      <4>1. Away(c, "USER_OFFLINE") /\ "USER_OFFLINE" \in AwayCodes
        BY <1>8, <3>1 DEF Cancel, AwayCodes
      <4>2. QED
        BY <4>1, AwayType
    <3>2. CASE caller[c] # "cancelAway"
      BY <1>8, <3>2 DEF Cancel, Return, CallerStates, Answers
    <3>3. QED
      BY <3>1, <3>2
  <2>2. pend' \subseteq Calls /\ result' \in [Calls -> Outcomes \cup {"none"}]
    BY <1>8 DEF Cancel
  <2>3. QED
    BY <1>8, <2>1, <2>2 DEF Cancel
<1>9. CASE CloudEnds(c)
  BY <1>9 DEF CloudEnds, Return, CallerStates, Answers
<1>10. CASE CallerThrows(c)
  <2>1. caller' \in [Calls -> CallerStates] /\ answer' \in [Calls -> Answers]
    BY <1>10 DEF CallerThrows, Return, CallerStates, Answers
  <2>2. Push(c) \in [Users -> SUBSET Calls] /\ Pull(c) \in [Users -> SUBSET Calls]
    BY DEF Push, Pull
  <2>3. pend' \subseteq Calls /\ queue' \in [Users -> SUBSET Calls]
    BY <1>10, <2>2 DEF CallerThrows
  <2>4. result' \in [Calls -> Outcomes \cup {"none"}] /\ spent' \subseteq Calls
    BY <1>10 DEF CallerThrows
  <2>5. QED
    BY <1>10, <2>1, <2>3, <2>4 DEF CallerThrows
<1>11. CASE Tick(c)
  BY <1>11 DEF Tick, Unsent, Ages, Fresh, Forgotten, Outcomes
<1>12. QED
  BY <1>1, <1>2, <1>3, <1>4, <1>5, <1>6, <1>7, <1>8, <1>9, <1>10, <1>11 DEF CallerStep

LEMMA PollType ==
  ASSUME TypeOK, NEW p \in Pages, PollStep(p)
  PROVE  TypeOK'
<1> USE DEF TypeOK
<1>1. CASE PollStart(p)
  BY <1>1 DEF PollStart
<1>2. CASE Take(p)
  BY <1>2 DEF Take, Takeable
<1>3. CASE TakeNothing(p)
  BY <1>3 DEF TakeNothing
<1>4. CASE PageLeaves(p)
  BY <1>4 DEF PageLeaves
<1>5. CASE Answer(p)
  <2>1. CASE gone[p]
    BY <1>5, <2>1 DEF Answer
  <2>2. CASE ~gone[p]
    <3>1. held' \in [Pages -> SUBSET Calls]
      BY <1>5, <2>2 DEF Answer
    <3>2. PICK F : F \subseteq Calls /\ inbox' = [inbox EXCEPT ![p] = F]
      <4>1. {c \in held[p] : age[c] = Fresh} \subseteq Calls
        OBVIOUS
      <4>2. inbox' = [inbox EXCEPT ![p] = {c \in held[p] : age[c] = Fresh}]
        BY <1>5, <2>2 DEF Answer
      <4>3. QED
        BY <4>1, <4>2
    <3>3. inbox' \in [Pages -> SUBSET Calls]
      BY <3>2
    <3>4. QED
      BY <1>5, <2>2, <3>1, <3>3 DEF Answer
  <2>3. QED
    BY <2>1, <2>2
<1>6. CASE Requeue(p)
  BY <1>6 DEF Requeue, Requeued
<1>7. CASE PollThrows(p)
  BY <1>7 DEF PollThrows
<1>8. QED
  BY <1>1, <1>2, <1>3, <1>4, <1>5, <1>6, <1>7 DEF PollStep

(* Changing what one page does with one command. *)
LEMMA SetJobType ==
  ASSUME TypeOK, NEW p \in Pages, NEW c \in Calls, NEW to \in JobStates, SetJob(p, c, to)
  PROVE  /\ job' \in [Pages -> [Calls -> JobStates]]
         /\ job'[p][c] = to
         /\ \A q \in Pages, d \in Calls : q # p \/ d # c => job'[q][d] = job[q][d]
BY DEF TypeOK, SetJob

LEMMA PageType ==
  ASSUME TypeOK, NEW p \in Pages, PageStep(p)
  PROVE  TypeOK'
<1> USE DEF TypeOK
<1>1. CASE LoseAnswer(p)
  BY <1>1 DEF LoseAnswer
<1>2. CASE Accept(p)
  BY <1>2 DEF Accept, JobStates, Bodies
<1>3. CASE Reload(p)
  BY <1>3 DEF Reload, JobStates
<1>4. ASSUME NEW c \in Calls, Refuse(p, c) \/ Start(p, c) \/ Finish(p, c) \/ GiveUp(p, c)
      PROVE  TypeOK'
  <2>1. job' \in [Pages -> [Calls -> JobStates]]
    <3>1. \E to \in JobStates : SetJob(p, c, to)
      BY <1>4 DEF Refuse, Start, Finish, GiveUp, JobStates, Bodies
    <3>2. QED
      BY <3>1, SetJobType
  <2>2. runs' \in [Calls -> Nat]
    BY <1>4 DEF Refuse, Start, Finish, GiveUp
  <2>3. QED
    BY <1>4, <2>1, <2>2 DEF Refuse, Start, Finish, GiveUp
<1>5. QED
  BY <1>1, <1>2, <1>3, <1>4 DEF PageStep

(* A record of the result handler, by its stage. *)
LEMMA PostShape ==
  ASSUME TypeOK, NEW h \in Posts, post[h] # NoPost
  PROVE  /\ post[h] \in PostRecords
         /\ post[h].page \in Pages /\ post[h].call \in Calls
         /\ post[h].stage \in {"lookup", "verify"} => post[h].says \in Bodies
         /\ post[h].stage \in {"resolve", "push"} => post[h].says \in Outcomes
BY DEF TypeOK, PostRecords

LEMMA BusyPost ==
  ASSUME NEW h, post[h].stage \in {"lookup", "verify", "resolve", "push"}
  PROVE  post[h] # NoPost
BY DEF NoPost

LEMMA ReplyType ==
  ASSUME TypeOK, NEW h \in Posts, post[h] # NoPost, Reply(h)
  PROVE  /\ post' \in [Posts -> PostRecords \cup {NoPost}]
         /\ job' \in [Pages -> [Calls -> JobStates]]
<1>1. post[h].page \in Pages /\ post[h].call \in Calls
  BY PostShape
<1>2. post' \in [Posts -> PostRecords \cup {NoPost}]
  BY DEF Reply, TypeOK
<1>3. job' \in [Pages -> [Calls -> JobStates]]
  <2>1. "over" \in JobStates
    BY DEF JobStates
  <2>2. CASE UNCHANGED job
    BY <2>2 DEF TypeOK
  <2>3. CASE SetJob(post[h].page, post[h].call, "over")
    BY <1>1, <2>1, <2>3, SetJobType
  <2>4. QED
    BY <2>2, <2>3 DEF Reply
<1>4. QED
  BY <1>2, <1>3

LEMMA ResolveType ==
  ASSUME TypeOK, NEW c \in Calls, NEW o \in Outcomes, ResolveWith(c, o)
  PROVE  pend' \subseteq Calls /\ result' \in [Calls -> Outcomes \cup {"none"}]
BY DEF TypeOK, ResolveWith

LEMMA OutcomeType ==
  ASSUME NEW c, NEW b \in Bodies
  PROVE  OutcomeOf(c, b) \in Outcomes
BY DEF OutcomeOf, Bodies, Outcomes

LEMMA PostType ==
  ASSUME TypeOK, NEW h \in Posts, PostStep(h)
  PROVE  TypeOK'
<1> USE DEF TypeOK
<1>1. ASSUME NEW p \in Pages, NEW c \in Calls, PostResult(h, p, c)
      PROVE  TypeOK'
  <2>1. PICK b \in Bodies :
          post' = [post EXCEPT ![h] = [stage |-> "lookup", page |-> p, call |-> c, says |-> b]]
    BY <1>1 DEF PostResult
  <2>2. [stage |-> "lookup", page |-> p, call |-> c, says |-> b] \in PostRecords
    BY DEF PostRecords
  <2>3. post' \in [Posts -> PostRecords \cup {NoPost}]
    BY <2>1, <2>2
  <2>4. QED
    BY <1>1, <2>3 DEF PostResult
<1>2. CASE Unknown(h)
  <2>1. /\ post' \in [Posts -> PostRecords \cup {NoPost}]
        /\ job' \in [Pages -> [Calls -> JobStates]]
    BY <1>2, BusyPost, ReplyType DEF Unknown
  <2>2. QED
    BY <1>2, <2>1 DEF Unknown
<1>3. CASE Lookup(h)
  <2>1. post[h] \in PostRecords /\ post[h].stage = "lookup"
    BY <1>3, BusyPost, PostShape DEF Lookup
  <2>2. [post[h] EXCEPT !.stage = "verify"] \in PostRecords
    BY <2>1 DEF PostRecords
  <2>3. post' \in [Posts -> PostRecords \cup {NoPost}]
    BY <1>3, <2>2 DEF Lookup
  <2>4. QED
    BY <1>3, <2>3 DEF Lookup
<1>4. CASE Verify(h)
  <2> DEFINE c == post[h].call  b == post[h].says
  <2>1. post[h] \in PostRecords /\ post[h].stage = "verify" /\ c \in Calls /\ b \in Bodies
        /\ post[h] # NoPost
    BY <1>4, BusyPost, PostShape DEF Verify
  <2>2. OutcomeOf(c, b) \in Outcomes
    BY <2>1, OutcomeType
  <2>3. spent' \subseteq Calls /\ verdicts' \in [Calls -> Nat]
    BY <1>4, <2>1 DEF Verify
  <2>4. CASE SharedStore
    <3>1. [post[h] EXCEPT !.stage = "resolve", !.says = OutcomeOf(c, b)] \in PostRecords
      BY <2>1, <2>2 DEF PostRecords
    <3>2. post' \in [Posts -> PostRecords \cup {NoPost}] /\ UNCHANGED <<pend, result, job>>
      BY <1>4, <2>4, <3>1 DEF Verify
    <3>3. QED
      BY <1>4, <2>3, <3>2 DEF Verify
  <2>5. CASE ~SharedStore
    <3>1. ResolveWith(c, OutcomeOf(c, b)) /\ Reply(h)
      BY <1>4, <2>5 DEF Verify
    <3>2. /\ post' \in [Posts -> PostRecords \cup {NoPost}]
          /\ job' \in [Pages -> [Calls -> JobStates]]
      BY <3>1, <2>1, ReplyType
    <3>3. pend' \subseteq Calls /\ result' \in [Calls -> Outcomes \cup {"none"}]
      BY <3>1, <2>1, <2>2, ResolveType
    <3>4. QED
      BY <1>4, <2>3, <3>2, <3>3 DEF Verify
  <2>6. QED
    BY <2>4, <2>5
<1>5. CASE Resolve(h)
  <2>1. post[h] \in PostRecords /\ post[h].stage = "resolve" /\ post[h] # NoPost
    BY <1>5, BusyPost, PostShape DEF Resolve
  <2>2. CASE post[h].call \in pend
    <3>1. [post[h] EXCEPT !.stage = "push"] \in PostRecords
      BY <2>1 DEF PostRecords
    <3>2. post' \in [Posts -> PostRecords \cup {NoPost}]
      BY <1>5, <2>2, <3>1 DEF Resolve
    <3>3. QED
      BY <1>5, <2>2, <3>2 DEF Resolve
  <2>3. CASE post[h].call \notin pend
    <3>1. /\ post' \in [Posts -> PostRecords \cup {NoPost}]
          /\ job' \in [Pages -> [Calls -> JobStates]]
      BY <1>5, <2>1, <2>3, ReplyType DEF Resolve
    <3>2. QED
      BY <1>5, <2>3, <3>1 DEF Resolve
  <2>4. QED
    BY <2>2, <2>3
<1>6. CASE PushOutcome(h)
  <2>1. post[h] # NoPost /\ post[h].call \in Calls /\ post[h].says \in Outcomes
    BY <1>6, BusyPost, PostShape DEF PushOutcome
  <2>2. /\ post' \in [Posts -> PostRecords \cup {NoPost}]
        /\ job' \in [Pages -> [Calls -> JobStates]]
    BY <1>6, <2>1, ReplyType DEF PushOutcome
  <2>3. result' \in [Calls -> Outcomes \cup {"none"}]
    BY <1>6, <2>1 DEF PushOutcome
  <2>4. QED
    BY <1>6, <2>2, <2>3 DEF PushOutcome
<1>7. CASE PostThrows(h)
  <2>1. post[h].call \in Calls
    BY <1>7, PostShape DEF PostThrows
  <2>2. pend' \subseteq Calls /\ spent' \subseteq Calls
    BY <1>7, <2>1 DEF PostThrows
  <2>3. result' \in [Calls -> Outcomes \cup {"none"}]
    BY <1>7, <2>1, PostShape DEF PostThrows
  <2>4. QED
    BY <1>7, <2>2, <2>3 DEF PostThrows
<1>8. QED
  BY <1>1, <1>2, <1>3, <1>4, <1>5, <1>6, <1>7 DEF PostStep

LEMMA ExpiryType ==
  ASSUME TypeOK, NEW u \in Users, QueueExpires(u)
  PROVE  TypeOK'
BY DEF TypeOK, QueueExpires

(* The state stays well-formed, whatever the instance.                     *)
THEOREM TypeCorrect == Spec => []TypeOK
<1>1. TypeOK /\ [Next]_vars => TypeOK'
  <2>1. CASE UNCHANGED vars
    BY <2>1 DEF TypeOK, vars
  <2>2. QED
    BY <2>1, CallerType, PollType, PageType, PostType, ExpiryType DEF Next
<1>2. QED
  BY InitType, <1>1, PTL DEF Spec

-----------------------------------------------------------------------------
(* The inductive invariant *)

LEMMA InitInv == Init => IInv
<1> SUFFICES ASSUME Init PROVE IInv
  OBVIOUS
<1>1. OwnQueue /\ OneHolder /\ AnsweredMeansDone
  BY DEF Init, OwnQueue, OneHolder, AnsweredMeansDone, Holds, Queued
<1>2. NotRunAnywhere
  BY DEF Init, NotRunAnywhere, NotRun, InFlight, Queued, SaidRefused
<1>3. EvidenceIsTrue
  BY DEF Init, EvidenceIsTrue, SaidRan
<1>4. QED
  BY InitType, <1>1, <1>2, <1>3 DEF IInv

(* No page has, or had, the command. *)
NotHeld(c) == runs[c] = 0 /\ \A p \in Pages : ~Holds(p, c)

LEMMA NotRunParts ==
  ASSUME NEW c
  PROVE  NotRun(c) <=> NotHeld(c) /\ ~Queued(c)
BY DEF NotRun, InFlight, NotHeld, Holds

(* What a step of the caller, or time, does to the rest of the system: it  *)
(* sends its own command once, takes it back, reads its own outcome, and   *)
(* goes elsewhere only when nothing ran.                                   *)
CallerEffect(c) ==
  /\ UNCHANGED <<held, inbox, job, runs, post>>
  /\ \A d \in Calls \ {c} : /\ caller'[d] = caller[d] /\ answer'[d] = answer[d]
                            /\ result'[d] = result[d]
  /\ result'[c] \in {result[c], "none"}
  /\ \A u \in Users, d \in Calls :
       d \in queue'[u] => \/ d \in queue[u]
                          \/ d = c /\ u = CallUser[c] /\ caller[c] = "sending"
  /\ answer'[c] # "none" => caller'[c] = "done"
  /\ Unsent(c)' => Unsent(c)
  /\ answer'[c] = "data" => answer[c] = "data" \/ result[c] = "data"
  /\ caller'[c] \in NeverSent \/ AtCloud(c)' \/ ToldAway(c)' => NotHeld(c) /\ ~Queued(c)'

LEMMA CallerEffectInv ==
  ASSUME IInv, TypeOK', NEW c \in Calls, CallerEffect(c)
  PROVE  IInv'
<1> USE DEF IInv, CallerEffect
<1>1. \A d \in Calls : CallUser[d] \in Users
  OBVIOUS
<1>2. OwnQueue'
  BY DEF OwnQueue
<1>3. AnsweredMeansDone'
  BY DEF AnsweredMeansDone
<1>4. \A d \in Calls, p \in Pages : Holds(p, d)' <=> Holds(p, d)
  BY DEF Holds
<1>5. \A d \in Calls : Queued(d)' => Queued(d) \/ (d = c /\ caller[c] = "sending")
  BY <1>1 DEF Queued
<1>6. caller[c] = "sending" => NotRun(c)
  BY DEF NotRunAnywhere, NeverSent
<1>7. OneHolder'
  BY <1>4, <1>5, <1>6 DEF OneHolder, NotRun, InFlight, Holds
<1>8. \A d \in Calls : NotHeld(d) /\ ~Queued(d)' => NotRun(d)'
  BY DEF NotRun, NotHeld, Holds, InFlight
<1>9. \A d \in Calls : SaidRefused(d)' => SaidRefused(d)
  BY DEF SaidRefused, TypeOK
<1>10. \A d \in Calls : SaidRan(d)' => SaidRan(d)
  BY DEF SaidRan, TypeOK
<1>11. EvidenceIsTrue'
  BY <1>10 DEF EvidenceIsTrue
<1>12. ASSUME NEW d \in Calls
       PROVE  /\ caller'[d] \in NeverSent \/ AtCloud(d)' \/ ToldAway(d)' => NotRun(d)'
              /\ SaidRefused(d)' => NotRun(d)' /\ ~Unsent(d)'
              /\ Queued(d)' => runs'[d] = 0
              /\ runs'[d] <= 1
  <2>1. /\ caller[d] \in NeverSent \/ AtCloud(d) \/ ToldAway(d) => NotRun(d)
        /\ SaidRefused(d) => NotRun(d) /\ ~Unsent(d)
        /\ Queued(d) => runs[d] = 0
        /\ runs[d] <= 1
    BY DEF NotRunAnywhere
  <2>2. runs' = runs /\ (NotRun(d) => runs[d] = 0 /\ ~Queued(d) /\ NotHeld(d))
    BY NotRunParts DEF NotRun
  <2>3. caller[d] = "sending" => Unsent(d)
    BY DEF Unsent
  <2>4. SaidRefused(d)' => NotRun(d)' /\ ~Unsent(d)'
    <3>1. d # c => (Unsent(d)' <=> Unsent(d))
      BY DEF Unsent
    <3>2. QED
      BY <2>1, <2>2, <2>3, <3>1, <1>5, <1>8, <1>9
  <2>5. Queued(d)' => runs'[d] = 0
    BY <2>1, <2>2, <1>5, <1>6
  <2>6. caller'[d] \in NeverSent \/ AtCloud(d)' \/ ToldAway(d)' => NotHeld(d) /\ ~Queued(d)'
    <3>1. CASE d = c
      BY <3>1
    <3>2. CASE d # c
      <4>1. caller'[d] = caller[d] /\ answer'[d] = answer[d] /\ ~(d = c)
        BY <3>2
      <4>2. (AtCloud(d)' <=> AtCloud(d)) /\ (ToldAway(d)' <=> ToldAway(d))
        BY <4>1 DEF AtCloud, ToldAway
      <4>3. QED
        BY <2>1, <2>2, <4>1, <4>2, <1>5
    <3>3. QED
      BY <3>1, <3>2
  <2>7. QED
    BY <2>1, <2>2, <2>4, <2>5, <2>6, <1>8
<1>13. NotRunAnywhere'
  BY <1>12 DEF NotRunAnywhere
<1>14. QED
  BY <1>2, <1>3, <1>7, <1>11, <1>13

(* Going away is allowed when nothing ran. *)
LEMMA AwayEffect ==
  ASSUME IInv, NEW c \in Calls, NEW code \in AwayCodes, Away(c, code),
         answer[c] = "none", UNCHANGED <<held, inbox, job, runs, post, queue>>,
         result' \in {result, [result EXCEPT ![c] = "none"]}, NotRun(c)
  PROVE  CallerEffect(c)
<1>1. /\ caller \in [Calls -> CallerStates] /\ answer \in [Calls -> Answers]
      /\ result \in [Calls -> Outcomes \cup {"none"}]
  BY DEF IInv, TypeOK
<1>2. /\ \A d \in Calls \ {c} : caller'[d] = caller[d] /\ answer'[d] = answer[d]
      /\ caller'[c] \in {"cloud", "done"}
      /\ answer'[c] # "none" => caller'[c] = "done"
      /\ answer'[c] # "data"
  BY <1>1 DEF Away, Return, AwayCodes
<1>3. ~Queued(c)'
  BY DEF NotRun, InFlight, Queued
<1>4. /\ \A d \in Calls \ {c} : result'[d] = result[d]
      /\ result'[c] \in {result[c], "none"}
  BY <1>1
<1>5. ~Unsent(c)'
  BY <1>2 DEF Unsent
<1>6. QED
  BY <1>2, <1>3, <1>4, <1>5, NotRunParts DEF CallerEffect

(* A step of the caller that stays with the visitor's computer, or fails.  *)
LEMMA StayEffect ==
  ASSUME IInv, NEW c \in Calls, UNCHANGED <<held, inbox, job, runs, post>>,
         NEW what \in Answers \ (AwayCodes \cup {"cloud", "cloudError"}),
         \/ /\ UNCHANGED answer /\ answer[c] = "none"
            /\ \E to \in {"pickup", "withdrawing", "waiting", "cancelTimeout"} :
                 caller' = [caller EXCEPT ![c] = to]
         \/ Return(c, what) /\ (what = "data" => result[c] = "data"),
         result' \in {result, [result EXCEPT ![c] = "none"]},
         queue' \in {queue, Pull(c)} \/ (caller[c] = "sending" /\ queue' = Push(c))
  PROVE  CallerEffect(c)
<1>1. /\ caller \in [Calls -> CallerStates] /\ answer \in [Calls -> Answers]
      /\ result \in [Calls -> Outcomes \cup {"none"}]
      /\ queue \in [Users -> SUBSET Calls]
  BY DEF IInv, TypeOK
<1>2. /\ \A d \in Calls \ {c} : caller'[d] = caller[d] /\ answer'[d] = answer[d]
      /\ caller'[c] \in {"pickup", "withdrawing", "waiting", "cancelTimeout", "done"}
      /\ answer'[c] # "none" => caller'[c] = "done"
      /\ answer'[c] \notin AwayCodes \cup {"cloud", "cloudError"}
      /\ answer'[c] = "data" => result[c] = "data"
  BY <1>1 DEF Return, AwayCodes
<1>3. ~(caller'[c] \in NeverSent \/ AtCloud(c)' \/ ToldAway(c)')
  BY <1>2 DEF NeverSent, AtCloud, ToldAway
<1>4. /\ \A d \in Calls \ {c} : result'[d] = result[d]
      /\ result'[c] \in {result[c], "none"}
  BY <1>1
<1>5. ~Unsent(c)'
  BY <1>2 DEF Unsent
<1>6. \A u \in Users, d \in Calls :
        d \in queue'[u] => \/ d \in queue[u]
                           \/ d = c /\ u = CallUser[c] /\ caller[c] = "sending"
  BY <1>1 DEF Pull, Push
<1>7. QED
  BY <1>2, <1>3, <1>4, <1>5, <1>6 DEF CallerEffect

LEMMA CallerEffects ==
  ASSUME IInv, NEW c \in Calls, CallerStep(c) \/ CallerThrows(c) \/ Tick(c)
  PROVE  CallerEffect(c)
<1> USE DEF IInv, TypeOK
<1>1. caller[c] # "done" => answer[c] = "none"
  BY DEF AnsweredMeansDone
<1>2. caller[c] \in NeverSent => NotRun(c)
  BY DEF NotRunAnywhere
<1>3. NotRun(c) => NotHeld(c) /\ ~Queued(c)
  BY NotRunParts
<1>4. CASE Begin(c)
  BY <1>4, <1>1, <1>2, <1>3 DEF Begin, Step, CallerEffect, NeverSent, Queued, Unsent
<1>5. CASE Route(c)
  <2>1. NotRun(c) /\ answer[c] = "none"
    BY <1>5, <1>1, <1>2 DEF Route, NeverSent
  <2>2. CASE Step(c, "routing", "sending") /\ UNCHANGED answer
    BY <1>5, <2>1, <2>2, <1>3 DEF Route, Step, CallerEffect, Queued, Unsent
  <2>3. ASSUME NEW code \in AwayCodes, Away(c, code)
        PROVE  CallerEffect(c)
    BY <1>5, <2>1, <2>3, AwayEffect DEF Route
  <2>4. QED
    BY <1>5, <2>2, <2>3 DEF Route
<1>6. "TIMEOUT" \in Answers \ (AwayCodes \cup {"cloud", "cloudError"})
  BY DEF Answers, AwayCodes
<1>7. CASE Enqueue(c)
  BY <1>1, <1>6, <1>7, StayEffect DEF Enqueue, Step
<1>8. CASE Collect(c)
  <2>1. answer[c] = "none"
    BY <1>1, <1>8 DEF Collect
  <2>2. CASE result[c] = "refused"
    <3>1. NotRun(c)
      BY <2>2 DEF NotRunAnywhere, SaidRefused
    <3>2. Away(c, "NOT_GRANTED") /\ "NOT_GRANTED" \in AwayCodes
      BY <1>8, <2>2 DEF Collect, Settle, AwayCodes
    <3>3. QED
      BY <1>8, <2>1, <3>1, <3>2, AwayEffect DEF Collect
  <2>3. CASE result[c] # "refused"
    <3>1. PICK what \in {"data", "RESULT_UNVERIFIED", "callError"} :
            Return(c, what) /\ (what = "data" => result[c] = "data")
      BY <1>8, <2>3 DEF Collect, Settle
    <3>2. what \in Answers \ (AwayCodes \cup {"cloud", "cloudError"})
      BY <3>1 DEF Answers, AwayCodes
    <3>3. QED
      BY <1>8, <3>1, <3>2, StayEffect DEF Collect
  <2>4. QED
    BY <2>2, <2>3
<1>9. CASE PickupOver(c)
  BY <1>1, <1>6, <1>9, StayEffect DEF PickupOver, Step
<1>10. CASE Withdraw(c)
  <2>1. answer[c] = "none" /\ queue' = Pull(c)
    BY <1>1, <1>10 DEF Withdraw, Step
  <2>2. CASE Queued(c)
    <3>1. NotHeld(c)
      BY <2>2 DEF NotHeld, NotRunAnywhere, OneHolder
    <3>2. ~Queued(c)'
      BY <2>1 DEF Queued, Pull
    <3>3. \A u \in Users, d \in Calls : d \in queue'[u] => d \in queue[u]
      BY <2>1 DEF Pull
    <3>4. QED
      BY <1>10, <2>1, <2>2, <3>1, <3>2, <3>3 DEF Withdraw, Step, CallerEffect, Unsent
  <2>3. CASE ~Queued(c)
    BY <1>6, <1>10, <2>1, <2>3, StayEffect DEF Withdraw, Step
  <2>4. QED
    BY <2>2, <2>3
<1>11. CASE BudgetOver(c)
  BY <1>1, <1>6, <1>11, StayEffect DEF BudgetOver, Step
<1>12. CASE Cancel(c)
  <2>1. CASE caller[c] = "cancelAway"
    <3>1. NotRun(c) /\ answer[c] = "none"
      BY <1>1, <1>2, <2>1 DEF NeverSent
    <3>2. Away(c, "USER_OFFLINE") /\ "USER_OFFLINE" \in AwayCodes
      BY <1>12, <2>1 DEF Cancel, AwayCodes
    <3>3. QED
      BY <1>12, <3>1, <3>2, AwayEffect DEF Cancel
  <2>2. CASE caller[c] # "cancelAway"
    BY <1>6, <1>12, <2>2, StayEffect DEF Cancel
  <2>3. QED
    BY <2>1, <2>2
<1>13. CASE CloudEnds(c)
  BY <1>13, <1>2, <1>3 DEF CloudEnds, Return, CallerEffect, NeverSent, Queued, Unsent
<1>14. CASE CallerThrows(c)
  <2>1. "INTERNAL" \in Answers \ (AwayCodes \cup {"cloud", "cloudError"})
    BY DEF Answers, AwayCodes
  <2>2. result' \in {result, [result EXCEPT ![c] = "none"]}
    BY <1>14 DEF CallerThrows
  <2>3. queue' \in {queue, Pull(c)} \/ (caller[c] = "sending" /\ queue' = Push(c))
    BY <1>14 DEF CallerThrows
  <2>4. QED
    BY <1>14, <2>1, <2>2, <2>3, StayEffect DEF CallerThrows
<1>15. CASE Tick(c)
  <2>1. /\ UNCHANGED <<caller, answer, queue, held, inbox, job, runs, post>>
        /\ \A d \in Calls \ {c} : result'[d] = result[d]
        /\ result'[c] \in {result[c], "none"}
    BY <1>15 DEF Tick
  <2>2. /\ AtCloud(c)' <=> AtCloud(c)
        /\ ToldAway(c)' <=> ToldAway(c)
        /\ Unsent(c)' <=> Unsent(c)
        /\ Queued(c)' <=> Queued(c)
    BY <2>1 DEF AtCloud, ToldAway, Unsent, Queued
  <2>3. caller[c] \in NeverSent \/ AtCloud(c) \/ ToldAway(c) => NotRun(c)
    BY DEF NotRunAnywhere
  <2>4. QED
    BY <1>1, <1>3, <2>1, <2>2, <2>3 DEF CallerEffect
<1>16. QED
  BY <1>4, <1>5, <1>7, <1>8, <1>9, <1>10, <1>11, <1>12, <1>13, <1>14, <1>15 DEF CallerStep

(* A step that moves commands on their way to a page, starts none, and     *)
(* lets a page say nothing new but errors.                                 *)
MoveEffect ==
  /\ UNCHANGED <<caller, answer, result, runs, post>>
  /\ \A d \in Calls : Queued(d)' => Queued(d) \/ \E q \in Pages : Holds(q, d)
  /\ \A q \in Pages, d \in Calls :
       Holds(q, d)' => Queued(d) \/ \E r \in Pages : Holds(r, d)
  /\ \A q \in Pages, d \in Calls :
       \/ job'[q][d] \in {job[q][d], "none", "accepted", "error", "over"}
       \/ job[q][d] = "running" /\ job'[q][d] \in Bodies \ {"refused"}

LEMMA MoveEffectInv ==
  ASSUME IInv, TypeOK', MoveEffect, OwnQueue', OneHolder'
  PROVE  IInv'
<1> USE DEF IInv, MoveEffect
<1>1. \A d \in Calls : NotRun(d) => NotRun(d)'
  BY NotRunParts DEF NotRun, InFlight, NotHeld, Holds
<1>2. \A d \in Calls : SaidRefused(d)' => SaidRefused(d)
  BY DEF SaidRefused
<1>3. \A d \in Calls : SaidRan(d)' => SaidRan(d)
  BY DEF SaidRan, Bodies
<1>4. \A d \in Calls : /\ AtCloud(d)' <=> AtCloud(d)
                       /\ ToldAway(d)' <=> ToldAway(d)
                       /\ Unsent(d)' <=> Unsent(d)
  BY DEF AtCloud, ToldAway, Unsent
<1>5. \A d \in Calls : Queued(d)' => runs[d] = 0
  BY DEF NotRunAnywhere, OneHolder
<1>6. NotRunAnywhere'
  BY <1>1, <1>2, <1>4, <1>5 DEF NotRunAnywhere
<1>7. EvidenceIsTrue' /\ AnsweredMeansDone'
  BY <1>3 DEF EvidenceIsTrue, AnsweredMeansDone
<1>8. QED
  BY <1>6, <1>7

LEMMA PollInv ==
  ASSUME IInv, TypeOK', NEW p \in Pages, PollStep(p)
  PROVE  IInv'
<1> USE DEF IInv, TypeOK
<1>1. UNCHANGED <<caller, answer, result, runs, post, job>>
  BY DEF PollStep, PollStart, Take, TakeNothing, PageLeaves, Answer, Requeue, PollThrows
<1>2. ASSUME UNCHANGED <<queue, held, inbox>>
      PROVE  IInv'
  <2>1. OwnQueue' /\ OneHolder'
    BY <1>1, <1>2 DEF OwnQueue, OneHolder, Holds, Queued
  <2>2. MoveEffect
    BY <1>1, <1>2 DEF MoveEffect, Holds, Queued
  <2>3. QED
    BY <2>1, <2>2, MoveEffectInv
<1>3. CASE PollStart(p) \/ TakeNothing(p) \/ PageLeaves(p)
  BY <1>2, <1>3 DEF PollStart, TakeNothing, PageLeaves
<1>4. CASE Take(p)
  <2>1. PICK batch \in SUBSET Takeable(PageUser[p]) :
          /\ held' = [held EXCEPT ![p] = batch]
          /\ queue' = [queue EXCEPT ![PageUser[p]] = Takeable(PageUser[p]) \ batch]
    BY <1>4 DEF Take
  <2>2. inbox' = inbox
    BY <1>4 DEF Take
  <2>3. Takeable(PageUser[p]) \subseteq queue[PageUser[p]]
    BY DEF Takeable
  <2>4. \A c \in batch : c \in Calls /\ CallUser[c] = PageUser[p] /\ Queued(c)
    BY <2>3 DEF OwnQueue, Queued
  <2>5. \A u \in Users : queue'[u] \subseteq queue[u]
    BY <2>1, <2>3
  <2>6. \A d \in Calls : Queued(d)' => Queued(d) /\ d \notin batch
    BY <2>1, <2>4, <2>5 DEF Queued
  <2>7. \A q \in Pages, d \in Calls : Holds(q, d)' => Holds(q, d) \/ (q = p /\ d \in batch)
    BY <1>1, <2>1, <2>2 DEF Holds
  <2>8. OwnQueue'
    BY <2>1, <2>4, <2>5 DEF OwnQueue
  <2>9. OneHolder'
    BY <1>1, <2>1, <2>2, <2>4, <2>6, <2>7 DEF OneHolder, NotRunAnywhere, Holds
  <2>10. MoveEffect
    BY <1>1, <2>4, <2>6, <2>7 DEF MoveEffect
  <2>11. QED
    BY <2>8, <2>9, <2>10, MoveEffectInv
<1>5. CASE Answer(p)
  <2>1. queue' = queue
    BY <1>5 DEF Answer
  <2>2. CASE gone[p]
    BY <1>2, <1>5, <2>1, <2>2 DEF Answer
  <2>3. CASE ~gone[p]
    <3>1. /\ held' = [held EXCEPT ![p] = {}]
          /\ inbox' = [inbox EXCEPT ![p] = {c \in held[p] : age[c] = Fresh}]
      BY <1>5, <2>3 DEF Answer
    <3>2. PICK F : F \subseteq held[p] /\ inbox' = [inbox EXCEPT ![p] = F]
      BY <3>1
    <3>3. \A q \in Pages, d \in Calls : Holds(q, d)' => Holds(q, d)
      BY <1>1, <3>1, <3>2 DEF Holds
    <3>4. \A d \in Calls : Queued(d)' <=> Queued(d)
      BY <2>1 DEF Queued
    <3>5. OwnQueue' /\ OneHolder'
      BY <1>1, <2>1, <3>1, <3>2, <3>3, <3>4 DEF OwnQueue, OneHolder
    <3>6. MoveEffect
      BY <1>1, <3>3, <3>4 DEF MoveEffect
    <3>7. QED
      BY <3>5, <3>6, MoveEffectInv
  <2>4. QED
    BY <2>2, <2>3
<1>6. ASSUME NEW back \in SUBSET Calls, NEW lost \in SUBSET Calls,
             back \subseteq held[p], held' = [held EXCEPT ![p] = {}], inbox' = inbox,
             queue' = [queue EXCEPT ![PageUser[p]] = (@ \ lost) \cup back]
      PROVE  IInv'
  <2>1. \A d \in back : Holds(p, d) /\ CallUser[d] = PageUser[p]
    BY <1>6 DEF Holds, OwnQueue
  <2>2. \A d \in Calls : Queued(d)' => Queued(d) \/ d \in back
    BY <1>6 DEF Queued
  <2>3. \A q \in Pages, d \in Calls : Holds(q, d)' => Holds(q, d) /\ d \notin back
    BY <1>1, <1>6, <2>1 DEF Holds, OneHolder
  <2>4. OwnQueue' /\ OneHolder'
    BY <1>1, <1>6, <2>1, <2>2, <2>3 DEF OwnQueue, OneHolder
  <2>5. MoveEffect
    BY <1>1, <2>1, <2>2, <2>3 DEF MoveEffect
  <2>6. QED
    BY <2>4, <2>5, MoveEffectInv
<1>7. CASE Requeue(p)
  <2>1. Requeued(held[p]) \subseteq held[p]
    BY DEF Requeued
  <2>2. queue' = [queue EXCEPT ![PageUser[p]] = (@ \ {}) \cup Requeued(held[p])]
    <3>1. queue[PageUser[p]] \ {} = queue[PageUser[p]]
      OBVIOUS
    <3>2. QED
      BY <1>7, <3>1 DEF Requeue
  <2>3. {} \in SUBSET Calls /\ Requeued(held[p]) \in SUBSET Calls
    BY <2>1
  <2>4. held' = [held EXCEPT ![p] = {}] /\ inbox' = inbox
    BY <1>7 DEF Requeue
  <2>5. QED
    BY <1>6, <2>1, <2>2, <2>3, <2>4
<1>8. CASE PollThrows(p)
  <2>1. held' = [held EXCEPT ![p] = {}] /\ inbox' = inbox
    BY <1>8 DEF PollThrows
  <2>2. \E back, lost \in SUBSET Calls :
          /\ back \subseteq held[p]
          /\ queue' = [queue EXCEPT ![PageUser[p]] = (@ \ lost) \cup back]
    <3> DEFINE Left(back, lost) == [queue EXCEPT ![PageUser[p]] = (@ \ lost) \cup back]
    <3>1. \A S \in SUBSET Calls : /\ Left({}, S) = [queue EXCEPT ![PageUser[p]] = @ \ S]
                                 /\ Left(S, {}) = [queue EXCEPT ![PageUser[p]] = @ \cup S]
      <4>1. \A S : (queue[PageUser[p]] \ S) \cup {} = queue[PageUser[p]] \ S
        OBVIOUS
      <4>2. \A S : (queue[PageUser[p]] \ {}) \cup S = queue[PageUser[p]] \cup S
        OBVIOUS
      <4>3. QED
        BY <4>1, <4>2
    <3>2. Left({}, {}) = queue
      <4>1. (queue[PageUser[p]] \ {}) \cup {} = queue[PageUser[p]]
        OBVIOUS
      <4>2. QED
        BY <4>1
    <3>3. queue[PageUser[p]] \in SUBSET Calls /\ held[p] \in SUBSET Calls
      OBVIOUS
    <3>4. CASE poll[p] = "taking"
      <4>1. PICK lost \in SUBSET queue[PageUser[p]] : queue' = [queue EXCEPT ![PageUser[p]] = @ \ lost]
        BY <1>8, <3>4 DEF PollThrows
      <4>2. lost \in SUBSET Calls /\ queue' = Left({}, lost)
        BY <3>1, <3>3, <4>1
      <4>3. QED
        BY <4>2
    <3>5. CASE poll[p] # "taking"
      <4>1. queue' \in {queue, [queue EXCEPT ![PageUser[p]] = @ \cup held[p]]}
        BY <1>8, <3>5 DEF PollThrows
      <4>2. queue' = Left({}, {}) \/ queue' = Left(held[p], {})
        BY <3>1, <3>2, <3>3, <4>1
      <4>3. QED
        BY <3>3, <4>2
    <3>6. QED
      BY <3>4, <3>5
  <2>3. QED
    BY <1>6, <2>1, <2>2
<1>9. QED
  BY <1>3, <1>4, <1>5, <1>7, <1>8 DEF PollStep

LEMMA PageInv ==
  ASSUME IInv, TypeOK', NEW p \in Pages, PageStep(p)
  PROVE  IInv'
<1> USE DEF IInv, TypeOK
<1>1. UNCHANGED <<caller, answer, result, post, queue, held>>
  BY DEF PageStep, LoseAnswer, Accept, Reload, Refuse, Start, Finish, GiveUp
<1>2. OwnQueue' /\ \A d \in Calls : Queued(d)' <=> Queued(d)
  BY <1>1 DEF OwnQueue, Queued
<1>3. ASSUME runs' = runs, MoveEffect, OneHolder'
      PROVE  IInv'
  BY <1>2, <1>3, MoveEffectInv
<1>4. CASE LoseAnswer(p)
  <2>1. job' = job /\ runs' = runs /\ inbox' = [inbox EXCEPT ![p] = {}]
    BY <1>4 DEF LoseAnswer
  <2>2. \A q \in Pages, d \in Calls : Holds(q, d)' => Holds(q, d)
    BY <1>1, <2>1 DEF Holds
  <2>3. MoveEffect /\ OneHolder'
    BY <1>1, <1>2, <2>1, <2>2 DEF MoveEffect, OneHolder
  <2>4. QED
    BY <1>3, <2>1, <2>3
<1>5. CASE Accept(p)
  <2>1. /\ runs' = runs /\ inbox' = [inbox EXCEPT ![p] = {}]
        /\ \A q \in Pages, d \in Calls : q # p => job'[q][d] = job[q][d]
        /\ \A d \in Calls : job'[p][d] \in {job[p][d], "error", "accepted"}
        /\ \A d \in Calls : job'[p][d] = "accepted" => job[p][d] = "accepted" \/ d \in inbox[p]
    BY <1>5 DEF Accept
  <2>2. \A q \in Pages, d \in Calls : Holds(q, d)' => Holds(q, d)
    BY <1>1, <2>1 DEF Holds
  <2>3. \A q \in Pages, d \in Calls : d \in held[q] => job'[q][d] # "accepted"
    <3>1. \A q \in Pages, d \in Calls : d \in held[q] => d \notin inbox[q] /\ job[q][d] # "accepted"
      BY DEF OneHolder
    <3>2. TAKE q \in Pages, d \in Calls
    <3>3. CASE q = p
      BY <2>1, <3>1, <3>3
    <3>4. CASE q # p
      <4>1. job'[q][d] = job[q][d]
        BY <2>1, <3>4
      <4>2. QED
        BY <3>1, <4>1
    <3>5. QED
      BY <3>3, <3>4
  <2>4. MoveEffect
    BY <1>1, <1>2, <2>1, <2>2 DEF MoveEffect
  <2>5. OneHolder'
    <3>1. \A q \in Pages, d \in Calls : d \in inbox'[q] => d \in inbox[q] /\ q # p
      BY <2>1
    <3>2. \A q \in Pages, d \in Calls : Holds(q, d)' => ~Queued(d)' /\ runs'[d] = 0
      BY <1>2, <2>1, <2>2 DEF OneHolder
    <3>3. \A q, r \in Pages, d \in Calls : Holds(q, d)' /\ Holds(r, d)' => q = r
      BY <2>2 DEF OneHolder
    <3>4. \A q \in Pages, d \in Calls : d \in inbox'[q] => job'[q][d] # "accepted"
      BY <2>1, <3>1 DEF OneHolder
    <3>5. \A q \in Pages, d \in Calls : d \in held'[q] => d \notin inbox'[q] /\ job'[q][d] # "accepted"
      BY <1>1, <2>3, <3>1 DEF OneHolder
    <3>6. QED
      BY <3>2, <3>3, <3>4, <3>5 DEF OneHolder
  <2>6. QED
    BY <1>3, <2>1, <2>4, <2>5
<1>6. CASE Reload(p)
  <2>1. /\ runs' = runs /\ inbox' = [inbox EXCEPT ![p] = {}]
        /\ \A q \in Pages, d \in Calls : q # p => job'[q][d] = job[q][d]
        /\ \A d \in Calls : job'[p][d] = "none"
    BY <1>6 DEF Reload
  <2>2. \A q \in Pages, d \in Calls : Holds(q, d)' => Holds(q, d)
    BY <1>1, <2>1 DEF Holds
  <2>3. MoveEffect
    BY <1>1, <1>2, <2>1, <2>2 DEF MoveEffect
  <2>4. OneHolder'
    BY <1>1, <1>2, <2>1, <2>2 DEF OneHolder
  <2>5. QED
    BY <1>3, <2>1, <2>3, <2>4
<1>7. ASSUME NEW c \in Calls, NEW to \in JobStates \ {"accepted"}, SetJob(p, c, to),
             inbox' = inbox, UNCHANGED <<caller, answer, result, post, queue, held>>
      PROVE  /\ \A q \in Pages, d \in Calls : q # p \/ d # c => job'[q][d] = job[q][d]
             /\ job'[p][c] = to
             /\ \A q \in Pages, d \in Calls : Holds(q, d)' => Holds(q, d)
             /\ job[p][c] = "accepted" => \A q \in Pages : ~Holds(q, c)'
             /\ runs' = runs => OneHolder'
  <2>1. /\ job'[p][c] = to
        /\ \A q \in Pages, d \in Calls : q # p \/ d # c => job'[q][d] = job[q][d]
    BY <1>7, SetJobType
  <2>2. \A q \in Pages, d \in Calls : Holds(q, d)' => Holds(q, d)
    BY <1>7, <2>1 DEF Holds
  <2>3. job[p][c] = "accepted" => \A q \in Pages : ~Holds(q, c)'
    BY <1>7, <2>1, <2>2 DEF Holds, OneHolder
  <2>4. runs' = runs => OneHolder'
    BY <1>2, <1>7, <2>1, <2>2 DEF OneHolder
  <2>5. QED
    BY <2>1, <2>2, <2>3, <2>4
<1>8. ASSUME NEW c \in Calls, NEW to \in JobStates \ {"accepted", "refused"},
             to \in {"error", "over"} \/ (job[p][c] = "running" /\ to \in Bodies),
             SetJob(p, c, to), inbox' = inbox, runs' = runs
      PROVE  IInv'
  <2>1. /\ \A q \in Pages, d \in Calls : q # p \/ d # c => job'[q][d] = job[q][d]
        /\ job'[p][c] = to
        /\ \A q \in Pages, d \in Calls : Holds(q, d)' => Holds(q, d)
        /\ OneHolder'
    BY <1>1, <1>7, <1>8
  <2>2. \A q \in Pages, d \in Calls :
          \/ job'[q][d] \in {job[q][d], "none", "accepted", "error", "over"}
          \/ job[q][d] = "running" /\ job'[q][d] \in Bodies \ {"refused"}
    BY <1>8, <2>1
  <2>3. MoveEffect
    BY <1>1, <1>2, <1>8, <2>1, <2>2 DEF MoveEffect
  <2>4. QED
    BY <1>3, <1>8, <2>1, <2>3
<1>9. ASSUME NEW c \in Calls, job[p][c] = "accepted"
      PROVE  /\ ~Queued(c) /\ runs[c] = 0
             /\ ~NotRun(c) /\ caller[c] \notin NeverSent /\ ~AtCloud(c) /\ ~ToldAway(c)
             /\ ~SaidRefused(c) /\ ~Unsent(c) /\ ~SaidRan(c)
  <2>1. Holds(p, c) /\ InFlight(c)
    BY <1>9 DEF Holds, InFlight
  <2>2. ~Queued(c) /\ runs[c] = 0 /\ ~NotRun(c)
    BY <2>1 DEF OneHolder, NotRun
  <2>3. caller[c] \notin NeverSent /\ ~AtCloud(c) /\ ~ToldAway(c) /\ ~SaidRefused(c)
    BY <2>2 DEF NotRunAnywhere
  <2>4. ~Unsent(c)
    BY <2>3 DEF Unsent, NeverSent
  <2>5. ~SaidRan(c)
    BY <2>2 DEF EvidenceIsTrue
  <2>6. QED
    BY <2>2, <2>3, <2>4, <2>5
<1>10. \A d \in Calls : /\ AtCloud(d)' <=> AtCloud(d)
                        /\ ToldAway(d)' <=> ToldAway(d)
                        /\ Unsent(d)' <=> Unsent(d)
  BY <1>1 DEF AtCloud, ToldAway, Unsent
<1>11. ASSUME NEW c \in Calls, Refuse(p, c)
       PROVE  IInv'
  <2>1. job[p][c] = "accepted" /\ SetJob(p, c, "refused") /\ inbox' = inbox /\ runs' = runs
    BY <1>11 DEF Refuse
  <2>2. "refused" \in JobStates \ {"accepted"}
    BY DEF JobStates, Bodies
  <2>3. /\ \A q \in Pages, d \in Calls : q # p \/ d # c => job'[q][d] = job[q][d]
        /\ job'[p][c] = "refused"
        /\ \A q \in Pages, d \in Calls : Holds(q, d)' => Holds(q, d)
        /\ \A q \in Pages : ~Holds(q, c)'
        /\ OneHolder'
    BY <1>1, <1>7, <2>1, <2>2
  <2>4. \A d \in Calls : NotRun(d) => NotRun(d)'
    BY <1>2, <2>1, <2>3, NotRunParts DEF NotRun, InFlight, Holds
  <2>5. NotRun(c)'
    BY <1>2, <1>9, <2>1, <2>3 DEF NotRun, InFlight, Holds
  <2>6. \A d \in Calls : SaidRefused(d)' => SaidRefused(d) \/ d = c
    BY <1>1, <2>3 DEF SaidRefused
  <2>7. \A d \in Calls : SaidRan(d)' => SaidRan(d)
    BY <1>1, <2>3 DEF SaidRan
  <2>8. NotRunAnywhere'
    BY <1>1, <1>2, <1>9, <1>10, <2>1, <2>4, <2>5, <2>6 DEF NotRunAnywhere
  <2>9. EvidenceIsTrue' /\ AnsweredMeansDone'
    BY <1>1, <2>1, <2>7 DEF EvidenceIsTrue, AnsweredMeansDone
  <2>10. QED
    BY <1>2, <2>3, <2>8, <2>9
<1>12. ASSUME NEW c \in Calls, Start(p, c)
       PROVE  IInv'
  <2>1. /\ job[p][c] = "accepted" /\ SetJob(p, c, "running") /\ inbox' = inbox
        /\ runs'[c] = 1 /\ \A d \in Calls : d # c => runs'[d] = runs[d]
    BY <1>9, <1>12 DEF Start
  <2>2. "running" \in JobStates \ {"accepted"}
    BY DEF JobStates
  <2>3. /\ \A q \in Pages, d \in Calls : q # p \/ d # c => job'[q][d] = job[q][d]
        /\ job'[p][c] = "running"
        /\ \A q \in Pages, d \in Calls : Holds(q, d)' => Holds(q, d)
        /\ \A q \in Pages : ~Holds(q, c)'
    BY <1>1, <1>7, <2>1, <2>2
  <2>4. OneHolder'
    <3>1. \A q \in Pages, d \in Calls : Holds(q, d)' => ~Queued(d)' /\ runs'[d] = 0
      BY <1>2, <2>1, <2>3 DEF OneHolder
    <3>2. \A q, r \in Pages, d \in Calls : Holds(q, d)' /\ Holds(r, d)' => q = r
      BY <2>3 DEF OneHolder
    <3>3. \A q \in Pages, d \in Calls : job'[q][d] = "accepted" => job[q][d] = "accepted"
      BY <2>3
    <3>4. \A q \in Pages, d \in Calls :
            /\ d \in held[q] => d \notin inbox[q] /\ job[q][d] # "accepted"
            /\ d \in inbox[q] => job[q][d] # "accepted"
      BY DEF OneHolder
    <3>5. QED
      BY <1>1, <2>1, <3>1, <3>2, <3>3, <3>4 DEF OneHolder
  <2>5. \A d \in Calls : NotRun(d) /\ d # c => NotRun(d)'
    BY <1>2, <2>1, <2>3 DEF NotRun, InFlight, Holds
  <2>6. \A d \in Calls : SaidRefused(d)' => SaidRefused(d)
    BY <1>1, <2>3 DEF SaidRefused
  <2>7. \A d \in Calls : SaidRan(d)' => SaidRan(d) \/ d = c
    BY <1>1, <2>3 DEF SaidRan
  <2>8. NotRunAnywhere'
    BY <1>1, <1>2, <1>9, <1>10, <2>1, <2>5, <2>6 DEF NotRunAnywhere
  <2>9. EvidenceIsTrue' /\ AnsweredMeansDone'
    BY <1>1, <2>1, <2>7 DEF EvidenceIsTrue, AnsweredMeansDone
  <2>10. QED
    BY <1>2, <2>4, <2>8, <2>9
<1>13. ASSUME NEW c \in Calls, Finish(p, c)
       PROVE  IInv'
  <2>1. PICK to \in Bodies \ {"refused"} :
          /\ SetJob(p, c, to)
          /\ to = "error" \/ job[p][c] = "running"
    BY <1>13 DEF Finish, Bodies
  <2>2. to \in JobStates \ {"accepted", "refused"}
    BY DEF JobStates, Bodies
  <2>3. QED
    BY <1>8, <1>13, <2>1, <2>2 DEF Finish
<1>14. ASSUME NEW c \in Calls, GiveUp(p, c)
       PROVE  IInv'
  <2>1. "over" \in JobStates \ {"accepted", "refused"}
    BY DEF JobStates
  <2>2. QED
    BY <1>8, <1>14, <2>1 DEF GiveUp
<1>15. QED
  BY <1>4, <1>5, <1>6, <1>11, <1>12, <1>13, <1>14 DEF PageStep

(* The result handler only passes on what a page said of the command, in   *)
(* the words of the store's outcome.                                       *)
LEMMA PassesOn ==
  ASSUME IInv, TypeOK', NEW h \in Posts, NEW c \in Calls, NEW word,
         UNCHANGED <<caller, answer, queue, held, inbox, runs>>,
         \A q \in Pages, d \in Calls :
           job'[q][d] = job[q][d] \/ (job'[q][d] = "over" /\ job[q][d] \in Bodies),
         \A g \in Posts : g # h => post'[g] = post[g],
         post'[h] = NoPost \/ (post'[h].call = c /\ post'[h].says = word),
         result' \in {result, [result EXCEPT ![c] = word]},
         word = "refused" => SaidRefused(c),
         word \in {"success", "failure", "foreign", "tampered", "data", "failed"} => SaidRan(c)
  PROVE  IInv'
<1>0. \A d \in Calls : result'[d] = result[d] \/ (d = c /\ result'[d] = word)
  BY DEF IInv, TypeOK
<1>1. \A d \in Calls : SaidRefused(d)' => SaidRefused(d)
  BY <1>0 DEF SaidRefused
<1>2. \A d \in Calls : SaidRan(d)' => SaidRan(d)
  BY <1>0 DEF SaidRan
<1>3. \A q \in Pages, d \in Calls : job'[q][d] = "accepted" <=> job[q][d] = "accepted"
  BY DEF Bodies
<1>4. \A d \in Calls : /\ NotRun(d)' <=> NotRun(d)
                       /\ Queued(d)' <=> Queued(d)
                       /\ AtCloud(d)' <=> AtCloud(d)
                       /\ ToldAway(d)' <=> ToldAway(d)
                       /\ Unsent(d)' <=> Unsent(d)
  BY <1>3 DEF NotRun, InFlight, Queued, AtCloud, ToldAway, Unsent
<1>5. \A q \in Pages, d \in Calls : Holds(q, d)' <=> Holds(q, d)
  BY <1>3 DEF Holds
<1>6. OwnQueue' /\ OneHolder' /\ AnsweredMeansDone'
  BY <1>3, <1>4, <1>5 DEF IInv, OwnQueue, OneHolder, AnsweredMeansDone
<1>7. NotRunAnywhere'
  BY <1>1, <1>4 DEF IInv, NotRunAnywhere
<1>8. EvidenceIsTrue'
  BY <1>2 DEF IInv, EvidenceIsTrue
<1>9. QED
  BY <1>6, <1>7, <1>8 DEF IInv

LEMMA ReplyEffect ==
  ASSUME TypeOK, NEW h \in Posts, post[h] # NoPost, Reply(h)
  PROVE  /\ post'[h] = NoPost /\ \A g \in Posts : g # h => post'[g] = post[g]
         /\ \A q \in Pages, d \in Calls :
              job'[q][d] = job[q][d] \/ (job'[q][d] = "over" /\ job[q][d] \in Bodies)
<1>1. post[h].page \in Pages /\ post[h].call \in Calls
  BY PostShape
<1>2. post'[h] = NoPost /\ \A g \in Posts : g # h => post'[g] = post[g]
  BY DEF Reply, TypeOK
<1>3. CASE UNCHANGED job
  BY <1>2, <1>3
<1>4. CASE job[post[h].page][post[h].call] \in Bodies /\ SetJob(post[h].page, post[h].call, "over")
  <2>1. "over" \in JobStates
    BY DEF JobStates
  <2>2. /\ job'[post[h].page][post[h].call] = "over"
        /\ \A q \in Pages, d \in Calls :
             q # post[h].page \/ d # post[h].call => job'[q][d] = job[q][d]
    BY <1>1, <1>4, <2>1, SetJobType
  <2>3. QED
    BY <1>2, <1>4, <2>2
<1>5. QED
  BY <1>3, <1>4 DEF Reply

LEMMA PostInv ==
  ASSUME IInv, TypeOK', NEW h \in Posts, PostStep(h)
  PROVE  IInv'
<1> DEFINE Ran == {"success", "failure", "foreign", "tampered", "data", "failed"}
<1> USE DEF IInv
<1>1. UNCHANGED <<caller, answer, queue, held, inbox, runs>>
  BY DEF PostStep, PostResult, Unknown, Lookup, Verify, Resolve, PushOutcome, PostThrows
<1>2. ASSUME post[h] # NoPost
      PROVE  /\ post[h].call \in Calls
             /\ post[h].says = "refused" => SaidRefused(post[h].call)
             /\ post[h].says \in Ran => SaidRan(post[h].call)
  BY <1>2, PostShape DEF SaidRefused, SaidRan
<1>3. ASSUME NEW p \in Pages, NEW c \in Calls, PostResult(h, p, c)
      PROVE  IInv'
  <2>1. PICK b \in Bodies :
          /\ IF PageUser[p] = CallUser[c] THEN job[p][c] = b ELSE b = "error"
          /\ post' = [post EXCEPT ![h] = [stage |-> "lookup", page |-> p, call |-> c, says |-> b]]
    BY <1>3 DEF PostResult
  <2>2. /\ \A g \in Posts : g # h => post'[g] = post[g]
        /\ post'[h].call = c /\ post'[h].says = b
    BY <2>1 DEF TypeOK
  <2>3. /\ b = "refused" => SaidRefused(c)
        /\ b \in Ran => SaidRan(c)
    BY <2>1 DEF SaidRefused, SaidRan, Bodies
  <2>4. job' = job /\ result' = result
    BY <1>3 DEF PostResult
  <2>5. QED
    BY <1>1, <2>2, <2>3, <2>4, PassesOn
<1>4. CASE Unknown(h)
  <2>1. post[h] # NoPost /\ Reply(h) /\ result' = result
    BY <1>4, BusyPost DEF Unknown
  <2>2. /\ post'[h] = NoPost /\ \A g \in Posts : g # h => post'[g] = post[g]
        /\ \A q \in Pages, d \in Calls :
             job'[q][d] = job[q][d] \/ (job'[q][d] = "over" /\ job[q][d] \in Bodies)
    BY <2>1, ReplyEffect
  <2>3. QED
    BY <1>1, <1>2, <2>1, <2>2, PassesOn
<1>5. CASE Lookup(h)
  <2>1. post[h] # NoPost /\ job' = job /\ result' = result
    BY <1>5, BusyPost DEF Lookup
  <2>2. post[h] \in PostRecords
    BY <2>1, PostShape
  <2>3. /\ \A g \in Posts : g # h => post'[g] = post[g]
        /\ post'[h].call = post[h].call /\ post'[h].says = post[h].says
    BY <1>5, <2>2 DEF Lookup, TypeOK, PostRecords
  <2>4. QED
    BY <1>1, <1>2, <2>1, <2>3, PassesOn
<1>6. CASE Verify(h)
  <2> DEFINE c == post[h].call  b == post[h].says  word == OutcomeOf(c, b)
  <2>1. post[h] # NoPost /\ post[h] \in PostRecords /\ b \in Bodies /\ c \in Calls
    BY <1>6, BusyPost, PostShape DEF Verify
  <2>2. /\ word = "refused" => b = "refused"
        /\ word \in Ran => b \in Ran
    BY <2>1 DEF OutcomeOf, Accepted, Bodies
  <2>3. CASE SharedStore
    <3>1. /\ post' = [post EXCEPT ![h] = [post[h] EXCEPT !.stage = "resolve", !.says = word]]
          /\ job' = job /\ result' = result
      BY <1>6, <2>3 DEF Verify
    <3>2. /\ \A g \in Posts : g # h => post'[g] = post[g]
          /\ post'[h].call = c /\ post'[h].says = word
      BY <2>1, <3>1 DEF TypeOK, PostRecords
    <3>3. QED
      BY <1>1, <1>2, <2>1, <2>2, <3>1, <3>2, PassesOn
  <2>4. CASE ~SharedStore
    <3>1. ResolveWith(c, word) /\ Reply(h)
      BY <1>6, <2>4 DEF Verify
    <3>2. /\ post'[h] = NoPost /\ \A g \in Posts : g # h => post'[g] = post[g]
          /\ \A q \in Pages, d \in Calls :
               job'[q][d] = job[q][d] \/ (job'[q][d] = "over" /\ job[q][d] \in Bodies)
      BY <2>1, <3>1, ReplyEffect
    <3>3. result' \in {result, [result EXCEPT ![c] = word]}
      BY <3>1 DEF ResolveWith
    <3>4. /\ word = "refused" => SaidRefused(c)
          /\ word \in Ran => SaidRan(c)
      BY <1>2, <2>1, <2>2
    <3> HIDE DEF word
    <3>5. QED
      BY <1>1, <2>1, <3>2, <3>3, <3>4, PassesOn
  <2>5. QED
    BY <2>3, <2>4
<1>7. CASE Resolve(h)
  <2>1. post[h] # NoPost /\ post[h] \in PostRecords /\ result' = result
    BY <1>7, BusyPost, PostShape DEF Resolve
  <2>2. CASE post[h].call \in pend
    <3>1. post' = [post EXCEPT ![h] = [post[h] EXCEPT !.stage = "push"]] /\ job' = job
      BY <1>7, <2>2 DEF Resolve
    <3>2. /\ \A g \in Posts : g # h => post'[g] = post[g]
          /\ post'[h].call = post[h].call /\ post'[h].says = post[h].says
      BY <2>1, <3>1 DEF TypeOK, PostRecords
    <3>3. QED
      BY <1>1, <1>2, <2>1, <3>1, <3>2, PassesOn
  <2>3. CASE post[h].call \notin pend
    <3>1. /\ post'[h] = NoPost /\ \A g \in Posts : g # h => post'[g] = post[g]
          /\ \A q \in Pages, d \in Calls :
               job'[q][d] = job[q][d] \/ (job'[q][d] = "over" /\ job[q][d] \in Bodies)
      BY <1>7, <2>1, <2>3, ReplyEffect DEF Resolve
    <3>2. QED
      BY <1>1, <1>2, <2>1, <3>1, PassesOn
  <2>4. QED
    BY <2>2, <2>3
<1>8. CASE PushOutcome(h)
  <2>1. /\ post[h] # NoPost /\ Reply(h)
        /\ result' = [result EXCEPT ![post[h].call] = post[h].says]
    BY <1>8, BusyPost DEF PushOutcome
  <2>2. /\ post'[h] = NoPost /\ \A g \in Posts : g # h => post'[g] = post[g]
        /\ \A q \in Pages, d \in Calls :
             job'[q][d] = job[q][d] \/ (job'[q][d] = "over" /\ job[q][d] \in Bodies)
    BY <2>1, ReplyEffect
  <2>3. QED
    BY <1>1, <1>2, <2>1, <2>2, PassesOn
<1>9. CASE PostThrows(h)
  <2>1. /\ post[h] # NoPost /\ post' = [post EXCEPT ![h] = NoPost] /\ job' = job
        /\ result' \in {result, [result EXCEPT ![post[h].call] = post[h].says]}
    BY <1>9 DEF PostThrows
  <2>2. post'[h] = NoPost /\ \A g \in Posts : g # h => post'[g] = post[g]
    BY <2>1 DEF TypeOK
  <2>3. QED
    BY <1>1, <1>2, <2>1, <2>2, PassesOn
<1>10. QED
  BY <1>3, <1>4, <1>5, <1>6, <1>7, <1>8, <1>9 DEF PostStep

LEMMA ExpiryInv ==
  ASSUME IInv, TypeOK', NEW u \in Users, QueueExpires(u)
  PROVE  IInv'
<1> USE DEF IInv, TypeOK
<1>1. /\ UNCHANGED <<caller, answer, result, runs, post, held, inbox, job>>
      /\ \A v \in Users : queue'[v] \subseteq queue[v]
  BY DEF QueueExpires
<1>2. \A d \in Calls : Queued(d)' => Queued(d)
  BY <1>1 DEF Queued
<1>3. \A q \in Pages, d \in Calls : Holds(q, d)' <=> Holds(q, d)
  BY <1>1 DEF Holds
<1>4. OwnQueue' /\ OneHolder'
  BY <1>1, <1>2, <1>3 DEF OwnQueue, OneHolder
<1>5. MoveEffect
  BY <1>1, <1>2, <1>3 DEF MoveEffect
<1>6. QED
  BY <1>4, <1>5, MoveEffectInv

(* The strengthened invariant holds of every behaviour (bridge.ts,         *)
(* channel.ts, bridge-channel.ts).                                         *)
THEOREM InvariantHolds == Spec => []IInv
<1>1. IInv /\ [Next]_vars => IInv'
  <2> SUFFICES ASSUME IInv, [Next]_vars PROVE IInv'
    OBVIOUS
  <2>1. CASE UNCHANGED vars
    BY <2>1 DEF vars, IInv, TypeOK, OwnQueue, OneHolder, NotRunAnywhere, EvidenceIsTrue,
                AnsweredMeansDone, Holds, Queued, NotRun, InFlight, SaidRefused, SaidRan,
                AtCloud, ToldAway, Unsent
  <2>2. ASSUME NEW c \in Calls, CallerStep(c) \/ CallerThrows(c) \/ Tick(c)
        PROVE  IInv'
    BY <2>2, CallerType, CallerEffects, CallerEffectInv DEF IInv
  <2>3. ASSUME NEW p \in Pages, PollStep(p) PROVE IInv'
    BY <2>3, PollType, PollInv DEF IInv
  <2>4. ASSUME NEW p \in Pages, PageStep(p) PROVE IInv'
    BY <2>4, PageType, PageInv DEF IInv
  <2>5. ASSUME NEW h \in Posts, PostStep(h) PROVE IInv'
    BY <2>5, PostType, PostInv DEF IInv
  <2>6. ASSUME NEW u \in Users, QueueExpires(u) PROVE IInv'
    BY <2>6, ExpiryType, ExpiryInv DEF IInv
  <2>7. QED
    BY <2>1, <2>2, <2>3, <2>4, <2>5, <2>6 DEF Next
<1>2. QED
  BY InitInv, <1>1, PTL DEF Spec

(* What was handed to Writ Cloud, or refused as away, never runs on the    *)
(* visitor's computer (runOnUser's "away" returns).                        *)
THEOREM VenueIsUnique == Spec => []OneVenue
<1>1. IInv => OneVenue
  BY DEF IInv, OneVenue, NotRunAnywhere, NotRun
<1>2. QED
  BY InvariantHolds, <1>1, PTL

(* A page starts a command at most once (BridgeChannel.#accept, take,      *)
(* requeue).                                                               *)
THEOREM NeverStartedTwice == Spec => []StartedAtMostOnce
<1>1. IInv => StartedAtMostOnce
  BY DEF IInv, StartedAtMostOnce, NotRunAnywhere
<1>2. QED
  BY InvariantHolds, <1>1, PTL

-----------------------------------------------------------------------------
(* Answers: what a caller gets *)

(* A command on its way to a page. *)
OnTheWay(d) == Queued(d) \/ \E q \in Pages : d \in held[q] \/ d \in inbox[q]

LEMMA InitGenuine == Init => AnswerIsGenuine
<1> SUFFICES ASSUME Init PROVE AnswerIsGenuine
  OBVIOUS
<1>1. ReceiptAcceptedOnce /\ DataIsGenuine /\ AnsweredByOwnPage
  BY DEF Init, ReceiptAcceptedOnce, DataIsGenuine, AnsweredByOwnPage
<1>2. LandedOnce /\ OneOutcome
  BY DEF Init, LandedOnce, Landed, OwnPost, NoPost, OneOutcome, Pushes
<1>3. DataHasReceipt
  BY DEF Init, DataHasReceipt, SaidData
<1>4. QED
  BY <1>1, <1>2, <1>3 DEF AnswerIsGenuine

(* Two conjuncts of AnswerIsGenuine follow from the others.                *)
LEMMA GenuineParts ==
  ASSUME IInv', ReceiptAcceptedOnce', LandedOnce', OneOutcome', DataHasReceipt'
  PROVE  AnswerIsGenuine'
<1>1. DataIsGenuine'
  BY DEF DataIsGenuine, IInv, EvidenceIsTrue, SaidRan, DataHasReceipt, SaidData
<1>2. AnsweredByOwnPage'
  BY DEF AnsweredByOwnPage, LandedOnce, Landed
<1>3. QED
  BY <1>1, <1>2 DEF AnswerIsGenuine

-----------------------------------------------------------------------------
(* What each actor's step does to pending commands and verdicts *)

(* The caller makes its own command pending once, as it sends it.          *)
LEMMA CallerStores ==
  ASSUME TypeOK, NEW c \in Calls, CallerStep(c) \/ CallerThrows(c) \/ Tick(c)
  PROVE  /\ UNCHANGED <<verdicts, spent>>
         /\ \A d \in pend' : d \in pend \/ (d = c /\ caller[c] = "sending" /\ ~Unsent(c)')
<1> USE DEF TypeOK
<1>1. UNCHANGED <<verdicts, spent>>
  BY DEF CallerStep, Begin, Route, Enqueue, Collect, PickupOver, Withdraw, BudgetOver, Cancel,
         CloudEnds, CallerThrows, Tick
<1>2. CASE Enqueue(c)
  BY <1>1, <1>2 DEF Enqueue, Step, Unsent
<1>3. CASE CallerThrows(c)
  BY <1>1, <1>3 DEF CallerThrows, Return, Unsent
<1>4. CASE Begin(c) \/ Route(c) \/ Collect(c) \/ PickupOver(c) \/ Withdraw(c) \/ BudgetOver(c)
           \/ Cancel(c) \/ CloudEnds(c) \/ Tick(c)
  BY <1>1, <1>4 DEF Begin, Route, Collect, PickupOver, Withdraw, BudgetOver, Cancel, CloudEnds, Tick
<1>5. QED
  BY <1>2, <1>3, <1>4 DEF CallerStep

LEMMA CallerGenuine ==
  ASSUME IInv, IInv', AnswerIsGenuine, NEW c \in Calls,
         CallerStep(c) \/ CallerThrows(c) \/ Tick(c)
  PROVE  AnswerIsGenuine'
<1> USE DEF AnswerIsGenuine
<1>1. /\ UNCHANGED <<held, inbox, job, post, verdicts, spent>>
      /\ \A d \in pend' : d \in pend \/ (d = c /\ caller[c] = "sending" /\ ~Unsent(c)')
  BY CallerEffects, CallerStores DEF CallerEffect, IInv
<1>2. \A d \in Calls : /\ result'[d] \in {result[d], "none"}
                       /\ Queued(d)' => Queued(d) \/ (d = c /\ caller[c] = "sending")
                       /\ Unsent(d)' => Unsent(d)
                       /\ answer'[d] = "data" => answer[d] = "data" \/ result[d] = "data"
  <2>1. CallerEffect(c)
    BY CallerEffects
  <2>2. CallUser \in [Calls -> Users]
    OBVIOUS
  <2>3. QED
    BY <2>1, <2>2 DEF CallerEffect, Queued, Unsent
<1>3. \A d \in Calls : Landed(d)' => Landed(d)
  BY <1>1, <1>2 DEF Landed, OwnPost
<1>4. caller[c] = "sending" => Unsent(c)
  BY DEF Unsent
<1>5. LandedOnce'
  <2>1. \A d \in Calls : Landed(d)' => /\ ~Unsent(d)' /\ ~Queued(d)'
                                       /\ \A p \in Pages : d \notin held'[p] /\ d \notin inbox'[p]
    BY <1>1, <1>2, <1>3, <1>4 DEF LandedOnce
  <2>2. QED
    BY <1>1, <2>1 DEF LandedOnce, OwnPost
<1>6. \A h \in Posts, d \in Calls : (Pushes(h, d)' <=> Pushes(h, d)) /\ (Pushes(h, d) => Landed(d))
  BY <1>1 DEF Pushes, LandedOnce, Landed
<1>7. OneOutcome'
  <2>1. \A d \in Calls : Unsent(d)' => d \notin pend'
    BY <1>1, <1>2 DEF OneOutcome
  <2>2. \A d \in Calls : Landed(d) /\ d \in pend' => d \in pend
    BY <1>1, <1>4 DEF LandedOnce
  <2>3. \A d \in Calls : result'[d] # "none" => result[d] # "none" /\ Landed(d)
    BY <1>2 DEF Landed
  <2>4. QED
    BY <1>6, <2>1, <2>2, <2>3 DEF OneOutcome
<1>8. DataHasReceipt'
  <2>1. \A d \in Calls : SaidData(d)' => SaidData(d)
    BY <1>1, <1>2 DEF SaidData
  <2>2. QED
    BY <1>1, <2>1 DEF DataHasReceipt
<1>9. ReceiptAcceptedOnce'
  BY <1>1 DEF ReceiptAcceptedOnce
<1>10. QED
  BY <1>5, <1>7, <1>8, <1>9, GenuineParts

(* A step that only moves commands on their way, or takes them in.         *)
LEMMA WayGenuine ==
  ASSUME IInv, IInv', AnswerIsGenuine,
         UNCHANGED <<caller, answer, result, post, pend, verdicts, spent>>,
         \A d \in Calls : OnTheWay(d)' => OnTheWay(d),
         \A q \in Pages, d \in Calls :
           job'[q][d] # "none" => job[q][d] # "none" \/ (d \in inbox[q] /\ ~OnTheWay(d)')
  PROVE  AnswerIsGenuine'
<1> USE DEF AnswerIsGenuine
<1>1. \A d \in Calls : /\ Unsent(d)' <=> Unsent(d)
                       /\ SaidData(d)' <=> SaidData(d)
                       /\ \A h \in Posts : /\ OwnPost(h, d)' <=> OwnPost(h, d)
                                           /\ Pushes(h, d)' <=> Pushes(h, d)
  BY DEF Unsent, SaidData, OwnPost, Pushes
<1>2. \A q \in Pages, d \in Calls : d \in inbox[q] => ~Unsent(d) /\ ~Landed(d)
  <2> SUFFICES ASSUME NEW q \in Pages, NEW d \in Calls, d \in inbox[q]
               PROVE  ~Unsent(d) /\ ~Landed(d)
    OBVIOUS
  <2>1. ~NotRun(d)
    BY DEF NotRun, InFlight
  <2>2. ~Unsent(d)
    BY <2>1 DEF IInv, NotRunAnywhere, Unsent, NeverSent
  <2>3. QED
    BY <2>2 DEF LandedOnce
<1>3. \A d \in Calls : Landed(d)' => Landed(d) \/ ~(OnTheWay(d)' \/ Unsent(d))
  BY <1>1, <1>2 DEF Landed
<1>4. \A d \in Calls : Landed(d) => ~OnTheWay(d) /\ ~Unsent(d)
  BY DEF LandedOnce, OnTheWay
<1>5. LandedOnce'
  <2>1. \A d \in Calls : Landed(d)' => ~Unsent(d)' /\ ~OnTheWay(d)'
    BY <1>1, <1>3, <1>4
  <2>2. \A p, q \in Pages, d \in Calls : job'[p][d] # "none" /\ job'[q][d] # "none" => p = q
    <3> SUFFICES ASSUME NEW p \in Pages, NEW q \in Pages, NEW d \in Calls,
                        job'[p][d] # "none", job'[q][d] # "none"
                 PROVE  p = q
      OBVIOUS
    <3>1. CASE job[p][d] # "none" \/ job[q][d] # "none"
      <4>1. Landed(d)
        BY <3>1 DEF Landed
      <4>2. job[p][d] # "none" /\ job[q][d] # "none"
        BY <4>1, <1>2
      <4>3. QED
        BY <4>2 DEF LandedOnce
    <3>2. CASE ~(job[p][d] # "none" \/ job[q][d] # "none")
      <4>1. Holds(p, d) /\ Holds(q, d)
        BY <3>2 DEF Holds
      <4>2. QED
        BY <4>1 DEF IInv, OneHolder
    <3>3. QED
      BY <3>1, <3>2
  <2>3. \A d \in Calls, h \in Posts :
          post'[h].stage \in {"verify", "resolve", "push"} /\ post'[h].call = d => OwnPost(h, d)'
    BY <1>1 DEF LandedOnce
  <2>4. QED
    BY <2>1, <2>2, <2>3 DEF LandedOnce, OnTheWay
<1>6. OneOutcome' /\ DataHasReceipt' /\ ReceiptAcceptedOnce'
  BY <1>1 DEF OneOutcome, DataHasReceipt, ReceiptAcceptedOnce
<1>7. QED
  BY <1>5, <1>6, GenuineParts

LEMMA PollGenuine ==
  ASSUME IInv, IInv', AnswerIsGenuine, NEW p \in Pages, PollStep(p)
  PROVE  AnswerIsGenuine'
<1> USE DEF IInv, TypeOK
<1>1. UNCHANGED <<caller, answer, result, post, pend, verdicts, spent, job>>
  BY DEF PollStep, PollStart, Take, TakeNothing, PageLeaves, Answer, Requeue, PollThrows
<1>2. \A d \in Calls : OnTheWay(d)' => OnTheWay(d)
  <2>1. CASE PollStart(p) \/ TakeNothing(p) \/ PageLeaves(p)
    BY <2>1 DEF PollStart, TakeNothing, PageLeaves, OnTheWay, Queued
  <2>2. CASE Take(p)
    <3>0. Takeable(PageUser[p]) \subseteq queue[PageUser[p]]
      BY DEF Takeable
    <3>1. PICK batch \in SUBSET Takeable(PageUser[p]) :
            /\ held' = [held EXCEPT ![p] = batch]
            /\ queue' = [queue EXCEPT ![PageUser[p]] = Takeable(PageUser[p]) \ batch]
      BY <2>2 DEF Take
    <3>2. inbox' = inbox
      BY <2>2 DEF Take
    <3>3. \A d \in batch : d \in Calls /\ Queued(d)
      BY <3>0 DEF OwnQueue, Queued
    <3>4. \A q \in Pages, d \in Calls : d \in held'[q] => d \in held[q] \/ d \in batch
      BY <3>1
    <3>5. \A d \in Calls : Queued(d)' => Queued(d)
      BY <3>0, <3>1 DEF Queued
    <3>6. QED
      BY <3>2, <3>3, <3>4, <3>5 DEF OnTheWay
  <2>3. CASE Answer(p)
    <3>1. queue' = queue /\ \A q \in Pages : held'[q] \subseteq held[q]
      BY <2>3 DEF Answer
    <3>2. \A q \in Pages : inbox'[q] \subseteq inbox[q] \cup held[q]
      <4>1. CASE gone[p]
        BY <2>3, <4>1 DEF Answer
      <4>2. CASE ~gone[p]
        <5>1. PICK F : F \subseteq held[p] /\ inbox' = [inbox EXCEPT ![p] = F]
          BY <2>3, <4>2 DEF Answer
        <5>2. QED
          BY <5>1
      <4>3. QED
        BY <4>1, <4>2
    <3>3. QED
      BY <3>1, <3>2 DEF OnTheWay, Queued
  <2>4. CASE Requeue(p) \/ PollThrows(p)
    <3>1. inbox' = inbox /\ \A q \in Pages : held'[q] \subseteq held[q]
      BY <2>4 DEF Requeue, PollThrows
    <3>2. \A u \in Users : queue'[u] \subseteq queue[u] \cup held[p]
      <4>1. Requeued(held[p]) \subseteq held[p]
        BY DEF Requeued
      <4>2. CASE Requeue(p)
        BY <4>1, <4>2 DEF Requeue
      <4>3. CASE PollThrows(p)
        <5>1. CASE queue' \in {queue, [queue EXCEPT ![PageUser[p]] = @ \cup held[p]]}
          BY <5>1
        <5>2. CASE \E lost \in SUBSET queue[PageUser[p]] :
                     queue' = [queue EXCEPT ![PageUser[p]] = @ \ lost]
          BY <5>2
        <5>3. QED
          BY <4>3, <5>1, <5>2 DEF PollThrows
      <4>4. QED
        BY <2>4, <4>2, <4>3
    <3>3. \A d \in Calls : Queued(d)' => Queued(d) \/ d \in held[p]
      BY <3>2 DEF Queued
    <3>4. QED
      BY <3>1, <3>3 DEF OnTheWay
  <2>5. QED
    BY <2>1, <2>2, <2>3, <2>4 DEF PollStep
<1> HIDE DEF IInv
<1>3. QED
  BY <1>1, <1>2, WayGenuine

LEMMA PageGenuine ==
  ASSUME IInv, IInv', AnswerIsGenuine, NEW p \in Pages, PageStep(p)
  PROVE  AnswerIsGenuine'
<1> USE DEF IInv, TypeOK
<1>1. UNCHANGED <<caller, answer, result, post, queue, held, pend, verdicts, spent>>
  BY DEF PageStep, LoseAnswer, Accept, Reload, Refuse, Start, Finish, GiveUp
<1>2. \A q \in Pages : inbox'[q] \subseteq inbox[q]
  BY DEF PageStep, LoseAnswer, Accept, Reload, Refuse, Start, Finish, GiveUp
<1>3. \A d \in Calls : OnTheWay(d)' => OnTheWay(d)
  BY <1>1, <1>2 DEF OnTheWay, Queued
<1>4. \A q \in Pages, d \in Calls :
        job'[q][d] # "none" => job[q][d] # "none" \/ (d \in inbox[q] /\ ~OnTheWay(d)')
  <2>1. CASE LoseAnswer(p)
    BY <2>1 DEF LoseAnswer
  <2>2. CASE Reload(p)
    BY <2>2 DEF Reload
  <2>3. ASSUME NEW c \in Calls, Refuse(p, c) \/ Start(p, c) \/ Finish(p, c) \/ GiveUp(p, c)
        PROVE  \A q \in Pages, d \in Calls : job'[q][d] # "none" => job[q][d] # "none"
    <3>1. job[p][c] # "none" /\ \E to \in JobStates : SetJob(p, c, to)
      BY <2>3 DEF Refuse, Start, Finish, GiveUp, JobStates, Bodies
    <3>2. \A q \in Pages, d \in Calls : q # p \/ d # c => job'[q][d] = job[q][d]
      BY <3>1, SetJobType
    <3>3. QED
      BY <3>1, <3>2
  <2>4. CASE Accept(p)
    <3>1. \A q \in Pages, d \in Calls :
            job'[q][d] # "none" => job[q][d] # "none" \/ (q = p /\ d \in inbox[p])
      BY <2>4 DEF Accept
    <3>2. inbox'[p] = {}
      BY <2>4 DEF Accept
    <3>3. ASSUME NEW d \in Calls, d \in inbox[p]
          PROVE  ~OnTheWay(d)'
      <4>1. Holds(p, d)
        BY <3>3 DEF Holds
      <4>2. ~Queued(d) /\ d \notin held[p]
        BY <3>3, <4>1 DEF OneHolder
      <4>3. \A q \in Pages : q # p => ~Holds(q, d)
        BY <4>1 DEF OneHolder
      <4>4. QED
        BY <1>1, <1>2, <3>2, <4>2, <4>3 DEF OnTheWay, Queued, Holds
    <3>4. QED
      BY <3>1, <3>3
  <2>5. QED
    BY <2>1, <2>2, <2>3, <2>4 DEF PageStep
<1> HIDE DEF IInv
<1>5. QED
  BY <1>1, <1>3, <1>4, WayGenuine

LEMMA ExpiryGenuine ==
  ASSUME IInv, IInv', AnswerIsGenuine, NEW u \in Users, QueueExpires(u)
  PROVE  AnswerIsGenuine'
<1>1. /\ UNCHANGED <<caller, answer, result, post, pend, verdicts, spent, job, held, inbox>>
      /\ \A v \in Users : queue'[v] \subseteq queue[v]
  BY DEF QueueExpires, IInv, TypeOK
<1>2. \A d \in Calls : OnTheWay(d)' => OnTheWay(d)
  BY <1>1 DEF OnTheWay, Queued
<1>3. QED
  BY <1>1, <1>2, WayGenuine

(* What the handler of h does: it passes an outcome on for the command it  *)
(* was looked up for, in the step that takes the pending command or the    *)
(* push that earned it, and calls data what it accepted a receipt for.     *)
PostEffect(h) ==
  /\ UNCHANGED <<caller, answer, queue, held, inbox>>
  /\ \A g \in Posts : g # h => post'[g] = post[g]
  /\ \A q \in Pages, d \in Calls : job'[q][d] # "none" <=> job[q][d] # "none"
  /\ pend' \subseteq pend /\ spent \subseteq spent'
  /\ \A d \in Calls : OwnPost(h, d)' => OwnPost(h, d) \/ \E q \in Pages : job[q][d] # "none"
  /\ \A d \in Calls :
       post'[h].stage \in {"verify", "resolve", "push"} /\ post'[h].call = d => OwnPost(h, d)'
  /\ \A d \in Calls :
       \/ result'[d] = result[d]
       \/ /\ OwnPost(h, d) /\ (d \in pend \/ Pushes(h, d))
          /\ d \notin pend' /\ ~Pushes(h, d)'
  /\ \A d \in Calls : Pushes(h, d)' => d \in pend /\ d \notin pend' /\ result' = result
  /\ \A d \in Calls :
       \/ verdicts'[d] = verdicts[d]
       \/ verdicts'[d] = verdicts[d] + 1 /\ d \notin spent /\ d \in spent'
  /\ \A d \in Calls : SaidData(d)' => SaidData(d) \/ verdicts'[d] = verdicts[d] + 1

LEMMA PostEffectGenuine ==
  ASSUME IInv, IInv', AnswerIsGenuine, NEW h \in Posts, PostEffect(h)
  PROVE  AnswerIsGenuine'
<1> USE DEF AnswerIsGenuine, PostEffect
<1>1. \A d \in Calls : (Unsent(d)' <=> Unsent(d)) /\ (Queued(d)' <=> Queued(d))
  BY DEF Unsent, Queued
<1>2. \A g \in Posts, d \in Calls : g # h =>
        (OwnPost(g, d)' <=> OwnPost(g, d)) /\ (Pushes(g, d)' <=> Pushes(g, d))
  BY DEF OwnPost, Pushes
<1>3. \A d \in Calls : Landed(d)' => Landed(d)
  BY <1>2 DEF Landed
<1>4. LandedOnce'
  <2>1. \A d \in Calls : Landed(d)' => /\ ~Unsent(d)' /\ ~Queued(d)'
                                       /\ \A p \in Pages : d \notin held'[p] /\ d \notin inbox'[p]
    BY <1>1, <1>3 DEF LandedOnce
  <2>2. \A p, q \in Pages, d \in Calls : job'[p][d] # "none" /\ job'[q][d] # "none" => p = q
    BY DEF LandedOnce
  <2>3. \A d \in Calls, g \in Posts :
          post'[g].stage \in {"verify", "resolve", "push"} /\ post'[g].call = d => OwnPost(g, d)'
    BY <1>2 DEF LandedOnce
  <2>4. QED
    BY <2>1, <2>2, <2>3 DEF LandedOnce
<1>5. \A d \in Calls : \/ result'[d] = result[d]
                       \/ /\ d \notin pend' /\ result[d] = "none"
                          /\ \A g \in Posts : ~Pushes(g, d)'
  BY <1>2 DEF OneOutcome
<1>6. OneOutcome'
  <2>1. \A d \in Calls : Unsent(d)' => d \notin pend'
    BY <1>1 DEF OneOutcome
  <2>2. \A d \in Calls : result'[d] # "none" => d \notin pend' /\ \A g \in Posts : ~Pushes(g, d)'
    BY <1>2, <1>5 DEF OneOutcome
  <2>3. \A d \in Calls, g \in Posts : Pushes(g, d)' => d \notin pend'
    BY <1>2 DEF OneOutcome
  <2>4. \A d \in Calls, g, k \in Posts : Pushes(g, d)' /\ Pushes(k, d)' => g = k
    BY <1>2 DEF OneOutcome
  <2>5. QED
    BY <2>1, <2>2, <2>3, <2>4 DEF OneOutcome
<1>7. \A d \in Calls : verdicts[d] \in Nat
  BY DEF IInv, TypeOK
<1>8. ReceiptAcceptedOnce'
  BY <1>7 DEF ReceiptAcceptedOnce, DataHasReceipt
<1>9. DataHasReceipt'
  BY <1>7 DEF ReceiptAcceptedOnce, DataHasReceipt
<1>10. QED
  BY <1>4, <1>6, <1>8, <1>9, GenuineParts

(* An answered request, and what the page makes of the answer.             *)
LEMMA ReplyJobs ==
  ASSUME TypeOK, NEW h \in Posts, post[h] # NoPost, Reply(h)
  PROVE  /\ post'[h] = NoPost /\ \A g \in Posts : g # h => post'[g] = post[g]
         /\ \A q \in Pages, d \in Calls : job'[q][d] # "none" <=> job[q][d] # "none"
<1>1. /\ post'[h] = NoPost /\ \A g \in Posts : g # h => post'[g] = post[g]
      /\ \A q \in Pages, d \in Calls :
           job'[q][d] = job[q][d] \/ (job'[q][d] = "over" /\ job[q][d] \in Bodies)
  BY ReplyEffect
<1>2. QED
  BY <1>1 DEF Bodies

(* A request that ends leaves no evidence but the outcome it passed on.    *)
LEMMA EndedPost ==
  ASSUME IInv, AnswerIsGenuine, NEW h \in Posts, post[h] # NoPost, post'[h] = NoPost,
         \A g \in Posts : g # h => post'[g] = post[g],
         \A q \in Pages, d \in Calls : job'[q][d] # "none" <=> job[q][d] # "none",
         UNCHANGED <<caller, answer, queue, held, inbox, verdicts>>,
         pend' \subseteq pend, spent \subseteq spent',
         \A d \in Calls :
           \/ result'[d] = result[d]
           \/ Pushes(h, d) /\ result'[d] = post[h].says
  PROVE  PostEffect(h)
<1>1. \A d \in Calls : ~OwnPost(h, d)' /\ ~Pushes(h, d)'
  BY DEF OwnPost, Pushes, NoPost
<1>2. post'[h].stage = "none"
  BY DEF NoPost
<1>3. \A d \in Calls : Pushes(h, d) => OwnPost(h, d) /\ d \notin pend
  BY DEF AnswerIsGenuine, OneOutcome, LandedOnce, Pushes
<1>4. \A d \in Calls : SaidData(d)' => SaidData(d)
  BY DEF SaidData, Pushes
<1>5. QED
  BY <1>1, <1>2, <1>3, <1>4 DEF PostEffect

LEMMA VerifyEffect ==
  ASSUME IInv, AnswerIsGenuine, NEW h \in Posts, Verify(h)
  PROVE  PostEffect(h)
<1> DEFINE c == post[h].call  b == post[h].says  word == OutcomeOf(c, b)
<1>1. post[h] # NoPost /\ post[h] \in PostRecords /\ b \in Bodies /\ c \in Calls /\ TypeOK
  BY BusyPost, PostShape DEF Verify, IInv
<1>2. OwnPost(h, c) /\ PageUser[post[h].page] = CallUser[c]
  BY <1>1 DEF AnswerIsGenuine, LandedOnce, OwnPost, Verify
<1>3. /\ UNCHANGED <<caller, answer, queue, held, inbox>>
      /\ spent \subseteq spent'
  BY DEF Verify
<1>4. word = "data" <=> b = "success" /\ Accepted(c, b)
  BY <1>1 DEF OutcomeOf, Bodies
<1>5. /\ \A d \in Calls : \/ verdicts'[d] = verdicts[d]
                          \/ verdicts'[d] = verdicts[d] + 1 /\ d \notin spent /\ d \in spent'
      /\ word = "data" => verdicts'[c] = verdicts[c] + 1
  <2>1. CASE Accepted(c, b)
    <3>1. c \notin spent /\ Reaches(b) /\ age[c] # Forgotten
      BY <2>1 DEF Accepted, Reaches
    <3>2. spent' = spent \cup {c} /\ verdicts' = [verdicts EXCEPT ![c] = @ + 1]
      BY <2>1, <3>1 DEF Verify
    <3>3. QED
      BY <1>1, <3>1, <3>2 DEF TypeOK
  <2>2. CASE ~Accepted(c, b)
    BY <1>4, <2>2 DEF Verify
  <2>3. QED
    BY <2>1, <2>2
<1> HIDE DEF word
<1>6. CASE SharedStore
  <2>1. /\ post' = [post EXCEPT ![h] = [post[h] EXCEPT !.stage = "resolve", !.says = word]]
        /\ UNCHANGED <<pend, result, job>>
    BY <1>6 DEF Verify, word
  <2>2. /\ \A g \in Posts : g # h => post'[g] = post[g]
        /\ post'[h].call = c /\ post'[h].says = word /\ post'[h].stage = "resolve"
        /\ post'[h].page = post[h].page
    BY <1>1, <2>1 DEF TypeOK, PostRecords
  <2>3. post'[h] # NoPost
    BY <2>2 DEF NoPost
  <2>4. \A d \in Calls : (OwnPost(h, d)' <=> d = c) /\ (OwnPost(h, d) <=> d = c)
    BY <1>1, <1>2, <2>2, <2>3 DEF OwnPost
  <2>5. \A d \in Calls : ~Pushes(h, d)'
    BY <2>2 DEF Pushes
  <2>6. \A d \in Calls : SaidData(d)' => SaidData(d) \/ (d = c /\ word = "data")
    BY <1>3, <2>1, <2>2 DEF SaidData
  <2>7. QED
    BY <1>3, <1>5, <2>1, <2>2, <2>4, <2>5, <2>6 DEF PostEffect
<1>7. CASE ~SharedStore
  <2>1. ResolveWith(c, word) /\ Reply(h)
    BY <1>7 DEF Verify, word
  <2>2. /\ post'[h] = NoPost /\ \A g \in Posts : g # h => post'[g] = post[g]
        /\ \A q \in Pages, d \in Calls : job'[q][d] # "none" <=> job[q][d] # "none"
    BY <1>1, <2>1, ReplyJobs
  <2>3. \A d \in Calls : ~OwnPost(h, d)' /\ ~Pushes(h, d)'
    BY <2>2 DEF OwnPost, Pushes, NoPost
  <2>4. post'[h].stage = "none"
    BY <2>2 DEF NoPost
  <2>5. /\ pend' \subseteq pend
        /\ \A d \in Calls : \/ result'[d] = result[d]
                            \/ d = c /\ d \in pend /\ d \notin pend' /\ result'[d] = word
    BY <1>1, <2>1 DEF ResolveWith, TypeOK
  <2>6. \A d \in Calls : SaidData(d)' => SaidData(d) \/ (d = c /\ word = "data")
    BY <1>3, <2>2, <2>4, <2>5 DEF SaidData
  <2>7. QED
    BY <1>2, <1>3, <1>5, <2>2, <2>3, <2>4, <2>5, <2>6 DEF PostEffect
<1>8. QED
  BY <1>6, <1>7

LEMMA PostEffects ==
  ASSUME IInv, AnswerIsGenuine, NEW h \in Posts, PostStep(h)
  PROVE  PostEffect(h)
<1>1. TypeOK /\ UNCHANGED <<caller, answer, queue, held, inbox>>
  BY DEF IInv, PostStep, PostResult, Unknown, Lookup, Verify, Resolve, PushOutcome, PostThrows
<1>2. ASSUME NEW p \in Pages, NEW c \in Calls, PostResult(h, p, c)
      PROVE  PostEffect(h)
  <2>1. PICK b \in Bodies :
          /\ IF PageUser[p] = CallUser[c] THEN job[p][c] = b ELSE b = "error"
          /\ post' = [post EXCEPT ![h] = [stage |-> "lookup", page |-> p, call |-> c, says |-> b]]
    BY <1>2 DEF PostResult
  <2>2. /\ \A g \in Posts : g # h => post'[g] = post[g]
        /\ post'[h].call = c /\ post'[h].says = b /\ post'[h].stage = "lookup"
        /\ post'[h].page = p
    BY <1>1, <2>1 DEF TypeOK
  <2>3. \A d \in Calls : OwnPost(h, d)' => \E q \in Pages : job[q][d] # "none"
    BY <2>1, <2>2 DEF OwnPost, Bodies
  <2>4. UNCHANGED <<job, result, pend, spent, verdicts>>
    BY <1>2 DEF PostResult
  <2>5. \A d \in Calls : SaidData(d)' => SaidData(d)
    BY <1>1, <2>2, <2>4 DEF SaidData, Bodies
  <2>6. \A d \in Calls : ~Pushes(h, d)'
    BY <2>2 DEF Pushes
  <2>7. QED
    BY <1>1, <2>2, <2>3, <2>4, <2>5, <2>6 DEF PostEffect
<1>3. CASE Unknown(h)
  <2>1. post[h] # NoPost /\ Reply(h) /\ UNCHANGED <<result, pend, spent, verdicts>>
    BY <1>3, BusyPost DEF Unknown
  <2>2. QED
    BY <1>1, <2>1, ReplyJobs, EndedPost
<1>4. CASE Lookup(h)
  <2>1. /\ post[h] # NoPost /\ UNCHANGED <<job, result, pend, spent, verdicts>>
        /\ post[h] \in PostRecords
    BY <1>1, <1>4, BusyPost, PostShape DEF Lookup
  <2>2. /\ \A g \in Posts : g # h => post'[g] = post[g]
        /\ post'[h].call = post[h].call /\ post'[h].says = post[h].says
        /\ post'[h].stage = "verify" /\ post'[h].page = post[h].page
    BY <1>1, <1>4, <2>1 DEF Lookup, TypeOK, PostRecords
  <2>3. post'[h] # NoPost
    BY <2>2 DEF NoPost
  <2>4. \A d \in Calls : /\ OwnPost(h, d)' <=> OwnPost(h, d)
                         /\ post'[h].call = d => OwnPost(h, d)'
                         /\ ~Pushes(h, d)'
    BY <1>4, <2>1, <2>2, <2>3 DEF OwnPost, Pushes, Lookup
  <2>5. \A d \in Calls : SaidData(d)' => SaidData(d)
    BY <1>1, <2>1, <2>2 DEF SaidData
  <2>6. QED
    BY <1>1, <2>1, <2>2, <2>4, <2>5 DEF PostEffect
<1>5. CASE Resolve(h)
  <2>1. /\ post[h] # NoPost /\ UNCHANGED <<result, spent, verdicts>>
        /\ post[h] \in PostRecords /\ post[h].call \in Calls
    BY <1>1, <1>5, BusyPost, PostShape DEF Resolve
  <2>2. CASE post[h].call \in pend
    <3>1. /\ post' = [post EXCEPT ![h] = [post[h] EXCEPT !.stage = "push"]] /\ job' = job
          /\ pend' = pend \ {post[h].call}
      BY <1>5, <2>2 DEF Resolve
    <3>2. /\ \A g \in Posts : g # h => post'[g] = post[g]
          /\ post'[h].call = post[h].call /\ post'[h].says = post[h].says
          /\ post'[h].stage = "push" /\ post'[h].page = post[h].page
      BY <1>1, <2>1, <3>1 DEF TypeOK, PostRecords
    <3>3. post'[h] # NoPost
      BY <3>2 DEF NoPost
    <3>4. OwnPost(h, post[h].call)
      BY <1>5, <2>1 DEF AnswerIsGenuine, LandedOnce, Resolve
    <3>5. \A d \in Calls : /\ OwnPost(h, d)' <=> OwnPost(h, d)
                           /\ post'[h].call = d => OwnPost(h, d)'
                           /\ Pushes(h, d)' => d = post[h].call
      BY <2>1, <3>2, <3>3, <3>4 DEF OwnPost, Pushes
    <3>6. \A d \in Calls : SaidData(d)' => SaidData(d)
      BY <1>1, <2>1, <3>2 DEF SaidData
    <3>7. QED
      BY <1>1, <2>1, <2>2, <3>1, <3>2, <3>5, <3>6 DEF PostEffect
  <2>3. CASE post[h].call \notin pend
    <3>1. Reply(h) /\ pend' = pend
      BY <1>5, <2>3 DEF Resolve
    <3>2. QED
      BY <1>1, <2>1, <3>1, ReplyJobs, EndedPost
  <2>4. QED
    BY <2>2, <2>3
<1>6. CASE PushOutcome(h)
  <2>1. /\ post[h] # NoPost /\ Reply(h) /\ UNCHANGED <<pend, spent, verdicts>>
        /\ result' = [result EXCEPT ![post[h].call] = post[h].says]
        /\ post[h].stage = "push"
    BY <1>6, BusyPost DEF PushOutcome
  <2>2. \A d \in Calls : result'[d] = result[d] \/ (Pushes(h, d) /\ result'[d] = post[h].says)
    BY <1>1, <2>1 DEF Pushes, TypeOK
  <2>3. QED
    BY <1>1, <2>1, <2>2, ReplyJobs, EndedPost
<1>7. CASE PostThrows(h)
  <2>1. /\ post[h] # NoPost /\ post' = [post EXCEPT ![h] = NoPost] /\ UNCHANGED <<job, verdicts>>
        /\ \/ result' = result
           \/ /\ post[h].stage = "push"
              /\ result' = [result EXCEPT ![post[h].call] = post[h].says]
        /\ pend' \subseteq pend /\ spent \subseteq spent'
    BY <1>7 DEF PostThrows
  <2>2. \A d \in Calls : result'[d] = result[d] \/ (Pushes(h, d) /\ result'[d] = post[h].says)
    BY <1>1, <2>1 DEF Pushes, TypeOK
  <2>3. post'[h] = NoPost /\ \A g \in Posts : g # h => post'[g] = post[g]
    BY <1>1, <2>1 DEF TypeOK
  <2>4. QED
    BY <1>1, <2>1, <2>2, <2>3, EndedPost
<1>8. QED
  BY <1>2, <1>3, <1>4, <1>5, <1>6, <1>7, VerifyEffect DEF PostStep

-----------------------------------------------------------------------------
(* What a caller gets is what its own page said of its own command, once   *)
(* and with a receipt accepted once (channel.ts result, verify.ts          *)
(* checkReceipt, the stores' resolve).                                     *)
THEOREM AnswersAreGenuine == Spec => []AnswerIsGenuine
<1>1. IInv /\ IInv' /\ AnswerIsGenuine /\ [Next]_vars => AnswerIsGenuine'
  <2> SUFFICES ASSUME IInv, IInv', AnswerIsGenuine, [Next]_vars PROVE AnswerIsGenuine'
    OBVIOUS
  <2>1. CASE UNCHANGED vars
    BY <2>1 DEF vars, AnswerIsGenuine, ReceiptAcceptedOnce, DataIsGenuine, AnsweredByOwnPage,
                LandedOnce, Landed, OwnPost, OneOutcome, Pushes, DataHasReceipt, SaidData,
                Unsent, Queued
  <2>2. ASSUME NEW h \in Posts, PostStep(h) PROVE AnswerIsGenuine'
    BY <2>2, PostEffects, PostEffectGenuine
  <2>3. QED
    BY <2>1, <2>2, CallerGenuine, PollGenuine, PageGenuine, ExpiryGenuine DEF Next
<1>2. QED
  BY InitGenuine, InvariantHolds, <1>1, PTL DEF Spec

(* An outcome handed over is never replaced by a later one: whoever may    *)
(* write it finds none there (the stores' resolve, "exactly one resolve    *)
(* wins").                                                                 *)
THEOREM FirstOutcomeHolds == Spec => FirstOutcomeStands
<1>1. IInv /\ AnswerIsGenuine /\ [Next]_vars
        => [\A c \in Calls : result[c] # "none" => result'[c] \in {result[c], "none"}]_vars
  <2> SUFFICES ASSUME IInv, AnswerIsGenuine, Next, NEW d \in Calls, result[d] # "none"
               PROVE  result'[d] \in {result[d], "none"}
    BY DEF vars
  <2>1. ASSUME NEW c \in Calls, CallerStep(c) \/ CallerThrows(c) \/ Tick(c)
        PROVE  result'[d] \in {result[d], "none"}
    BY <2>1, CallerEffects DEF CallerEffect
  <2>2. ASSUME NEW p \in Pages, PollStep(p) \/ PageStep(p)
        PROVE  result' = result
    BY <2>2 DEF PollStep, PollStart, Take, TakeNothing, PageLeaves, Answer, Requeue, PollThrows,
                PageStep, LoseAnswer, Accept, Reload, Refuse, Start, Finish, GiveUp
  <2>3. ASSUME NEW h \in Posts, PostStep(h)
        PROVE  result'[d] = result[d]
    <3>1. PostEffect(h)
      BY <2>3, PostEffects
    <3>2. d \notin pend /\ ~Pushes(h, d)
      BY DEF AnswerIsGenuine, OneOutcome
    <3>3. QED
      BY <3>1, <3>2 DEF PostEffect
  <2>4. ASSUME NEW u \in Users, QueueExpires(u)
        PROVE  result' = result
    BY <2>4 DEF QueueExpires
  <2>5. QED
    BY <2>1, <2>2, <2>3, <2>4 DEF Next
<1>2. QED
  BY InvariantHolds, AnswersAreGenuine, <1>1, PTL DEF Spec, FirstOutcomeStands

-----------------------------------------------------------------------------
(* The calls implement CallVenue *)

(* A caller that has not left for Writ Cloud and has no answer is open.    *)
LEMMA OpenVenue ==
  ASSUME IInv, NEW c \in Calls
  PROVE  /\ caller[c] \notin {"cloud", "done"} => VenueOf(c) = "none"
         /\ caller[c] = "cloud" => VenueOf(c) = "cloud"
BY DEF IInv, AnsweredMeansDone, VenueOf, AtCloud, ToldAway, AwayCodes

(* A caller ends once, and only its own call.                              *)
LEMMA VenueChange ==
  ASSUME IInv, NEW c \in Calls, CallerStep(c) \/ CallerThrows(c) \/ Tick(c)
  PROVE  \A d \in Calls : \/ VenueOf(d)' = VenueOf(d)
                          \/ d = c /\ VenueOf(c) = "none"
<1>1. \A d \in Calls \ {c} : caller'[d] = caller[d] /\ answer'[d] = answer[d]
  BY CallerEffects DEF CallerEffect
<1>2. \A d \in Calls \ {c} : VenueOf(d)' = VenueOf(d)
  BY <1>1 DEF VenueOf, AtCloud, ToldAway
<1>3. VenueOf(c)' = VenueOf(c) \/ VenueOf(c) = "none"
  <2>1. CASE caller[c] \notin {"cloud", "done"}
    BY <2>1, OpenVenue
  <2>2. CASE CloudEnds(c)
    <3>1. VenueOf(c) = "cloud"
      BY <2>2, OpenVenue DEF CloudEnds
    <3>2. answer'[c] \in {"cloud", "cloudError"}
      BY <2>2 DEF CloudEnds, Return, IInv, TypeOK
    <3>3. QED
      BY <3>1, <3>2 DEF VenueOf, AtCloud
  <2>3. CASE Tick(c)
    BY <2>3 DEF Tick, VenueOf, AtCloud, ToldAway
  <2>4. CASE caller[c] \in {"cloud", "done"} /\ ~CloudEnds(c) /\ ~Tick(c)
    BY <2>4 DEF CallerStep, Begin, Route, Enqueue, Collect, PickupOver, Withdraw, BudgetOver,
                Cancel, CallerThrows, Step
  <2>5. QED
    BY <2>1, <2>2, <2>3, <2>4
<1>4. QED
  BY <1>2, <1>3

(* Callers, store, pages and network only do what CallVenue allows: a      *)
(* function is started once and by a page, and a call ends at one venue    *)
(* (callForUser, runOnUser, BridgeChannel.#accept, the result handler).    *)
THEOREM CallsHaveOneVenue == Spec => ImplementsCallVenue
<1>1. Init => CV!Init
  BY DEF Init, CV!Init, VenueOf, AtCloud, ToldAway, AwayCodes
<1>2. IInv /\ IInv' /\ [Next]_vars => [CV!Next]_(CV!vars)
  <2> SUFFICES ASSUME IInv, IInv', [Next]_vars PROVE CV!Next \/ UNCHANGED CV!vars
    OBVIOUS
  <2> DEFINE venue == [c \in Calls |-> VenueOf(c)]
  <2>1. ASSUME UNCHANGED <<caller, answer, runs>>
        PROVE  UNCHANGED CV!vars
    BY <2>1 DEF CV!vars, VenueOf, AtCloud, ToldAway
  <2>2. CASE UNCHANGED vars
    BY <2>1, <2>2 DEF vars
  <2>3. ASSUME NEW c \in Calls, CallerStep(c) \/ CallerThrows(c) \/ Tick(c)
        PROVE  CV!Next \/ UNCHANGED CV!vars
    <3>1. runs' = runs
      BY <2>3, CallerEffects DEF CallerEffect
    <3>2. CASE \A d \in Calls : VenueOf(d)' = VenueOf(d)
      BY <3>1, <3>2 DEF CV!vars
    <3>3. CASE ~ \A d \in Calls : VenueOf(d)' = VenueOf(d)
      <4>1. VenueOf(c) = "none" /\ \A d \in Calls : d # c => VenueOf(d)' = VenueOf(d)
        BY <2>3, <3>3, VenueChange
      <4>2. venue' = [venue EXCEPT ![c] = VenueOf(c)'] /\ venue[c] = "none"
        BY <4>1
      <4>3. /\ VenueOf(c)' \in {"none", "user", "cloud", "away", "failed"}
            /\ VenueOf(c)' \in {"cloud", "away"} => runs[c] = 0
            /\ VenueOf(c)' = "user" => runs[c] = 1
        <5>1. AtCloud(c)' \/ ToldAway(c)' => runs'[c] = 0
          BY DEF IInv, NotRunAnywhere, NotRun
        <5>2. answer'[c] = "data" => runs'[c] = 1
          BY DEF IInv, EvidenceIsTrue, SaidRan
        <5>3. QED
          BY <3>1, <5>1, <5>2 DEF VenueOf
      <4>4. VenueOf(c)' # "none"
        BY <3>3, <4>1
      <4>5. CV!End(c, VenueOf(c)')
        BY <3>1, <4>2 DEF CV!End
      <4>6. CV!ByUser(c) \/ CV!ToCloud(c) \/ CV!Away(c) \/ CV!Fail(c)
        BY <4>3, <4>4, <4>5 DEF CV!ByUser, CV!ToCloud, CV!Away, CV!Fail
      <4>7. QED
        BY <4>6 DEF CV!Next
    <3>4. QED
      BY <3>2, <3>3
  <2>4. ASSUME NEW p \in Pages, NEW c \in Calls, Start(p, c)
        PROVE  CV!Next
    <3>1. ~NotRun(c)
      BY <2>4 DEF Start, NotRun, InFlight
    <3>2. runs[c] = 0 /\ ~AtCloud(c) /\ ~ToldAway(c)
      BY <2>4, <3>1 DEF Start, Holds, IInv, OneHolder, NotRunAnywhere
    <3>3. answer[c] # "data"
      BY <3>2 DEF IInv, EvidenceIsTrue, SaidRan
    <3>4. venue[c] \in {"none", "failed"}
      BY <3>2, <3>3 DEF VenueOf
    <3>5. runs' = [runs EXCEPT ![c] = 1]
      BY <2>4, <3>2 DEF Start, IInv, TypeOK
    <3>6. venue' = venue
      BY <2>4 DEF Start, VenueOf, AtCloud, ToldAway
    <3>7. CV!Start(c)
      BY <3>2, <3>4, <3>5, <3>6 DEF CV!Start
    <3>8. QED
      BY <3>7 DEF CV!Next
  <2>5. ASSUME NEW p \in Pages, PollStep(p)
        PROVE  UNCHANGED CV!vars
    BY <2>1, <2>5 DEF PollStep, PollStart, Take, TakeNothing, PageLeaves, Answer, Requeue,
                      PollThrows
  <2>6. ASSUME NEW p \in Pages, PageStep(p)
        PROVE  CV!Next \/ UNCHANGED CV!vars
    BY <2>1, <2>4, <2>6 DEF PageStep, LoseAnswer, Accept, Reload, Refuse, Finish, GiveUp
  <2>7. ASSUME NEW h \in Posts, PostStep(h)
        PROVE  UNCHANGED CV!vars
    BY <2>1, <2>7 DEF PostStep, PostResult, Unknown, Lookup, Verify, Resolve, PushOutcome,
                      PostThrows
  <2>8. ASSUME NEW u \in Users, QueueExpires(u)
        PROVE  UNCHANGED CV!vars
    BY <2>1, <2>8 DEF QueueExpires
  <2>9. QED
    BY <2>2, <2>3, <2>5, <2>6, <2>7, <2>8 DEF Next
<1>3. QED
  BY InvariantHolds, <1>1, <1>2, PTL DEF Spec, ImplementsCallVenue, CV!Spec

-----------------------------------------------------------------------------
(* With memoryStore: no operation throws, and spending a nonce, deleting   *)
(* the pending command and handing its outcome over are one step.          *)

(* A result was said, or found, to be without a genuine receipt. *)
Doubtful(c) ==
  \/ \E p \in Pages : job[p][c] \in {"foreign", "tampered"}
  \/ \E h \in Posts : OwnPost(h, c) /\ post[h].says \in {"foreign", "tampered"}
  \/ result[c] = "unverified" \/ answer[c] = "RESULT_UNVERIFIED"

OneStep == \A h \in Posts : post[h].stage \notin {"resolve", "push"}

(* A command whose nonce is spent, or whose time is over, is not pending.  *)
SpentIsOver ==
  \A c \in Calls : /\ c \in spent \/ age[c] = Forgotten => c \notin pend
                   /\ Unsent(c) => c \notin spent /\ age[c] = Fresh

(* Doubt is only ever cast on a run that ended, and by the page it ran on. *)
DoubtIsTrue ==
  \A c \in Calls : Doubtful(c) =>
    runs[c] = 1 /\ \A p \in Pages : job[p][c] \notin {"running", "success"}

MemoryInv == OneStep /\ NothingLeftBehind /\ SpentIsOver /\ DoubtIsTrue

LEMMA InitMemory == Init => MemoryInv
BY DEF Init, MemoryInv, OneStep, NoPost, NothingLeftBehind, SpentIsOver, DoubtIsTrue, Doubtful,
       OwnPost

(* What the caller leaves pending, how it grows old, and what it answers.  *)
LEMMA CallerMemory ==
  ASSUME ~SharedStore, IInv, NEW c \in Calls, CallerStep(c) \/ CallerThrows(c) \/ Tick(c)
  PROVE  /\ \A d \in Calls : d # c => age'[d] = age[d]
         /\ \/ age'[c] = age[c]
            \/ ~Unsent(c) /\ (age'[c] = Forgotten => c \notin pend')
         /\ answer'[c] = "RESULT_UNVERIFIED"
              => answer[c] = "RESULT_UNVERIFIED" \/ result[c] = "unverified"
         /\ caller'[c] \in {"cloud", "done"}
              => \/ caller[c] \in {"cloud", "done"} \/ Unsent(c) \/ result[c] # "none"
                 \/ c \notin pend'
         /\ caller'[c] \in {"cloud", "done"} /\ caller[c] \notin {"cloud", "done"} /\ ~Unsent(c)
              => result'[c] = "none"
         /\ Enqueue(c) => caller'[c] = "pickup"
         /\ c \in pend' => c \in pend \/ Enqueue(c)
<1> USE DEF IInv, TypeOK
<1>1. CASE Tick(c)
  BY <1>1 DEF Tick, Enqueue, Step, Unsent, Ages, Fresh, Forgotten
<1>2. CASE Begin(c) \/ Route(c) \/ Enqueue(c) \/ PickupOver(c) \/ Withdraw(c) \/ BudgetOver(c)
           \/ CloudEnds(c)
  BY <1>2 DEF Begin, Route, Enqueue, PickupOver, Withdraw, BudgetOver, CloudEnds, Step, Away,
              Return, Unsent, AwayCodes
<1>3. CASE Collect(c)
  BY <1>3 DEF Collect, Settle, Away, Return, Enqueue, Step
<1>4. CASE Cancel(c)
  BY <1>4 DEF Cancel, Away, Return, Enqueue, Step
<1>5. CASE CallerThrows(c)
  BY <1>5 DEF CallerThrows
<1>6. QED
  BY <1>1, <1>2, <1>3, <1>4, <1>5 DEF CallerStep

LEMMA CallerKeepsMemory ==
  ASSUME ~SharedStore, IInv, IInv', AnswerIsGenuine, MemoryInv, NEW c \in Calls,
         CallerStep(c) \/ CallerThrows(c) \/ Tick(c)
  PROVE  MemoryInv'
<1> USE DEF MemoryInv
<1>1. /\ UNCHANGED <<job, runs, post, spent>>
      /\ \A d \in Calls : /\ result'[d] \in {result[d], "none"}
                          /\ d # c => caller'[d] = caller[d] /\ answer'[d] = answer[d]
                          /\ Unsent(d)' => Unsent(d)
                          /\ d \in pend' /\ d # c => d \in pend
  BY CallerEffects, CallerStores DEF CallerEffect, Unsent, IInv
<1>2. Unsent(c) => c \notin pend /\ c \notin spent /\ age[c] = Fresh /\ result[c] = "none"
  BY DEF AnswerIsGenuine, OneOutcome, LandedOnce, Landed, SpentIsOver
<1>3. result[c] # "none" => c \notin pend
  BY DEF AnswerIsGenuine, OneOutcome
<1>4. Enqueue(c) => Unsent(c)
  BY DEF Enqueue, Step, Unsent
<1>5. OneStep'
  BY <1>1 DEF OneStep
<1>6. NothingLeftBehind'
  <2>1. \A d \in Calls : d # c /\ caller'[d] \in {"cloud", "done"}
                           => d \notin pend' /\ result'[d] = "none"
    BY <1>1 DEF NothingLeftBehind
  <2>2. caller'[c] \in {"cloud", "done"} => c \notin pend' /\ result'[c] = "none"
    BY <1>1, <1>2, <1>3, <1>4, CallerMemory DEF NothingLeftBehind
  <2>3. QED
    BY <2>1, <2>2 DEF NothingLeftBehind
<1>7. SpentIsOver'
  <2>1. \A d \in Calls : d # c => /\ d \in spent' \/ age'[d] = Forgotten => d \notin pend'
                                  /\ Unsent(d)' => d \notin spent' /\ age'[d] = Fresh
    BY <1>1, CallerMemory DEF SpentIsOver
  <2>2. c \in spent' \/ age'[c] = Forgotten => c \notin pend'
    BY <1>1, <1>2, <1>4, CallerMemory DEF SpentIsOver, Fresh, Forgotten
  <2>3. Unsent(c)' => c \notin spent' /\ age'[c] = Fresh
    BY <1>1, <1>2, CallerMemory
  <2>4. QED
    BY <2>1, <2>2, <2>3 DEF SpentIsOver
<1>8. DoubtIsTrue'
  <2>1. \A d \in Calls : Doubtful(d)' => Doubtful(d)
    BY <1>1, CallerMemory DEF Doubtful, OwnPost
  <2>2. QED
    BY <1>1, <2>1 DEF DoubtIsTrue
<1>9. QED
  BY <1>5, <1>6, <1>7, <1>8

(* A page's step changes what it does with a command, and nothing in the   *)
(* store.                                                                  *)
LEMMA PageKeepsMemory ==
  ASSUME IInv, AnswerIsGenuine, MemoryInv, NEW p \in Pages, PageStep(p)
  PROVE  MemoryInv'
<1> USE DEF MemoryInv
<1>1. UNCHANGED <<caller, answer, age, result, post, pend, spent>>
  BY DEF PageStep, LoseAnswer, Accept, Reload, Refuse, Start, Finish, GiveUp
<1>2. OneStep' /\ NothingLeftBehind' /\ SpentIsOver'
  BY <1>1 DEF OneStep, NothingLeftBehind, SpentIsOver, Unsent
<1>3. TypeOK
  BY DEF IInv
<1>4. ASSUME runs' = runs,
             \A q \in Pages, d \in Calls :
               job'[q][d] \in {"running", "success", "foreign", "tampered"}
                 => job'[q][d] = job[q][d]
      PROVE  DoubtIsTrue'
  <2>1. \A d \in Calls : Doubtful(d)' => Doubtful(d)
    BY <1>1, <1>4 DEF Doubtful, OwnPost
  <2>2. QED
    BY <1>4, <2>1 DEF DoubtIsTrue
<1>5. CASE LoseAnswer(p)
  BY <1>2, <1>4, <1>5 DEF LoseAnswer
<1>6. CASE Accept(p)
  <2>1. \A q \in Pages, d \in Calls : job'[q][d] \in {job[q][d], "error", "accepted"}
    BY <1>3, <1>6 DEF Accept, TypeOK
  <2>2. runs' = runs
    BY <1>6 DEF Accept
  <2>3. QED
    BY <1>2, <1>4, <2>1, <2>2
<1>7. CASE Reload(p)
  <2>1. \A q \in Pages : q # p => job'[q] = job[q]
    BY <1>3, <1>7 DEF Reload, TypeOK
  <2>2. job'[p] = [c \in Calls |-> "none"] /\ runs' = runs
    BY <1>3, <1>7 DEF Reload, TypeOK
  <2>3. \A q \in Pages, d \in Calls : job'[q][d] \in {job[q][d], "none"}
    BY <2>1, <2>2
  <2>4. QED
    BY <1>2, <1>4, <2>2, <2>3
<1>8. ASSUME NEW c \in Calls, Refuse(p, c) \/ GiveUp(p, c)
      PROVE  MemoryInv'
  <2>1. runs' = runs /\ \E to \in {"refused", "over"} : SetJob(p, c, to)
    BY <1>8 DEF Refuse, GiveUp
  <2>2. {"refused", "over"} \subseteq JobStates
    BY DEF JobStates, Bodies
  <2>3. \A q \in Pages, d \in Calls : job'[q][d] \in {job[q][d], "refused", "over"}
    BY <1>3, <2>1, <2>2, SetJobType
  <2>4. QED
    BY <1>2, <1>4, <2>1, <2>3
<1>9. ASSUME NEW c \in Calls, Start(p, c)
      PROVE  MemoryInv'
  <2>1. "running" \in JobStates
    BY DEF JobStates
  <2>2. \A q \in Pages, d \in Calls : q # p \/ d # c => job'[q][d] = job[q][d]
    BY <1>3, <1>9, <2>1, SetJobType DEF Start
  <2>3. job'[p][c] = "running"
    BY <1>3, <1>9, <2>1, SetJobType DEF Start
  <2>4. runs[c] = 0 /\ \A d \in Calls : d # c => runs'[d] = runs[d]
    BY <1>3, <1>9 DEF Start, IInv, OneHolder, Holds, TypeOK
  <2>5. \A d \in Calls : Doubtful(d)' => Doubtful(d) /\ d # c
    <3>1. \A d \in Calls : Doubtful(d)' => Doubtful(d)
      BY <1>1, <2>2, <2>3 DEF Doubtful, OwnPost
    <3>2. ~Doubtful(c)
      BY <2>4 DEF DoubtIsTrue
    <3>3. QED
      BY <3>1, <3>2
  <2>6. QED
    BY <1>2, <2>2, <2>4, <2>5 DEF DoubtIsTrue
<1>10. ASSUME NEW c \in Calls, Finish(p, c)
       PROVE  MemoryInv'
  <2>1. PICK to \in Bodies : SetJob(p, c, to) /\ (to = "error" \/ job[p][c] = "running")
    BY <1>10 DEF Finish, Bodies
  <2>2. to \in JobStates /\ runs' = runs
    BY <1>10 DEF JobStates, Finish
  <2>3. /\ job'[p][c] = to
        /\ \A q \in Pages, d \in Calls : q # p \/ d # c => job'[q][d] = job[q][d]
    BY <1>3, <2>1, <2>2, SetJobType
  <2>4. CASE to = "error"
    BY <1>2, <1>4, <2>2, <2>3, <2>4
  <2>5. CASE job[p][c] = "running"
    <3>1. ~Doubtful(c) /\ runs[c] = 1
      BY <2>5 DEF DoubtIsTrue, IInv, EvidenceIsTrue, SaidRan
    <3>2. \A q \in Pages : q # p => job'[q][c] = "none"
      BY <2>3, <2>5 DEF AnswerIsGenuine, LandedOnce
    <3>3. \A d \in Calls : d # c => (Doubtful(d)' => Doubtful(d))
      BY <1>1, <2>3 DEF Doubtful, OwnPost
    <3>4. Doubtful(c)' => to \in {"foreign", "tampered"}
      BY <1>1, <2>3, <3>1, <3>2 DEF Doubtful, OwnPost
    <3>5. QED
      BY <1>2, <2>2, <2>3, <3>1, <3>2, <3>3, <3>4 DEF DoubtIsTrue
  <2>6. QED
    BY <2>1, <2>4, <2>5
<1>11. QED
  BY <1>5, <1>6, <1>7, <1>8, <1>9, <1>10 DEF PageStep

LEMMA PostKeepsMemory ==
  ASSUME ~SharedStore, IInv, AnswerIsGenuine, MemoryInv, NEW h \in Posts, PostStep(h)
  PROVE  MemoryInv'
<1> USE DEF MemoryInv
<1>1. UNCHANGED <<caller, answer, age, runs>>
  BY DEF PostStep, PostResult, Unknown, Lookup, Verify, Resolve, PushOutcome, PostThrows
<1>2. TypeOK
  BY DEF IInv
<1>3. PostEffect(h)
  BY PostEffects
<1>4. \A q \in Pages, d \in Calls : job'[q][d] = job[q][d] \/ job'[q][d] = "over"
  <2>1. CASE UNCHANGED job
    BY <2>1
  <2>2. CASE post[h] # NoPost /\ Reply(h)
    BY <1>2, <2>2, ReplyEffect
  <2>3. QED
    BY <2>1, <2>2, BusyPost DEF PostStep, PostResult, Unknown, Lookup, Verify, Resolve,
                                PushOutcome, PostThrows
<1>5. OneStep' /\ \/ UNCHANGED <<result, spent, pend>>
                  \/ Verify(h)
  <2>1. ASSUME NEW p \in Pages, NEW c \in Calls, PostResult(h, p, c)
        PROVE  OneStep' /\ UNCHANGED <<result, spent, pend>>
    <3>1. PICK b \in Bodies :
            post' = [post EXCEPT ![h] = [stage |-> "lookup", page |-> p, call |-> c, says |-> b]]
      BY <2>1 DEF PostResult
    <3>2. post'[h].stage = "lookup" /\ \A g \in Posts : g # h => post'[g] = post[g]
      BY <1>2, <3>1 DEF TypeOK
    <3>3. QED
      BY <2>1, <3>2 DEF OneStep, PostResult
  <2>2. ASSUME post'[h] = NoPost
        PROVE  OneStep'
    BY <1>3, <2>2 DEF OneStep, PostEffect, NoPost
  <2>3. CASE Unknown(h)
    BY <1>2, <2>2, <2>3, BusyPost, ReplyJobs DEF Unknown
  <2>4. CASE Lookup(h)
    <3>1. post[h] # NoPost /\ post[h] \in PostRecords
      BY <1>2, <2>4, BusyPost, PostShape DEF Lookup
    <3>2. post'[h].stage = "verify" /\ \A g \in Posts : g # h => post'[g] = post[g]
      BY <1>2, <2>4, <3>1 DEF Lookup, TypeOK, PostRecords
    <3>3. QED
      BY <2>4, <3>2 DEF OneStep, Lookup
  <2>5. CASE Verify(h)
    BY <1>2, <2>2, <2>5, BusyPost, ReplyJobs DEF Verify
  <2>6. ~Resolve(h) /\ ~PushOutcome(h) /\ ~PostThrows(h)
    BY DEF OneStep, Resolve, PushOutcome, PostThrows
  <2>7. QED
    BY <2>1, <2>3, <2>4, <2>5, <2>6 DEF PostStep
<1>6. \A d \in Calls : OwnPost(h, d)' /\ post'[h].says \in {"foreign", "tampered"} => Doubtful(d)
  <2>1. ASSUME NEW p \in Pages, NEW c \in Calls, PostResult(h, p, c)
        PROVE  \A d \in Calls :
                 OwnPost(h, d)' /\ post'[h].says \in {"foreign", "tampered"} => Doubtful(d)
    <3>1. PICK b \in Bodies :
            /\ IF PageUser[p] = CallUser[c] THEN job[p][c] = b ELSE b = "error"
            /\ post' = [post EXCEPT ![h] = [stage |-> "lookup", page |-> p, call |-> c, says |-> b]]
      BY <2>1 DEF PostResult
    <3>2. post'[h].call = c /\ post'[h].says = b
      BY <1>2, <3>1 DEF TypeOK
    <3>3. QED
      BY <3>1, <3>2 DEF OwnPost, Doubtful
  <2>2. CASE post'[h] = NoPost
    BY <2>2 DEF OwnPost
  <2>3. CASE Unknown(h) \/ Verify(h)
    <3>1. post'[h] = NoPost
      BY <1>2, <2>3, BusyPost, ReplyJobs DEF Unknown, Verify
    <3>2. QED
      BY <2>2, <3>1
  <2>4. CASE Lookup(h)
    <3>1. post[h] # NoPost /\ post[h] \in PostRecords
      BY <1>2, <2>4, BusyPost, PostShape DEF Lookup
    <3>2. /\ post'[h].call = post[h].call /\ post'[h].says = post[h].says
          /\ post'[h].page = post[h].page
      BY <1>2, <2>4, <3>1 DEF Lookup, TypeOK, PostRecords
    <3>3. QED
      BY <3>1, <3>2 DEF OwnPost, Doubtful
  <2>5. ~Resolve(h) /\ ~PushOutcome(h) /\ ~PostThrows(h)
    BY DEF OneStep, Resolve, PushOutcome, PostThrows
  <2>6. QED
    BY <2>1, <2>3, <2>4, <2>5 DEF PostStep
<1>7. ASSUME NEW d \in Calls, result'[d] # result[d] \/ spent' # spent \/ pend' # pend
      PROVE  /\ Verify(h)
             /\ d # post[h].call => /\ result'[d] = result[d] /\ (d \in spent' <=> d \in spent)
                                    /\ (d \in pend' => d \in pend)
             /\ d = post[h].call => /\ d \notin pend' /\ (d \in pend \/ result'[d] = result[d])
                                    /\ result'[d] \in {result[d], OutcomeOf(d, post[h].says)}
                                    /\ OwnPost(h, d)
  <2>1. Verify(h)
    BY <1>5, <1>7
  <2>2. post[h] # NoPost /\ post[h].call \in Calls
    BY <1>2, <2>1, BusyPost, PostShape DEF Verify
  <2>3. ResolveWith(post[h].call, OutcomeOf(post[h].call, post[h].says))
    BY <2>1 DEF Verify
  <2>4. OwnPost(h, post[h].call)
    BY <2>1, <2>2 DEF Verify, AnswerIsGenuine, LandedOnce
  <2>5. spent' \in {spent, spent \cup {post[h].call}}
    BY <2>1 DEF Verify
  <2>6. QED
    BY <1>2, <2>1, <2>2, <2>3, <2>4, <2>5 DEF ResolveWith, TypeOK
<1>8. \A d \in Calls : OwnPost(h, d) => ~Unsent(d)
  BY DEF AnswerIsGenuine, LandedOnce, Landed
<1>9. NothingLeftBehind'
  BY <1>1, <1>3, <1>7 DEF NothingLeftBehind, PostEffect
<1>10. SpentIsOver'
  BY <1>1, <1>3, <1>7, <1>8 DEF SpentIsOver, PostEffect, Unsent
<1>11. DoubtIsTrue'
  <2>1. ASSUME NEW d \in Calls, result'[d] = "unverified", result[d] # "unverified"
        PROVE  Doubtful(d)
    <3>1. /\ Verify(h) /\ d = post[h].call /\ d \in pend /\ OwnPost(h, d)
          /\ OutcomeOf(d, post[h].says) = "unverified"
      BY <1>7, <2>1
    <3>2. d \notin spent /\ age[d] # Forgotten
      BY <3>1 DEF SpentIsOver
    <3>3. post[h].says \in Bodies
      BY <1>2, <3>1, BusyPost, PostShape DEF Verify
    <3>4. post[h].says \in {"foreign", "tampered"}
      BY <3>1, <3>2, <3>3 DEF OutcomeOf, Accepted, Bodies
    <3>5. QED
      BY <3>1, <3>4 DEF Doubtful
  <2>2. \A d \in Calls : Doubtful(d)' => Doubtful(d)
    <3> SUFFICES ASSUME NEW d \in Calls, Doubtful(d)' PROVE Doubtful(d)
      OBVIOUS
    <3>1. CASE \E p \in Pages : job'[p][d] \in {"foreign", "tampered"}
      BY <1>4, <3>1 DEF Doubtful
    <3>2. CASE \E g \in Posts : OwnPost(g, d)' /\ post'[g].says \in {"foreign", "tampered"}
      BY <1>3, <1>6, <3>2 DEF Doubtful, OwnPost, PostEffect
    <3>3. CASE result'[d] = "unverified"
      BY <2>1, <3>3 DEF Doubtful
    <3>4. CASE answer'[d] = "RESULT_UNVERIFIED"
      BY <1>1, <3>4 DEF Doubtful
    <3>5. QED
      BY <3>1, <3>2, <3>3, <3>4 DEF Doubtful
  <2>3. QED
    BY <1>1, <1>4, <2>2 DEF DoubtIsTrue
<1>12. QED
  BY <1>5, <1>9, <1>10, <1>11

(* What the theorems about memoryStore rest on.                            *)
THEOREM MemoryHolds ==
  ASSUME ~SharedStore
  PROVE  Spec => []MemoryInv
<1>1. IInv /\ IInv' /\ AnswerIsGenuine /\ MemoryInv /\ [Next]_vars => MemoryInv'
  <2> SUFFICES ASSUME IInv, IInv', AnswerIsGenuine, MemoryInv, [Next]_vars PROVE MemoryInv'
    OBVIOUS
  <2>1. ASSUME UNCHANGED <<caller, answer, age, pend, result, spent, job, runs, post>>
        PROVE  MemoryInv'
    BY <2>1 DEF MemoryInv, OneStep, NothingLeftBehind, SpentIsOver, DoubtIsTrue, Doubtful,
                OwnPost, Unsent
  <2>2. ASSUME NEW p \in Pages, PollStep(p) PROVE MemoryInv'
    BY <2>1, <2>2 DEF PollStep, PollStart, Take, TakeNothing, PageLeaves, Answer, Requeue,
                      PollThrows
  <2>3. ASSUME NEW u \in Users, QueueExpires(u) PROVE MemoryInv'
    BY <2>1, <2>3 DEF QueueExpires
  <2>4. CASE UNCHANGED vars
    BY <2>1, <2>4 DEF vars
  <2>5. QED
    BY <2>2, <2>3, <2>4, CallerKeepsMemory, PageKeepsMemory, PostKeepsMemory DEF Next
<1>2. QED
  BY InitMemory, InvariantHolds, AnswersAreGenuine, <1>1, PTL DEF Spec

(* With a store that does not throw, a call that has its answer leaves     *)
(* neither a pending command nor an outcome (bridge.ts, runOnUser).        *)
THEOREM NothingIsLeft ==
  ASSUME ~SharedStore
  PROVE  Spec => []NothingLeftBehind
<1>1. MemoryInv => NothingLeftBehind
  BY DEF MemoryInv
<1>2. QED
  BY MemoryHolds, <1>1, PTL

(* With a store that does not throw, the caller of a command a page ended  *)
(* with a genuine success is never told that its result is unverified      *)
(* (verify.ts checkReceipt, spendNonce; with redisStore it may be).        *)
THEOREM GenuineResultsAccepted ==
  ASSUME ~SharedStore
  PROVE  Spec => GenuineResultIsAccepted
<1>1. IInv /\ MemoryInv /\ MemoryInv' /\ [Next]_vars
        => [\A c \in Calls :
              (\E p \in Pages : job[p][c] = "success") => answer'[c] # "RESULT_UNVERIFIED"]_vars
  <2> SUFFICES ASSUME IInv, MemoryInv, MemoryInv', Next, NEW d \in Calls, NEW q \in Pages,
                      job[q][d] = "success", answer'[d] = "RESULT_UNVERIFIED"
               PROVE  FALSE
    BY DEF vars
  <2>1. ASSUME NEW c \in Calls, CallerStep(c) \/ CallerThrows(c) \/ Tick(c)
        PROVE  FALSE
    <3>1. job' = job
      BY <2>1, CallerEffects DEF CallerEffect
    <3>2. Doubtful(d)'
      BY DEF Doubtful
    <3>3. QED
      BY <3>1, <3>2 DEF MemoryInv, DoubtIsTrue
  <2>2. answer' # answer
    BY DEF MemoryInv, DoubtIsTrue, Doubtful
  <2>3. ASSUME NEW p \in Pages, PollStep(p) \/ PageStep(p)
        PROVE  answer' = answer
    BY <2>3 DEF PollStep, PollStart, Take, TakeNothing, PageLeaves, Answer, Requeue, PollThrows,
                PageStep, LoseAnswer, Accept, Reload, Refuse, Start, Finish, GiveUp
  <2>4. ASSUME NEW h \in Posts, PostStep(h)
        PROVE  answer' = answer
    BY <2>4 DEF PostStep, PostResult, Unknown, Lookup, Verify, Resolve, PushOutcome, PostThrows
  <2>5. ASSUME NEW u \in Users, QueueExpires(u)
        PROVE  answer' = answer
    BY <2>5 DEF QueueExpires
  <2>6. QED
    BY <2>1, <2>2, <2>3, <2>4, <2>5 DEF Next
<1>2. QED
  BY InvariantHolds, MemoryHolds, <1>1, PTL DEF Spec, GenuineResultIsAccepted
=============================================================================
