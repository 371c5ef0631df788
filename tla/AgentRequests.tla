---------------------------- MODULE AgentRequests ----------------------------
(***************************************************************************)
(* The transport of the TypeScript agent SDK: requests to the local daemon *)
(* (http.ts, discovery.ts) and to Writ Cloud (cloud.ts #send), with their  *)
(* retries (retry.ts).  Several requests are in flight at once; the        *)
(* network loses requests and answers; the timer of a local request, or    *)
(* its caller, may give it up at any moment.                               *)
(*                                                                         *)
(* The servers are external.  The daemon carries out every request that    *)
(* reaches it; Writ Cloud carries out a request of a key it knows once and *)
(* answers a repeat as it answered before.                                 *)
(***************************************************************************)
EXTENDS Naturals, FiniteSets, AgentVerbs

CONSTANTS Requests,     \* logical calls of the SDK's methods
          MaxAttempts,  \* RetryPolicy.maxAttempts
          TimerSeconds, \* DEFAULT_TIMEOUT_MS, which no operation lengthens
          BudgetSeconds \* how long the daemon blocks for a run it is asked to wait for

ASSUME MaxAttemptsAssumption == MaxAttempts \in Nat \ {0}
ASSUME RequestsAssumption == "none" \notin Requests
ASSUME TimersAssumption == TimerSeconds \in Nat \ {0} /\ BudgetSeconds \in Nat \ {0}

\* RETRYABLE_STATUSES, and others a server answers with.
Retryable == {408, 425, 429, 500, 502, 503, 504}

VARIABLES req,       \* each call: its request, where it is, how it ended
          wire,      \* the attempt of each call that is on the network
          conn,      \* HttpClient.#conn: none, pending or up
          probing,   \* discoveries that run
          hasKey,    \* an API key is configured
          device,    \* CloudApi.#deviceToken
          executed,  \* how often the servers carried out each call
          answered   \* the answers Writ Cloud remembers, by idempotency key

vars == <<req, wire, conn, probing, hasKey, device, executed, answered>>

NoRequest == [safe |-> TRUE, also |-> {}, lane |-> "none"]

Idle == [phase |-> "idle", request |-> NoRequest, tries |-> 0, key |-> "none", outcome |-> "none",
         token |-> FALSE]

Quiet == [at |-> "none", status |-> 0, key |-> "none", token |-> FALSE]

\* Explicit baseUrl and token short-circuit discovery.
Init ==
  /\ req = [r \in Requests |-> Idle]
  /\ wire = [r \in Requests |-> Quiet]
  /\ conn \in {"none", "up"}
  /\ probing = 0
  /\ hasKey \in BOOLEAN
  /\ device \in {"none", "stored"}
  /\ executed = [r \in Requests |-> 0]
  /\ answered = [k \in Requests |-> 0]

InFlight(r) == req[r].phase \in {"sent", "waiting"}
Done(r) == req[r].phase = "done"
IsLocal(q) == q.lane = "local"

-----------------------------------------------------------------------------
(* Sending. *)

\* One key for a logical unsafe call to the cloud, reused by its retries.
IdempotencyKey(r, q) == IF q.safe \/ IsLocal(q) THEN "none" ELSE r

\* Mutant: The retry policy is applied to every method.
AttemptsIgnoreMethod(q) == MaxAttempts

\* retryUnsafeMethods is forced off for the daemon, on for the cloud.
Attempts(q) == IF q.safe \/ ~IsLocal(q) THEN MaxAttempts ELSE 1

Attempt(k) == [k EXCEPT !.phase = "sent", !.tries = @ + 1]

OnWire(k) == [at |-> "out", status |-> 0, key |-> k.key, token |-> FALSE]

End(k, outcome) == [k EXCEPT !.phase = "done", !.outcome = outcome]

Called(r, q) == [Idle EXCEPT !.request = q, !.key = IdempotencyKey(r, q)]

\* requireKey throws before the network call, and so does save() that is given
\* nothing to save; quota() answers null with a key.
CallRefused(r, v) ==
  LET q == Request(v)
      refused == \/ q.lane = "metered" /\ ~hasKey
                 \/ v.verb = "quota" /\ hasKey
                 \/ v.verb = "save"
  IN  /\ req[r].phase = "idle" /\ refused
      /\ req' = [req EXCEPT ![r] = End(Called(r, q), "not_sent")]
      /\ UNCHANGED <<wire, conn, probing, hasKey, device, executed, answered>>

CallSent(r, v) ==
  LET q == Request(v)
  IN  /\ req[r].phase = "idle"
      /\ IF IsLocal(q) THEN conn = "up"
         ELSE (q.lane = "metered" => hasKey) /\ (v.verb = "quota" => ~hasKey)
      /\ req' = [req EXCEPT ![r] = Attempt(Called(r, q))]
      /\ wire' = [wire EXCEPT ![r] = OnWire(Called(r, q))]
      /\ UNCHANGED <<conn, probing, hasKey, device, executed, answered>>

\* The first request starts discovery; the others share it.
CallConnects(r, v) ==
  LET q == Request(v)
  IN  /\ req[r].phase = "idle" /\ IsLocal(q) /\ conn # "up"
      /\ req' = [req EXCEPT ![r] = [Called(r, q) EXCEPT !.phase = "connecting"]]
      /\ conn' = "pending"
      /\ probing' = IF conn = "none" THEN probing + 1 ELSE probing
      /\ UNCHANGED <<wire, hasKey, device, executed, answered>>

Connecting == {r \in Requests : req[r].phase = "connecting"}

\* A candidate of the descriptors answered its probe.
DaemonFound ==
  /\ probing > 0
  /\ probing' = probing - 1
  /\ conn' = "up"
  /\ req' = [r \in Requests |-> IF r \in Connecting THEN Attempt(req[r]) ELSE req[r]]
  /\ wire' = [r \in Requests |-> IF r \in Connecting THEN OnWire(req[r]) ELSE wire[r]]
  /\ UNCHANGED <<hasKey, device, executed, answered>>

\* Mutant: A failed discovery is kept.
KeepsFailedDiscovery ==
  /\ probing > 0
  /\ probing' = probing - 1
  /\ conn' = "pending"
  /\ req' = [r \in Requests |-> IF r \in Connecting THEN End(req[r], "discovery") ELSE req[r]]
  /\ UNCHANGED <<wire, hasKey, device, executed, answered>>

\* None did: those that wait fail, and a later request tries again.
NoDaemonFound ==
  /\ probing > 0
  /\ probing' = probing - 1
  /\ conn' = "none"
  /\ req' = [r \in Requests |-> IF r \in Connecting THEN End(req[r], "discovery") ELSE req[r]]
  /\ UNCHANGED <<wire, hasKey, device, executed, answered>>

-----------------------------------------------------------------------------
(* withRetry, and what the caller is told. *)

Outcome(q, status) ==
  CASE status = 200 -> "ok"
    [] status \in q.also -> IF status = 504 THEN "still_running" ELSE "ok"
    [] OTHER -> "error"

\* The device token of the answer is absorbed before the error check.
Absorb(q, w) == IF w.token /\ ~hasKey /\ ~IsLocal(q) THEN "issued" ELSE device

\* The last attempt, a status that is not transient, or a Retry-After that is
\* longer than the policy honours: the answer goes to the caller, unless its body
\* cannot be read, which is not retried.
AnswerEnds(r, patient, readable) ==
  LET k == req[r]
      w == wire[r]
      outcome == IF readable THEN Outcome(k.request, w.status) ELSE "connection"
  IN  /\ w.at = "back" /\ k.phase = "sent"
      /\ w.status \notin Retryable \/ k.tries >= Attempts(k.request) \/ ~patient
      /\ device' = Absorb(k.request, w)
      /\ req' = [req EXCEPT ![r] = [End(k, outcome) EXCEPT !.token = w.token]]
      /\ wire' = [wire EXCEPT ![r] = Quiet]
      /\ UNCHANGED <<conn, probing, hasKey, executed, answered>>

AnswerRetried(r) ==
  /\ wire[r].at = "back" /\ req[r].phase = "sent"
  /\ wire[r].status \in Retryable /\ req[r].tries < Attempts(req[r].request)
  /\ req' = [req EXCEPT ![r].phase = "waiting"]
  /\ wire' = [wire EXCEPT ![r] = Quiet]
  /\ UNCHANGED <<conn, probing, hasKey, device, executed, answered>>

\* The request or its answer was lost.
ConnectionLost(r) ==
  LET k == req[r]
  IN  /\ wire[r].at # "none" /\ k.phase = "sent"
      /\ req' = [req EXCEPT ![r] = IF k.tries >= Attempts(k.request) THEN End(k, "connection")
                                   ELSE [k EXCEPT !.phase = "waiting"]]
      /\ wire' = [wire EXCEPT ![r] = Quiet]
      /\ UNCHANGED <<conn, probing, hasKey, device, executed, answered>>

BackoffEnds(r) ==
  /\ req[r].phase = "waiting"
  /\ req' = [req EXCEPT ![r] = Attempt(@)]
  /\ wire' = [wire EXCEPT ![r] = OnWire(req[r])]
  /\ UNCHANGED <<conn, probing, hasKey, device, executed, answered>>

\* The timer of a local request covers all its attempts.  The request it gives
\* up may still reach the daemon.  While the daemon blocks the timer ends first
\* only if it is shorter than the budget.  Requests to the cloud have no timer.
TimesOut(r) ==
  /\ InFlight(r) /\ IsLocal(req[r].request)
  /\ wire[r].at = "blocked" => TimerSeconds < BudgetSeconds
  /\ req' = [req EXCEPT ![r] = End(@, "timeout")]
  /\ UNCHANGED <<wire, conn, probing, hasKey, device, executed, answered>>

-----------------------------------------------------------------------------
(* The servers. *)

\* Carried out, and answered or failed after it was.
Carried == {200, 500}

\* Not carried out: a conflict, a quota, a server that is down.
NotCarried == {409, 429, 503}

Answers(r, status, minted) ==
  wire' = [wire EXCEPT ![r] = [@ EXCEPT !.at = "back", !.status = status, !.token = minted]]

\* Writ Cloud mints a device token for a caller that has none yet.
Mints(r, minted) == minted => device = "none" /\ ~hasKey /\ ~IsLocal(req[r].request)

\* The daemon is asked to block until the run it starts is over.
Waits(r) == 504 \in req[r].request.also

CountOne(r) == [executed EXCEPT ![r] = IF @ = MaxAttempts THEN @ ELSE @ + 1]

Executes(r) ==
  /\ wire[r].at = "out" /\ ~Waits(r)
  /\ wire[r].key \in Requests => answered[wire[r].key] = 0
  /\ \E status \in Carried, minted \in BOOLEAN :
       /\ Mints(r, minted)
       /\ Answers(r, status, minted)
       /\ answered' = [k \in Requests |-> IF k = wire[r].key THEN status ELSE answered[k]]
  /\ executed' = CountOne(r)
  /\ UNCHANGED <<req, conn, probing, hasKey, device>>

StartsAndBlocks(r) ==
  /\ wire[r].at = "out" /\ Waits(r)
  /\ wire' = [wire EXCEPT ![r].at = "blocked"]
  /\ executed' = CountOne(r)
  /\ UNCHANGED <<req, conn, probing, hasKey, device, answered>>

\* The run is over (200), or the budget is (504).
Unblocks(r) ==
  /\ wire[r].at = "blocked"
  /\ \E status \in {200, 504} : Answers(r, status, FALSE)
  /\ UNCHANGED <<req, conn, probing, hasKey, device, executed, answered>>

Refuses(r) ==
  /\ wire[r].at = "out"
  /\ \E status \in NotCarried, minted \in BOOLEAN : Mints(r, minted) /\ Answers(r, status, minted)
  /\ UNCHANGED <<req, conn, probing, hasKey, device, executed, answered>>

Replays(r) ==
  /\ wire[r].at = "out" /\ wire[r].key \in Requests /\ answered[wire[r].key] # 0
  /\ Answers(r, answered[wire[r].key], FALSE)
  /\ UNCHANGED <<req, conn, probing, hasKey, device, executed, answered>>

-----------------------------------------------------------------------------

Probes == DaemonFound \/ NoDaemonFound

Call(r) == \E v \in Verbs : CallRefused(r, v) \/ CallSent(r, v) \/ CallConnects(r, v)

Hears(r) == \/ \E patient, readable \in BOOLEAN : AnswerEnds(r, patient, readable)
            \/ AnswerRetried(r) \/ ConnectionLost(r)

Next ==
  \/ \E r \in Requests : Call(r) \/ Hears(r) \/ BackoffEnds(r) \/ TimesOut(r)
                         \/ Executes(r) \/ StartsAndBlocks(r) \/ Unblocks(r) \/ Refuses(r) \/ Replays(r)
  \/ Probes

\* A probe has two seconds, a backoff and the timer of a local request end.  That
\* a server answers, or that a dead connection is noticed, is not fair.
Fairness ==
  /\ WF_vars(Probes)
  /\ \A r \in Requests : WF_vars(TimesOut(r))

Spec == Init /\ [][Next]_vars /\ Fairness

-----------------------------------------------------------------------------
(* Properties. *)

Outcomes == {"none", "ok", "error", "still_running", "timeout", "connection", "discovery", "not_sent"}

\* What an operation asks of the transport.
Sendable == {Request(v) : v \in Verbs}

CallRecords ==
  [phase : {"idle", "connecting", "sent", "waiting", "done"}, request : Sendable \cup {NoRequest},
   tries : 0..MaxAttempts, key : Requests \cup {"none"}, outcome : Outcomes, token : BOOLEAN]

Statuses == {0, 504} \cup Carried \cup NotCarried

WireRecords ==
  [at : {"none", "out", "blocked", "back"}, status : Statuses,
   key : Requests \cup {"none"}, token : BOOLEAN]

TypeOK ==
  /\ req \in [Requests -> CallRecords] /\ wire \in [Requests -> WireRecords]
  /\ conn \in {"none", "pending", "up"} /\ probing \in Nat
  /\ hasKey \in BOOLEAN /\ device \in {"none", "stored", "issued"}
  /\ executed \in [Requests -> 0..MaxAttempts]
  /\ answered \in [Requests -> {0} \cup Carried]

\* What a caller is told is true of its own call, though others are in flight
\* and attempts are repeated (http.ts, cloud.ts #send, retry.ts): a call that
\* returns was carried out by a server, or a server told that there is nothing to
\* do; one that was refused before it was sent was carried out by none.
OutcomeIsTrue ==
  \A r \in Requests : Done(r) =>
    /\ (req[r].outcome = "ok" /\ 409 \notin req[r].request.also) => executed[r] > 0
    /\ req[r].outcome = "still_running" => executed[r] > 0
    /\ req[r].outcome \in {"not_sent", "discovery"} => executed[r] = 0

\* One discovery runs at a time (http.ts connection, "single-flight"), and while
\* one runs every request that needs it waits for it.
DiscoveryIsShared ==
  /\ probing = IF conn = "pending" THEN 1 ELSE 0
  /\ Connecting # {} => conn = "pending"

\* A caller who was issued a device token is not anonymous again, whatever the
\* status of the answer that carried it (cloud.ts "Absorb BEFORE the error check").
DeviceTokenIsKept ==
  (\E r \in Requests : Done(r) /\ req[r].token) => device = "issued"

\* An unsafe operation is carried out at most once however its attempts are lost
\* and repeated: the daemon is not asked again, the cloud recognises the repeat
\* (retry.ts retryUnsafeMethods, newIdempotencyKey).
ExecutedAtMostOnce ==
  \A r \in Requests : (req[r].phase # "idle" /\ ~req[r].request.safe) => executed[r] <= 1

Unsafe(r) == req[r].phase # "idle" /\ ~req[r].request.safe

NotSent(r) == req[r].phase \in {"idle", "connecting"} \/ req[r].outcome \in {"not_sent", "discovery"}

\* A call that was not sent is nowhere; one that waits has attempts left.
PhaseFits(r) ==
  LET k == req[r]
  IN  /\ NotSent(r) => executed[r] = 0 /\ wire[r].at = "none"
      /\ k.phase # "idle" => k.request \in Sendable /\ k.key = IdempotencyKey(r, k.request)
      /\ k.phase = "connecting" => k.tries = 0
      /\ k.phase \in {"sent", "waiting"} => k.tries > 0
      /\ k.phase = "waiting" => k.tries < Attempts(k.request) /\ wire[r].at = "none"
      /\ k.phase # "done" => k.outcome = "none" /\ ~k.token

\* What is on the network is an attempt of the call, and its status is true.
WireFits(r) ==
  LET w == wire[r]
  IN  /\ w.at # "none" => w.key = req[r].key
      /\ w.at = "blocked" \/ (w.at = "back" /\ w.status \in {200, 504}) => executed[r] > 0
      /\ w.token => w.at = "back" /\ ~hasKey /\ ~IsLocal(req[r].request)

\* An unsafe request to the daemon was not carried out while it is on its way;
\* Writ Cloud remembers the key of what it carried out.
KeyFits(r) ==
  /\ Unsafe(r) /\ IsLocal(req[r].request) /\ wire[r].at = "out" => executed[r] = 0
  /\ Unsafe(r) /\ ~IsLocal(req[r].request) /\ executed[r] > 0 => answered[r] # 0
  /\ answered[r] # 0 => executed[r] > 0

\* What callers are told is true, nothing unsafe is done twice, discovery is shared
\* and the identity of the caller is kept, however attempts, answers and timers
\* interleave, because each call accounts for its attempts (http.ts, cloud.ts #send,
\* retry.ts).
RequestsInv ==
  /\ TypeOK /\ OutcomeIsTrue /\ ExecutedAtMostOnce /\ DiscoveryIsShared /\ DeviceTokenIsKept
  /\ \A r \in Requests : PhaseFits(r) /\ WireFits(r) /\ KeyFits(r)

\* A local request ends whatever the daemon does (http.ts #send: the timer covers
\* discovery's successor, every attempt and every wait between them).
RequestsEnd ==
  \A r \in Requests :
    (req[r].phase \in {"connecting", "sent", "waiting"} /\ req[r].request.lane = "local") ~> Done(r)

\* "With `wait: true` the daemon blocks until the run is terminal and you get a
\* RunCompleted back in the same request [...] only an expired budget rejects, as a
\* WritRunTimeoutError carrying the still-valid run_id" (client.ts:296): the SDK
\* does not give up a run that the daemon still waits for.
OnlyTheBudgetRejects ==
  [][\A r \in Requests :
       (wire[r].at = "blocked" /\ ~Done(r)) => req'[r].outcome # "timeout"]_vars
=============================================================================
