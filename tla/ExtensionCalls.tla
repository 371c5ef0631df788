--------------------------- MODULE ExtensionCalls ---------------------------
(***************************************************************************)
(* The calls a page makes through the Writ extension (web/src/call.ts), in *)
(* one session (web/src/client.ts) and with the run tokens of one          *)
(* getRunToken function (web/src/run-token.ts).                            *)
(*                                                                         *)
(* The page asks the extension with writ_call and is answered with a call  *)
(* id; the events of every call of the page come on one channel, and may   *)
(* come before that answer.  Time is abstract: a guard timer that is armed *)
(* may fire, a held entry may turn old, a cached token may run out.        *)
(*                                                                         *)
(* The extension is external: it accepts or refuses a call, emits the      *)
(* events of a run it started in order, and may stop a run when writ_cancel*)
(* reaches it, refuse that, or never answer it.                            *)
(***************************************************************************)
EXTENDS FiniteSets, Filter

CONSTANTS Calls,          \* the calls the page makes, numbered in the order it makes them
          MaxHeld,        \* MAX_HELD_CALLS
          MaxHeldEvents,  \* MAX_HELD_EVENTS_PER_CALL
          MaxTokens,      \* bound: run tokens the page's backend mints
          MaxDisconnects, \* bound: disconnect() calls of the page
          NoToken

ASSUME CallsAssumption ==
  /\ IsFiniteSet(Calls) /\ Calls \subseteq Nat
  /\ MaxHeld \in Nat \ {0} /\ MaxHeldEvents \in Nat \ {0} /\ MaxTokens \in Nat
  /\ MaxDisconnects \in Nat
  /\ NoToken \notin Nat

VARIABLES call,      \* the WritCall objects
          router,    \* the CallRouter of the client
          session,   \* the WritSession: its calls in flight, the disconnect() calls begun,
                     \* and the calls each of them that has not asked yet found in flight
          cache,     \* the RunTokenCache
          ext,       \* what the extension did with each call
          channel,   \* events on their way to the page
          dropped,   \* history: calls of which a held event was dropped at a limit
          refused    \* history: run tokens Writ Cloud refused

vars == <<call, router, session, cache, ext, channel, dropped, refused>>

\* A call that is cancelled or times out has failed, with the code CANCELLED or TIMEOUT.
Final == {"finished", "failed"}
Terminal == {"finished", "error"}
EventTypes == Terminal \cup {"started"}
Tokens == 1..MaxTokens

Settled(c) == call[c].status \in Final
Live(c) == call[c].status \in {"pending", "running"}
Open == session.begun = 0

NotMade(c) == call[c].status = "none" /\ \A b \in Calls : b < c => call[b].status # "none"

NewCall == [status |-> "none", awaits |-> "none", id |-> FALSE, guard |-> FALSE,
            ack |-> "none", token |-> NoToken, seen |-> <<>>]

Init ==
  /\ call = [c \in Calls |-> NewCall]
  /\ router = [expecting |-> 0, attached |-> FALSE, routes |-> {}, held |-> <<>>]
  /\ session = [inFlight |-> {}, begun |-> 0, closing |-> {}]
  /\ cache = [token |-> NoToken, pending |-> FALSE, minted |-> 0]
  /\ ext = [c \in Calls |-> [run |-> "none", answer |-> "none", emitted |-> <<>>]]
  /\ channel = <<>>
  /\ dropped = {} /\ refused = {}

-----------------------------------------------------------------------------
(* CallRouter. *)

MaybeDetach(r) ==
  IF r.expecting = 0 /\ r.routes = {} THEN [r EXCEPT !.attached = FALSE, !.held = <<>>] ELSE r

Expect(r, n) == [r EXCEPT !.attached = @ \/ n > 0, !.expecting = @ + n]

UnexpectStaysAttached(r) == [r EXCEPT !.expecting = @ - 1]

Unexpect(r) == MaybeDetach([r EXCEPT !.expecting = IF @ = 0 THEN 0 ELSE @ - 1])

HeldOf(held, c) ==
  LET mine == {e \in ToSet(held) : e.id = c}
  IN  IF mine = {} THEN <<>> ELSE (CHOOSE e \in mine : TRUE).events

Without(held, S) == Keep(held, {e \in ToSet(held) : e.id \notin S})

Claim(r, c) == [r EXCEPT !.routes = @ \cup {c}, !.held = Without(@, {c})]

Release(r, S) == MaybeDetach([r EXCEPT !.routes = @ \ S, !.held = Without(@, S)])

\* An event that must be held.  The first `swept` entries are the ones found older
\* than HOLD_MS (entries are in the order they began); then the oldest make room.
Hold(r, e, swept) ==
  LET young == SubSeq(r.held, swept + 1, Len(r.held))
      kept == IF (\E i \in DOMAIN young : young[i].id = e.id) \/ Len(young) < MaxHeld THEN young
              ELSE SubSeq(young, Len(young) - MaxHeld + 2, Len(young))
      held == IF \E i \in DOMAIN kept : kept[i].id = e.id THEN kept
              ELSE Append(kept, [id |-> e.id, events |-> <<>>])
  IN  [r EXCEPT !.held = [i \in DOMAIN held |->
         IF held[i].id = e.id /\ Len(held[i].events) < MaxHeldEvents
         THEN [held[i] EXCEPT !.events = Append(@, e.type)] ELSE held[i]]]

-----------------------------------------------------------------------------
(* WritCall: how a call settles, and what its events do to it. *)

\* The guard timer outlives a settled call only while an answer is awaited.  The
\* token and what was heard are forgotten here once nothing depends on them.
End(k, status) == [k EXCEPT !.status = status, !.guard = @ /\ k.awaits = "id", !.token = NoToken,
                            !.seen = IF status = "finished" THEN @ ELSE <<>>]

SendCancel(k) == [k EXCEPT !.ack = IF @ = "none" THEN "sent" ELSE @]

StopAwaiting(k) == [k EXCEPT !.awaits = "none", !.guard = @ /\ k.status \notin Final]

ForgetNever(t) == cache

Forget(t) == IF cache.token = t THEN [cache EXCEPT !.token = NoToken] ELSE cache

\* A failure with NOT_GRANTED of a call that went out with a token of the cache.
Refuse(k, code) ==
  IF code = "NOT_GRANTED" /\ k.token # NoToken
  THEN /\ cache' = Forget(k.token)
       /\ refused' = refused \cup {k.token}
  ELSE UNCHANGED <<cache, refused>>

\* The record of a call after the events its route is given: the route goes
\* with the first terminal one.
AfterEvents(k, types) ==
  LET ends == {i \in DOMAIN types : types[i] \in Terminal}
      n == IF ends = {} THEN Len(types) ELSE CHOOSE i \in ends : \A j \in ends : i <= j
      heard == SubSeq(types, 1, n)
      known == [k EXCEPT !.seen = @ \o heard, !.status = IF n = 0 THEN @ ELSE "running"]
  IN  CASE ends = {} -> known
        [] ends # {} /\ types[n] = "finished" -> End(known, "finished")
        [] OTHER -> End(known, "failed")

\* The route of c, in the record k, is given events: it may settle the call.
Route(c, k, r, types, code) ==
  LET after == AfterEvents(k, types)
      over == after.status \in Final
  IN  /\ call' = [call EXCEPT ![c] = StopAwaiting(after)]
      /\ router' = IF k.awaits = "id"
                   THEN Unexpect(IF over THEN Release(r, {c}) ELSE r)
                   ELSE IF over THEN Release(r, {c}) ELSE r
      /\ session' = IF over THEN [session EXCEPT !.inFlight = @ \ {c}] ELSE session
      /\ IF after.status = "failed" THEN Refuse(k, code) ELSE UNCHANGED <<cache, refused>>

\* Settle locally, then stop the runs that may still be going.
Abandon(S, status) ==
  LET known == {c \in S : call[c].id}
  IN  /\ call' = [c \in Calls |->
                    IF c \notin S THEN call[c]
                    ELSE IF c \in known THEN SendCancel(End(call[c], status))
                    ELSE End(call[c], status)]
      /\ router' = IF known = {} THEN router ELSE Release(router, known)

-----------------------------------------------------------------------------
(* session.call(), cancel, abort, the run token and the guard. *)

\* writ_call of the calls S goes out, with the token t if they needed one.
SendCalls(S, t) ==
  /\ router' = Expect(router, Cardinality(S))
  /\ ext' = [c \in Calls |-> IF c \in S THEN [ext[c] EXCEPT !.run = "asked"] ELSE ext[c]]
  /\ call' = [c \in Calls |->
       IF c \in S
       THEN [call[c] EXCEPT !.status = "pending", !.awaits = "id", !.guard = TRUE, !.token = t]
       ELSE IF call[c].awaits = "token" /\ t # NoToken THEN [call[c] EXCEPT !.awaits = "none"]
       ELSE call[c]]

\* Invalid options, a session that was disconnected, or an aborted signal: it
\* fails and nothing is sent.
CallFails(c) ==
  /\ NotMade(c)
  /\ call' = [call EXCEPT ![c].status = "failed"]
  /\ UNCHANGED <<router, session, cache, ext, channel, dropped, refused>>

CallDirect(c) ==
  /\ NotMade(c) /\ Open
  /\ session' = [session EXCEPT !.inFlight = @ \cup {c}]
  /\ SendCalls({c}, NoToken)
  /\ UNCHANGED <<cache, channel, dropped, refused>>

Reusable == cache.token # NoToken

CallWithCachedToken(c) ==
  /\ NotMade(c) /\ Open
  /\ Reusable
  /\ session' = [session EXCEPT !.inFlight = @ \cup {c}]
  /\ SendCalls({c}, cache.token)
  /\ UNCHANGED <<cache, channel, dropped, refused>>

CallAsksUnguarded(c) ==
  /\ NotMade(c) /\ Open /\ ~Reusable
  /\ session' = [session EXCEPT !.inFlight = @ \cup {c}]
  /\ call' = [call EXCEPT ![c].status = "pending", ![c].awaits = "token"]
  /\ cache' = [cache EXCEPT !.pending = TRUE]
  /\ UNCHANGED <<router, ext, channel, dropped, refused>>

\* The guard covers the wait for the token; a request that is out is shared.
CallAsksForToken(c) ==
  /\ NotMade(c) /\ Open
  /\ ~Reusable
  /\ session' = [session EXCEPT !.inFlight = @ \cup {c}]
  /\ call' = [call EXCEPT ![c].status = "pending", ![c].awaits = "token", ![c].guard = TRUE]
  /\ cache' = [cache EXCEPT !.token = NoToken, !.pending = TRUE]
  /\ UNCHANGED <<router, ext, channel, dropped, refused>>

\* getRunToken() resolved: every call that waits and did not settle goes out.
\* A token with a minute or less left serves them but is not kept.
TokenArrives(kept) ==
  LET t == cache.minted + 1
  IN  /\ cache.pending /\ t \in Tokens
      /\ cache' = [token |-> IF kept THEN t ELSE cache.token,
                   pending |-> FALSE, minted |-> t]
      /\ SendCalls({c \in Calls : call[c].awaits = "token" /\ ~Settled(c)}, t)
      /\ UNCHANGED <<session, channel, dropped, refused>>

TokenFails ==
  LET waiting == {c \in Calls : call[c].awaits = "token"}
  IN  /\ cache.pending
      /\ cache' = [cache EXCEPT !.pending = FALSE]
      /\ call' = [c \in Calls |->
           IF c \notin waiting THEN call[c]
           ELSE LET k == [call[c] EXCEPT !.awaits = "none"]
                IN  IF Settled(c) THEN k ELSE End(k, "failed")]
      /\ session' = [session EXCEPT !.inFlight = @ \ waiting]
      /\ UNCHANGED <<router, ext, channel, dropped, refused>>

TokenAges ==
  /\ Reusable
  /\ cache' = [cache EXCEPT !.token = NoToken]
  /\ UNCHANGED <<call, router, session, ext, channel, dropped, refused>>

\* cancel(), or the call's signal.
Cancel(c) ==
  /\ Live(c)
  /\ Abandon({c}, "failed")
  /\ session' = [session EXCEPT !.inFlight = @ \ {c}]
  /\ UNCHANGED <<cache, ext, channel, dropped, refused>>

\* The guard gives up on the call, and on an answer that never came.
GuardTimeout(c) ==
  LET k == [call[c] EXCEPT !.guard = FALSE]
      over == IF Settled(c) THEN k ELSE End(k, "failed")
      told == IF Live(c) /\ k.id THEN SendCancel(over) ELSE over
      r == IF Live(c) /\ k.id THEN Release(router, {c}) ELSE router
  IN  /\ call[c].guard
      /\ call' = [call EXCEPT ![c] = IF k.awaits = "id" THEN StopAwaiting(told) ELSE told]
      /\ router' = IF k.awaits = "id" THEN Unexpect(r) ELSE r
      /\ session' = [session EXCEPT !.inFlight = @ \ {c}]
      /\ UNCHANGED <<cache, ext, channel, dropped, refused>>

-----------------------------------------------------------------------------
(* The answer to writ_call, and the events. *)

OnAnswerIgnoresLate(c) ==
  /\ ext[c].answer = "id"
  /\ ext' = [ext EXCEPT ![c].answer = "none"]
  /\ UNCHANGED <<channel, dropped>>
  /\ LET k == [call[c] EXCEPT !.id = TRUE]
     IN  \/ /\ call[c].awaits # "id"
            /\ UNCHANGED <<call, router, session, cache, refused>>
         \/ /\ call[c].awaits = "id" /\ Settled(c)
            /\ call' = [call EXCEPT ![c] = StopAwaiting(SendCancel(k))]
            /\ router' = Unexpect(router)
            /\ UNCHANGED <<session, cache, refused>>
         \/ /\ call[c].awaits = "id" /\ Live(c)
            /\ \E code \in {"NOT_GRANTED", "INTERNAL"} :
                 Route(c, k, Claim(router, c), HeldOf(router.held, c), code)

\* A late id is cancelled; so is the id of a call that settled meanwhile.  Else
\* the id is claimed, with what was held for it, and then no longer expected.
OnAnswer(c) ==
  /\ ext[c].answer = "id"
  /\ ext' = [ext EXCEPT ![c].answer = "none"]
  /\ UNCHANGED <<channel, dropped>>
  /\ LET k == [call[c] EXCEPT !.id = TRUE]
     IN  \/ /\ call[c].awaits # "id"
            /\ call' = [call EXCEPT ![c] = SendCancel(@)]
            /\ UNCHANGED <<router, session, cache, refused>>
         \/ /\ call[c].awaits = "id" /\ Settled(c)
            /\ call' = [call EXCEPT ![c] = StopAwaiting(SendCancel(k))]
            /\ router' = Unexpect(router)
            /\ UNCHANGED <<session, cache, refused>>
         \/ /\ call[c].awaits = "id" /\ Live(c)
            /\ \E code \in {"NOT_GRANTED", "INTERNAL"} :
                 Route(c, k, Claim(router, c), HeldOf(router.held, c), code)

\* writ_call was rejected, or answered without an id.
OnRequestError(c, code) ==
  /\ ext[c].answer = "error"
  /\ ext' = [ext EXCEPT ![c].answer = "none"]
  /\ UNCHANGED <<channel, dropped>>
  /\ LET k == StopAwaiting(call[c])
     IN  \/ /\ call[c].awaits # "id"
            /\ UNCHANGED <<call, router, session, cache, refused>>
         \/ /\ call[c].awaits = "id"
            /\ router' = Unexpect(router)
            /\ call' = [call EXCEPT ![c] = IF Settled(c) THEN k ELSE End(k, "failed")]
            /\ session' = [session EXCEPT !.inFlight = @ \ {c}]
            /\ IF Settled(c) THEN UNCHANGED <<cache, refused>> ELSE Refuse(k, code)

\* One event of the channel: to its route, held for a call that awaits its
\* answer, or dropped.
Dispatch ==
  LET e == Head(channel)
      Drops(next) == {c \in Calls :
        HeldOf(next.held, c) # HeldOf(router.held, c) \o (IF c = e.id THEN <<e.type>> ELSE <<>>)}
  IN  /\ channel # <<>>
      /\ channel' = Tail(channel)
      /\ UNCHANGED ext
      /\ \/ /\ router.attached /\ e.id \in router.routes
            /\ \E code \in {"NOT_GRANTED", "INTERNAL"} :
                 Route(e.id, call[e.id], router, <<e.type>>, code)
            /\ UNCHANGED dropped
         \/ /\ router.attached /\ e.id \notin router.routes /\ router.expecting > 0
            /\ \E swept \in 0..Len(router.held) : router' = Hold(router, e, swept)
            /\ dropped' = dropped \cup Drops(router')
            /\ UNCHANGED <<call, session, cache, refused>>
         \/ /\ ~router.attached \/ (e.id \notin router.routes /\ router.expecting = 0)
            /\ UNCHANGED <<call, router, session, cache, dropped, refused>>

-----------------------------------------------------------------------------
(* disconnect(): the calls in flight are cancelled, and writ_disconnect waits *)
(* for each acknowledgement.  One that begins while another waits finds no    *)
(* call in flight and waits for none.                                         *)

Disconnect ==
  /\ session.begun < MaxDisconnects
  /\ Abandon(session.inFlight, "failed")
  /\ session' = [inFlight |-> {}, begun |-> session.begun + 1,
                 closing |-> session.closing \cup {session.inFlight}]
  /\ UNCHANGED <<cache, ext, channel, dropped, refused>>

SendDisconnectAtOnce(S) ==
  /\ S \in session.closing
  /\ session' = [session EXCEPT !.closing = @ \ {S}]
  /\ UNCHANGED <<call, router, cache, ext, channel, dropped, refused>>

\* A late id is cancelled, too, but no disconnect() waits for that.
Acknowledged(c) == call[c].awaits # "id" /\ (call[c].id => call[c].ack # "sent")

SendDisconnect(S) ==
  /\ S \in session.closing
  /\ \A c \in S : Acknowledged(c)
  /\ session' = [session EXCEPT !.closing = @ \ {S}]
  /\ UNCHANGED <<call, router, cache, ext, channel, dropped, refused>>

-----------------------------------------------------------------------------
(* The extension. *)

Accept(c) ==
  /\ ext[c].run = "asked"
  /\ \/ ext' = [ext EXCEPT ![c].run = "running", ![c].answer = "id"]
     \/ ext' = [ext EXCEPT ![c].run = "over", ![c].answer = "error"]
  /\ UNCHANGED <<call, router, session, cache, channel, dropped, refused>>

Emits(c, type) ==
  /\ channel' = Append(channel, [id |-> c, type |-> type])
  /\ ext' = [ext EXCEPT ![c].emitted = Append(@, type),
                        ![c].run = IF type \in Terminal THEN "over" ELSE @]

Emit(c, type) ==
  /\ ext[c].run = "running"
  /\ (type = "started") <=> (ext[c].emitted = <<>>)
  /\ Emits(c, type)
  /\ UNCHANGED <<call, router, session, cache, dropped, refused>>

\* writ_cancel is answered, with the run stopped, or rejected, which is swallowed.
Stop(c) ==
  /\ call[c].ack = "sent"
  /\ call' = [call EXCEPT ![c].ack = "done"]
  /\ IF ext[c].run = "running" THEN Emits(c, "error") ELSE UNCHANGED <<ext, channel>>
  /\ UNCHANGED <<router, session, cache, dropped, refused>>

RefuseCancel(c) ==
  /\ call[c].ack = "sent" /\ ext[c].run = "running"
  /\ call' = [call EXCEPT ![c].ack = "refused"]
  /\ UNCHANGED <<router, session, cache, ext, channel, dropped, refused>>

-----------------------------------------------------------------------------

PageStep(c) == CallFails(c) \/ CallDirect(c) \/ CallWithCachedToken(c) \/ CallAsksForToken(c)
               \/ Cancel(c) \/ GuardTimeout(c) \/ OnAnswer(c)
               \/ \E code \in {"NOT_GRANTED", "INTERNAL"} : OnRequestError(c, code)

ExtStep(c) == Accept(c) \/ Stop(c) \/ RefuseCancel(c) \/ \E type \in EventTypes : Emit(c, type)

Next ==
  \/ \E c \in Calls : PageStep(c) \/ ExtStep(c)
  \/ \E kept \in BOOLEAN : TokenArrives(kept)
  \/ TokenFails \/ TokenAges \/ Dispatch \/ Disconnect
  \/ \E S \in session.closing : SendDisconnect(S)

\* Timers fire, and answers and events of the extension that are on their way
\* arrive.  Each of these is bounded in number, so that one of them happens while
\* one can makes all of them happen.  Nothing else is fair: the backend may never
\* mint a token, the extension may never answer, writ_cancel included.
Arrival(c) == GuardTimeout(c) \/ OnAnswer(c)
              \/ \E code \in {"NOT_GRANTED", "INTERNAL"} : OnRequestError(c, code)

Fairness == WF_vars((\E c \in Calls : Arrival(c)) \/ Dispatch
                     \/ \E S \in session.closing : SendDisconnect(S))

Spec == Init /\ [][Next]_vars /\ Fairness

-----------------------------------------------------------------------------
(* Properties. *)

TypeOK ==
  /\ call \in [Calls -> [status : {"none", "pending", "running"} \cup Final,
                         awaits : {"none", "token", "id"}, id : BOOLEAN, guard : BOOLEAN,
                         ack : {"none", "sent", "done", "refused"}, token : Tokens \cup {NoToken},
                         seen : Seq(EventTypes)]]
  /\ router.routes \subseteq Calls /\ router.expecting \in 0..Cardinality(Calls)
  /\ Len(router.held) <= MaxHeld
  /\ session.inFlight \subseteq Calls /\ session.begun \in 0..MaxDisconnects
  /\ session.closing \subseteq SUBSET Calls
  /\ cache.token \in Tokens \cup {NoToken}

ChannelOf(c) ==
  LET mine == Keep(channel, [id : {c}, type : EventTypes])
  IN  [i \in DOMAIN mine |-> mine[i].type]

\* "An event that arrives before the writ_call answer is held under its call id
\* and handed over when the call learns its id" (call.ts:4): what a live call
\* heard, what is held for it and what is on its way are the run's events in
\* their order, unless a limit dropped one; so is what a finished call heard.
EventsInOrder ==
  \A c \in Calls \ dropped :
    /\ Live(c) => call[c].seen \o HeldOf(router.held, c) \o ChannelOf(c) = ext[c].emitted
    /\ call[c].status = "finished" => call[c].seen = ext[c].emitted

\* The router's books (call.ts expect, claim, release; client.ts #inFlight): it
\* listens to the provider exactly while a call is pending or running, expects
\* as many answers as calls await one, routes exactly the calls that have their
\* id and are not over, and a call that can still change has its guard armed.
\* And every call hears its events in order.
CallsInv ==
  /\ TypeOK /\ EventsInOrder
  /\ router.expecting = Cardinality({c \in Calls : call[c].awaits = "id"})
  /\ router.attached <=> (router.expecting > 0 \/ router.routes # {})
  /\ router.routes = {c \in Calls : call[c].id /\ Live(c)}
  /\ session.inFlight = {c \in Calls : Live(c)}
  /\ \A c \in Calls : call[c].guard <=> (Live(c) \/ call[c].awaits = "id")

\* The run of a call that settled without hearing of its end is told to stop once
\* its id is known, however the call was given up and however late the id comes
\* (call.ts #onAnswer, #abandon).
OrphanRunsAreStopped ==
  \A c \in Calls : (ext[c].run = "running" /\ Settled(c))
                     ~> (ext[c].run = "over" \/ call[c].ack # "none")

\* A call ends though getRunToken or the extension never answers (call.ts
\* #onGuardTimeout; "the guard covers the wait").  disconnect() ends unless it
\* waits for ever for the answer to a writ_cancel, which nothing limits.
CallsEnd ==
  /\ \A c \in Calls : Live(c) ~> Settled(c)
  /\ (session.closing # {}) ~> (session.closing = {}
        \/ \E S \in session.closing : \E c \in S : call[c].id /\ call[c].ack = "sent")

\* A run token that was refused is not given to a call again, and a token is not
\* dropped for the refusal of an older one (run-token.ts refused).
RefusedTokenIsForgotten ==
  [][/\ \A c \in Calls : call'[c].token # call[c].token => call'[c].token \notin refused
     /\ (cache.token # NoToken /\ cache.token # cache'.token)
          => (cache.token \in refused' \/ TokenAges)]_vars

\* The writ_disconnect of a disconnect() goes out only when no run of a call that
\* it found in flight goes on unknown to the page: each was stopped, or the
\* extension refused to, or its answer was given up by the guard (client.ts
\* disconnect).
DisconnectComesLast ==
  [][\A S \in session.closing \ session'.closing : \A c \in S :
       call[c].id => ext[c].run = "over" \/ call[c].ack = "refused"]_vars
=============================================================================
