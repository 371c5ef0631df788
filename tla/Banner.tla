------------------------------- MODULE Banner -------------------------------
(***************************************************************************)
(* The banner that guides a visitor to a connected Writ (BannerController, *)
(* banner.ts): its checks, which run while the visitor clicks and the      *)
(* window gains focus, consent, and the notices about linked workflows     *)
(* after the session was handed over.                                      *)
(***************************************************************************)
EXTENDS Naturals, FiniteSets

CONSTANTS
  Dismissible, \* behavior.dismissible
  Headless,    \* behavior.headless
  Linked,      \* config.watchLinked
  Checks       \* bound: the checks that may be in flight at once

VARIABLES
  banner,  \* the fields of the controller
  check,   \* check[n]: an #evaluate whose #assess is awaited
  writ,    \* what a check would find: something missing, or Writ
  siteGrant  \* what the visitor's Writ grants: nothing, an older version
             \* of what is requested, or all of it

bannerVars == <<banner, check, writ, siteGrant>>

(* The kinds of #state.  "missing" stands for those a click checks again:  *)
(* no extension, desktop or engine, a locked vault, an error; "revoked" and*)
(* "unfetched" for an unavailable workflow, the second with a retry.       *)
Kinds == {"none", "missing", "connect", "declined", "revoked", "unfetched"}
Unavailable == {"revoked", "unfetched"}
Triggers == {"initial", "click", "focus"}
Found == {"none", "missing", "connect", "ready", "hidden"}

(* view: what #render made; overtaken is history: something the visitor or *)
(* a linked call decided came after the check began.                       *)
Banners == [state : Kinds, view : {"none", "idle", "busy"}, consenting : BOOLEAN, retrying : BOOLEAN,
            done : BOOLEAN, pendingTold : BOOLEAN, handedOver : BOOLEAN, stale : BOOLEAN,
            session : {"pending", "resolved", "rejected"}, told : Nat]

CheckRecords == [flies : BOOLEAN, trigger : Triggers, silent : BOOLEAN, current : BOOLEAN,
                 found : Found, overtaken : BOOLEAN]

BannerTypeOK ==
  /\ banner \in Banners
  /\ check \in [Checks -> CheckRecords]
  /\ writ \in {"missing", "ok"}
  /\ siteGrant \in {"none", "older", "all"}

Idle == [flies |-> FALSE, trigger |-> "initial", silent |-> FALSE, current |-> FALSE, found |-> "none", overtaken |-> FALSE]

(* start(): the first check; a banner that was dismissed earlier in this   *)
(* tab only looks for a session to resume.                                 *)
BannerInit ==
  /\ banner = [state |-> "none", view |-> "none", consenting |-> FALSE, retrying |-> FALSE, done |-> FALSE,
               pendingTold |-> FALSE, handedOver |-> FALSE, stale |-> FALSE, session |-> "pending", told |-> 0]
  /\ \E n \in Checks, silent \in {FALSE, Dismissible /\ ~Headless} :
       check = [m \in Checks |-> IF m = n THEN [Idle EXCEPT !.flies = TRUE, !.current = TRUE, !.silent = silent] ELSE Idle]
  /\ writ \in {"missing", "ok"}
  /\ siteGrant \in {"none", "older", "all"}

-----------------------------------------------------------------------------
(* Each operator is the banner after the method.                           *)

Flying == {n \in Checks : check[n].flies}

(* The buttons of a busy view are disabled. *)
Clickable(kinds) == banner.view = "idle" /\ banner.state \in kinds

(* #generation += 1: what is in flight is no longer looked at.             *)
Superseded == [n \in Checks |-> [check[n] EXCEPT !.current = FALSE]]
Overtaken == [n \in Checks |-> [check[n] EXCEPT !.current = FALSE, !.overtaken = check[n].flies]]

(* #render: nothing without a state, a page or a visitor. *)
Render(b, view) == IF b.state = "none" \/ b.done \/ Headless THEN b ELSE [b EXCEPT !.view = view]

HideBanner(b) == [b EXCEPT !.state = "none", !.view = "none", !.stale = FALSE]

Teardown(b) == [b EXCEPT !.done = TRUE, !.view = "none"]

Close(b) ==
  IF b.done THEN b ELSE [Teardown(b) EXCEPT !.session = IF @ = "pending" THEN "rejected" ELSE @]

(* Mutant: a banner that was closed hands over. *)
ReadyThoughDone(b) ==
  IF b.handedOver THEN HideBanner(b)
  ELSE LET h == [b EXCEPT !.handedOver = TRUE, !.session = "resolved", !.told = @ + 1]
       IN IF Linked /\ ~Headless THEN HideBanner(h) ELSE Teardown(h)

Ready(b) ==
  IF b.done THEN b
  ELSE IF b.handedOver THEN HideBanner(b)
  ELSE LET h == [b EXCEPT !.handedOver = TRUE, !.session = "resolved", !.told = @ + 1]
       IN IF Linked /\ ~Headless THEN HideBanner(h) ELSE Teardown(h)

Apply(b, found, trigger) ==
  CASE found = "ready" -> Ready(b)
    [] found = "hidden" -> Close(b)
    [] OTHER ->
         LET t == [b EXCEPT !.pendingTold = TRUE]
         IN IF trigger = "focus" /\ b.state = found THEN t
            ELSE Render([t EXCEPT !.state = found], "idle")

-----------------------------------------------------------------------------
(* Checks                                                                  *)

(* Mutant: focus starts one whenever the window gains it. *)
MayCheckAlways(trigger) == ~banner.done /\ ~banner.consenting
MayCheck(trigger) ==
  /\ ~banner.done /\ ~banner.consenting
  /\ trigger = "focus" => Flying = {} /\ banner.state \notin {"none"} \cup Unavailable

Evaluate(trigger) ==
  /\ MayCheck(trigger)
  /\ \E n \in Checks \ Flying :
       check' = [Superseded EXCEPT ![n] = [Idle EXCEPT !.flies = TRUE, !.trigger = trigger, !.current = TRUE]]
  /\ LET b == [banner EXCEPT !.retrying = FALSE]
     IN banner' = IF trigger = "click" THEN Render(b, "busy") ELSE b
  /\ UNCHANGED <<writ, siteGrant>>

Focus == Evaluate("focus")
CheckAgain == Clickable({"missing"}) /\ Evaluate("click")

(* #assess: the session there is, when it covers what is requested; else   *)
(* what is missing.  The answers to it may fail.                           *)
Finds(c) ==
  (IF writ = "ok" /\ siteGrant = "all" /\ ~banner.stale THEN {"ready"} ELSE {})
    \cup IF c.silent THEN {"hidden"} ELSE IF writ = "ok" THEN {"connect", "missing"} ELSE {"missing"}

Assessed(n) ==
  /\ n \in Flying /\ check[n].found = "none"
  /\ \E f \in Finds(check[n]) : check' = [check EXCEPT ![n].found = f]
  /\ UNCHANGED <<banner, writ, siteGrant>>

(* Mutant: what a superseded check found is shown all the same. *)
CheckEndsAnyway(n) ==
  /\ n \in Flying /\ check[n].found # "none"
  /\ check' = [check EXCEPT ![n] = Idle]
  /\ banner' = IF banner.done THEN banner ELSE Apply(banner, check[n].found, check[n].trigger)
  /\ UNCHANGED <<writ, siteGrant>>

CheckEnds(n) ==
  /\ n \in Flying /\ check[n].found # "none"
  /\ check' = [check EXCEPT ![n] = Idle]
  /\ banner' = IF banner.done \/ ~check[n].current THEN banner ELSE Apply(banner, check[n].found, check[n].trigger)
  /\ UNCHANGED <<writ, siteGrant>>

-----------------------------------------------------------------------------
(* Actions                                                                 *)


Connect ==
  /\ Clickable({"connect", "declined"} \cup IF banner.handedOver THEN {} ELSE {"unfetched"})
  /\ ~banner.consenting
  /\ banner' = Render([banner EXCEPT !.consenting = TRUE, !.retrying = FALSE], "busy")
  /\ check' = Overtaken
  /\ UNCHANGED <<writ, siteGrant>>

(* Writ grants it, whether or not the banner is still there. *)
Consented ==
  /\ banner.consenting
  /\ siteGrant' = "all"
  /\ banner' = Ready([banner EXCEPT !.consenting = FALSE])
  /\ UNCHANGED <<check, writ>>

(* Mutant: the page goes on waiting for consent. *)
ConsentFailsBusy ==
  /\ banner.consenting
  /\ banner' = IF banner.done THEN [banner EXCEPT !.consenting = FALSE]
               ELSE [banner EXCEPT !.consenting = FALSE, !.state = "declined"]
  /\ UNCHANGED <<check, writ, siteGrant>>

ConsentFails ==
  /\ banner.consenting
  /\ \E k \in {"declined", "missing", "revoked", "unfetched"} :
       LET b == [banner EXCEPT !.consenting = FALSE]
       IN banner' = IF b.done THEN b ELSE Render([b EXCEPT !.state = k], "idle")
  /\ UNCHANGED <<check, writ, siteGrant>>

Retry ==
  /\ Clickable({"unfetched"}) /\ banner.handedOver
  /\ banner' = Render([banner EXCEPT !.retrying = TRUE], "busy")
  /\ check' = Superseded
  /\ UNCHANGED <<writ, siteGrant>>

RetryEnds ==
  /\ banner.retrying
  /\ LET b == [banner EXCEPT !.retrying = FALSE]
     IN banner' = IF ~b.done /\ b.state \in Unavailable THEN HideBanner(b) ELSE b
  /\ UNCHANGED <<check, writ, siteGrant>>

(* Closing a notice after the hand-over only hides it. *)
Dismiss ==
  /\ Dismissible /\ banner.view # "none" /\ ~banner.done
  /\ banner' = IF banner.handedOver THEN HideBanner(banner) ELSE Close(banner)
  /\ UNCHANGED <<check, writ, siteGrant>>

(* A call to a linked workflow of the session handed over fails. *)
LinkedFailure ==
  /\ banner.handedOver /\ ~banner.done /\ ~banner.consenting
  /\ \E k \in {"connect"} \cup Unavailable :
       banner' = Render([banner EXCEPT !.state = k, !.stale = @ \/ k = "connect", !.retrying = FALSE], "idle")
  /\ check' = Overtaken
  /\ UNCHANGED <<writ, siteGrant>>

BannerDestroy ==
  /\ ~banner.done
  /\ banner' = Close(banner)
  /\ UNCHANGED <<check, writ, siteGrant>>

(* The visitor installs, starts, stops Writ, or changes the grant. *)
WorldChanges ==
  /\ writ' \in {"missing", "ok"} /\ siteGrant' \in {"none", "older", "all"}
  /\ <<writ, siteGrant>> # <<writ', siteGrant'>>
  /\ UNCHANGED <<banner, check>>

CheckStep == \E n \in Checks : Assessed(n) \/ CheckEnds(n)

BannerNext ==
  \/ CheckStep
  \/ Focus \/ CheckAgain \/ Connect \/ Consented \/ ConsentFails \/ Retry \/ RetryEnds
  \/ Dismiss \/ LinkedFailure \/ BannerDestroy
  \/ WorldChanges

BannerSpec == BannerInit /\ [][BannerNext]_bannerVars
(* The checks end: discovery and each request have a time limit. *)
FairBannerSpec == BannerSpec /\ \A n \in Checks : WF_bannerVars(Assessed(n) \/ CheckEnds(n))

-----------------------------------------------------------------------------
(* Properties                                                              *)

(* The bridge may count on its handle: one pending, one session or one end *)
(* (#tellPending, #ready, #close).                                         *)
Handle == INSTANCE BannerHandle WITH stage <-
  IF banner.session = "rejected" THEN "closed"
  ELSE IF banner.session = "resolved" THEN "handed"
  ELSE IF banner.consenting THEN "consent"
  ELSE IF banner.pendingTold THEN "shown" ELSE "looking"
KeepsHandle == Handle!Spec

(* The page hears of a session once, and the handle of that one or of the  *)
(* end (#handedOver, #done).                                               *)
SettledRight ==
  /\ banner.told = 1 <=> banner.session = "resolved"
  /\ banner.handedOver <=> banner.session = "resolved"
  /\ banner.done => banner.session # "pending" /\ banner.view = "none"

(* "Checking" and "waiting for your answer" do not stay: whatever shows    *)
(* them will end them (#render, #generation).                              *)
BusyHasReason ==
  banner.view = "busy" =>
    \/ banner.consenting \/ banner.retrying
    \/ \E n \in Flying : check[n].current /\ check[n].trigger = "click"

(* A check still in flight must not overwrite what consent or a linked call*)
(* decided (#connect, #onLinkedFailure).                                   *)
DecisionsStand ==
  [][\A n \in Checks :
       check[n].overtaken /\ check[n].flies /\ ~check'[n].flies => banner'.state = banner.state /\ banner'.view = banner.view]_bannerVars

(* A changed workflow is before the visitor until they act on it           *)
(* (#stale).                                                               *)
StaleIsShown == banner.stale => banner.state # "none"

(* The first check of a banner ends with the bridge told: its calls stop   *)
(* waiting for it (#tellPending).                                          *)
BannerTells == <>(banner.pendingTold \/ banner.session # "pending")

(* What the handle told so far: a session nobody can have is over, and the *)
(* visitor is asked only after the page heard of it.                       *)
ToldBefore ==
  /\ banner.session = "rejected" => banner.done
  /\ banner.session # "resolved" => banner.told = 0
  /\ banner.state # "none" \/ banner.consenting => banner.pendingTold \/ banner.session # "pending"

(* Consent and a retry take the place of the checks in flight; until they  *)
(* end, the view has no button but to dismiss it.                          *)
OneThingAtATime ==
  /\ \A n \in Checks : check[n].current => check[n].flies /\ ~check[n].overtaken
  /\ banner.consenting \/ banner.retrying => \A n \in Checks : ~check[n].current
  /\ banner.consenting => banner.view # "idle" /\ ~banner.retrying
  /\ banner.retrying /\ banner.view = "busy" => banner.state \in Unavailable
  /\ Headless => banner.view = "none"

(* One hand-over or one end; a changed workflow stays before the visitor;  *)
(* and no busy view is left without what would end it, because consent, a  *)
(* retry and checks take each other's place (#ready, #close, #hide, #stale,*)
(* #render, #generation).                                                  *)
BannerInv ==
  /\ BannerTypeOK /\ SettledRight /\ StaleIsShown /\ BusyHasReason
  /\ ToldBefore /\ OneThingAtATime
=============================================================================
