-------------------------- MODULE PagePartsProofs ---------------------------
(***************************************************************************)
(* The page's channel: for any commands and any bounds, ChannelInv and     *)
(* SilentOnceOver.  The first lemmas are about the methods of the channel, *)
(* as operators on the record ch; the invariant follows step by step.      *)
(*                                                                         *)
(* The banner: for any checks in flight, dismissible or not, in a page or  *)
(* without one, BannerInv and DecisionsStand, and that it keeps its        *)
(* handle's promise.                                                       *)
(***************************************************************************)
EXTENDS PageChannel, Banner, TLAPS

-----------------------------------------------------------------------------
(* The banner after each of its methods *)

(* What BannerInv says of the fields of the controller alone.              *)
Sound(b) ==
  /\ b \in Banners
  /\ b.told = 1 <=> b.session = "resolved"
  /\ b.handedOver <=> b.session = "resolved"
  /\ b.done => b.session # "pending" /\ b.view = "none"
  /\ b.stale => b.state # "none"
  /\ b.session = "rejected" => b.done
  /\ b.session # "resolved" => b.told = 0
  /\ b.state # "none" \/ b.consenting => b.pendingTold \/ b.session # "pending"
  /\ b.consenting => b.view # "idle" /\ ~b.retrying
  /\ b.retrying /\ b.view = "busy" => b.state \in Unavailable
  /\ Headless => b.view = "none"

LEMMA HideSound ==
  ASSUME NEW b, Sound(b)
  PROVE  LET h == HideBanner(b)
         IN  /\ Sound(h) /\ h.view = "none" /\ h.session = b.session /\ h.pendingTold = b.pendingTold
             /\ h.consenting = b.consenting /\ h.retrying = b.retrying
BY DEF Sound, HideBanner, Banners, Kinds

LEMMA CloseSound ==
  ASSUME NEW b, Sound(b)
  PROVE  LET c == Close(b)
         IN  /\ Sound(c) /\ c.view = "none" /\ c.done
             /\ c.session = IF b.session = "pending" THEN "rejected" ELSE b.session
             /\ c.consenting = b.consenting /\ c.retrying = b.retrying
BY DEF Sound, Close, Teardown, Banners, Kinds

LEMMA ReadySound ==
  ASSUME NEW b, Sound(b)
  PROVE  LET c == Ready(b)
         IN  /\ Sound(c) /\ c.view = "none"
             /\ c.session = IF b.session = "pending" THEN "resolved" ELSE b.session
             /\ c.consenting = b.consenting /\ c.retrying = b.retrying
<1>1. CASE b.done \/ b.handedOver
  BY <1>1, HideSound DEF Sound, Ready
<1>2. CASE ~b.done /\ ~b.handedOver
  <2> DEFINE n == b.told + 1
             h == [b EXCEPT !.handedOver = TRUE, !.session = "resolved", !.told = n]
  <2>1. b.told = 0 /\ b.session = "pending" /\ n \in Nat /\ n = 1
    BY <1>2 DEF Sound, Banners
  <2> HIDE DEF n
  <2>2. /\ h \in Banners /\ h.handedOver /\ h.session = "resolved" /\ h.told = n
        /\ h.state = b.state /\ h.view = b.view /\ h.stale = b.stale /\ h.done = b.done
        /\ h.consenting = b.consenting /\ h.retrying = b.retrying /\ h.pendingTold = b.pendingTold
    BY <2>1 DEF Sound, Banners
  <2> HIDE DEF h
  <2>3. Sound(h)
    BY <1>2, <2>1, <2>2 DEF Sound
  <2>4. /\ Sound(Teardown(h)) /\ Teardown(h).view = "none" /\ Teardown(h).session = "resolved"
        /\ Teardown(h).consenting = b.consenting /\ Teardown(h).retrying = b.retrying
    BY <2>2, <2>3 DEF Sound, Teardown, Banners
  <2>5. Ready(b) = IF Linked /\ ~Headless THEN HideBanner(h) ELSE Teardown(h)
    BY <1>2 DEF Ready, h, n
  <2>6. QED
    BY <2>1, <2>2, <2>3, <2>4, <2>5, HideSound
<1>3. QED
  BY <1>1, <1>2

(* A view with buttons. *)
LEMMA IdleSound ==
  ASSUME NEW b, Sound(b), ~b.consenting, ~b.done
  PROVE  LET s == Render(b, "idle")
         IN  /\ Sound(s) /\ (b.state # "none" => s.view # "busy") /\ s.session = b.session
             /\ s.pendingTold = b.pendingTold /\ s.state = b.state
             /\ s.consenting = b.consenting /\ s.retrying = b.retrying
<1>1. CASE Headless \/ b.state = "none"
  BY <1>1 DEF Render, Sound, Banners
<1>2. CASE ~Headless /\ b.state # "none"
  <2> DEFINE s == [b EXCEPT !.view = "idle"]
  <2>1. Render(b, "idle") = s
    BY <1>2 DEF Render
  <2>2. "idle" \in {"none", "idle", "busy"} /\ b \in Banners
    BY DEF Sound
  <2>3. /\ s \in Banners /\ s.state = b.state /\ s.view = "idle" /\ s.stale = b.stale /\ s.done = b.done
        /\ s.handedOver = b.handedOver /\ s.session = b.session /\ s.told = b.told
        /\ s.consenting = b.consenting /\ s.retrying = b.retrying /\ s.pendingTold = b.pendingTold
    BY <2>2 DEF Banners
  <2> HIDE DEF s
  <2>4. Sound(s)
    BY <1>2, <2>3 DEF Sound
  <2>5. QED
    BY <2>1, <2>3, <2>4
<1>3. QED
  BY <1>1, <1>2

(* What is shown to the visitor: something missing, or a linked workflow.  *)
LEMMA ShowSound ==
  ASSUME NEW b, Sound(b), NEW k \in Kinds, k # "none", ~b.consenting, ~b.done,
         b.retrying => b.view # "busy",
         b.pendingTold \/ b.session # "pending"
  PROVE  LET s == Render([b EXCEPT !.state = k], "idle")
         IN  /\ Sound(s) /\ s.view # "busy" /\ s.session = b.session
             /\ s.pendingTold = b.pendingTold
             /\ s.consenting = b.consenting /\ s.retrying = b.retrying
<1> DEFINE n == [b EXCEPT !.state = k]
<1>1. /\ n \in Banners /\ n.state = k /\ n.view = b.view /\ n.stale = b.stale /\ n.done = b.done
      /\ n.handedOver = b.handedOver /\ n.session = b.session /\ n.told = b.told
      /\ n.consenting = b.consenting /\ n.retrying = b.retrying /\ n.pendingTold = b.pendingTold
  BY DEF Sound, Banners
<1> HIDE DEF n
<1>2. Sound(n)
  BY <1>1 DEF Sound
<1>3. LET s == Render(n, "idle")
      IN  /\ Sound(s) /\ s.view # "busy" /\ s.session = n.session /\ s.pendingTold = n.pendingTold
          /\ s.consenting = n.consenting /\ s.retrying = n.retrying
  BY <1>1, <1>2, IdleSound
<1>4. QED
  BY <1>1, <1>3 DEF n

LEMMA TellSound ==
  ASSUME NEW b, Sound(b)
  PROVE  LET t == [b EXCEPT !.pendingTold = TRUE]
         IN  /\ Sound(t) /\ t.pendingTold /\ t.view = b.view /\ t.session = b.session /\ t.state = b.state
             /\ t.done = b.done /\ t.consenting = b.consenting /\ t.retrying = b.retrying
BY DEF Sound, Banners

LEMMA ConsentOverSound ==
  ASSUME NEW b, Sound(b)
  PROVE  LET t == [b EXCEPT !.consenting = FALSE]
         IN  /\ Sound(t) /\ ~t.consenting /\ t.view = b.view /\ t.session = b.session /\ t.state = b.state
             /\ t.done = b.done /\ t.pendingTold = b.pendingTold /\ t.retrying = b.retrying
BY DEF Sound, Banners

LEMMA RetryOverSound ==
  ASSUME NEW b, Sound(b)
  PROVE  LET t == [b EXCEPT !.retrying = FALSE]
         IN  /\ Sound(t) /\ ~t.retrying /\ t.view = b.view /\ t.session = b.session /\ t.state = b.state
             /\ t.done = b.done /\ t.pendingTold = b.pendingTold /\ t.consenting = b.consenting
BY DEF Sound, Banners

(* The view of what a click started.                                       *)
LEMMA BusySound ==
  ASSUME NEW b, Sound(b), b.retrying => b.state \in Unavailable
  PROVE  LET t == Render(b, "busy")
         IN  /\ Sound(t) /\ t.session = b.session /\ t.state = b.state /\ t.done = b.done
             /\ t.pendingTold = b.pendingTold /\ t.consenting = b.consenting /\ t.retrying = b.retrying
BY DEF Sound, Render, Banners

-----------------------------------------------------------------------------
(* The checks in flight *)

ChecksFit(b, c) ==
  /\ c \in [Checks -> CheckRecords]
  /\ \A n \in Checks : c[n].current => c[n].flies /\ ~c[n].overtaken
  /\ b.consenting \/ b.retrying => \A n \in Checks : ~c[n].current
  /\ b.view = "busy" =>
       \/ b.consenting \/ b.retrying
       \/ \E n \in Checks : c[n].flies /\ c[n].current /\ c[n].trigger = "click"

LEMMA InvParts ==
  /\ BannerInv <=> /\ Sound(banner) /\ ChecksFit(banner, check)
                   /\ writ \in {"missing", "ok"} /\ siteGrant \in {"none", "older", "all"}
  /\ BannerInv' <=> /\ Sound(banner') /\ ChecksFit(banner', check')
                    /\ writ' \in {"missing", "ok"} /\ siteGrant' \in {"none", "older", "all"}
BY DEF BannerInv, BannerTypeOK, SettledRight, StaleIsShown, BusyHasReason, ToldBefore, OneThingAtATime,
       Sound, ChecksFit, Flying

LEMMA NoneCurrent ==
  ASSUME check \in [Checks -> CheckRecords], NEW s \in {Superseded, Overtaken}
  PROVE  s \in [Checks -> CheckRecords] /\ \A n \in Checks : ~s[n].current
<1>1. \A c \in CheckRecords : LET r == [c EXCEPT !.current = FALSE]
                             IN  r \in CheckRecords /\ ~r.current
  BY DEF CheckRecords
<1>2. \A c \in CheckRecords : LET r == [c EXCEPT !.current = FALSE, !.overtaken = c.flies]
                             IN  r \in CheckRecords /\ ~r.current
  BY DEF CheckRecords
<1>3. CASE s = Superseded
  BY <1>1, <1>3 DEF Superseded
<1>4. CASE s = Overtaken
  BY <1>2, <1>4 DEF Overtaken
<1>5. QED
  BY <1>3, <1>4

LEMMA InitBanner == BannerInit => BannerInv
<1> SUFFICES ASSUME BannerInit PROVE BannerInv
  OBVIOUS
<1> DEFINE zero == 0
           B(z) == [state |-> "none", view |-> "none", consenting |-> FALSE, retrying |-> FALSE, done |-> FALSE,
                    pendingTold |-> FALSE, handedOver |-> FALSE, stale |-> FALSE, session |-> "pending", told |-> z]
<1>1. \A z \in Nat : B(z) \in Banners /\ (z # 1 /\ z = zero => Sound(B(z))) /\ B(z).view = "none"
                    /\ ~B(z).consenting /\ ~B(z).retrying
  BY DEF Banners, Kinds, Sound
<1>2. banner = B(zero) /\ zero \in Nat /\ zero # 1
  BY DEF BannerInit
<1> HIDE DEF B, zero
<1>3. Sound(banner) /\ banner.view = "none" /\ ~banner.consenting /\ ~banner.retrying
  BY <1>1, <1>2
<1>4. PICK n \in Checks, silent \in {FALSE, Dismissible /\ ~Headless} :
        check = [m \in Checks |-> IF m = n THEN [Idle EXCEPT !.flies = TRUE, !.current = TRUE, !.silent = silent]
                                  ELSE Idle]
  BY DEF BannerInit
<1>5. /\ Idle \in CheckRecords /\ ~Idle.current
      /\ LET i == [Idle EXCEPT !.flies = TRUE, !.current = TRUE, !.silent = silent]
         IN  i \in CheckRecords /\ i.flies /\ ~i.overtaken
  BY DEF Idle, CheckRecords, Triggers, Found
<1>6. ChecksFit(banner, check)
  BY <1>3, <1>4, <1>5 DEF ChecksFit
<1>7. QED
  BY <1>3, <1>6, InvParts DEF BannerInit

LEMMA EvaluateStep ==
  ASSUME BannerInv, NEW trigger \in {"click", "focus"}, Evaluate(trigger)
  PROVE  BannerInv'
<1>0. /\ Sound(banner) /\ ChecksFit(banner, check)
      /\ writ' \in {"missing", "ok"} /\ siteGrant' \in {"none", "older", "all"}
  BY InvParts DEF Evaluate
<1>1. PICK n \in Checks \ Flying :
        check' = [Superseded EXCEPT ![n] = [Idle EXCEPT !.flies = TRUE, !.trigger = trigger, !.current = TRUE]]
  BY DEF Evaluate
<1> DEFINE b == [banner EXCEPT !.retrying = FALSE]
           i == [Idle EXCEPT !.flies = TRUE, !.trigger = trigger, !.current = TRUE]
<1>2. /\ Sound(b) /\ ~b.retrying /\ b.view = banner.view /\ b.state = banner.state
      /\ b.consenting = banner.consenting /\ b.done = banner.done
  BY <1>0, RetryOverSound
<1>3. ~banner.done /\ ~banner.consenting
      /\ (trigger = "focus" => Flying = {} /\ banner.state \notin Unavailable)
      /\ banner' = IF trigger = "click" THEN Render(b, "busy") ELSE b
  BY DEF Evaluate, MayCheck
<1>4. i \in CheckRecords /\ i.flies /\ i.trigger = trigger /\ i.current /\ ~i.overtaken
  BY DEF Idle, CheckRecords, Triggers, Found
<1>5. Superseded \in [Checks -> CheckRecords] /\ \A m \in Checks : ~Superseded[m].current
  BY <1>0, NoneCurrent DEF ChecksFit
<1> HIDE DEF b, i
<1>6. /\ check' \in [Checks -> CheckRecords] /\ check'[n] = i
      /\ \A m \in Checks : check'[m].current => m = n
  BY <1>1, <1>4, <1>5 DEF i
<1>7. Sound(banner') /\ ~banner'.consenting /\ ~banner'.retrying
  BY <1>2, <1>3, BusySound
<1>8. banner'.view = "busy" => trigger = "click"
  <2>1. CASE trigger = "focus"
    BY <1>0, <1>2, <1>3, <2>1 DEF ChecksFit, Sound, Flying
  <2>2. QED
    BY <2>1
<1>9. ChecksFit(banner', check')
  BY <1>4, <1>6, <1>7, <1>8 DEF ChecksFit
<1>10. QED
  BY <1>0, <1>7, <1>9, InvParts

LEMMA AssessedStep ==
  ASSUME BannerInv, NEW n \in Checks, Assessed(n)
  PROVE  BannerInv'
<1>0. Sound(banner) /\ ChecksFit(banner, check)
  BY InvParts
<1>1. PICK f \in Finds(check[n]) : check' = [check EXCEPT ![n] = [check[n] EXCEPT !.found = f]]
  BY DEF Assessed
<1>2. f \in Found
  BY <1>1 DEF Finds, Found
<1>3. check[n] \in CheckRecords
  BY <1>0 DEF ChecksFit
<1>4. LET c == [check[n] EXCEPT !.found = f]
      IN  /\ c \in CheckRecords /\ c.flies = check[n].flies /\ c.current = check[n].current
          /\ c.overtaken = check[n].overtaken /\ c.trigger = check[n].trigger
  BY <1>2, <1>3 DEF CheckRecords
<1>5. /\ check' \in [Checks -> CheckRecords]
      /\ \A m \in Checks : /\ check'[m].flies = check[m].flies /\ check'[m].current = check[m].current
                            /\ check'[m].overtaken = check[m].overtaken
                            /\ check'[m].trigger = check[m].trigger
  BY <1>0, <1>1, <1>4 DEF ChecksFit
<1>6. ChecksFit(banner, check')
  BY <1>0, <1>5 DEF ChecksFit
<1>7. QED
  BY <1>0, <1>6, InvParts DEF Assessed

(* What a check that is still current found is applied.                    *)
LEMMA ApplySound ==
  ASSUME NEW b, Sound(b), ~b.consenting, ~b.retrying, ~b.done,
         NEW found \in Found \ {"none"}, NEW trigger \in Triggers
  PROVE  LET a == Apply(b, found, trigger)
         IN  /\ Sound(a) /\ ~a.consenting /\ ~a.retrying
             /\ a.view = "busy" => b.view = "busy" /\ trigger = "focus"
             /\ a.session = IF b.session # "pending" THEN b.session
                            ELSE IF found = "ready" THEN "resolved"
                            ELSE IF found = "hidden" THEN "rejected" ELSE "pending"
             /\ found \notin {"ready", "hidden"} => a.pendingTold
             /\ a.pendingTold => b.pendingTold \/ found \notin {"ready", "hidden"} \/ a.session # "pending"
<1>1. CASE found = "ready"
  BY <1>1, ReadySound DEF Apply, Sound, Banners
<1>2. CASE found = "hidden"
  BY <1>2, CloseSound DEF Apply, Sound, Banners
<1>3. CASE found \notin {"ready", "hidden"}
  <2> DEFINE t == [b EXCEPT !.pendingTold = TRUE]
  <2>1. /\ Sound(t) /\ t.pendingTold /\ t.view = b.view /\ t.session = b.session /\ t.state = b.state
        /\ t.done = b.done /\ t.consenting = b.consenting /\ t.retrying = b.retrying
    BY TellSound
  <2>2. Apply(b, found, trigger) = IF trigger = "focus" /\ b.state = found THEN t
                                   ELSE Render([t EXCEPT !.state = found], "idle")
    BY <1>3 DEF Apply
  <2>3. found \in Kinds /\ found # "none"
    BY <1>3 DEF Found, Kinds
  <2> HIDE DEF t
  <2>4. CASE trigger = "focus" /\ b.state = found
    BY <1>3, <2>1, <2>2, <2>4
  <2>5. CASE ~(trigger = "focus" /\ b.state = found)
    <3>1. LET s == Render([t EXCEPT !.state = found], "idle")
          IN  /\ Sound(s) /\ s.view # "busy" /\ s.session = t.session
              /\ s.pendingTold = t.pendingTold
              /\ s.consenting = t.consenting /\ s.retrying = t.retrying
      BY <2>1, <2>3, ShowSound
    <3>2. QED
      BY <1>3, <2>1, <2>2, <2>5, <3>1
  <2>6. QED
    BY <2>4, <2>5
<1>4. QED
  BY <1>1, <1>2, <1>3

LEMMA CheckEndsStep ==
  ASSUME BannerInv, NEW n \in Checks, CheckEnds(n)
  PROVE  BannerInv'
<1>0. Sound(banner) /\ ChecksFit(banner, check)
  BY InvParts
<1>1. /\ check[n].flies /\ check[n].found # "none" /\ check' = [check EXCEPT ![n] = Idle]
      /\ check[n].found \in Found /\ check[n].trigger \in Triggers
  BY <1>0 DEF CheckEnds, Flying, ChecksFit, CheckRecords
<1>2. Idle \in CheckRecords /\ ~Idle.current
  BY DEF Idle, CheckRecords, Triggers, Found
<1>3. /\ check' \in [Checks -> CheckRecords] /\ ~check'[n].current
      /\ \A m \in Checks : m # n => check'[m] = check[m]
  BY <1>0, <1>1, <1>2 DEF ChecksFit
<1>4. CASE banner.done \/ ~check[n].current
  <2>1. banner' = banner
    BY <1>4 DEF CheckEnds
  <2>2. ChecksFit(banner, check')
    BY <1>0, <1>3, <1>4 DEF ChecksFit, Sound
  <2>3. QED
    BY <1>0, <2>1, <2>2, InvParts DEF CheckEnds
<1>5. CASE ~banner.done /\ check[n].current
  <2>1. banner' = Apply(banner, check[n].found, check[n].trigger)
    BY <1>5 DEF CheckEnds
  <2>2. ~banner.consenting /\ ~banner.retrying
    BY <1>0, <1>5 DEF ChecksFit
  <2>3. /\ Sound(banner') /\ ~banner'.consenting /\ ~banner'.retrying
        /\ banner'.view = "busy" => banner.view = "busy" /\ check[n].trigger = "focus"
    BY <1>0, <1>1, <1>5, <2>1, <2>2, ApplySound
  <2>4. ChecksFit(banner', check')
    BY <1>0, <1>3, <2>2, <2>3 DEF ChecksFit
  <2>5. QED
    BY <2>3, <2>4, InvParts DEF CheckEnds
<1>6. QED
  BY <1>4, <1>5

LEMMA ConnectStep ==
  ASSUME BannerInv, Connect
  PROVE  BannerInv'
<1>0. Sound(banner) /\ ChecksFit(banner, check)
  BY InvParts
<1> DEFINE n == [banner EXCEPT !.consenting = TRUE, !.retrying = FALSE]
<1>1. /\ banner.view = "idle" /\ banner.state # "none" /\ check' = Overtaken /\ UNCHANGED <<writ, siteGrant>>
      /\ banner' = Render(n, "busy")
  BY DEF Connect, Clickable
<1>2. ~banner.done /\ ~Headless
  BY <1>0, <1>1 DEF Sound
<1>3. /\ n \in Banners /\ n.state = banner.state /\ n.view = "idle" /\ n.stale = banner.stale
      /\ n.done = banner.done /\ n.handedOver = banner.handedOver /\ n.session = banner.session
      /\ n.told = banner.told /\ n.consenting /\ ~n.retrying /\ n.pendingTold = banner.pendingTold
  BY <1>0, <1>1 DEF Sound, Banners
<1> HIDE DEF n
<1>4. banner' = [n EXCEPT !.view = "busy"]
  BY <1>1, <1>2, <1>3 DEF Render
<1>5. /\ banner' \in Banners /\ banner'.state = n.state /\ banner'.view = "busy" /\ banner'.stale = n.stale
      /\ banner'.done = n.done /\ banner'.handedOver = n.handedOver /\ banner'.session = n.session
      /\ banner'.told = n.told /\ banner'.consenting /\ ~banner'.retrying
      /\ banner'.pendingTold = n.pendingTold
  BY <1>3, <1>4 DEF Banners
<1>6. Sound(banner')
  BY <1>0, <1>1, <1>2, <1>3, <1>5 DEF Sound
<1>7. check' \in [Checks -> CheckRecords] /\ \A m \in Checks : ~check'[m].current
  BY <1>0, <1>1, NoneCurrent DEF ChecksFit
<1>8. ChecksFit(banner', check')
  BY <1>5, <1>7 DEF ChecksFit
<1>9. QED
  BY <1>1, <1>6, <1>8, InvParts

LEMMA ConsentStep ==
  ASSUME BannerInv, Consented \/ ConsentFails
  PROVE  BannerInv'
<1>0. Sound(banner) /\ ChecksFit(banner, check)
  BY InvParts
<1> DEFINE b == [banner EXCEPT !.consenting = FALSE]
<1>1. banner.consenting /\ check' = check
  BY DEF Consented, ConsentFails
<1>2. /\ Sound(b) /\ ~b.consenting /\ b.view = banner.view /\ b.session = banner.session
      /\ b.state = banner.state /\ b.done = banner.done /\ b.pendingTold = banner.pendingTold
      /\ b.retrying = banner.retrying
  BY <1>0, ConsentOverSound
<1>3. /\ ~banner.retrying /\ (banner.pendingTold \/ banner.session # "pending")
      /\ \A n \in Checks : ~check[n].current
  BY <1>0, <1>1 DEF Sound, ChecksFit
<1>4. Sound(banner') /\ banner'.view # "busy" /\ ~banner'.consenting /\ ~banner'.retrying
  <2>1. CASE Consented
    <3>1. banner' = Ready(b)
      BY <2>1 DEF Consented
    <3> HIDE DEF b
    <3>2. QED
      BY <1>2, <1>3, <3>1, ReadySound
  <2>2. CASE ConsentFails
    <3>1. PICK k \in {"declined", "missing", "revoked", "unfetched"} :
            banner' = IF b.done THEN b ELSE Render([b EXCEPT !.state = k], "idle")
      BY <2>2 DEF ConsentFails
    <3>2. k \in Kinds /\ k # "none"
      BY DEF Kinds
    <3> HIDE DEF b
    <3>3. CASE b.done
      BY <1>2, <1>3, <3>1, <3>3 DEF Sound
    <3>4. CASE ~b.done
      <4>1. b.retrying => b.view # "busy"
        BY <1>2, <1>3
      <4>2. b.pendingTold \/ b.session # "pending"
        BY <1>2, <1>3
      <4>3. QED
        BY <1>2, <1>3, <3>1, <3>2, <3>4, <4>1, <4>2, ShowSound
    <3>5. QED
      BY <3>3, <3>4
  <2>3. QED
    BY <2>1, <2>2
<1>5. ChecksFit(banner', check')
  BY <1>0, <1>1, <1>4 DEF ChecksFit
<1>6. writ' \in {"missing", "ok"} /\ siteGrant' \in {"none", "older", "all"}
  BY InvParts DEF Consented, ConsentFails
<1>7. QED
  BY <1>4, <1>5, <1>6, InvParts

LEMMA RetryStep ==
  ASSUME BannerInv, Retry
  PROVE  BannerInv'
<1>0. Sound(banner) /\ ChecksFit(banner, check)
  BY InvParts
<1> DEFINE n == [banner EXCEPT !.retrying = TRUE]
<1>1. /\ banner.view = "idle" /\ banner.state = "unfetched" /\ check' = Superseded
      /\ UNCHANGED <<writ, siteGrant>> /\ banner' = Render(n, "busy")
  BY DEF Retry, Clickable
<1>2. /\ n \in Banners /\ n.state = banner.state /\ n.view = banner.view /\ n.stale = banner.stale
      /\ n.done = banner.done /\ n.handedOver = banner.handedOver /\ n.session = banner.session
      /\ n.told = banner.told /\ n.consenting = banner.consenting /\ n.retrying
      /\ n.pendingTold = banner.pendingTold
  BY <1>0 DEF Sound, Banners
<1> HIDE DEF n
<1>3. Sound(n)
  BY <1>0, <1>1, <1>2 DEF Sound
<1>4. Sound(banner') /\ banner'.retrying
  BY <1>1, <1>2, <1>3, BusySound DEF Unavailable
<1>5. check' \in [Checks -> CheckRecords] /\ \A m \in Checks : ~check'[m].current
  BY <1>0, <1>1, NoneCurrent DEF ChecksFit
<1>6. ChecksFit(banner', check')
  BY <1>4, <1>5 DEF ChecksFit
<1>7. QED
  BY <1>1, <1>4, <1>6, InvParts

LEMMA RetryEndsStep ==
  ASSUME BannerInv, RetryEnds
  PROVE  BannerInv'
<1>0. Sound(banner) /\ ChecksFit(banner, check)
  BY InvParts
<1> DEFINE b == [banner EXCEPT !.retrying = FALSE]
<1>1. /\ banner.retrying /\ UNCHANGED <<check, writ, siteGrant>>
      /\ banner' = IF ~b.done /\ b.state \in Unavailable THEN HideBanner(b) ELSE b
  BY DEF RetryEnds
<1>2. /\ Sound(b) /\ ~b.retrying /\ b.view = banner.view /\ b.state = banner.state
      /\ b.done = banner.done
  BY <1>0, RetryOverSound
<1>3. /\ b.done => b.view # "busy"
      /\ b.view = "busy" => b.state \in Unavailable
  BY <1>0, <1>1, <1>2 DEF Sound
<1> HIDE DEF b
<1>4. Sound(banner') /\ banner'.view # "busy" /\ ~banner'.retrying
  BY <1>1, <1>2, <1>3, HideSound
<1>5. ChecksFit(banner', check')
  BY <1>0, <1>1, <1>4 DEF ChecksFit
<1>6. QED
  BY <1>1, <1>4, <1>5, InvParts

LEMMA DismissStep ==
  ASSUME BannerInv, Dismiss \/ BannerDestroy
  PROVE  BannerInv'
<1>0. Sound(banner) /\ ChecksFit(banner, check)
  BY InvParts
<1>1. UNCHANGED <<check, writ, siteGrant>> /\ banner' \in {HideBanner(banner), Close(banner)}
  BY DEF Dismiss, BannerDestroy
<1>2. /\ Sound(banner') /\ banner'.view = "none"
      /\ banner'.consenting = banner.consenting /\ banner'.retrying = banner.retrying
  BY <1>0, <1>1, HideSound, CloseSound
<1>3. ChecksFit(banner', check')
  BY <1>0, <1>1, <1>2 DEF ChecksFit
<1>4. QED
  BY <1>1, <1>2, <1>3, InvParts

LEMMA LinkedFailureStep ==
  ASSUME BannerInv, LinkedFailure
  PROVE  BannerInv'
<1>0. Sound(banner) /\ ChecksFit(banner, check)
  BY InvParts
<1>1. PICK k \in {"connect"} \cup Unavailable :
        banner' = Render([banner EXCEPT !.state = k, !.stale = @ \/ k = "connect", !.retrying = FALSE], "idle")
  BY DEF LinkedFailure
<1>2. /\ banner.handedOver /\ ~banner.done /\ ~banner.consenting
      /\ check' = Overtaken /\ UNCHANGED <<writ, siteGrant>>
  BY DEF LinkedFailure
<1>3. k \in Kinds /\ k # "none"
  BY DEF Kinds, Unavailable
<1> DEFINE n == [banner EXCEPT !.state = k, !.stale = banner.stale \/ k = "connect", !.retrying = FALSE]
<1>4. /\ n \in Banners /\ n.state = k /\ n.view = banner.view
      /\ n.done = banner.done /\ n.handedOver = banner.handedOver /\ n.session = banner.session
      /\ n.told = banner.told /\ n.consenting = banner.consenting /\ ~n.retrying
      /\ n.pendingTold = banner.pendingTold
  BY <1>0, <1>3 DEF Sound, Banners
<1>5. banner' = Render(n, "idle")
  BY <1>1
<1> HIDE DEF n
<1>6. Sound(n)
  BY <1>0, <1>2, <1>3, <1>4 DEF Sound
<1>7. Sound(banner') /\ banner'.view # "busy" /\ ~banner'.consenting /\ ~banner'.retrying
  BY <1>2, <1>3, <1>4, <1>5, <1>6, IdleSound
<1>8. check' \in [Checks -> CheckRecords] /\ \A m \in Checks : ~check'[m].current
  BY <1>0, <1>2, NoneCurrent DEF ChecksFit
<1>9. ChecksFit(banner', check')
  BY <1>7, <1>8 DEF ChecksFit
<1>10. QED
  BY <1>2, <1>7, <1>9, InvParts

LEMMA BannerStep ==
  ASSUME BannerInv, [BannerNext]_bannerVars
  PROVE  BannerInv'
<1>1. ASSUME CheckStep PROVE BannerInv'
  BY <1>1, AssessedStep, CheckEndsStep DEF CheckStep
<1>2. ASSUME Focus \/ CheckAgain PROVE BannerInv'
  BY <1>2, EvaluateStep DEF Focus, CheckAgain
<1>3. ASSUME Connect \/ Consented \/ ConsentFails \/ Retry \/ RetryEnds PROVE BannerInv'
  BY <1>3, ConnectStep, ConsentStep, RetryStep, RetryEndsStep
<1>4. ASSUME Dismiss \/ LinkedFailure \/ BannerDestroy PROVE BannerInv'
  BY <1>4, DismissStep, LinkedFailureStep
<1>5. ASSUME WorldChanges \/ UNCHANGED bannerVars PROVE BannerInv'
  <2>1. UNCHANGED <<banner, check>>
    BY <1>5 DEF WorldChanges, bannerVars
  <2>2. writ' \in {"missing", "ok"} /\ siteGrant' \in {"none", "older", "all"}
    BY <1>5, InvParts DEF WorldChanges, bannerVars
  <2>3. QED
    BY <2>1, <2>2, InvParts
<1>6. QED
  BY <1>1, <1>2, <1>3, <1>4, <1>5 DEF BannerNext

(* One hand-over or one end, told once; a changed workflow stays before the*)
(* visitor; a busy view has what will end it (#ready, #close, #hide,       *)
(* #render, #generation): for any number of checks in flight.              *)
THEOREM BannerInvHolds == BannerSpec => []BannerInv
<1>1. BannerInv /\ [BannerNext]_bannerVars => BannerInv'
  BY BannerStep
<1>2. QED
  BY <1>1, InitBanner, PTL DEF BannerSpec

-----------------------------------------------------------------------------
(* What the checks in flight may not do *)

LEMMA OvertakenCheckStep ==
  ASSUME BannerInv, BannerNext, NEW n \in Checks,
         check[n].overtaken, check[n].flies, ~check'[n].flies
  PROVE  banner'.state = banner.state /\ banner'.view = banner.view
<1>0. Sound(banner) /\ ChecksFit(banner, check)
  BY InvParts
<1>1. ~check[n].current
  BY <1>0 DEF ChecksFit
<1>2. ~(Assessed(n) \/ \E m \in Checks \ {n} : Assessed(m) \/ CheckEnds(m))
  <2>1. SUFFICES ASSUME NEW m \in Checks, Assessed(m) \/ (m # n /\ CheckEnds(m)) PROVE FALSE
    OBVIOUS
  <2>2. CASE m # n
    BY <1>0, <2>1, <2>2 DEF Assessed, CheckEnds, ChecksFit
  <2>3. CASE m = n /\ Assessed(n)
    <3>1. PICK f \in Finds(check[n]) : check' = [check EXCEPT ![n] = [check[n] EXCEPT !.found = f]]
      BY <2>3 DEF Assessed
    <3>2. QED
      BY <1>0, <3>1 DEF ChecksFit, CheckRecords
  <2>4. QED
    BY <2>1, <2>2, <2>3
<1>3. CASE CheckEnds(n)
  BY <1>1, <1>3 DEF CheckEnds
<1>4. \A c \in CheckRecords : /\ [c EXCEPT !.current = FALSE].flies = c.flies
                             /\ [c EXCEPT !.current = FALSE, !.overtaken = c.flies].flies = c.flies
  BY DEF CheckRecords
<1>5. Superseded[n].flies /\ Overtaken[n].flies
  BY <1>0, <1>4 DEF Superseded, Overtaken, ChecksFit
<1>6. ~(Focus \/ CheckAgain)
  <2>1. SUFFICES ASSUME NEW trigger, Evaluate(trigger) PROVE FALSE
    BY DEF Focus, CheckAgain
  <2>2. PICK m \in Checks \ Flying :
          check' = [Superseded EXCEPT ![m] = [Idle EXCEPT !.flies = TRUE, !.trigger = trigger, !.current = TRUE]]
    BY <2>1 DEF Evaluate
  <2>3. m # n
    BY DEF Flying
  <2>4. QED
    BY <1>5, <2>2, <2>3 DEF Superseded
<1>7. ~(Connect \/ Retry \/ LinkedFailure)
  BY <1>5 DEF Connect, Retry, LinkedFailure
<1>8. ~(Consented \/ ConsentFails \/ RetryEnds \/ Dismiss \/ BannerDestroy \/ WorldChanges)
  BY DEF Consented, ConsentFails, RetryEnds, Dismiss, BannerDestroy, WorldChanges
<1>9. QED
  BY <1>2, <1>3, <1>6, <1>7, <1>8 DEF BannerNext, CheckStep

(* A check still in flight does not overwrite what consent or a linked call*)
(* decided after it began, however late it ends (#connect,                 *)
(* #onLinkedFailure, #generation).                                         *)
THEOREM DecisionsStandHolds == BannerSpec => DecisionsStand
<1>1. BannerInv /\ [BannerNext]_bannerVars =>
        [\A n \in Checks :
           check[n].overtaken /\ check[n].flies /\ ~check'[n].flies
             => banner'.state = banner.state /\ banner'.view = banner.view]_bannerVars
  BY OvertakenCheckStep
<1>2. QED
  BY <1>1, BannerInvHolds, PTL DEF BannerSpec, DecisionsStand

-----------------------------------------------------------------------------
(* The promise of the handle *)

(* The stage of the handle that the controller's fields stand for.         *)
Stage(b) ==
  IF b.session = "rejected" THEN "closed"
  ELSE IF b.session = "resolved" THEN "handed"
  ELSE IF b.consenting THEN "consent"
  ELSE IF b.pendingTold THEN "shown" ELSE "looking"

Moves(b, c) ==
  \/ Stage(b) = Stage(c)
  \/ Stage(b) = "looking" /\ Stage(c) = "shown"
  \/ Stage(b) = "shown" /\ Stage(c) = "consent"
  \/ Stage(b) = "consent" /\ Stage(c) = "shown"
  \/ Stage(b) \in {"looking", "shown", "consent"} /\ Stage(c) \in {"handed", "closed"}

(* The handle hears nothing of a step that only moves the view.            *)
LEMMA SameStage ==
  ASSUME NEW b, NEW c, c.session = b.session, c.consenting = b.consenting, c.pendingTold = b.pendingTold
  PROVE  Moves(b, c)
BY DEF Moves, Stage

(* Nor of what is done once there is a session, or none will come.         *)
LEMMA SettledStage ==
  ASSUME NEW b, Sound(b), NEW c, b.session # "pending", c.session = b.session
  PROVE  Moves(b, c)
BY DEF Moves, Stage, Sound, Banners

(* A session that was pending is settled.                                  *)
LEMMA EndStage ==
  ASSUME NEW b, Sound(b), NEW c, b.session = "pending", c.session \in {"resolved", "rejected"}
  PROVE  Moves(b, c)
BY DEF Moves, Stage, Sound, Banners

LEMMA CheckMoves ==
  ASSUME BannerInv, NEW n \in Checks, CheckEnds(n)
  PROVE  Moves(banner, banner')
<1>0. Sound(banner) /\ ChecksFit(banner, check)
  BY InvParts
<1>1. CASE banner.done \/ ~check[n].current
  BY <1>1, SameStage DEF CheckEnds
<1>2. CASE ~banner.done /\ check[n].current
  <2> DEFINE found == check[n].found
  <2>1. found \in Found \ {"none"} /\ check[n].trigger \in Triggers
    BY <1>0 DEF CheckEnds, ChecksFit, CheckRecords
  <2>2. ~banner.consenting /\ ~banner.retrying
    BY <1>0, <1>2 DEF ChecksFit
  <2>3. banner' = Apply(banner, found, check[n].trigger)
    BY <1>2 DEF CheckEnds
  <2> HIDE DEF found
  <2>4. /\ ~banner'.consenting
        /\ banner'.session = IF banner.session # "pending" THEN banner.session
                             ELSE IF found = "ready" THEN "resolved"
                             ELSE IF found = "hidden" THEN "rejected" ELSE "pending"
        /\ found \notin {"ready", "hidden"} => banner'.pendingTold
    BY <1>0, <1>2, <2>1, <2>2, <2>3, ApplySound
  <2>5. CASE banner.session # "pending"
    BY <1>0, <2>4, <2>5, SettledStage
  <2>6. CASE banner.session = "pending" /\ found \in {"ready", "hidden"}
    BY <1>0, <2>4, <2>6, EndStage
  <2>7. CASE banner.session = "pending" /\ found \notin {"ready", "hidden"}
    BY <2>2, <2>4, <2>7 DEF Moves, Stage
  <2>8. QED
    BY <2>5, <2>6, <2>7
<1>3. QED
  BY <1>1, <1>2

LEMMA EvaluateMoves ==
  ASSUME BannerInv, NEW trigger \in {"click", "focus"}, Evaluate(trigger)
  PROVE  Moves(banner, banner')
<1> DEFINE b == [banner EXCEPT !.retrying = FALSE]
<1>1. /\ Sound(b) /\ ~b.retrying /\ b.session = banner.session
      /\ b.pendingTold = banner.pendingTold /\ b.consenting = banner.consenting
  BY InvParts, RetryOverSound
<1>2. banner' = IF trigger = "click" THEN Render(b, "busy") ELSE b
  BY DEF Evaluate
<1> HIDE DEF b
<1>3. /\ banner'.session = banner.session /\ banner'.consenting = banner.consenting
      /\ banner'.pendingTold = banner.pendingTold
  BY <1>1, <1>2, BusySound
<1>4. QED
  BY <1>3, SameStage

LEMMA ConsentMoves ==
  ASSUME BannerInv, Connect \/ Consented \/ ConsentFails
  PROVE  Moves(banner, banner')
<1>0. Sound(banner)
  BY InvParts
<1>1. CASE Connect
  <2> DEFINE n == [banner EXCEPT !.consenting = TRUE, !.retrying = FALSE]
  <2>1. banner' = Render(n, "busy") /\ banner.state # "none" /\ ~banner.consenting
    BY <1>1 DEF Connect, Clickable
  <2>2. /\ n \in Banners /\ n.session = banner.session /\ n.consenting
        /\ n.pendingTold = banner.pendingTold
    BY <1>0 DEF Sound, Banners
  <2> HIDE DEF n
  <2>3. /\ banner'.session = banner.session /\ banner'.consenting
        /\ banner'.pendingTold = banner.pendingTold
    BY <2>1, <2>2 DEF Render, Banners
  <2>4. CASE banner.session # "pending"
    BY <1>0, <2>3, <2>4, SettledStage
  <2>5. CASE banner.session = "pending"
    BY <1>0, <2>1, <2>3, <2>5 DEF Moves, Stage, Sound
  <2>6. QED
    BY <2>4, <2>5
<1>2. CASE Consented \/ ConsentFails
  <2> DEFINE b == [banner EXCEPT !.consenting = FALSE]
  <2>1. /\ Sound(b) /\ ~b.consenting /\ b.view = banner.view /\ b.session = banner.session
        /\ b.state = banner.state /\ b.done = banner.done /\ b.pendingTold = banner.pendingTold
        /\ b.retrying = banner.retrying
    BY <1>0, ConsentOverSound
  <2>2. banner.consenting
    BY <1>2 DEF Consented, ConsentFails
  <2>3. ~banner.retrying /\ (banner.pendingTold \/ banner.session # "pending")
    BY <1>0, <2>2 DEF Sound
  <2>4. CASE Consented
    <3>1. banner' = Ready(b)
      BY <2>4 DEF Consented
    <3> HIDE DEF b
    <3>2. banner'.session = IF banner.session = "pending" THEN "resolved" ELSE banner.session
      BY <2>1, <3>1, ReadySound
    <3>3. QED
      BY <1>0, <3>2, SettledStage, EndStage
  <2>5. CASE ConsentFails
    <3>1. PICK k \in {"declined", "missing", "revoked", "unfetched"} :
            banner' = IF b.done THEN b ELSE Render([b EXCEPT !.state = k], "idle")
      BY <2>5 DEF ConsentFails
    <3>2. k \in Kinds /\ k # "none"
      BY DEF Kinds
    <3> HIDE DEF b
    <3>3. banner'.session = banner.session /\ ~banner'.consenting
          /\ banner'.pendingTold = banner.pendingTold
      <4>1. b.retrying => b.view # "busy"
        BY <2>1, <2>3
      <4>2. b.pendingTold \/ b.session # "pending"
        BY <2>1, <2>3
      <4>3. CASE b.done
        BY <2>1, <3>1, <4>3
      <4>4. CASE ~b.done
        BY <2>1, <3>1, <3>2, <4>1, <4>2, <4>4, ShowSound
      <4>5. QED
        BY <4>3, <4>4
    <3>4. QED
      <4>1. CASE banner.session # "pending"
        BY <1>0, <3>3, <4>1, SettledStage
      <4>2. CASE banner.session = "pending"
        <5>1. banner.pendingTold /\ banner'.pendingTold
          BY <2>3, <3>3, <4>2
        <5>2. Stage(banner) = "consent" /\ Stage(banner') = "shown"
          BY <2>2, <3>3, <4>2, <5>1 DEF Stage
        <5>3. QED
          BY <5>2 DEF Moves
      <4>3. QED
        BY <4>1, <4>2
  <2>6. QED
    BY <1>2, <2>4, <2>5
<1>3. QED
  BY <1>1, <1>2

LEMMA ViewMoves ==
  ASSUME BannerInv, Retry \/ RetryEnds \/ LinkedFailure
  PROVE  Moves(banner, banner')
<1>0. Sound(banner)
  BY InvParts
<1>1. CASE Retry
  <2> DEFINE n == [banner EXCEPT !.retrying = TRUE]
  <2>1. banner' = Render(n, "busy")
    BY <1>1 DEF Retry
  <2>2. /\ n \in Banners /\ n.session = banner.session /\ n.consenting = banner.consenting
        /\ n.pendingTold = banner.pendingTold
    BY <1>0 DEF Sound, Banners
  <2> HIDE DEF n
  <2>3. /\ banner'.session = banner.session /\ banner'.consenting = banner.consenting
        /\ banner'.pendingTold = banner.pendingTold
    BY <2>1, <2>2 DEF Render, Banners
  <2>4. QED
    BY <2>3, SameStage
<1>2. CASE RetryEnds
  <2> DEFINE b == [banner EXCEPT !.retrying = FALSE]
  <2>1. /\ Sound(b) /\ b.session = banner.session /\ b.pendingTold = banner.pendingTold
        /\ b.consenting = banner.consenting
    BY <1>0, RetryOverSound
  <2>2. banner' \in {HideBanner(b), b}
    BY <1>2 DEF RetryEnds
  <2> HIDE DEF b
  <2>3. /\ banner'.session = banner.session /\ banner'.consenting = banner.consenting
        /\ banner'.pendingTold = banner.pendingTold
    BY <2>1, <2>2, HideSound
  <2>4. QED
    BY <2>3, SameStage
<1>3. CASE LinkedFailure
  <2>1. PICK k \in {"connect"} \cup Unavailable :
          banner' = Render([banner EXCEPT !.state = k, !.stale = @ \/ k = "connect", !.retrying = FALSE], "idle")
    BY <1>3 DEF LinkedFailure
  <2> DEFINE n == [banner EXCEPT !.state = k, !.stale = banner.stale \/ k = "connect", !.retrying = FALSE]
  <2>2. n.session = banner.session
    BY <1>0 DEF Sound, Banners
  <2>3. banner' \in {n, [n EXCEPT !.view = "idle"]}
    BY <2>1 DEF Render
  <2>4. banner'.session = banner.session
    BY <1>0, <2>2, <2>3 DEF Sound, Banners
  <2>5. banner.session # "pending"
    BY <1>0, <1>3 DEF LinkedFailure, Sound
  <2>6. QED
    BY <1>0, <2>4, <2>5, SettledStage
<1>4. QED
  BY <1>1, <1>2, <1>3

LEMMA DismissMoves ==
  ASSUME BannerInv, Dismiss \/ BannerDestroy
  PROVE  Moves(banner, banner')
<1>0. Sound(banner)
  BY InvParts
<1>1. banner' \in {HideBanner(banner), Close(banner)}
  BY DEF Dismiss, BannerDestroy
<1>2. CASE banner' = HideBanner(banner)
  BY <1>0, <1>2, HideSound, SameStage
<1>3. CASE banner' = Close(banner)
  <2>1. banner'.session = IF banner.session = "pending" THEN "rejected" ELSE banner.session
    BY <1>0, <1>3, CloseSound
  <2>2. QED
    BY <1>0, <2>1, SettledStage, EndStage
<1>4. QED
  BY <1>1, <1>2, <1>3

LEMMA BannerMoves ==
  ASSUME BannerInv, [BannerNext]_bannerVars
  PROVE  Moves(banner, banner')
<1>1. CASE CheckStep
  <2>1. CASE \E n \in Checks : Assessed(n)
    BY <2>1, SameStage DEF Assessed
  <2>2. QED
    BY <1>1, <2>1, CheckMoves DEF CheckStep
<1>2. CASE Focus \/ CheckAgain
  BY <1>2, EvaluateMoves DEF Focus, CheckAgain
<1>3. CASE Connect \/ Consented \/ ConsentFails
  BY <1>3, ConsentMoves
<1>4. CASE Retry \/ RetryEnds \/ LinkedFailure
  BY <1>4, ViewMoves
<1>5. CASE Dismiss \/ BannerDestroy
  BY <1>5, DismissMoves
<1>6. CASE WorldChanges \/ UNCHANGED bannerVars
  BY <1>6, SameStage DEF WorldChanges, bannerVars
<1>7. QED
  BY <1>1, <1>2, <1>3, <1>4, <1>5, <1>6 DEF BannerNext

(* The bridge of the page may count on the handle of its banner: nothing   *)
(* found is told once, then one session is handed over or the banner is    *)
(* closed, and never both (#tellPending, #ready, #close): the controller   *)
(* implements BannerHandle.                                                *)
THEOREM HandleIsKept == BannerSpec => KeepsHandle
<1>1. BannerInit => Handle!Init
  BY DEF BannerInit, Handle!Init
<1>2. BannerInv /\ [BannerNext]_bannerVars =>
        [Handle!Next]_(IF banner.session = "rejected" THEN "closed"
                       ELSE IF banner.session = "resolved" THEN "handed"
                       ELSE IF banner.consenting THEN "consent"
                       ELSE IF banner.pendingTold THEN "shown" ELSE "looking")
  BY BannerMoves DEF Moves, Stage, Handle!Next, Handle!Pending, Handle!Asks, Handle!Declined,
                     Handle!Ready, Handle!Closed
<1>3. QED
  BY <1>1, <1>2, BannerInvHolds, PTL DEF BannerSpec, KeepsHandle, Handle!Spec

-----------------------------------------------------------------------------
(* The page's channel                                                      *)

USE ChannelAssumption

Channels ==
  [started : BOOLEAN, stopped : BOOLEAN, paused : BOOLEAN, unauthorized : BOOLEAN,
   looping : BOOLEAN, retrying : BOOLEAN, helloTimer : BOOLEAN, hiddenTimer : BOOLEAN,
   loop : LoopStages, loops : 0..2, state : States]

Jobs == [stage : JobStages, attempt : 0..MaxAttempts, final : BOOLEAN]

Over(c) == c.stopped \/ c.unauthorized

(* One loop, and #looping knows of it. *)
Looped(c) ==
  /\ c \in Channels
  /\ c.loops <= 1 /\ (c.looping <=> c.loops = 1)
  /\ c.looping <=> c.loop # "off"

Quiet(c) ==
  Over(c) => /\ ~c.helloTimer
             /\ c.loop \in {"off", "aborted", "woken"}
             /\ c.stopped => ~c.hiddenTimer

(* What ChannelInv says of ch. *)
Good(c) == Looped(c) /\ Quiet(c) /\ c.state = StateOf(c)

LEMMA ChannelInvParts ==
  ChannelInv <=> /\ Good(ch) /\ AttemptsAreLeft
                 /\ ready \in BOOLEAN /\ hidden \in BOOLEAN
                 /\ moves \in 0..MaxMoves /\ hellos \in 0..MaxHellos
                 /\ job \in [ChannelCommands -> Jobs]
BY DEF ChannelInv, ChannelTypeOK, OneLoop, LoopIsSomewhere, ListenerIsRight, NothingArmedOnceOver,
       Good, Looped, Quiet, Over, Channels, Jobs

-----------------------------------------------------------------------------
(* The methods                                                             *)

(* Changing where the loop is. *)
LEMMA SetLoop ==
  ASSUME NEW c \in Channels, NEW l \in LoopStages, NEW n \in 0..2,
         NEW b \in BOOLEAN, NEW t \in BOOLEAN
  PROVE  [c EXCEPT !.looping = b, !.loops = n, !.loop = l, !.helloTimer = t] \in Channels
BY DEF Channels

LEMMA UpdateStateGood ==
  ASSUME NEW c, Looped(c), Quiet(c)
  PROVE  /\ Good(UpdateState(c))
         /\ Over(UpdateState(c)) = Over(c)
         /\ UpdateState(c).loop = c.loop
         /\ UpdateState(c).hiddenTimer = c.hiddenTimer
<1> DEFINE d == UpdateState(c)
<1>1. StateOf(c) \in States
  BY DEF StateOf, States, Looped, Channels
<1>2. d = [c EXCEPT !.state = StateOf(c)] /\ c \in Channels
  BY DEF UpdateState, Looped
<1>3. /\ d \in Channels /\ d.state = StateOf(c)
      /\ d.stopped = c.stopped /\ d.unauthorized = c.unauthorized /\ d.paused = c.paused
      /\ d.looping = c.looping /\ d.retrying = c.retrying /\ d.loop = c.loop
      /\ d.loops = c.loops /\ d.helloTimer = c.helloTimer /\ d.hiddenTimer = c.hiddenTimer
  BY <1>1, <1>2 DEF Channels
<1>4. StateOf(d) = StateOf(c)
  BY <1>3 DEF StateOf
<1> HIDE DEF d
<1>5. Good(d) /\ Over(d) = Over(c) /\ d.loop = c.loop /\ d.hiddenTimer = c.hiddenTimer
  BY <1>3, <1>4 DEF Good, Looped, Quiet, Over
<1>6. QED
  BY <1>5 DEF d

(* #wake and the abort leave the loop on its way out of any wait. *)
LEMMA InterruptLooped ==
  ASSUME NEW c, Looped(c)
  PROVE  /\ Looped(Interrupt(c))
         /\ Interrupt(c).loop \in {"off", "aborted", "woken"}
         /\ Interrupt(c).stopped = c.stopped /\ Interrupt(c).unauthorized = c.unauthorized
         /\ Interrupt(c).hiddenTimer = c.hiddenTimer
BY DEF Interrupt, Looped, Channels, LoopStages

(* #sync is right whatever was changed before it. *)
LEMMA SyncGood ==
  ASSUME NEW c, NEW r \in BOOLEAN, Looped(c), c.stopped => ~c.hiddenTimer
  PROVE  /\ Good(Sync(c, r))
         /\ Over(c) => Sync(c, r).loop # "polling"
<1>1. CASE ShouldPoll(c, r)
  <2> DEFINE b == IF c.looping THEN c ELSE StartLoop(c)
             d == [b EXCEPT !.helloTimer = TRUE]
  <2>1. ~c.stopped /\ ~c.unauthorized
    BY <1>1 DEF ShouldPoll
  <2>3. CASE ~c.looping
    <3> DEFINE e == [c EXCEPT !.looping = TRUE, !.loops = 1, !.loop = "polling", !.helloTimer = TRUE]
    <3>1. c.loops + 1 = 1
      BY <2>3 DEF Looped, Channels
    <3>2. d = e
      BY <2>3, <3>1 DEF StartLoop, Looped, Channels
    <3>3. Looped(e) /\ Quiet(e)
      <4>1. e \in Channels
        <5>1. c \in Channels /\ 1 \in 0..2 /\ "polling" \in LoopStages
          BY DEF Looped, LoopStages
        <5>2. QED
          BY <5>1, SetLoop
      <4>3. /\ e.loops = 1 /\ e.looping /\ e.loop = "polling"
            /\ e.stopped = c.stopped /\ e.unauthorized = c.unauthorized
        BY DEF Looped, Channels
      <4> HIDE DEF e
      <4>2. QED
        BY <4>1, <4>3, <2>1 DEF Looped, Quiet, Over
    <3>4. Sync(c, r) = UpdateState(e)
      BY <1>1, <3>2 DEF Sync
    <3> HIDE DEF e
    <3>5. QED
      BY <3>3, <3>4, <2>1, UpdateStateGood DEF Over
  <2>4. CASE c.looping
    <3>1. d \in Channels /\ d = [c EXCEPT !.helloTimer = TRUE]
      BY <2>4 DEF Looped, Channels
    <3>2. Looped(d) /\ Quiet(d)
      BY <3>1, <2>1 DEF Looped, Quiet, Over, Channels
    <3>3. Sync(c, r) = UpdateState(d)
      BY <1>1 DEF Sync
    <3> HIDE DEF d
    <3>4. QED
      BY <3>2, <3>3, <2>1, UpdateStateGood DEF Over
  <2>5. QED
    BY <2>3, <2>4
<1>2. CASE ~ShouldPoll(c, r)
  <2> DEFINE d == [Interrupt(c) EXCEPT !.helloTimer = FALSE]
  <2>1. Looped(d) /\ Quiet(d) /\ d.loop # "polling"
    BY InterruptLooped DEF Looped, Quiet, Over, Channels
  <2>2. Sync(c, r) = UpdateState(d)
    BY <1>2 DEF Sync
  <2> HIDE DEF d
  <2>3. QED
    BY <2>1, <2>2, UpdateStateGood
<1>3. QED
  BY <1>1, <1>2

LEMMA RefusedGood ==
  ASSUME NEW c, Good(c)
  PROVE  /\ Good(Refused(c)) /\ Over(Refused(c))
         /\ Refused(c).loop # "polling"
         /\ Refused(c).looping = c.looping
<1>1. CASE c.unauthorized
  BY <1>1 DEF Refused, Good, Quiet, Over
<1>2. CASE ~c.unauthorized
  <2> DEFINE d == [Interrupt(c) EXCEPT !.unauthorized = TRUE, !.helloTimer = FALSE]
  <2>1. Looped(d) /\ Quiet(d) /\ d.loop # "polling" /\ Over(d) /\ d.looping = c.looping
    BY InterruptLooped DEF Good, Looped, Quiet, Over, Channels, Interrupt
  <2>2. Refused(c) = UpdateState(d)
    BY <1>2 DEF Refused
  <2> HIDE DEF d
  <2>3. Refused(c).looping = d.looping
    BY <2>1, <2>2 DEF UpdateState, Looped, Channels
  <2>4. QED
    BY <2>1, <2>2, <2>3, UpdateStateGood
<1>3. QED
  BY <1>1, <1>2

LEMMA EndLoopGood ==
  ASSUME NEW c, Good(c), c.looping
  PROVE  Good(EndLoop(c)) /\ EndLoop(c).loop # "polling"
<1> DEFINE d == [c EXCEPT !.looping = FALSE, !.loops = 0, !.loop = "off", !.helloTimer = c.helloTimer]
<1>1. c.loops - 1 = 0
  BY DEF Good, Looped, Channels
<1>2. EndLoop(c) = UpdateState(d)
  BY <1>1 DEF EndLoop, Good, Looped, Channels
<1>3. d \in Channels
  <2>1. c \in Channels /\ c.helloTimer \in BOOLEAN /\ 0 \in 0..2 /\ "off" \in LoopStages
    BY DEF Good, Looped, Channels, LoopStages
  <2>2. QED
    BY <2>1, SetLoop
<1>4. /\ d.loops = 0 /\ ~d.looping /\ d.loop = "off"
      /\ d.stopped = c.stopped /\ d.unauthorized = c.unauthorized
      /\ d.helloTimer = c.helloTimer /\ d.hiddenTimer = c.hiddenTimer
  BY DEF Good, Looped, Channels
<1> HIDE DEF d
<1>5. Looped(d) /\ Quiet(d)
  BY <1>3, <1>4 DEF Good, Looped, Quiet, Over
<1>6. QED
  BY <1>2, <1>4, <1>5, UpdateStateGood

LEMMA TurnGood ==
  ASSUME NEW c, NEW r \in BOOLEAN, Good(c), c.looping
  PROVE  /\ Good(Turn(c, r))
         /\ Over(c) => Turn(c, r).loop # "polling"
<1>1. CASE ShouldPoll(c, r)
  <2> DEFINE d == [c EXCEPT !.loop = "polling"]
  <2>1. ~Over(c)
    BY <1>1 DEF ShouldPoll, Over
  <2>2. Turn(c, r) = d
    BY <1>1 DEF Turn
  <2>3. Looped(d) /\ Quiet(d)
    BY <2>1 DEF Good, Looped, Quiet, Over, Channels, LoopStages
  <2>4. StateOf(d) = StateOf(c) /\ d.state = c.state
    BY DEF StateOf, Good, Looped, Channels
  <2> HIDE DEF d
  <2>5. QED
    BY <2>1, <2>2, <2>3, <2>4 DEF Good
<1>2. CASE ~ShouldPoll(c, r)
  BY <1>2, EndLoopGood DEF Turn
<1>3. QED
  BY <1>1, <1>2

(* A hello is begun only while the channel is not over. *)
LEMMA HelloBounded ==
  ASSUME hellos \in 0..MaxHellos, NEW c, NEW force \in BOOLEAN, Hello(c, force)
  PROVE  hellos' \in 0..MaxHellos /\ (Over(c) => hellos' = hellos)
BY DEF Hello, Over

LEMMA SetJob ==
  ASSUME NEW j \in Jobs, NEW s \in JobStages, NEW n \in 0..MaxAttempts
  PROVE  [j EXCEPT !.stage = s, !.attempt = n] \in Jobs
BY DEF Jobs

LEMMA AttemptJob ==
  ASSUME NEW j \in Jobs, j.attempt < MaxAttempts, Good(ch)
  PROVE  Attempt(j) \in Jobs /\ Attempt(j).stage \notin {"running", "pausing"}
<1>1. ch.stopped \in BOOLEAN /\ ch.unauthorized \in BOOLEAN
  BY DEF Good, Looped, Channels
<1>2. j.attempt + 1 \in 0..MaxAttempts
  BY DEF Jobs
<1>3. QED
  BY <1>1, <1>2 DEF Attempt, Jobs, JobStages
-----------------------------------------------------------------------------
(* The steps                                                               *)

Surroundings ==
  /\ ready \in BOOLEAN /\ hidden \in BOOLEAN
  /\ moves \in 0..MaxMoves /\ hellos \in 0..MaxHellos

(* What a step does to the record, and what it may not begin. *)
ChannelAfter ==
  /\ Good(ch')
  /\ Over(ch) => hellos' <= hellos /\ ch'.loop # "polling"

JobsAreGood == job \in [ChannelCommands -> Jobs] /\ AttemptsAreLeft

LEMMA CalledFromOutside ==
  ASSUME Good(ch), Surroundings,
         Start \/ Notify \/ Stop \/ Hide \/ Show \/ HiddenTooLong \/ HelloTick
  PROVE  ChannelAfter /\ Surroundings' /\ UNCHANGED job
<1> USE DEF Surroundings, ChannelAfter
<1>1. CASE Start
  <2> DEFINE c == [ch EXCEPT !.started = TRUE, !.hiddenTimer = hidden]
  <2>1. Looped(c) /\ (c.stopped => ~c.hiddenTimer)
    BY <1>1 DEF Start, Good, Looped, Channels
  <2> HIDE DEF c
  <2>2. Good(Sync(c, ready)) /\ (Over(c) => Sync(c, ready).loop # "polling")
    BY <2>1, SyncGood
  <2>3. (Over(c) <=> Over(ch))
    BY DEF c, Over, Good, Looped, Channels
  <2>4. ch' = Sync(c, ready)
    BY <1>1 DEF Start, c
  <2>5. hellos' \in 0..MaxHellos /\ (Over(ch) => hellos' = hellos)
    BY <1>1, HelloBounded DEF Start
  <2>6. QED
    BY <1>1, <2>2, <2>3, <2>4, <2>5 DEF Start
<1>2. CASE Notify
  <2>1. ready' \in BOOLEAN /\ moves' \in 0..MaxMoves /\ UNCHANGED <<hidden, job>>
    BY <1>2 DEF Notify
  <2>2. CASE ch.started /\ ~ch.stopped
    <3>1. Good(Sync(ch, ready')) /\ (Over(ch) => Sync(ch, ready').loop # "polling")
      BY <2>1, <2>2, SyncGood DEF Good
    <3>2. ch' = Sync(ch, ready') /\ Hello(ch, FALSE)
      BY <1>2, <2>2 DEF Notify
    <3>3. hellos' \in 0..MaxHellos /\ (Over(ch) => hellos' = hellos)
      BY <3>2, HelloBounded
    <3>4. QED
      BY <2>1, <3>1, <3>2, <3>3
  <2>3. CASE ~(ch.started /\ ~ch.stopped)
    <3>1. UNCHANGED <<ch, hellos>>
      BY <1>2, <2>3 DEF Notify
    <3>2. QED
      BY <2>1, <3>1 DEF Good, Quiet, Over
  <2>4. QED
    BY <2>2, <2>3
<1>3. CASE Stop
  <2> DEFINE c == [Interrupt(ch) EXCEPT !.stopped = TRUE, !.helloTimer = FALSE, !.hiddenTimer = FALSE]
  <2>1. Looped(c) /\ Quiet(c) /\ c.loop # "polling"
    BY InterruptLooped DEF Good, Looped, Quiet, Over, Channels
  <2>2. ch' = UpdateState(c)
    BY <1>3 DEF Stop
  <2> HIDE DEF c
  <2>3. QED
    BY <1>3, <2>1, <2>2, UpdateStateGood DEF Stop
<1>4. CASE Hide
  <2>1. Surroundings' /\ UNCHANGED <<job, hellos>>
    BY <1>4 DEF Hide
  <2>2. CASE Listening /\ ~ch.paused
    <3>1. ch' = [ch EXCEPT !.hiddenTimer = TRUE] /\ ~ch.stopped
      BY <1>4, <2>2 DEF Hide, Listening
    <3>2. ch' \in Channels /\ ch'.stopped = ch.stopped /\ ch'.unauthorized = ch.unauthorized
          /\ ch'.paused = ch.paused /\ ch'.looping = ch.looping /\ ch'.retrying = ch.retrying
          /\ ch'.loop = ch.loop /\ ch'.loops = ch.loops /\ ch'.helloTimer = ch.helloTimer
          /\ ch'.state = ch.state
      BY <3>1 DEF Good, Looped, Channels
    <3>3. QED
      BY <2>1, <3>1, <3>2 DEF Good, Looped, Quiet, Over, StateOf
  <2>3. CASE ~(Listening /\ ~ch.paused)
    BY <1>4, <2>1, <2>3 DEF Hide, Good, Quiet, Over
  <2>4. QED
    BY <2>2, <2>3
<1>5. CASE Show
  <2> DEFINE c == [ch EXCEPT !.hiddenTimer = FALSE]
  <2>1. hidden' \in BOOLEAN /\ moves' \in 0..MaxMoves /\ UNCHANGED <<ready, job>>
    <3>1. hidden' \in BOOLEAN /\ UNCHANGED <<ready, job>>
      BY <1>5 DEF Show
    <3>2. moves' = moves + 1 /\ moves < MaxMoves
      BY <1>5 DEF Show
    <3>3. moves' \in 0..MaxMoves
      BY <3>2
    <3>4. QED
      BY <3>1, <3>3
  <2>2. CASE ~Listening
    BY <1>5, <2>1, <2>2 DEF Show, Good, Quiet, Over
  <2>3. CASE Listening /\ ch.paused
    <3> DEFINE e == [c EXCEPT !.paused = FALSE, !.retrying = FALSE]
    <3>1. ch' = Sync(e, ready) /\ Hello(c, TRUE)
      BY <1>5, <2>3 DEF Show, Shown
    <3>2. Looped(e) /\ ~e.hiddenTimer /\ (Over(e) <=> Over(ch)) /\ (Over(c) <=> Over(ch))
      BY DEF Good, Looped, Channels, Over
    <3> HIDE DEF e, c
    <3>3. hellos' \in 0..MaxHellos /\ (Over(ch) => hellos' = hellos)
      BY <3>1, <3>2, HelloBounded
    <3>4. QED
      BY <2>1, <3>1, <3>2, <3>3, SyncGood
  <2>4. CASE Listening /\ ~ch.paused
    <3>1. ch' = c /\ UNCHANGED hellos
      BY <1>5, <2>4 DEF Show
    <3>2. c \in Channels /\ c.stopped = ch.stopped /\ c.unauthorized = ch.unauthorized
          /\ c.paused = ch.paused /\ c.looping = ch.looping /\ c.retrying = ch.retrying
          /\ c.loop = ch.loop /\ c.loops = ch.loops /\ c.helloTimer = ch.helloTimer
          /\ c.state = ch.state /\ ~c.hiddenTimer
      BY DEF Good, Looped, Channels
    <3> HIDE DEF c
    <3>3. QED
      BY <2>1, <3>1, <3>2 DEF Good, Looped, Quiet, Over, StateOf
  <2>5. QED
    BY <2>2, <2>3, <2>4
<1>6. CASE HiddenTooLong
  <2> DEFINE c == [ch EXCEPT !.hiddenTimer = FALSE]
             e == [c EXCEPT !.paused = TRUE]
  <2>1. UNCHANGED <<ready, hidden, moves, hellos, job>>
    BY <1>6 DEF HiddenTooLong
  <2>2. CASE c.stopped \/ ~hidden
    <3>1. ch' = c
      BY <1>6, <2>2 DEF HiddenTooLong
    <3>2. c \in Channels /\ c.stopped = ch.stopped /\ c.unauthorized = ch.unauthorized
          /\ c.paused = ch.paused /\ c.looping = ch.looping /\ c.retrying = ch.retrying
          /\ c.loop = ch.loop /\ c.loops = ch.loops /\ c.helloTimer = ch.helloTimer
          /\ c.state = ch.state /\ ~c.hiddenTimer
      BY DEF Good, Looped, Channels
    <3> HIDE DEF c
    <3>3. QED
      BY <2>1, <3>1, <3>2 DEF Good, Looped, Quiet, Over, StateOf
  <2>3. CASE ~(c.stopped \/ ~hidden)
    <3>1. ch' = Sync(e, ready)
      BY <1>6, <2>3 DEF HiddenTooLong
    <3>2. Looped(e) /\ ~e.hiddenTimer /\ (Over(e) <=> Over(ch))
      BY DEF Good, Looped, Channels, Over
    <3> HIDE DEF e
    <3>3. QED
      BY <2>1, <3>1, <3>2, SyncGood
  <2>4. QED
    BY <2>2, <2>3
<1>7. CASE HelloTick
  BY <1>7, HelloBounded DEF HelloTick, Good, Quiet, Over
<1>8. QED
  BY <1>1, <1>2, <1>3, <1>4, <1>5, <1>6, <1>7
LEMMA LoopAndHello ==
  ASSUME Good(ch), Surroundings,
         HelloAnswer \/ PollRefused \/ PollFails \/ PollEmpty \/ LoopGoesOn
  PROVE  ChannelAfter /\ Surroundings' /\ UNCHANGED job
<1> USE DEF Surroundings, ChannelAfter
<1>0. ch.loop # "off" => ch.looping
  BY DEF Good, Looped
<1>1. CASE HelloAnswer
  <2>1. hellos' \in 0..MaxHellos /\ hellos' <= hellos /\ UNCHANGED <<ready, hidden, moves, job>>
    BY <1>1 DEF HelloAnswer
  <2>2. CASE ch' = ch
    BY <2>1, <2>2 DEF Good, Quiet, Over
  <2>3. CASE ch' = Refused(ch)
    BY <2>1, <2>3, RefusedGood
  <2>4. QED
    BY <1>1, <2>2, <2>3 DEF HelloAnswer
<1>2. CASE PollRefused
  <2>1. ch.looping
    BY <1>0, <1>2 DEF PollRefused
  <2>2. Good(Refused(ch)) /\ Refused(ch).looping
    BY <2>1, RefusedGood
  <2>3. Good(EndLoop(Refused(ch))) /\ EndLoop(Refused(ch)).loop # "polling"
    BY <2>2, EndLoopGood
  <2>4. QED
    BY <1>2, <2>3 DEF PollRefused
<1>3. CASE PollFails
  <2> DEFINE c == [ch EXCEPT !.retrying = TRUE, !.loop = "backoff"]
  <2>1. ~Over(ch)
    BY <1>3 DEF PollFails, Good, Quiet
  <2>2. Looped(c) /\ Quiet(c) /\ c.loop # "polling"
    BY <1>3, <2>1 DEF PollFails, Good, Looped, Quiet, Over, Channels, LoopStages
  <2>3. ch' = UpdateState(c)
    BY <1>3 DEF PollFails
  <2> HIDE DEF c
  <2>4. QED
    BY <1>3, <2>2, <2>3, UpdateStateGood DEF PollFails
<1>4. CASE PollEmpty
  <2> DEFINE c == [ch EXCEPT !.retrying = FALSE]
  <2>1. Looped(c) /\ Quiet(c) /\ ~Over(ch) /\ c.looping
    BY <1>0, <1>4 DEF PollEmpty, Good, Looped, Quiet, Over, Channels
  <2> HIDE DEF c
  <2>2. Good(UpdateState(c)) /\ UpdateState(c).looping
    BY <2>1, UpdateStateGood DEF Good, Looped
  <2>3. ch' = Turn(UpdateState(c), ready)
    BY <1>4 DEF PollEmpty, c
  <2>4. QED
    BY <1>4, <2>1, <2>2, <2>3, TurnGood DEF PollEmpty
<1>5. CASE LoopGoesOn
  BY <1>0, <1>5, TurnGood DEF LoopGoesOn
<1>6. QED
  BY <1>1, <1>2, <1>3, <1>4, <1>5

LEMMA CommandsArrive ==
  ASSUME Good(ch), Surroundings, JobsAreGood, NEW new \in SUBSET ChannelCommands, PollAnswers(new)
  PROVE  ChannelAfter /\ Surroundings' /\ JobsAreGood'
<1>1. Surroundings' /\ hellos' <= hellos
  BY DEF PollAnswers, Surroundings
<1>2. ChannelAfter
  <2> DEFINE d == [ch EXCEPT !.retrying = FALSE]
  <2>1. ch.looping /\ ~Over(ch)
    BY DEF PollAnswers, Good, Looped, Quiet
  <2>2. Looped(d) /\ Quiet(d) /\ d.looping
    BY <2>1 DEF Good, Looped, Quiet, Over, Channels
  <2> DEFINE c == UpdateState(d)
  <2> HIDE DEF d
  <2>3. Good(c) /\ c.looping /\ Over(c) = Over(d)
    BY <2>2, UpdateStateGood DEF Good, Looped
  <2>4. CASE new = {}
    <3>1. ch' = [c EXCEPT !.loop = "resting"]
      BY <2>4 DEF PollAnswers, d
    <3>2. ~Over(c)
      BY <2>1, <2>3 DEF d, Over, Good, Looped, Channels
    <3> HIDE DEF c
    <3>3. ch' \in Channels /\ ch'.loop = "resting" /\ ch'.looping = c.looping /\ ch'.loops = c.loops
          /\ ch'.stopped = c.stopped /\ ch'.unauthorized = c.unauthorized /\ ch'.paused = c.paused
          /\ ch'.retrying = c.retrying /\ ch'.state = c.state
      BY <2>3, <3>1 DEF Good, Looped, Channels, LoopStages
    <3>4. QED
      BY <1>1, <2>1, <2>3, <3>2, <3>3 DEF ChannelAfter, Good, Looped, Quiet, Over, StateOf
  <2>5. CASE new # {}
    <3>1. ch' = Turn(c, ready) /\ ready \in BOOLEAN
      BY <2>5 DEF PollAnswers, d, Surroundings
    <3> HIDE DEF c
    <3>2. QED
      BY <1>1, <2>1, <2>3, <3>1, TurnGood DEF ChannelAfter
  <2>6. QED
    BY <2>4, <2>5
<1>3. JobsAreGood'
  <2>1. PICK runs \in SUBSET new :
          job' = [k \in ChannelCommands |->
                    IF k \in runs THEN [NoJob EXCEPT !.stage = "running"]
                    ELSE IF k \in new THEN [NoJob EXCEPT !.stage = "posting", !.attempt = 1]
                    ELSE job[k]]
    BY DEF PollAnswers
  <2> DEFINE run == [NoJob EXCEPT !.stage = "running"]
             post == [NoJob EXCEPT !.stage = "posting", !.attempt = 1]
  <2>2. run \in Jobs /\ run.attempt < MaxAttempts
    <3>1. NoJob \in Jobs /\ NoJob.attempt = 0 /\ "running" \in JobStages
      BY DEF NoJob, Jobs, JobStages
    <3>2. QED
      BY <3>1 DEF Jobs
  <2>3. post \in Jobs /\ post.stage = "posting"
    <3>1. NoJob \in Jobs /\ "posting" \in JobStages /\ 1 \in 0..MaxAttempts
      BY DEF NoJob, Jobs, JobStages
    <3>2. QED
      BY <3>1, SetJob DEF Jobs
  <2> HIDE DEF run, post
  <2>4. \A k \in ChannelCommands :
          /\ job'[k] \in Jobs
          /\ job'[k].stage \in {"running", "pausing"} => job'[k].attempt < MaxAttempts
    <3>1. job' = [k \in ChannelCommands |-> IF k \in runs THEN run ELSE IF k \in new THEN post ELSE job[k]]
      BY <2>1 DEF run, post
    <3>2. QED
      BY <2>2, <2>3, <3>1 DEF JobsAreGood, AttemptsAreLeft
  <2>5. job' = [k \in ChannelCommands |-> job'[k]]
    BY <2>1
  <2>6. QED
    BY <2>4, <2>5 DEF JobsAreGood, AttemptsAreLeft
<1>4. QED
  BY <1>1, <1>2, <1>3

LEMMA CommandSteps ==
  ASSUME Good(ch), Surroundings, JobsAreGood, NEW k \in ChannelCommands, JobSteps(k)
  PROVE  ChannelAfter /\ Surroundings' /\ JobsAreGood'
<1>1. Surroundings' /\ hellos' <= hellos
  BY DEF JobSteps, RunSettles, PostAccepted, PostRefused, PostFails, PostAgain, Surroundings
<1>2. ChannelAfter
  <2>1. CASE PostRefused(k)
    BY <1>1, <2>1, RefusedGood DEF PostRefused, ChannelAfter
  <2>2. CASE UNCHANGED ch
    BY <1>1, <2>2 DEF ChannelAfter, Good, Quiet
  <2>3. QED
    BY <2>1, <2>2 DEF JobSteps, RunSettles, PostAccepted, PostFails, PostAgain
<1>3. PICK j \in Jobs : /\ job' = [job EXCEPT ![k] = j]
                        /\ j.stage \in {"running", "pausing"} => j.attempt < MaxAttempts
  <2> DEFINE done == [job[k] EXCEPT !.stage = "done"]
  <2>1. done \in Jobs /\ done.stage = "done"
    BY DEF JobsAreGood, Jobs, JobStages
  <2>2. CASE RunSettles(k) \/ PostAgain(k)
    BY <2>2, AttemptJob DEF RunSettles, PostAgain, JobsAreGood, AttemptsAreLeft
  <2>3. CASE PostAccepted(k) \/ PostRefused(k)
    BY <2>1, <2>3 DEF PostAccepted, PostRefused, JobsAreGood
  <2>4. CASE PostFails(k)
    <3>1. PICK expired \in BOOLEAN :
            job' = [job EXCEPT ![k] = IF GivesUp(job[k], expired) THEN done
                                      ELSE [job[k] EXCEPT !.stage = "pausing"]]
      BY <2>4 DEF PostFails
    <3>2. CASE GivesUp(job[k], expired)
      BY <2>1, <3>1, <3>2
    <3>3. CASE ~GivesUp(job[k], expired)
      <4> DEFINE j == [job[k] EXCEPT !.stage = "pausing"]
      <4>1. j \in Jobs /\ j.attempt < MaxAttempts
        BY <3>3 DEF GivesUp, JobsAreGood, Jobs, JobStages
      <4>2. job' = [job EXCEPT ![k] = j]
        BY <3>1, <3>3
      <4> HIDE DEF j
      <4>3. QED
        BY <4>1, <4>2
    <3>4. QED
      BY <3>2, <3>3
  <2>5. QED
    BY <2>2, <2>3, <2>4 DEF JobSteps
<1>4. JobsAreGood'
  BY <1>3 DEF JobsAreGood, AttemptsAreLeft
<1>5. QED
  BY <1>1, <1>2, <1>4

-----------------------------------------------------------------------------
LEMMA InitChannel == ChannelInit => ChannelInv
BY DEF ChannelInit, ChannelInv, ChannelTypeOK, OneLoop, LoopIsSomewhere, ListenerIsRight, NothingArmedOnceOver,
       AttemptsAreLeft, StateOf, LoopStages, States, JobStages, NoJob

LEMMA StepChannel ==
  ASSUME ChannelInv, [ChannelNext]_channelVars
  PROVE  ChannelInv' /\ (ch.stopped \/ ch.unauthorized => hellos' <= hellos /\ ch'.loop # "polling")
<1>1. Good(ch) /\ Surroundings /\ JobsAreGood
  BY ChannelInvParts DEF Surroundings, JobsAreGood
<1>2. Surroundings' /\ JobsAreGood' /\ ChannelAfter
  <2>1. CASE UNCHANGED job /\ ChannelAfter /\ Surroundings'
    BY <1>1, <2>1 DEF JobsAreGood, AttemptsAreLeft
  <2>2. CASE \E new \in SUBSET ChannelCommands : PollAnswers(new)
    BY <1>1, <2>2, CommandsArrive
  <2>3. CASE \E k \in ChannelCommands : JobSteps(k)
    BY <1>1, <2>3, CommandSteps
  <2>4. CASE UNCHANGED channelVars
    BY <1>1, <2>4 DEF channelVars, Surroundings, JobsAreGood, AttemptsAreLeft, ChannelAfter, Good, Quiet, Over
  <2>5. QED
    BY <1>1, <2>1, <2>2, <2>3, <2>4, CalledFromOutside, LoopAndHello DEF ChannelNext
<1>3. ChannelInv'
  <2>1. Good(ch)'
    BY <1>2 DEF ChannelAfter
  <2>2. QED
    BY <1>2, <2>1
       DEF Surroundings, JobsAreGood, ChannelInv, ChannelTypeOK, OneLoop, LoopIsSomewhere, ListenerIsRight,
           NothingArmedOnceOver, Good, Looped, Quiet, Over, Channels, Jobs
<1>4. QED
  BY <1>2, <1>3 DEF ChannelAfter, Over

(* However start, notify, stop, visibility, answers and the posts of any   *)
(* number of commands interleave, BridgeChannel has one poll loop, the     *)
(* listener was told its state, and nothing is armed once it is over.      *)
THEOREM ChannelInvHolds == ChannelSpec => []ChannelInv
<1>1. ChannelInv /\ [ChannelNext]_channelVars => ChannelInv'
  BY StepChannel
<1>2. QED
  BY InitChannel, <1>1, PTL DEF ChannelSpec

(* A stopped or refused channel begins no poll and sends no hello.         *)
THEOREM SilentOnceOverHolds == ChannelSpec => SilentOnceOver
<1>1. ChannelInv /\ [ChannelNext]_channelVars =>
        [ch.stopped \/ ch.unauthorized => hellos' <= hellos /\ ch'.loop # "polling"]_channelVars
  BY StepChannel
<1>2. QED
  BY ChannelInvHolds, <1>1, PTL DEF ChannelSpec, SilentOnceOver
=============================================================================
