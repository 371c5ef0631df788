-------------------------- MODULE PageBridgeProofs --------------------------
(***************************************************************************)
(* For any contract, any calls, commands and suggestions and any number of *)
(* slots: the invariants of the bridge in the page, that whoever waits for *)
(* the visitor's Writ is heard, and that nothing starts once the bridge is *)
(* destroyed.                                                              *)
(***************************************************************************)
EXTENDS PageBridge, SequenceTheorems, FiniteSetTheorems, TLAPS

-----------------------------------------------------------------------------
(* The bridge after each of its methods                                    *)

Facing == {"looking", "shown", "consent"}
LastStage(b) == b.banner[Len(b.banner)]
LastPromise(b) == b.sessionReady[Len(b.sessionReady)]

BannerFits(b) ==
  /\ Len(b.banner) >= 1
  /\ b.generation \in {0, Len(b.banner)}
  /\ LastStage(b) \in Facing => b.generation = Len(b.banner) /\ ~b.destroyed
  /\ b.generation # 0 /\ LastStage(b) = "closing" => b.required = {} /\ b.lacked

PromiseFits(b) ==
  IF b.destroyed THEN ~b.ready /\ b.promise = "rejected"
  ELSE b.promise = IF b.ready THEN "resolved" ELSE "pending"

PastSettled(b) ==
  /\ Len(b.sessionReady) >= 1
  /\ \A n \in 1..Len(b.sessionReady) : b.sessionReady[n] = "pending" => n = Len(b.sessionReady)

(* What holds between the calls a method makes, too.                       *)
Between(b) ==
  /\ b \in Bridges
  /\ BannerFits(b) /\ PromiseFits(b) /\ PastSettled(b)
  /\ b.required # {} => ~b.ended
  /\ b.bannerRevision <= b.sent /\ b.sent <= b.revision

(* What holds once it returned.                                            *)
Whole(b) ==
  /\ Between(b)
  /\ b.session # 0 => LocalKeys \subseteq b.granted
  /\ ~b.destroyed => (b.ready <=> Able(b))
  /\ (b.checked \/ b.ended) /\ b.session = 0 => b.lacked
  /\ LastPromise(b) = "pending" =>
       /\ b.session = 0 /\ ~b.destroyed
       /\ b.generation = Len(b.banner) /\ LastStage(b) \in Facing \cup {"closing"}
  /\ b.session = 0 /\ ~b.ended /\ ~b.destroyed => LastPromise(b) = "pending"

(* What only ever goes on. *)
Further(b, r) ==
  /\ r.required = b.required
  /\ Len(b.sessionReady) <= Len(r.sessionReady)
  /\ b.sent <= r.sent /\ b.revision <= r.revision
  /\ b.lacked => r.lacked
(* Every step but destroy(). *)
GoesOn(b, r) == Further(b, r) /\ (r.destroyed <=> b.destroyed)

SameHistory(b, r) ==
  /\ r.required = b.required /\ r.made = b.made /\ r.refreshing = b.refreshing /\ r.destroyed = b.destroyed
  /\ r.sent = b.sent /\ r.revision = b.revision /\ r.bannerRevision = b.bannerRevision
SameSession(b, r) == r.session = b.session /\ r.granted = b.granted
SameSetup(b, r) == r.required = b.required /\ r.checked = b.checked /\ r.ended = b.ended /\ r.lacked = b.lacked
SameReady(b, r) == r.ready = b.ready /\ r.promise = b.promise
SameBanner(b, r) == r.banner = b.banner /\ r.generation = b.generation
SamePromises(b, r) == r.sessionReady = b.sessionReady

LEMMA GoesOnFurther ==
  ASSUME NEW a \in Bridges, NEW b \in Bridges, NEW c \in Bridges, GoesOn(a, b), GoesOn(b, c)
  PROVE  GoesOn(a, c)
<1>1. \A x \in Bridges : x.sent \in Nat /\ x.revision \in Nat /\ Len(x.sessionReady) \in Nat
  BY DEF Bridges
<1>2. QED
  BY <1>1 DEF GoesOn, Further

LEMMA UpdateReadyIs ==
  ASSUME NEW b, Between(b)
  PROVE  LET r == UpdateReady(b)
         IN  /\ Between(r) /\ (~r.destroyed => (r.ready <=> Able(r)))
             /\ SameHistory(b, r) /\ SameSession(b, r) /\ SameSetup(b, r) /\ SameBanner(b, r) /\ SamePromises(b, r)
<1> DEFINE r == UpdateReady(b)
<1>1. CASE b.destroyed \/ b.ready = Able(b)
  <2>1. r = b
    BY <1>1 DEF UpdateReady
  <2>2. QED
    BY <1>1, <2>1 DEF SameHistory, SameSession, SameSetup, SameBanner, SamePromises, Between, Bridges
<1>2. CASE ~b.destroyed /\ b.ready # Able(b)
  <2> DEFINE a == Able(b)
             p == IF Able(b) THEN Settle(b.promise, "resolved") ELSE "pending"
  <2>1. a \in BOOLEAN /\ p \in Settled /\ p = (IF a THEN "resolved" ELSE "pending")
    BY <1>2 DEF Able, Settle, Settled, Between, PromiseFits, Bridges
  <2>2. r = [b EXCEPT !.ready = a, !.promise = p]
    BY <1>2 DEF UpdateReady
  <2> HIDE DEF a, p, r
  <2>3. /\ r \in Bridges /\ r.ready = a /\ r.promise = p
        /\ SameHistory(b, r) /\ SameSession(b, r) /\ SameSetup(b, r) /\ SameBanner(b, r) /\ SamePromises(b, r)
    BY <2>1, <2>2 DEF Between, Bridges, SameHistory, SameSession, SameSetup, SameBanner, SamePromises
  <2>4. Able(r) = Able(b)
    BY <2>3 DEF Able, SameSession, SameSetup
  <2>5. Between(r)
    BY <1>2, <2>1, <2>3
       DEF Between, BannerFits, LastStage, PromiseFits, PastSettled, SameHistory, SameSetup, SameBanner, SamePromises
  <2>6. r.ready <=> Able(r)
    BY <2>3, <2>4 DEF a
  <2>7. QED
    BY <2>3, <2>5, <2>6 DEF r
<1>3. QED
  BY <1>1, <1>2

LEMMA MarkCheckedIs ==
  ASSUME NEW b, Between(b)
  PROVE  LET r == MarkChecked(b)
         IN  /\ Between(r) /\ r.checked
             /\ (~b.destroyed => (b.ready <=> Able(b))) => (~r.destroyed => (r.ready <=> Able(r)))
             /\ SameHistory(b, r) /\ SameSession(b, r) /\ SameBanner(b, r) /\ SamePromises(b, r)
             /\ r.ended = b.ended /\ r.lacked = b.lacked
<1>1. CASE b.checked
  BY <1>1 DEF MarkChecked, SameHistory, SameSession, SameBanner, SamePromises
<1>2. CASE ~b.checked
  <2> DEFINE c == [b EXCEPT !.checked = TRUE]
  <2>1. /\ c \in Bridges /\ c.checked /\ c.ended = b.ended /\ c.lacked = b.lacked
        /\ SameHistory(b, c) /\ SameSession(b, c) /\ SameBanner(b, c) /\ SamePromises(b, c) /\ SameReady(b, c)
    BY DEF Between, Bridges, SameHistory, SameSession, SameBanner, SamePromises, SameReady
  <2>2. MarkChecked(b) = UpdateReady(c)
    BY <1>2 DEF MarkChecked
  <2> HIDE DEF c
  <2>3. Between(c)
    BY <2>1 DEF Between, BannerFits, LastStage, PromiseFits, PastSettled, SameHistory, SameReady, SameBanner, SamePromises
  <2>4. QED
    BY <2>1, <2>2, <2>3, UpdateReadyIs DEF SameHistory, SameSession, SameSetup, SameBanner, SamePromises
<1>3. QED
  BY <1>1, <1>2

LEMMA SettleTyped ==
  ASSUME NEW b \in Bridges, PastSettled(b), NEW how \in {"resolved", "rejected"}
  PROVE  LET r == SettleSessionReady(b, how)
         IN  /\ r \in Bridges /\ PastSettled(r)
             /\ Len(r.sessionReady) = Len(b.sessionReady) /\ LastPromise(r) # "pending"
             /\ SameHistory(b, r) /\ SameSession(b, r) /\ SameSetup(b, r) /\ SameBanner(b, r) /\ SameReady(b, r)
<1> DEFINE n == Len(b.sessionReady)
           x == Settle(b.sessionReady[n], how)
           sr == [b.sessionReady EXCEPT ![n] = x]
           r == SettleSessionReady(b, how)
<1>1. b.sessionReady \in Seq(Settled) /\ n \in 1..n
  BY DEF Bridges, PastSettled
<1>2. x \in Settled /\ x # "pending"
  BY <1>1, ElementOfSeq DEF Settle, Settled
<1>3. sr \in Seq(Settled) /\ Len(sr) = n /\ sr[n] = x /\ \A i \in 1..n : i # n => sr[i] = b.sessionReady[i]
  BY <1>1, <1>2, ExceptSeq
<1>4. r = [b EXCEPT !.sessionReady = sr]
  BY <1>1 DEF SettleSessionReady, Bridges
<1> HIDE DEF sr, r, x
<1>5. /\ r \in Bridges /\ r.sessionReady = sr
      /\ SameHistory(b, r) /\ SameSession(b, r) /\ SameSetup(b, r) /\ SameBanner(b, r) /\ SameReady(b, r)
  BY <1>1, <1>3, <1>4 DEF Bridges, SameHistory, SameSession, SameSetup, SameBanner, SameReady
<1>6. PastSettled(r)
  BY <1>1, <1>2, <1>3, <1>5 DEF PastSettled
<1>7. QED
  BY <1>2, <1>3, <1>5, <1>6 DEF r, LastPromise

LEMMA SettleIs ==
  ASSUME NEW b, Between(b), NEW how \in {"resolved", "rejected"}
  PROVE  LET r == SettleSessionReady(b, how)
         IN  /\ Between(r) /\ Len(r.sessionReady) = Len(b.sessionReady) /\ LastPromise(r) # "pending"
             /\ SameHistory(b, r) /\ SameSession(b, r) /\ SameSetup(b, r) /\ SameBanner(b, r) /\ SameReady(b, r)
<1> DEFINE r == SettleSessionReady(b, how)
<1>1. /\ r \in Bridges /\ PastSettled(r)
      /\ Len(r.sessionReady) = Len(b.sessionReady) /\ LastPromise(r) # "pending"
      /\ SameHistory(b, r) /\ SameSession(b, r) /\ SameSetup(b, r) /\ SameBanner(b, r) /\ SameReady(b, r)
  BY SettleTyped DEF Between
<1> HIDE DEF r
<1>2. Between(r)
  BY <1>1 DEF Between, BannerFits, LastStage, PromiseFits, SameHistory, SameSetup, SameBanner, SameReady
<1>3. QED
  BY <1>1, <1>2 DEF r

LEMMA RemoveBannerIs ==
  ASSUME NEW b \in Bridges, Len(b.banner) >= 1
  PROVE  LET r == RemoveBanner(b)
         IN  /\ r \in Bridges /\ Len(r.banner) = Len(b.banner) /\ LastStage(r) \in {"closing", "over"}
             /\ r.generation = b.generation
             /\ SameHistory(b, r) /\ SameSession(b, r) /\ SameSetup(b, r) /\ SameReady(b, r) /\ SamePromises(b, r)
<1> DEFINE n == Len(b.banner)
           x == IF b.banner[n] = "closing" THEN b.banner[n] ELSE Removed(b.banner[n])
           bs == [b.banner EXCEPT ![n] = x]
           r == RemoveBanner(b)
<1>1. b.banner \in Seq(BannerStages) /\ n \in 1..n
  BY DEF Bridges
<1>2. x \in {"closing", "over"} /\ x \in BannerStages
  BY DEF Removed, BannerStages
<1>3. bs \in Seq(BannerStages) /\ Len(bs) = n /\ bs[n] = x
  BY <1>1, <1>2, ExceptSeq
<1>4. r = [b EXCEPT !.banner = bs]
  BY <1>1 DEF RemoveBanner, Bridges
<1> HIDE DEF bs, r, x
<1>5. /\ r \in Bridges /\ r.banner = bs /\ r.generation = b.generation
      /\ SameHistory(b, r) /\ SameSession(b, r) /\ SameSetup(b, r) /\ SameReady(b, r) /\ SamePromises(b, r)
  BY <1>3, <1>4 DEF Bridges, SameHistory, SameSession, SameSetup, SameReady, SamePromises
<1>6. QED
  BY <1>2, <1>3, <1>5 DEF r, LastStage

(* A banner is started: the one before it is not heard any more.           *)
LEMMA StartLocalIs ==
  ASSUME NEW b, Between(b), ~b.destroyed
  PROVE  LET r == StartLocal(b)
         IN  /\ Between(r) /\ r.generation = Len(r.banner) /\ LastStage(r) = "looking"
             /\ SameHistory(b, r) /\ SameSession(b, r) /\ SameSetup(b, r) /\ SameReady(b, r) /\ SamePromises(b, r)
<1> DEFINE a == RemoveBanner(b)
           g == Len(a.banner) + 1
           bs == Append(a.banner, "looking")
           r == StartLocal(b)
<1>1. /\ a \in Bridges /\ Len(a.banner) >= 1
      /\ SameHistory(b, a) /\ SameSession(b, a) /\ SameSetup(b, a) /\ SameReady(b, a) /\ SamePromises(b, a)
  BY RemoveBannerIs DEF Between, BannerFits, SameHistory
<1>2. r = [a EXCEPT !.generation = g, !.banner = bs]
  BY <1>1 DEF StartLocal, Bridges
<1> HIDE DEF a
<1>3. bs \in Seq(BannerStages) /\ Len(bs) = g /\ bs[g] = "looking" /\ g \in Nat /\ g >= 1
  BY <1>1, AppendProperties DEF Bridges, BannerStages
<1> HIDE DEF bs, g, r
<1>4. /\ r \in Bridges /\ r.banner = bs /\ r.generation = g
      /\ SameHistory(a, r) /\ SameSession(a, r) /\ SameSetup(a, r) /\ SameReady(a, r) /\ SamePromises(a, r)
  BY <1>1, <1>2, <1>3 DEF Bridges, SameHistory, SameSession, SameSetup, SameReady, SamePromises
<1>5. /\ SameHistory(b, r) /\ SameSession(b, r) /\ SameSetup(b, r) /\ SameReady(b, r) /\ SamePromises(b, r)
  BY <1>1, <1>4 DEF SameHistory, SameSession, SameSetup, SameReady, SamePromises
<1>6. Between(r)
  <2>1. BannerFits(r)
    BY <1>3, <1>4, <1>5 DEF BannerFits, LastStage, Facing, SameHistory
  <2>2. PromiseFits(r) /\ PastSettled(r)
    BY <1>5 DEF Between, PromiseFits, PastSettled, SameHistory, SameReady, SamePromises
  <2>3. QED
    BY <1>4, <1>5, <2>1, <2>2 DEF Between, SameHistory, SameSetup
<1>7. QED
  BY <1>3, <1>4, <1>5, <1>6 DEF r, LastStage

(* A session is adopted: whoever waits for one is told.                    *)
LEMMA AdoptWhole ==
  ASSUME NEW b, Between(b), ~b.destroyed, NEW s \in 1..MaxSessions
  PROVE  LET r == Adopt(b, s, LocalKeys)
         IN  Whole(r) /\ GoesOn(b, r) /\ SameHistory(b, r) /\ r.session = s
<1> DEFINE c == [b EXCEPT !.session = s, !.granted = LocalKeys]
           d == MarkChecked(c)
           e == SettleSessionReady(d, "resolved")
           r == UpdateReady(e)
<1>1. /\ c \in Bridges /\ c.session = s /\ c.granted = LocalKeys
      /\ SameHistory(b, c) /\ SameSetup(b, c) /\ SameReady(b, c) /\ SameBanner(b, c) /\ SamePromises(b, c)
  <2>1. s \in 0..MaxSessions
    BY ConstantsAssumption
  <2>2. QED
    BY <2>1 DEF Between, Bridges, SameHistory, SameSetup, SameReady, SameBanner, SamePromises
<1>2. Adopt(b, s, LocalKeys) = r
  BY DEF Adopt
<1> HIDE DEF c
<1>3. Between(c)
  BY <1>1 DEF Between, BannerFits, LastStage, PromiseFits, PastSettled, SameHistory, SameSetup, SameReady, SameBanner, SamePromises
<1>4. /\ Between(d) /\ d.checked /\ d.lacked = b.lacked
      /\ SameHistory(b, d) /\ SameSession(c, d) /\ SamePromises(b, d)
  BY <1>1, <1>3, MarkCheckedIs DEF SameHistory, SameSetup, SamePromises
<1> HIDE DEF d
<1>5. /\ Between(e) /\ LastPromise(e) # "pending" /\ Len(e.sessionReady) = Len(b.sessionReady) /\ e.lacked = b.lacked
      /\ SameHistory(b, e) /\ SameSession(c, e)
  BY <1>4, SettleIs DEF SameHistory, SameSession, SameSetup, SamePromises
<1> HIDE DEF e
<1>6. /\ Between(r) /\ (~r.destroyed => (r.ready <=> Able(r)))
      /\ LastPromise(r) # "pending" /\ Len(r.sessionReady) = Len(b.sessionReady) /\ r.lacked = b.lacked
      /\ SameHistory(b, r) /\ r.session = s /\ r.granted = LocalKeys
  BY <1>1, <1>5, UpdateReadyIs DEF SameHistory, SameSession, SameSetup, SamePromises, LastPromise
<1> HIDE DEF r
<1>7. Whole(r)
  BY <1>6 DEF Whole
<1>8. GoesOn(b, r)
  BY <1>6 DEF GoesOn, Further, SameHistory, Between, Bridges
<1>9. QED
  BY <1>2, <1>6, <1>7, <1>8

(* The setup ends without a session: whoever waits for one is told.        *)
LEMMA EndLocalWhole ==
  ASSUME NEW b, Between(b), ~b.destroyed, b.required = {}, b.lacked,
         b.session # 0 => LocalKeys \subseteq b.granted
  PROVE  LET r == EndLocal(b)
         IN  Whole(r) /\ GoesOn(b, r) /\ SameHistory(b, r)
<1> DEFINE c == [b EXCEPT !.ended = TRUE]
           d == MarkChecked(c)
           e == SettleSessionReady(d, "rejected")
           r == UpdateReady(e)
<1>1. /\ c \in Bridges /\ c.ended /\ c.lacked
      /\ SameHistory(b, c) /\ SameSession(b, c) /\ SameReady(b, c) /\ SameBanner(b, c) /\ SamePromises(b, c)
  BY DEF Between, Bridges, SameHistory, SameSession, SameReady, SameBanner, SamePromises
<1> HIDE DEF c
<1>2. Between(c)
  BY <1>1 DEF Between, BannerFits, LastStage, PromiseFits, PastSettled, SameHistory, SameReady, SameBanner, SamePromises
<1>3. /\ Between(d) /\ d.lacked /\ d.ended
      /\ SameHistory(b, d) /\ SameSession(b, d) /\ SamePromises(b, d)
  BY <1>1, <1>2, MarkCheckedIs DEF SameHistory, SameSession, SamePromises
<1> HIDE DEF d
<1>4. /\ Between(e) /\ LastPromise(e) # "pending" /\ Len(e.sessionReady) = Len(b.sessionReady) /\ e.lacked /\ e.ended
      /\ SameHistory(b, e) /\ SameSession(b, e)
  BY <1>3, SettleIs DEF SameHistory, SameSession, SameSetup, SamePromises
<1> HIDE DEF e
<1>5. EndLocal(b) = r
  <2>1. e.required = {}
    BY <1>4 DEF SameHistory
  <2>2. EndLocal(b) = IF e.required # {} /\ ~e.ready THEN [e EXCEPT !.promise = Settle(@, "rejected")] ELSE r
    BY DEF EndLocal, c, d, e
  <2>3. QED
    BY <2>1, <2>2
<1>6. /\ Between(r) /\ (~r.destroyed => (r.ready <=> Able(r)))
      /\ LastPromise(r) # "pending" /\ Len(r.sessionReady) = Len(b.sessionReady) /\ r.lacked /\ r.ended
      /\ SameHistory(b, r) /\ SameSession(b, r)
  BY <1>4, UpdateReadyIs DEF SameHistory, SameSession, SameSetup, SamePromises, LastPromise
<1> HIDE DEF r
<1>7. Whole(r)
  BY <1>6 DEF Whole, SameSession
<1>8. GoesOn(b, r)
  BY <1>6 DEF GoesOn, Further, SameHistory, Between, Bridges
<1>9. QED
  BY <1>5, <1>6, <1>7, <1>8

(* The session is dropped, and the visitor is set up again.                *)
LEMMA ResetLocalWhole ==
  ASSUME NEW b, Between(b), ~b.destroyed, LastPromise(b) # "pending"
  PROVE  LET r == ResetLocal(b)
         IN  Whole(r) /\ GoesOn(b, r) /\ SameHistory(b, r)
<1> DEFINE sr == Append(b.sessionReady, "pending")
           none == 0
           c == [b EXCEPT !.session = none, !.granted = {}, !.lacked = TRUE, !.sessionReady = sr]
           d == UpdateReady(c)
           r == StartLocal(d)
<1>1. /\ b.sessionReady \in Seq(Settled)
      /\ sr \in Seq(Settled) /\ Len(sr) = Len(b.sessionReady) + 1 /\ sr[Len(sr)] = "pending"
      /\ \A n \in 1..Len(b.sessionReady) : sr[n] = b.sessionReady[n]
  BY AppendProperties DEF Between, Bridges, Settled
<1>2. ResetLocal(b) = r
  BY DEF ResetLocal, Between, Bridges
<1>3. none \in 0..MaxSessions /\ none = 0
  BY ConstantsAssumption
<1> HIDE DEF sr, none
<1>4. /\ c \in Bridges /\ c.session = 0 /\ c.lacked /\ c.sessionReady = sr /\ c.ended = b.ended
      /\ SameHistory(b, c) /\ SameReady(b, c) /\ SameBanner(b, c)
  BY <1>1, <1>3 DEF Between, Bridges, SameHistory, SameReady, SameBanner
<1> HIDE DEF c
<1>5. PastSettled(c)
  <2>1. Len(b.sessionReady) \in Nat /\ Len(b.sessionReady) >= 1
    BY <1>1 DEF Between, PastSettled
  <2>2. \A n \in 1..Len(b.sessionReady) : b.sessionReady[n] # "pending"
    BY DEF Between, PastSettled, LastPromise
  <2>3. QED
    BY <1>1, <1>4, <2>1, <2>2 DEF PastSettled
<1>6. Between(c)
  <2>1. BannerFits(c)
    BY <1>4 DEF Between, BannerFits, LastStage, SameHistory, SameBanner
  <2>2. PromiseFits(c)
    BY <1>4 DEF Between, PromiseFits, SameHistory, SameReady
  <2>3. QED
    BY <1>4, <1>5, <2>1, <2>2 DEF Between, SameHistory
<1>7. /\ Between(d) /\ (~d.destroyed => (d.ready <=> Able(d)))
      /\ d.session = 0 /\ d.lacked /\ d.sessionReady = sr /\ SameHistory(b, d)
  BY <1>4, <1>6, UpdateReadyIs DEF SameHistory, SameSession, SameSetup, SamePromises
<1> HIDE DEF d
<1>8. /\ Between(r) /\ r.generation = Len(r.banner) /\ LastStage(r) = "looking"
      /\ SameSession(d, r) /\ SameSetup(d, r) /\ SameReady(d, r)
      /\ r.session = 0 /\ r.lacked /\ r.sessionReady = sr /\ SameHistory(b, r)
  BY <1>7, StartLocalIs DEF SameHistory, SameSession, SameSetup, SamePromises
<1> HIDE DEF r
<1>9. ~r.destroyed /\ (r.ready <=> Able(r))
  BY <1>7, <1>8 DEF SameHistory, Able, SameSession, SameSetup, SameReady
<1>10. Whole(r)
  BY <1>1, <1>8, <1>9 DEF Whole, LastPromise, Facing
<1>11. GoesOn(b, r)
  BY <1>1, <1>8 DEF GoesOn, Further, SameHistory, Between, Bridges
<1>12. QED
  BY <1>2, <1>8, <1>10, <1>11

LEMMA ReplaceSessionWhole ==
  ASSUME NEW b, Whole(b), NEW s \in 1..MaxSessions, NEW keys \in SUBSET LocalKeys
  PROVE  LET r == ReplaceSession(b, s, keys)
         IN  Whole(r) /\ GoesOn(b, r) /\ SameHistory(b, r)
<1> DEFINE r == ReplaceSession(b, s, keys)
<1>1. CASE b.destroyed \/ (b.session = 0 /\ ~(LocalKeys \subseteq keys))
  <2>1. r = b
    BY <1>1 DEF ReplaceSession
  <2>2. QED
    BY <2>1 DEF Whole, Between, Bridges, GoesOn, Further, SameHistory
<1>2. CASE ~b.destroyed /\ b.session = 0 /\ LocalKeys \subseteq keys
  <2> DEFINE a == RemoveBanner(b)
             c == [a EXCEPT !.generation = 0]
  <2>1. keys = LocalKeys
    BY <1>2
  <2>2. /\ a \in Bridges /\ Len(a.banner) = Len(b.banner) /\ LastStage(a) \in {"closing", "over"}
        /\ SameHistory(b, a) /\ SameSession(b, a) /\ SameSetup(b, a) /\ SameReady(b, a) /\ SamePromises(b, a)
    BY RemoveBannerIs DEF Whole, Between, BannerFits, SameHistory
  <2>3. r = Adopt(c, s, LocalKeys)
    BY <1>2, <2>1 DEF ReplaceSession
  <2> HIDE DEF a
  <2>4. /\ c \in Bridges /\ c.generation = 0 /\ c.banner = a.banner
        /\ SameHistory(a, c) /\ SameSession(a, c) /\ SameSetup(a, c) /\ SameReady(a, c) /\ SamePromises(a, c)
    BY <2>2 DEF Bridges, SameHistory, SameSession, SameSetup, SameReady, SamePromises
  <2> HIDE DEF c
  <2>5. /\ SameHistory(b, c) /\ SameSetup(b, c) /\ SameReady(b, c) /\ SamePromises(b, c)
    BY <2>2, <2>4 DEF SameHistory, SameSetup, SameReady, SamePromises
  <2>6. BannerFits(c)
    BY <2>2, <2>4 DEF Whole, Between, BannerFits, LastStage, Facing
  <2>7. Between(c)
    BY <2>4, <2>5, <2>6 DEF Whole, Between, PromiseFits, PastSettled, SameHistory, SameSetup, SameReady, SamePromises
  <2>8. ~c.destroyed
    BY <1>2, <2>5 DEF SameHistory
  <2> HIDE DEF r
  <2>9. Whole(r) /\ GoesOn(c, r) /\ SameHistory(c, r)
    BY <2>3, <2>7, <2>8, AdoptWhole
  <2>10. GoesOn(b, r) /\ SameHistory(b, r)
    BY <2>5, <2>9 DEF GoesOn, Further, SameHistory, SameSetup, SamePromises
  <2>11. QED
    BY <2>9, <2>10 DEF r
<1>3. CASE ~b.destroyed /\ b.session # 0 /\ LocalKeys \subseteq keys
  <2> DEFINE c == [b EXCEPT !.session = s, !.granted = keys]
  <2>1. s \in 0..MaxSessions /\ s # 0
    BY ConstantsAssumption
  <2>2. /\ c \in Bridges /\ c.session = s /\ c.granted = keys
        /\ SameHistory(b, c) /\ SameSetup(b, c) /\ SameReady(b, c) /\ SameBanner(b, c) /\ SamePromises(b, c)
    BY <2>1 DEF Whole, Between, Bridges, SameHistory, SameSetup, SameReady, SameBanner, SamePromises
  <2>3. r = UpdateReady(c)
    BY <1>3 DEF ReplaceSession
  <2> HIDE DEF c
  <2>4. Between(c)
    <3>1. BannerFits(c)
      BY <2>2 DEF Whole, Between, BannerFits, LastStage, SameHistory, SameSetup, SameBanner
    <3>2. QED
      BY <2>2, <3>1 DEF Whole, Between, PromiseFits, PastSettled, SameHistory, SameSetup, SameReady, SamePromises
  <2> HIDE DEF r
  <2>5. /\ Between(r) /\ (~r.destroyed => (r.ready <=> Able(r)))
        /\ SameHistory(c, r) /\ SameSession(c, r) /\ SameSetup(c, r) /\ SamePromises(c, r)
    BY <2>3, <2>4, UpdateReadyIs
  <2>6. LastPromise(r) # "pending" /\ r.session # 0 /\ LocalKeys \subseteq r.granted
    BY <1>3, <2>1, <2>2, <2>5 DEF Whole, LastPromise, SamePromises, SameSession
  <2>7. Whole(r)
    BY <2>5, <2>6 DEF Whole
  <2>8. GoesOn(b, r) /\ SameHistory(b, r)
    BY <2>2, <2>5 DEF GoesOn, Further, SameHistory, SameSetup, SamePromises, Whole, Between, Bridges
  <2>9. QED
    BY <2>7, <2>8 DEF r
<1>4. CASE ~b.destroyed /\ b.session # 0 /\ ~(LocalKeys \subseteq keys)
  <2>1. r = ResetLocal(b)
    BY <1>4 DEF ReplaceSession
  <2>2. Between(b) /\ LastPromise(b) # "pending"
    BY <1>4 DEF Whole
  <2>3. QED
    BY <1>4, <2>1, <2>2, ResetLocalWhole
<1>5. QED
  BY <1>1, <1>2, <1>3, <1>4

(* The steps that change fields nothing else looks at.                     *)
LEMMA TouchWhole ==
  ASSUME NEW b, Whole(b), NEW c \in Bridges,
         SameSession(b, c), SameSetup(b, c), SameReady(b, c), SameBanner(b, c), SamePromises(b, c),
         c.destroyed = b.destroyed, c.bannerRevision <= c.sent, c.sent <= c.revision
  PROVE  Whole(c)
<1>1. BannerFits(c)
  BY DEF Whole, Between, BannerFits, LastStage, SameSetup, SameBanner
<1>2. PromiseFits(c) /\ PastSettled(c)
  BY DEF Whole, Between, PromiseFits, PastSettled, SameReady, SamePromises
<1>3. Between(c)
  BY <1>1, <1>2 DEF Whole, Between, SameSetup
<1>4. Able(c) = Able(b) /\ LastPromise(c) = LastPromise(b) /\ LastStage(c) = LastStage(b)
  BY DEF Able, LastPromise, LastStage, SameSession, SameSetup, SameBanner, SamePromises
<1>5. QED
  BY <1>3, <1>4 DEF Whole, SameSession, SameSetup, SameReady, SameBanner

-----------------------------------------------------------------------------
(* The steps of the banner                                                 *)

LEMMA BannerToIs ==
  ASSUME bridge \in Bridges, BannerFits(bridge), NEW stage \in BannerStages
  PROVE  LET r == BannerTo(bridge, stage)
         IN  /\ r \in Bridges /\ Len(r.banner) = Len(bridge.banner) /\ LastStage(r) = stage
             /\ r.generation = bridge.generation
             /\ SameHistory(bridge, r) /\ SameSession(bridge, r) /\ SameSetup(bridge, r)
             /\ SameReady(bridge, r) /\ SamePromises(bridge, r)
<1> DEFINE n == Len(bridge.banner)
           bs == [bridge.banner EXCEPT ![n] = stage]
           r == BannerTo(bridge, stage)
<1>1. bridge.banner \in Seq(BannerStages) /\ n \in 1..n
  BY DEF Bridges, BannerFits
<1>2. bs \in Seq(BannerStages) /\ Len(bs) = n /\ bs[n] = stage
  BY <1>1, ExceptSeq
<1>3. r = [bridge EXCEPT !.banner = bs]
  BY <1>1 DEF BannerTo, Current, Bridges
<1> HIDE DEF bs, r
<1>4. /\ r \in Bridges /\ r.banner = bs /\ r.generation = bridge.generation
      /\ SameHistory(bridge, r) /\ SameSession(bridge, r) /\ SameSetup(bridge, r)
      /\ SameReady(bridge, r) /\ SamePromises(bridge, r)
  BY <1>2, <1>3 DEF Bridges, SameHistory, SameSession, SameSetup, SameReady, SamePromises
<1>5. QED
  BY <1>2, <1>4 DEF r, LastStage

(* The banner that faces the visitor goes to another stage, and nothing    *)
(* else happens but that Writ may be found wanting.                        *)
LEMMA StageBetween ==
  ASSUME Whole(bridge), LastStage(bridge) \in Facing,
         NEW stage \in BannerStages \ {"none"}, NEW c \in Bridges,
         LET r == BannerTo(bridge, stage)
         IN  /\ SameBanner(r, c) /\ SameReady(r, c) /\ SamePromises(r, c) /\ SameSession(r, c)
             /\ c.required = r.required /\ c.ended = r.ended /\ c.destroyed = r.destroyed /\ (r.lacked => c.lacked),
         stage = "closing" => c.required = {} /\ c.lacked,
         c.bannerRevision <= c.sent, c.sent <= c.revision
  PROVE  /\ Between(c) /\ ~c.destroyed /\ c.generation = Len(c.banner) /\ LastStage(c) = stage
         /\ SameReady(bridge, c) /\ SamePromises(bridge, c) /\ SameSession(bridge, c)
         /\ c.required = bridge.required /\ c.ended = bridge.ended /\ (bridge.lacked => c.lacked)
<1> DEFINE r == BannerTo(bridge, stage)
<1>1. /\ r \in Bridges /\ Len(r.banner) = Len(bridge.banner) /\ LastStage(r) = stage
      /\ r.generation = bridge.generation
      /\ SameHistory(bridge, r) /\ SameSession(bridge, r) /\ SameSetup(bridge, r)
      /\ SameReady(bridge, r) /\ SamePromises(bridge, r)
  BY BannerToIs DEF Whole, Between
<1>2. bridge.generation = Len(bridge.banner) /\ ~bridge.destroyed
  BY DEF Whole, Between, BannerFits
<1> HIDE DEF r
<1>3. /\ c.generation = Len(c.banner) /\ LastStage(c) = stage /\ ~c.destroyed /\ Len(c.banner) >= 1
  BY <1>1, <1>2 DEF r, SameBanner, SameHistory, LastStage, Whole, Between, BannerFits
<1>4. /\ SameReady(bridge, c) /\ SamePromises(bridge, c) /\ SameSession(bridge, c)
      /\ c.required = bridge.required /\ c.ended = bridge.ended /\ (bridge.lacked => c.lacked)
  BY <1>1 DEF r, SameReady, SamePromises, SameSession, SameSetup
<1>5. BannerFits(c)
  BY <1>3 DEF BannerFits
<1>6. PromiseFits(c) /\ PastSettled(c)
  BY <1>2, <1>3, <1>4 DEF Whole, Between, PromiseFits, PastSettled, SameReady, SamePromises
<1>7. QED
  BY <1>3, <1>4, <1>5, <1>6 DEF Whole, Between

LEMMA BannerPendingKeeps ==
  ASSUME Whole(bridge), BannerPending
  PROVE  Whole(bridge') /\ GoesOn(bridge, bridge')
<1> DEFINE a == BannerTo(bridge, "shown")
           c == [a EXCEPT !.lacked = TRUE]
<1>1. LastStage(bridge) \in Facing
  BY DEF BannerPending, BannerAt, Current, LastStage, Facing
<1>2. /\ a \in Bridges /\ SameHistory(bridge, a) /\ a.ended = bridge.ended
  BY BannerToIs DEF Whole, Between, BannerStages, SameSetup
<1>3. bridge' = MarkChecked(c)
  BY DEF BannerPending
<1> HIDE DEF a
<1>4. /\ c \in Bridges /\ c.lacked /\ SameBanner(a, c) /\ SameReady(a, c) /\ SamePromises(a, c)
      /\ SameSession(a, c) /\ SameHistory(a, c) /\ c.ended = a.ended /\ c.checked = a.checked
  BY <1>2 DEF Bridges, SameBanner, SameReady, SamePromises, SameSession, SameHistory
<1> HIDE DEF c
<1>5. SameHistory(bridge, c) /\ c.bannerRevision <= c.sent /\ c.sent <= c.revision
  BY <1>2, <1>4 DEF SameHistory, Whole, Between
<1>6. /\ Between(c) /\ ~c.destroyed /\ c.generation = Len(c.banner) /\ LastStage(c) = "shown"
      /\ SameReady(bridge, c) /\ SamePromises(bridge, c) /\ SameSession(bridge, c) /\ c.ended = bridge.ended
  BY <1>1, <1>4, <1>5, StageBetween DEF a, SameHistory, BannerStages
<1>7. c.checked = bridge.checked
  BY <1>4, BannerToIs DEF a, Whole, Between, BannerStages, SameSetup
<1>8. ~c.destroyed => (c.ready <=> Able(c))
  BY <1>5, <1>6, <1>7 DEF Whole, Able, SameReady, SameSession, SameHistory
<1>9. /\ Between(bridge') /\ (~bridge'.destroyed => (bridge'.ready <=> Able(bridge')))
      /\ SameHistory(c, bridge') /\ SameSession(c, bridge') /\ SameBanner(c, bridge') /\ SamePromises(c, bridge')
      /\ bridge'.ended = c.ended /\ bridge'.lacked
  BY <1>3, <1>4, <1>6, <1>8, MarkCheckedIs
<1>10. /\ SameSession(bridge, bridge') /\ SamePromises(bridge, bridge') /\ SameHistory(bridge, bridge')
       /\ bridge'.generation = Len(bridge'.banner) /\ LastStage(bridge') = "shown" /\ ~bridge'.destroyed
       /\ bridge'.ended = bridge.ended
  BY <1>5, <1>6, <1>9 DEF SameSession, SamePromises, SameHistory, SameBanner, LastStage
<1>11. Whole(bridge')
  BY <1>9, <1>10 DEF Whole, LastPromise, SameSession, SamePromises, SameHistory, Facing
<1>12. GoesOn(bridge, bridge')
  BY <1>9, <1>10 DEF GoesOn, Further, SameHistory, SamePromises, Whole, Between, Bridges
<1>13. QED
  BY <1>11, <1>12

(* The banner hands a session over.                                        *)
LEMMA HandOverKeeps ==
  ASSUME Whole(bridge), LastStage(bridge) \in Facing, CanMake,
         bridge' = Adopt([BannerTo(bridge, "handed") EXCEPT !.made = @ + 1], NewSession, LocalKeys)
  PROVE  Whole(bridge') /\ GoesOn(bridge, bridge')
<1> DEFINE a == BannerTo(bridge, "handed")
           m == bridge.made + 1
           c == [a EXCEPT !.made = m]
<1>1. a \in Bridges /\ SameHistory(bridge, a) /\ SameSetup(bridge, a)
  BY BannerToIs DEF Whole, Between, BannerStages
<1>2. m \in 1..MaxSessions /\ m \in 0..MaxSessions /\ a.made = bridge.made
  <2>1. MaxSessions \in Nat
    BY ConstantsAssumption
  <2>2. bridge.made \in 0..MaxSessions /\ bridge.made < MaxSessions
    BY DEF CanMake, Whole, Between, Bridges
  <2>3. QED
    BY <1>1, <2>1, <2>2 DEF SameHistory
<1>3. bridge' = Adopt(c, m, LocalKeys)
  BY <1>1, <1>2 DEF NewSession
<1> HIDE DEF a, m
<1>4. /\ c \in Bridges /\ SameBanner(a, c) /\ SameReady(a, c) /\ SamePromises(a, c) /\ SameSession(a, c)
      /\ SameSetup(a, c) /\ c.destroyed = a.destroyed
      /\ c.sent = a.sent /\ c.revision = a.revision /\ c.bannerRevision = a.bannerRevision
  BY <1>1, <1>2 DEF Bridges, SameBanner, SameReady, SamePromises, SameSession, SameSetup
<1> HIDE DEF c
<1>5. /\ c.sent = bridge.sent /\ c.revision = bridge.revision /\ c.bannerRevision = bridge.bannerRevision
      /\ c.bannerRevision <= c.sent /\ c.sent <= c.revision
  BY <1>1, <1>4 DEF SameHistory, Whole, Between
<1>6. Between(c) /\ ~c.destroyed /\ SamePromises(bridge, c) /\ (bridge.lacked => c.lacked) /\ ~bridge.destroyed
      /\ c.required = bridge.required
  BY <1>1, <1>4, <1>5, StageBetween DEF a, BannerStages, SameSetup, SameHistory
<1>7. Whole(bridge') /\ GoesOn(c, bridge')
  BY <1>2, <1>3, <1>6, AdoptWhole
<1>8. QED
  BY <1>5, <1>6, <1>7 DEF GoesOn, Further, SamePromises

LEMMA BannerAsksKeeps ==
  ASSUME Whole(bridge), BannerAsks \/ BannerDeclined \/ BannerDismissed
  PROVE  Whole(bridge') /\ GoesOn(bridge, bridge')
<1>1. PICK stage \in {"consent", "shown", "closing"} :
        LET a == BannerTo(bridge, stage)
        IN  /\ LastStage(bridge) \in Facing
            /\ stage = "closing" => bridge.required = {}
            /\ bridge' = IF stage = "consent"
                         THEN [a EXCEPT !.bannerRevision = bridge.revision, !.sent = bridge.revision]
                         ELSE IF stage = "closing" THEN [a EXCEPT !.lacked = TRUE] ELSE a
  BY DEF BannerAsks, BannerDeclined, BannerDismissed, BannerAt, Current, LastStage, Facing
<1> DEFINE a == BannerTo(bridge, stage)
<1>2. stage \in BannerStages \ {"none"}
  BY DEF BannerStages
<1>3. a \in Bridges /\ SameHistory(bridge, a) /\ SameSetup(bridge, a)
  BY <1>2, BannerToIs DEF Whole, Between
<1>4. bridge' = IF stage = "consent"
                THEN [a EXCEPT !.bannerRevision = bridge.revision, !.sent = bridge.revision]
                ELSE IF stage = "closing" THEN [a EXCEPT !.lacked = TRUE] ELSE a
  BY <1>1
<1> HIDE DEF a
<1>5. bridge.revision \in Nat /\ bridge.sent \in Nat /\ bridge.bannerRevision \in Nat
      /\ bridge.bannerRevision <= bridge.sent /\ bridge.sent <= bridge.revision
  BY DEF Whole, Between, Bridges
<1>6. /\ bridge' \in Bridges /\ SameBanner(a, bridge') /\ SameReady(a, bridge') /\ SamePromises(a, bridge')
      /\ SameSession(a, bridge') /\ bridge'.required = a.required /\ bridge'.ended = a.ended /\ bridge'.checked = a.checked
      /\ bridge'.destroyed = a.destroyed /\ (a.lacked => bridge'.lacked) /\ (stage = "closing" => bridge'.lacked)
      /\ bridge'.revision = a.revision
      /\ bridge'.sent = (IF stage = "consent" THEN bridge.revision ELSE a.sent)
      /\ bridge'.bannerRevision = (IF stage = "consent" THEN bridge.revision ELSE a.bannerRevision)
  <2>1. CASE stage = "consent"
    BY <1>3, <1>4, <1>5, <2>1 DEF Bridges, SameBanner, SameReady, SamePromises, SameSession
  <2>2. CASE stage = "closing"
    BY <1>3, <1>4, <2>2 DEF Bridges, SameBanner, SameReady, SamePromises, SameSession
  <2>3. CASE stage = "shown"
    BY <1>3, <1>4, <2>3 DEF Bridges, SameBanner, SameReady, SamePromises, SameSession
  <2>4. QED
    BY <2>1, <2>2, <2>3
<1>7. /\ bridge'.bannerRevision <= bridge'.sent /\ bridge'.sent <= bridge'.revision
      /\ bridge.sent <= bridge'.sent /\ bridge.revision <= bridge'.revision
  BY <1>3, <1>5, <1>6 DEF SameHistory
<1>8. /\ Between(bridge') /\ ~bridge'.destroyed /\ bridge'.generation = Len(bridge'.banner) /\ LastStage(bridge') = stage
      /\ SameReady(bridge, bridge') /\ SamePromises(bridge, bridge') /\ SameSession(bridge, bridge')
      /\ bridge'.required = bridge.required /\ bridge'.ended = bridge.ended /\ (bridge.lacked => bridge'.lacked)
  <2>1. bridge'.required = bridge.required
    BY <1>3, <1>6 DEF SameSetup
  <2>2. QED
    BY <1>1, <1>2, <1>6, <1>7, <2>1, StageBetween DEF a
<1>9. bridge'.checked = bridge.checked /\ bridge'.destroyed = bridge.destroyed
  BY <1>3, <1>6 DEF SameSetup, SameHistory
<1>10. ~bridge'.destroyed => (bridge'.ready <=> Able(bridge'))
  BY <1>8, <1>9 DEF Whole, Able, SameReady, SameSession
<1>11. Whole(bridge')
  BY <1>1, <1>8, <1>9, <1>10 DEF Whole, LastPromise, SameSession, SamePromises, Facing
<1>12. GoesOn(bridge, bridge')
  BY <1>7, <1>8, <1>9 DEF GoesOn, Further, SamePromises, Whole, Between, Bridges
<1>13. QED
  BY <1>11, <1>12

(* A rejection the bridge listens to ends the setup; another is nothing.   *)
LEMMA BannerClosedKeeps ==
  ASSUME Whole(bridge), NEW n \in 1..Current, BannerClosed(n)
  PROVE  Whole(bridge') /\ GoesOn(bridge, bridge')
<1> DEFINE m == Len(bridge.banner)
           bs == [bridge.banner EXCEPT ![n] = "over"]
           b == [bridge EXCEPT !.banner[n] = "over"]
<1>1. bridge \in Bridges /\ bridge.banner \in Seq(BannerStages) /\ n \in 1..m /\ m \in 1..m /\ bridge.banner[n] = "closing"
  BY DEF Whole, Between, Bridges, BannerFits, Current, BannerClosed
<1>2. bs \in Seq(BannerStages) /\ Len(bs) = m /\ bs[m] = IF n = m THEN "over" ELSE bridge.banner[m]
  BY <1>1, ExceptSeq DEF BannerStages
<1>3. b = [bridge EXCEPT !.banner = bs]
  BY <1>1 DEF Bridges
<1>4. bridge' = IF n = b.generation /\ ~b.destroyed THEN EndLocal(b) ELSE b
  BY DEF BannerClosed
<1> HIDE DEF bs, b
<1>5. /\ b \in Bridges /\ b.banner = bs /\ b.generation = bridge.generation
      /\ SameHistory(bridge, b) /\ SameSession(bridge, b) /\ SameSetup(bridge, b)
      /\ SameReady(bridge, b) /\ SamePromises(bridge, b)
  BY <1>1, <1>2, <1>3 DEF Bridges, SameHistory, SameSession, SameSetup, SameReady, SamePromises
<1>6. BannerFits(b)
  BY <1>1, <1>2, <1>5 DEF Whole, Between, BannerFits, LastStage, Facing, SameHistory, SameSetup
<1>7. Between(b)
  BY <1>5, <1>6 DEF Whole, Between, PromiseFits, PastSettled, SameHistory, SameSetup, SameReady, SamePromises
<1>8. CASE n = b.generation /\ ~b.destroyed
  <2>1. n = m /\ bridge.required = {} /\ bridge.lacked
    BY <1>1, <1>5, <1>8 DEF Whole, Between, BannerFits, LastStage
  <2>2. b.lacked /\ (b.session # 0 => LocalKeys \subseteq b.granted)
    BY <1>5, <2>1 DEF Whole, SameSession, SameSetup
  <2>3. Whole(bridge') /\ GoesOn(b, bridge')
    BY <1>4, <1>5, <1>7, <1>8, <2>1, <2>2, EndLocalWhole DEF SameHistory
  <2>4. QED
    BY <1>5, <2>3 DEF GoesOn, Further, SameHistory, SameSetup, SamePromises
<1>9. CASE ~(n = b.generation /\ ~b.destroyed)
  <2>1. bridge' = b
    BY <1>4, <1>9
  <2>2. LastPromise(b) = "pending" =>
          /\ b.session = 0 /\ ~b.destroyed
          /\ b.generation = Len(b.banner) /\ LastStage(b) \in Facing \cup {"closing"}
    BY <1>2, <1>5, <1>9 DEF Whole, LastPromise, LastStage, SamePromises, SameSession, SameHistory
  <2>3. Able(b) = Able(bridge) /\ LastPromise(b) = LastPromise(bridge)
    BY <1>5 DEF Able, LastPromise, SameSession, SameSetup, SamePromises
  <2>4. Whole(b)
    BY <1>5, <1>7, <2>2, <2>3 DEF Whole, SameHistory, SameSession, SameSetup, SameReady
  <2>5. GoesOn(bridge, b)
    BY <1>5 DEF GoesOn, Further, SameHistory, SameSetup, SamePromises, Bridges
  <2>6. QED
    BY <2>1, <2>4, <2>5
<1>10. QED
  BY <1>8, <1>9

-----------------------------------------------------------------------------
(* The grant that is read again, suggestions, and destroy()                *)

(* A step that changes only what it says of the refresh and of revisions.  *)
LEMMA TouchKeeps ==
  ASSUME Whole(bridge), bridge' \in Bridges,
         SameSession(bridge, bridge'), SameSetup(bridge, bridge'), SameReady(bridge, bridge'),
         SameBanner(bridge, bridge'), SamePromises(bridge, bridge'), bridge'.destroyed = bridge.destroyed,
         bridge'.bannerRevision = bridge.bannerRevision,
         bridge.revision <= bridge'.revision, bridge.sent <= bridge'.sent, bridge'.sent <= bridge'.revision
  PROVE  Whole(bridge') /\ GoesOn(bridge, bridge')
<1>1. bridge'.bannerRevision <= bridge'.sent
  BY DEF Whole, Between, Bridges
<1>2. Whole(bridge')
  BY <1>1, TouchWhole
<1>3. GoesOn(bridge, bridge')
  BY DEF GoesOn, Further, SameSetup, SamePromises, Whole, Between, Bridges
<1>4. QED
  BY <1>2, <1>3

LEMMA RefreshAnswersKeeps ==
  ASSUME Whole(bridge), grant \subseteq LocalKeys, RefreshAnswers
  PROVE  Whole(bridge') /\ GoesOn(bridge, bridge')
<1> DEFINE b == [bridge EXCEPT !.refreshing = 0]
           c == [b EXCEPT !.granted = grant]
<1>1. 0 \in 0..MaxSessions /\ bridge \in Bridges
  BY ConstantsAssumption DEF Whole, Between
<1>2. /\ b \in Bridges /\ SameSession(bridge, b) /\ SameSetup(bridge, b) /\ SameReady(bridge, b)
      /\ SameBanner(bridge, b) /\ SamePromises(bridge, b) /\ b.destroyed = bridge.destroyed
      /\ b.sent = bridge.sent /\ b.revision = bridge.revision /\ b.bannerRevision = bridge.bannerRevision
  BY <1>1 DEF Bridges, SameSession, SameSetup, SameReady, SameBanner, SamePromises
<1>3. bridge.refreshing # 0
      /\ bridge' = IF bridge.refreshing # b.session \/ b.destroyed THEN b
                   ELSE IF LocalKeys \subseteq grant THEN c ELSE ResetLocal(c)
  BY DEF RefreshAnswers
<1> HIDE DEF b
<1>4. /\ c \in Bridges /\ c.granted = grant /\ c.session = b.session
      /\ SameHistory(b, c) /\ SameSetup(b, c) /\ SameReady(b, c) /\ SameBanner(b, c) /\ SamePromises(b, c)
  BY <1>2 DEF Bridges, SameHistory, SameSetup, SameReady, SameBanner, SamePromises
<1> HIDE DEF c
<1>5. Whole(b)
  BY <1>2, TouchWhole DEF Whole, Between
<1>6. GoesOn(bridge, b)
  BY <1>2 DEF GoesOn, Further, SameSetup, SamePromises, Bridges
<1>7. CASE bridge.refreshing # b.session \/ b.destroyed
  BY <1>3, <1>5, <1>6, <1>7
<1>8. CASE bridge.refreshing = b.session /\ ~b.destroyed
  <2>1. c.session # 0 /\ b.session # 0 /\ ~c.destroyed
    BY <1>3, <1>4, <1>8 DEF SameHistory
  <2>2. BannerFits(c)
    BY <1>4, <1>5 DEF Whole, Between, BannerFits, LastStage, SameHistory, SameSetup, SameBanner
  <2>3. Between(c)
    BY <1>4, <1>5, <2>2 DEF Whole, Between, PromiseFits, PastSettled, SameHistory, SameSetup, SameReady, SamePromises
  <2>4. LastPromise(c) # "pending"
    BY <1>4, <1>5, <2>1 DEF Whole, LastPromise, SamePromises
  <2>5. GoesOn(bridge, c)
    BY <1>4, <1>6 DEF GoesOn, Further, SameHistory, SameSetup, SamePromises
  <2>6. CASE LocalKeys \subseteq grant
    <3>1. bridge' = c
      BY <1>3, <1>8, <2>6
    <3>2. Able(c) <=> Able(b)
      BY <1>2, <1>4, <1>5, <2>1, <2>6 DEF Able, Whole, SameSetup, Bridges
    <3>3. Whole(c)
      BY <1>4, <1>5, <2>1, <2>3, <2>4, <2>6, <3>2 DEF Whole, SameHistory, SameReady
    <3>4. QED
      BY <2>5, <3>1, <3>3
  <2>7. CASE ~(LocalKeys \subseteq grant)
    <3>1. bridge' = ResetLocal(c)
      BY <1>3, <1>8, <2>7
    <3>2. Whole(bridge') /\ GoesOn(c, bridge')
      BY <2>1, <2>3, <2>4, <3>1, ResetLocalWhole
    <3>3. bridge \in Bridges /\ bridge' \in Bridges
      BY <3>2 DEF Whole, Between
    <3>4. QED
      BY <1>4, <2>5, <3>2, <3>3, GoesOnFurther
  <2>8. QED
    BY <2>6, <2>7
<1>9. QED
  BY <1>7, <1>8

LEMMA SuggestConnectsKeeps ==
  ASSUME Whole(bridge), grant \subseteq LocalKeys, NEW s \in Suggestions, SuggestConnects(s)
  PROVE  Whole(bridge') /\ GoesOn(bridge, bridge') /\ grant' \subseteq LocalKeys
         /\ bridge'.sent = bridge.sent /\ bridge'.revision = bridge.revision
<1> DEFINE m == bridge.made + 1
           b == [bridge EXCEPT !.made = m]
<1>1. m \in 1..MaxSessions /\ m \in 0..MaxSessions /\ bridge \in Bridges
  <2>1. MaxSessions \in Nat
    BY ConstantsAssumption
  <2>2. bridge \in Bridges /\ bridge.made \in 0..MaxSessions /\ bridge.made < MaxSessions
    BY DEF SuggestConnects, CanMake, Whole, Between, Bridges
  <2>3. QED
    BY <2>1, <2>2
<1>2. grant' \subseteq LocalKeys
  BY DEF SuggestConnects
<1>3. bridge' = ReplaceSession(b, m, grant')
  BY <1>1 DEF SuggestConnects, NewSession, Bridges
<1> HIDE DEF m
<1>4. /\ b \in Bridges /\ SameSession(bridge, b) /\ SameSetup(bridge, b) /\ SameReady(bridge, b)
      /\ SameBanner(bridge, b) /\ SamePromises(bridge, b) /\ b.destroyed = bridge.destroyed
      /\ b.sent = bridge.sent /\ b.revision = bridge.revision /\ b.bannerRevision = bridge.bannerRevision
  BY <1>1 DEF Bridges, SameSession, SameSetup, SameReady, SameBanner, SamePromises
<1> HIDE DEF b
<1>5. Whole(b)
  BY <1>4, TouchWhole DEF Whole, Between
<1>6. Whole(bridge') /\ GoesOn(b, bridge') /\ SameHistory(b, bridge')
  BY <1>1, <1>2, <1>3, <1>5, ReplaceSessionWhole
<1>7. QED
  BY <1>2, <1>4, <1>6 DEF GoesOn, Further, SameHistory, SameSetup, SamePromises

LEMMA DestroyKeeps ==
  ASSUME Whole(bridge), Destroy
  PROVE  Whole(bridge') /\ Further(bridge, bridge') /\ bridge'.destroyed
<1> DEFINE a == [bridge EXCEPT !.destroyed = TRUE, !.generation = 0]
           c == RemoveBanner(a)
           b == SettleSessionReady(c, "rejected")
           p == IF b.ready THEN "rejected" ELSE Settle(b.promise, "rejected")
           r == [b EXCEPT !.ready = FALSE, !.promise = p]
<1>1. ~bridge.destroyed /\ bridge' = r
  BY DEF Destroy
<1>2. /\ a \in Bridges /\ a.destroyed /\ a.generation = 0 /\ a.banner = bridge.banner
      /\ a.sent = bridge.sent /\ a.revision = bridge.revision /\ a.bannerRevision = bridge.bannerRevision
      /\ SameSession(bridge, a) /\ SameSetup(bridge, a) /\ SameReady(bridge, a) /\ SamePromises(bridge, a)
  BY DEF Whole, Between, Bridges, SameSession, SameSetup, SameReady, SamePromises
<1> HIDE DEF a
<1>3. /\ c \in Bridges /\ Len(c.banner) = Len(bridge.banner) /\ LastStage(c) \in {"closing", "over"} /\ c.generation = 0
      /\ SameHistory(a, c) /\ SameSession(bridge, c) /\ SameSetup(bridge, c)
      /\ SameReady(bridge, c) /\ SamePromises(bridge, c)
  BY <1>2, RemoveBannerIs DEF Whole, Between, BannerFits, SameSession, SameSetup, SameReady, SamePromises
<1> HIDE DEF c
<1>4. PastSettled(c)
  BY <1>3 DEF Whole, Between, PastSettled, SamePromises
<1>5. /\ b \in Bridges /\ PastSettled(b) /\ LastPromise(b) # "pending" /\ SameBanner(c, b)
      /\ Len(b.sessionReady) = Len(bridge.sessionReady)
      /\ SameHistory(a, b) /\ SameSession(bridge, b) /\ SameSetup(bridge, b) /\ SameReady(bridge, b)
  BY <1>3, <1>4, SettleTyped DEF SameHistory, SameSession, SameSetup, SameReady, SamePromises
<1> HIDE DEF b
<1>6. p = "rejected" /\ p \in Settled
  BY <1>1, <1>5 DEF Whole, Between, PromiseFits, SameReady, Settle, Settled
<1> HIDE DEF p
<1>7. /\ r \in Bridges /\ ~r.ready /\ r.promise = "rejected"
      /\ SameHistory(b, r) /\ SameSession(b, r) /\ SameSetup(b, r) /\ SameBanner(b, r) /\ SamePromises(b, r)
  BY <1>5, <1>6 DEF Bridges, SameHistory, SameSession, SameSetup, SameBanner, SamePromises
<1> HIDE DEF r
<1>8. r.destroyed /\ r.sent = bridge.sent /\ r.revision = bridge.revision /\ r.bannerRevision = bridge.bannerRevision
  BY <1>2, <1>5, <1>7 DEF SameHistory
<1>9. BannerFits(r)
  BY <1>3, <1>5, <1>7 DEF Whole, Between, BannerFits, LastStage, Facing, SameBanner
<1>10. PromiseFits(r) /\ PastSettled(r) /\ LastPromise(r) # "pending"
  BY <1>5, <1>7, <1>8 DEF PromiseFits, PastSettled, LastPromise, SamePromises
<1>11. Between(r)
  BY <1>5, <1>7, <1>8, <1>9, <1>10 DEF Whole, Between, SameSetup
<1>12. Whole(r)
  BY <1>5, <1>7, <1>8, <1>10, <1>11 DEF Whole, SameSession, SameSetup
<1>13. Further(bridge, r)
  <2>1. bridge.sent \in Nat /\ bridge.revision \in Nat /\ Len(bridge.sessionReady) \in Nat
    BY DEF Whole, Between, Bridges
  <2>2. QED
    BY <1>5, <1>7, <1>8, <2>1 DEF Further, SameSetup, SamePromises
<1>14. QED
  BY <1>1, <1>8, <1>12, <1>13

-----------------------------------------------------------------------------
(* The line for slots: sequences without repetition                        *)

LEMMA LineGrows ==
  ASSUME NEW q \in Seq(Work), IsInjective(q), NEW c \in Work, c \notin ToSet(q)
  PROVE  LET r == Append(q, c)
         IN  r \in Seq(Work) /\ r # <<>> /\ IsInjective(r) /\ ToSet(r) = ToSet(q) \cup {c}
<1> DEFINE r == Append(q, c)
           n == Len(q)
<1>1. /\ r \in Seq(Work) /\ r # <<>> /\ Len(r) = n + 1 /\ n \in Nat
      /\ \A i \in 1..n : r[i] = q[i]
      /\ r[n + 1] = c
  BY AppendProperties
<1>2. DOMAIN r = 1..(n + 1) /\ DOMAIN q = 1..n
  BY <1>1
<1> HIDE DEF r, n
<1>3. \A i \in 1..n : q[i] # c
  BY <1>2 DEF ToSet
<1>4. IsInjective(r)
  BY <1>1, <1>2, <1>3 DEF IsInjective
<1>5. ToSet(r) = ToSet(q) \cup {c}
  BY <1>1, <1>2 DEF ToSet
<1>6. QED
  BY <1>1, <1>4, <1>5 DEF r

LEMMA LineShrinks ==
  ASSUME NEW q \in Seq(Work), q # <<>>, IsInjective(q)
  PROVE  /\ Head(q) \in Work /\ Head(q) \in ToSet(q)
         /\ Tail(q) \in Seq(Work) /\ IsInjective(Tail(q)) /\ ToSet(Tail(q)) = ToSet(q) \ {Head(q)}
<1> DEFINE r == Tail(q)
           n == Len(q)
<1>1. /\ Head(q) \in Work /\ r \in Seq(Work) /\ Len(r) = n - 1 /\ n \in Nat /\ n >= 1 /\ Head(q) = q[1]
      /\ \A i \in 1..(n - 1) : r[i] = q[i + 1]
  BY HeadTailProperties, EmptySeq
<1>2. DOMAIN r = 1..(n - 1) /\ DOMAIN q = 1..n
  BY <1>1
<1> HIDE DEF r, n
<1>3. IsInjective(r)
  <2> SUFFICES ASSUME NEW a \in 1..(n - 1), NEW b \in 1..(n - 1), r[a] = r[b] PROVE a = b
    BY <1>2 DEF IsInjective
  <2>1. a + 1 \in 1..n /\ b + 1 \in 1..n /\ q[a + 1] = q[b + 1]
    BY <1>1
  <2>2. a + 1 = b + 1
    BY <1>2, <2>1 DEF IsInjective
  <2>3. QED
    BY <2>2
<1>4. ToSet(r) \subseteq ToSet(q) \ {Head(q)}
  BY <1>1, <1>2 DEF ToSet, IsInjective
<1>5. ASSUME NEW x \in ToSet(q) \ {Head(q)} PROVE x \in ToSet(r)
  <2>1. PICK i \in 1..n : x = q[i]
    BY <1>2 DEF ToSet
  <2>2. i # 1 /\ i - 1 \in 1..(n - 1) /\ r[i - 1] = q[i]
    BY <1>1, <2>1
  <2>3. QED
    BY <1>2, <2>1, <2>2 DEF ToSet
<1>6. Head(q) \in ToSet(q)
  BY <1>1, <1>2 DEF ToSet
<1>7. QED
  BY <1>1, <1>3, <1>4, <1>5, <1>6 DEF r

(* The one that leaves was there once: splice at its place.                *)
LEMMA LineLeft ==
  ASSUME NEW q \in Seq(Work), IsInjective(q), NEW c \in Work
  PROVE  LET r == RemoveFirst(q, c)
         IN  r \in Seq(Work) /\ IsInjective(r) /\ ToSet(r) = ToSet(q) \ {c} /\ (q = <<>> => r = <<>>)
<1> DEFINE r == RemoveFirst(q, c)
           n == Len(q)
<1>1. n = Len(q) /\ n \in Nat /\ DOMAIN q = 1..n
  OBVIOUS
<1> HIDE DEF n
<1>2. CASE ~\E i \in 1..n : q[i] = c
  <2>1. r = q
    BY <1>1, <1>2 DEF RemoveFirst
  <2>2. c \notin ToSet(q)
    BY <1>1, <1>2 DEF ToSet
  <2>3. QED
    BY <2>1, <2>2
<1>3. CASE \E i \in 1..n : q[i] = c
  <2>1. PICK i \in 1..n : q[i] = c
    BY <1>3
  <2>2. {j \in 1..n : q[j] = c} = {i}
    BY <1>1, <2>1 DEF IsInjective
  <2>3. Min({i}) = i
    BY <2>1 DEF Min
  <2>4. SelectInSeq(q, LAMBDA v : v = c) = i
    BY <1>1, <2>2, <2>3 DEF SelectInSeq
  <2>5. r = SubSeq(q, 1, i - 1) \o SubSeq(q, i + 1, n)
    BY <1>1, <1>3, <2>4 DEF RemoveFirst, RemoveAt
  <2> DEFINE a == SubSeq(q, 1, i - 1)
             z == SubSeq(q, i + 1, n)
  <2>6. /\ a \in Seq(Work) /\ Len(a) = i - 1 /\ \A j \in 1..(i - 1) : a[j] = q[j]
    <3>1. \A j \in 1..(i - 1) : q[j] \in Work
      BY <1>1, <2>1, ElementOfSeq
    <3>2. /\ a \in Seq(Work) /\ Len(a) = IF 1 <= i - 1 THEN (i - 1) - 1 + 1 ELSE 0
          /\ \A j \in 1..((i - 1) - 1 + 1) : a[j] = q[1 + j - 1]
      BY <2>1, <3>1, SubSeqProperties
    <3> HIDE DEF a
    <3>3. QED
      BY <1>1, <2>1, <3>2
  <2>7. /\ z \in Seq(Work) /\ Len(z) = n - i /\ \A j \in 1..(n - i) : z[j] = q[i + j]
    <3>1. \A j \in (i + 1)..n : q[j] \in Work
      BY <1>1, <2>1, ElementOfSeq
    <3>2. i + 1 \in Int /\ n \in Int
      BY <1>1, <2>1
    <3>3. /\ z \in Seq(Work) /\ Len(z) = IF i + 1 <= n THEN n - (i + 1) + 1 ELSE 0
          /\ \A j \in 1..(n - (i + 1) + 1) : z[j] = q[(i + 1) + j - 1]
      BY <3>1, <3>2, SubSeqProperties
    <3> HIDE DEF z
    <3>4. QED
      BY <1>1, <2>1, <3>3
  <2>8. r = a \o z
    BY <2>5
  <2> HIDE DEF a, z, r
  <2>9. /\ r \in Seq(Work) /\ Len(r) = n - 1
        /\ \A j \in 1..(n - 1) : r[j] = IF j < i THEN q[j] ELSE q[j + 1]
    <3>1. /\ r \in Seq(Work) /\ Len(r) = Len(a) + Len(z)
          /\ \A j \in 1..(Len(a) + Len(z)) : r[j] = IF j <= Len(a) THEN a[j] ELSE z[j - Len(a)]
      BY <2>6, <2>7, <2>8, ConcatProperties
    <3>2. Len(a) + Len(z) = n - 1
      BY <1>1, <2>1, <2>6, <2>7
    <3>3. ASSUME NEW j \in 1..(n - 1) PROVE r[j] = IF j < i THEN q[j] ELSE q[j + 1]
      <4>1. CASE j < i
        BY <1>1, <2>1, <2>6, <3>1, <3>2, <4>1
      <4>2. CASE ~(j < i)
        <5>1. j - Len(a) \in 1..(n - i) /\ i + (j - Len(a)) = j + 1
          BY <1>1, <2>1, <2>6, <4>2
        <5>2. r[j] = z[j - Len(a)]
          BY <1>1, <2>1, <2>6, <3>1, <3>2, <4>2
        <5>3. z[j - Len(a)] = q[i + (j - Len(a))]
          BY <2>7, <5>1
        <5>4. QED
          BY <4>2, <5>1, <5>2, <5>3
      <4>3. QED
        BY <4>1, <4>2
    <3>4. QED
      BY <3>1, <3>2, <3>3
  <2>10. DOMAIN r = 1..(n - 1)
    BY <2>9
  <2>11. IsInjective(r)
    <3> SUFFICES ASSUME NEW x \in 1..(n - 1), NEW y \in 1..(n - 1), r[x] = r[y] PROVE x = y
      BY <2>10 DEF IsInjective
    <3> DEFINE f == IF x < i THEN x ELSE x + 1
               g == IF y < i THEN y ELSE y + 1
    <3>1. f \in 1..n /\ g \in 1..n /\ r[x] = q[f] /\ r[y] = q[g] /\ (f = g => x = y)
      BY <1>1, <2>1, <2>9
    <3> HIDE DEF f, g
    <3>2. f = g
      BY <1>1, <3>1 DEF IsInjective
    <3>3. QED
      BY <3>1, <3>2
  <2>12. ToSet(r) \subseteq ToSet(q) \ {c}
    BY <1>1, <2>1, <2>9, <2>10 DEF ToSet, IsInjective
  <2>13. ASSUME NEW x \in ToSet(q) \ {c} PROVE x \in ToSet(r)
    <3>1. PICK j \in 1..n : x = q[j]
      BY <1>1 DEF ToSet
    <3>2. j # i
      BY <2>1, <3>1
    <3>3. CASE j < i
      BY <1>1, <2>1, <2>9, <2>10, <3>1, <3>3 DEF ToSet
    <3>4. CASE j > i
      <4>1. j - 1 \in 1..(n - 1) /\ ~(j - 1 < i) /\ (j - 1) + 1 = j
        BY <1>1, <2>1, <3>1, <3>4
      <4>2. r[j - 1] = q[j]
        BY <2>9, <4>1
      <4>3. QED
        BY <2>10, <3>1, <4>1, <4>2 DEF ToSet
    <3>5. QED
      BY <1>1, <2>1, <3>1, <3>2, <3>3, <3>4
  <2>14. q # <<>>
    BY <1>1, <2>1
  <2>15. QED
    BY <2>9, <2>11, <2>12, <2>13, <2>14 DEF r
<1>4. QED
  BY <1>2, <1>3

-----------------------------------------------------------------------------
(* Slots                                                                   *)

CallRecords == [stage : CallStages, key : LocalKeys \cup {"none"}, on : Nat, aborted : BOOLEAN]
Slots ==
  /\ call \in [Work -> CallRecords] /\ free \in 0..MaxLocal /\ queue \in Seq(Work)
  /\ SlotsAreConserved
Takes(v) == v.stage \in {"holding", "running"}
Waits(v) == v.stage = "queued"

(* A call that neither takes nor frees a slot, nor comes to the line.      *)
LEMMA SameSlots ==
  ASSUME Slots, call' \in [Work -> CallRecords],
         \A d \in Work : (Takes(call[d]) <=> Takes(call'[d])) /\ (Waits(call[d]) <=> Waits(call'[d])),
         UNCHANGED <<free, queue>>
  PROVE  Slots'
<1>1. Taken' = Taken /\ Are({"queued"})' = Are({"queued"})
  BY DEF Taken, Are, Takes, Waits
<1>2. QED
  BY <1>1 DEF Slots, SlotsAreConserved

LEMMA AcquireSlots ==
  ASSUME Slots, NEW c \in Work, NEW v \in CallRecords, ~Takes(call[c]), ~Waits(call[c]), Acquire(c, v)
  PROVE  /\ Slots'
         /\ \E stage \in {"done", "holding", "queued"} :
              /\ v.aborted => stage = "done" /\ queue' = queue
              /\ call' = [call EXCEPT ![c] = [v EXCEPT !.stage = stage]]
<1> USE DEF Slots
<1>1. CASE v.aborted
  <2> DEFINE w == [v EXCEPT !.stage = "done"]
  <2>1. call' = [call EXCEPT ![c] = w] /\ UNCHANGED <<free, queue>>
    BY <1>1 DEF Acquire
  <2>2. w \in CallRecords /\ ~Takes(w) /\ ~Waits(w)
    BY DEF CallRecords, CallStages, Takes, Waits
  <2> HIDE DEF w
  <2>3. Slots'
    <3>1. call' \in [Work -> CallRecords]
      BY <2>1, <2>2
    <3>2. \A d \in Work : (Takes(call[d]) <=> Takes(call'[d])) /\ (Waits(call[d]) <=> Waits(call'[d]))
      BY <2>1, <2>2
    <3>3. QED
      BY <2>1, <3>1, <3>2, SameSlots
  <2>4. QED
    BY <2>1, <2>3 DEF w
<1>2. CASE ~v.aborted /\ free > 0
  <2> DEFINE w == [v EXCEPT !.stage = "holding"]
  <2>1. call' = [call EXCEPT ![c] = w] /\ free' = free - 1 /\ queue' = queue
    BY <1>2 DEF Acquire
  <2>2. w \in CallRecords /\ w.stage = "holding"
    BY DEF CallRecords, CallStages
  <2> HIDE DEF w
  <2>3. Taken' = Taken \cup {c} /\ c \notin Taken /\ Are({"queued"})' = Are({"queued"})
    BY <2>1, <2>2 DEF Taken, Are, Takes, Waits
  <2>4. IsFiniteSet(Taken') /\ Cardinality(Taken') = Cardinality(Taken) + 1
    BY <2>3, FS_AddElement DEF SlotsAreConserved
  <2>5. Cardinality(Taken) \in Nat /\ MaxLocal \in Nat
    BY ConstantsAssumption, FS_CardinalityType DEF SlotsAreConserved
  <2>6. free' \in 0..MaxLocal /\ free' + Cardinality(Taken') = MaxLocal
    BY <1>2, <2>1, <2>4, <2>5 DEF SlotsAreConserved
  <2>7. queue = <<>>
    BY <1>2 DEF SlotsAreConserved
  <2>8. SlotsAreConserved'
    BY <2>1, <2>3, <2>4, <2>6, <2>7 DEF SlotsAreConserved
  <2>9. QED
    BY <1>2, <2>1, <2>2, <2>6, <2>8 DEF w
<1>3. CASE ~v.aborted /\ ~(free > 0)
  <2> DEFINE w == [v EXCEPT !.stage = "queued"]
  <2>1. call' = [call EXCEPT ![c] = w] /\ queue' = Append(queue, c) /\ free' = free
    BY <1>3 DEF Acquire
  <2>2. w \in CallRecords /\ w.stage = "queued"
    BY DEF CallRecords, CallStages
  <2> HIDE DEF w
  <2>3. Taken' = Taken /\ Are({"queued"})' = Are({"queued"}) \cup {c} /\ c \notin Are({"queued"})
    BY <2>1, <2>2 DEF Taken, Are, Takes, Waits
  <2>4. queue' \in Seq(Work) /\ IsInjective(queue') /\ ToSet(queue') = ToSet(queue) \cup {c}
    BY <2>1, <2>3, LineGrows DEF SlotsAreConserved
  <2>5. SlotsAreConserved'
    BY <1>3, <2>1, <2>3, <2>4 DEF SlotsAreConserved
  <2>6. QED
    BY <1>3, <2>1, <2>2, <2>4, <2>5 DEF w
<1>4. QED
  BY <1>1, <1>2, <1>3

(* A slot that is given back goes to the first in line, or is free.        *)
LEMMA ReleaseSlots ==
  ASSUME Slots, NEW c \in Work, Takes(call[c]), Release(c)
  PROVE  /\ Slots' /\ (queue = <<>> => queue' = <<>>)
         /\ call'[c] = [call[c] EXCEPT !.stage = "done"]
         /\ \A d \in Work \ {c} :
              \/ call'[d] = call[d]
              \/ queue # <<>> /\ Waits(call[d]) /\ call'[d] = [call[d] EXCEPT !.stage = "holding"]
<1> USE DEF Slots
<1> DEFINE w == [call[c] EXCEPT !.stage = "done"]
<1>1. w \in CallRecords /\ w.stage = "done" /\ c \in Taken /\ ~Waits(call[c])
  BY DEF CallRecords, CallStages, Taken, Are, Takes, Waits
<1>2. IsFiniteSet(Taken \ {c}) /\ Cardinality(Taken \ {c}) = Cardinality(Taken) - 1
  BY <1>1, FS_RemoveElement DEF SlotsAreConserved
<1>3. Cardinality(Taken) \in Nat /\ Cardinality(Taken \ {c}) \in Nat /\ MaxLocal \in Nat
  BY <1>2, ConstantsAssumption, FS_CardinalityType DEF SlotsAreConserved
<1>4. CASE queue = <<>>
  <2>1. call' = [call EXCEPT ![c] = w] /\ free' = free + 1 /\ queue' = queue
    BY <1>4 DEF Release, Done
  <2> HIDE DEF w
  <2>2. Taken' = Taken \ {c} /\ Are({"queued"})' = Are({"queued"})
    BY <1>1, <2>1 DEF Taken, Are, Takes, Waits
  <2>3. free' \in 0..MaxLocal /\ free' + Cardinality(Taken') = MaxLocal
    BY <1>2, <1>3, <2>1, <2>2 DEF SlotsAreConserved
  <2>4. SlotsAreConserved'
    BY <1>2, <1>4, <2>1, <2>2, <2>3 DEF SlotsAreConserved
  <2>5. QED
    BY <1>1, <1>4, <2>1, <2>3, <2>4 DEF w
<1>5. CASE queue # <<>>
  <2> DEFINE n == Head(queue)
             h == [call[n] EXCEPT !.stage = "holding"]
  <2>1. /\ n \in Work /\ n \in ToSet(queue)
        /\ Tail(queue) \in Seq(Work) /\ IsInjective(Tail(queue)) /\ ToSet(Tail(queue)) = ToSet(queue) \ {n}
    BY <1>5, LineShrinks DEF SlotsAreConserved
  <2>2. Waits(call[n]) /\ n # c
    BY <1>1, <2>1 DEF SlotsAreConserved, Are, Waits
  <2>3. call' = [call EXCEPT ![c] = w, ![n] = h] /\ queue' = Tail(queue) /\ free' = free
    BY <1>5, <2>2 DEF Release, Done
  <2>4. h \in CallRecords /\ h.stage = "holding"
    BY <2>1 DEF CallRecords, CallStages
  <2> HIDE DEF w, h, n
  <2>5. call' \in [Work -> CallRecords] /\ call'[c] = w /\ call'[n] = h /\ \A d \in Work \ {c, n} : call'[d] = call[d]
    BY <1>1, <2>1, <2>2, <2>3, <2>4
  <2>6. Taken' = (Taken \ {c}) \cup {n} /\ n \notin Taken \ {c} /\ Are({"queued"})' = Are({"queued"}) \ {n}
    BY <1>1, <2>1, <2>2, <2>4, <2>5 DEF Taken, Are, Takes, Waits
  <2>7. IsFiniteSet(Taken') /\ Cardinality(Taken') = Cardinality(Taken \ {c}) + 1
    BY <1>2, <2>6, FS_AddElement
  <2>8. free' + Cardinality(Taken') = MaxLocal
    BY <1>2, <1>3, <2>3, <2>7 DEF SlotsAreConserved
  <2>9. SlotsAreConserved'
    BY <1>5, <2>1, <2>3, <2>6, <2>7, <2>8 DEF SlotsAreConserved
  <2>10. \A d \in Work \ {c} : call'[d] = call[d] \/ (d = n /\ Waits(call[d]) /\ call'[d] = [call[d] EXCEPT !.stage = "holding"])
    BY <2>2, <2>5 DEF h
  <2>11. QED
    BY <1>5, <2>1, <2>3, <2>5, <2>9, <2>10 DEF w
<1>6. QED
  BY <1>4, <1>5

(* One that is aborted in line leaves it.                                  *)
LEMMA AbortSlots ==
  ASSUME Slots, NEW c \in Work, Abort(c)
  PROVE  /\ Slots' /\ (queue = <<>> => queue' = <<>>)
         /\ call' = [call EXCEPT ![c] = Aborted(c)] /\ Aborted(c) \in CallRecords
<1> USE DEF Slots
<1> DEFINE w == Aborted(c)
<1>1. call' = [call EXCEPT ![c] = w] /\ queue' = RemoveFirst(queue, c) /\ free' = free
  BY DEF Abort
<1>2. w \in CallRecords /\ (Takes(w) <=> Takes(call[c])) /\ ~Waits(w)
  BY DEF Aborted, Done, CallRecords, CallStages, Takes, Waits
<1> HIDE DEF w
<1>3. /\ queue' \in Seq(Work) /\ IsInjective(queue') /\ ToSet(queue') = ToSet(queue) \ {c}
      /\ (queue = <<>> => queue' = <<>>)
  BY <1>1, LineLeft DEF SlotsAreConserved
<1>4. Taken' = Taken /\ Are({"queued"})' = Are({"queued"}) \ {c}
  BY <1>1, <1>2 DEF Taken, Are, Takes, Waits
<1>5. SlotsAreConserved'
  BY <1>1, <1>3, <1>4 DEF SlotsAreConserved
<1>6. QED
  BY <1>1, <1>2, <1>3, <1>5 DEF w

-----------------------------------------------------------------------------
(* The invariant                                                           *)

SuggestRecords ==
  [stage : {"new", "waiting", "connecting", "ok", "failed"}, on : Nat, revision : Nat]

CallFits(c, v, b) ==
  /\ v.stage \in {"checking", "cloud"} => v.key \in Recommended(b) /\ c \in Calls
  /\ v.stage = "cloud" => b.lacked
  /\ v.stage = "granting" => v.on \in 1..Len(b.sessionReady)
  /\ b.destroyed /\ v.stage \notin {"new", "done"} => v.aborted

SuggestFits(v, b) ==
  /\ v.stage # "new" => v.revision <= b.revision
  /\ v.stage \in {"connecting", "ok"} => v.revision <= b.sent
  /\ v.stage = "waiting" => v.on \in 1..Len(b.sessionReady)

CallsFit == \A c \in Work : CallFits(c, call[c], bridge)
SuggestionsFit ==
  /\ suggest \in [Suggestions -> SuggestRecords]
  /\ \A s \in Suggestions : SuggestFits(suggest[s], bridge)

(* BridgeInv and WaitersAreHeard, sorted by what each step can disturb.    *)
Inductive ==
  /\ Whole(bridge) /\ Slots /\ CallsFit /\ SuggestionsFit
  /\ bridge.destroyed => queue = <<>>
  /\ grant \subseteq LocalKeys /\ changes \in 0..MaxChanges

Quiet ==
  bridge.destroyed =>
    \A d \in Work : call'[d].stage \in {"queued", "holding", "running", "cloud"} => call'[d].stage = call[d].stage

(* What a step of a call keeps while the bridge stays as it is.            *)
CallsKeep ==
  /\ Slots' /\ Quiet
  /\ \A d \in Work : CallFits(d, call'[d], bridge)
  /\ bridge.destroyed => queue' = <<>>

LEMMA AcquireKeeps ==
  ASSUME Inductive, NEW c \in Work, NEW v \in CallRecords, ~Takes(call[c]), ~Waits(call[c]),
         bridge.destroyed => v.aborted, Acquire(c, v)
  PROVE  CallsKeep
<1>1. Slots'
  BY AcquireSlots DEF Inductive
<1>2. PICK stage \in {"done", "holding", "queued"} :
        /\ v.aborted => stage = "done" /\ queue' = queue
        /\ call' = [call EXCEPT ![c] = [v EXCEPT !.stage = stage]]
  BY AcquireSlots DEF Inductive
<1> DEFINE w == [v EXCEPT !.stage = stage]
<1>3. w.stage = stage /\ w.aborted = v.aborted
  BY DEF CallRecords
<1>4. call'[c] = w /\ \A d \in Work \ {c} : call'[d] = call[d]
  BY <1>2 DEF Inductive, Slots
<1> HIDE DEF w
<1>5. \A d \in Work : CallFits(d, call'[d], bridge)
  BY <1>2, <1>3, <1>4 DEF Inductive, CallsFit, CallFits
<1>6. Quiet
  BY <1>2, <1>3, <1>4 DEF Quiet
<1>7. QED
  BY <1>1, <1>2, <1>5, <1>6 DEF CallsKeep, Inductive

LEMMA ElsewhereKeeps ==
  ASSUME Inductive, NEW c \in Work, NEW v \in CallRecords,
         NEW stage \in {"checking", "granting", "cloud", "running", "done"},
         Takes(call[c]) <=> stage = "running", ~Waits(call[c]),
         stage \in {"checking", "cloud"} => v.key \in Recommended(bridge) /\ c \in Calls,
         stage = "cloud" => bridge.lacked,
         stage = "granting" => v.on \in 1..Len(bridge.sessionReady),
         bridge.destroyed => stage = "done",
         Elsewhere(c, v, stage)
  PROVE  CallsKeep
<1> DEFINE w == [v EXCEPT !.stage = stage]
<1>1. call' = [call EXCEPT ![c] = w] /\ UNCHANGED <<free, queue>>
  BY DEF Elsewhere
<1>2. w \in CallRecords /\ w.stage = stage /\ w.key = v.key /\ w.on = v.on
  BY DEF CallRecords, CallStages
<1> HIDE DEF w
<1>3. call' \in [Work -> CallRecords] /\ call'[c] = w /\ \A d \in Work \ {c} : call'[d] = call[d]
  BY <1>1, <1>2 DEF Inductive, Slots
<1>4. \A d \in Work : (Takes(call[d]) <=> Takes(call'[d])) /\ (Waits(call[d]) <=> Waits(call'[d]))
  BY <1>2, <1>3 DEF Takes, Waits
<1>5. Slots'
  BY <1>1, <1>3, <1>4, SameSlots DEF Inductive
<1>6. CallFits(c, w, bridge)
  BY <1>2 DEF CallFits
<1>7. \A d \in Work : CallFits(d, call'[d], bridge)
  BY <1>3, <1>6 DEF Inductive, CallsFit
<1>8. Quiet
  BY <1>2, <1>3 DEF Quiet
<1>9. QED
  BY <1>1, <1>5, <1>7, <1>8 DEF CallsKeep, Inductive

LEMMA ReleaseKeeps ==
  ASSUME Inductive, NEW c \in Work, Takes(call[c]), Release(c)
  PROVE  CallsKeep
<1>1. Slots' /\ (queue = <<>> => queue' = <<>>)
  BY ReleaseSlots DEF Inductive
<1>2. /\ call'[c] = [call[c] EXCEPT !.stage = "done"]
      /\ \A d \in Work \ {c} :
           \/ call'[d] = call[d]
           \/ queue # <<>> /\ Waits(call[d]) /\ call'[d] = [call[d] EXCEPT !.stage = "holding"]
  BY ReleaseSlots DEF Inductive
<1>3. \A d \in Work : call[d] \in CallRecords
  BY DEF Inductive, Slots
<1>4. call'[c].stage = "done"
  BY <1>2, <1>3 DEF CallRecords
<1>5. ASSUME NEW d \in Work PROVE CallFits(d, call'[d], bridge) /\ (bridge.destroyed => d = c \/ call'[d] = call[d])
  <2>1. CASE d = c
    BY <1>4, <2>1 DEF CallFits
  <2>2. CASE d # c /\ call'[d] = call[d]
    BY <2>2 DEF Inductive, CallsFit
  <2>3. CASE queue # <<>> /\ Waits(call[d]) /\ call'[d] = [call[d] EXCEPT !.stage = "holding"]
    <3>1. call'[d].stage = "holding" /\ ~bridge.destroyed
      BY <1>3, <2>3 DEF CallRecords, Inductive
    <3>2. QED
      BY <3>1 DEF CallFits
  <2>4. QED
    BY <1>2, <2>1, <2>2, <2>3
<1>6. Quiet
  BY <1>4, <1>5 DEF Quiet
<1>7. QED
  BY <1>1, <1>5, <1>6 DEF CallsKeep, Inductive

LEMMA AbortKeeps ==
  ASSUME Inductive, NEW c \in Work, Abort(c)
  PROVE  CallsKeep
<1> DEFINE w == Aborted(c)
<1>1. Slots' /\ (queue = <<>> => queue' = <<>>) /\ call' = [call EXCEPT ![c] = w] /\ w \in CallRecords
  BY AbortSlots DEF Inductive
<1>2. call[c] \in CallRecords /\ CallFits(c, call[c], bridge)
  BY DEF Inductive, Slots, CallsFit
<1>3. w.aborted /\ w.key = call[c].key /\ w.on = call[c].on /\ (w.stage = call[c].stage \/ w.stage = "done")
  BY <1>2 DEF Aborted, Done, CallRecords
<1> HIDE DEF w
<1>4. call'[c] = w /\ \A d \in Work \ {c} : call'[d] = call[d]
  BY <1>1 DEF Inductive, Slots
<1>5. CallFits(c, w, bridge)
  BY <1>2, <1>3 DEF CallFits
<1>6. \A d \in Work : CallFits(d, call'[d], bridge)
  BY <1>4, <1>5 DEF Inductive, CallsFit
<1>7. Quiet
  BY <1>3, <1>4 DEF Quiet
<1>8. QED
  BY <1>1, <1>6, <1>7 DEF CallsKeep, Inductive

(* Without a session for a key there is none at all, and a check or the    *)
(* loss of one said so.                                                    *)
LEMMA NoSession ==
  ASSUME Inductive, NEW k \in LocalKeys, SessionFor(k) = 0
  PROVE  bridge.session = 0 /\ (bridge.checked \/ bridge.ended => bridge.lacked)
BY DEF Inductive, Whole, SessionFor

LEMMA LocalKeeps ==
  ASSUME Inductive, NEW c \in Work, NEW v \in CallRecords, ~Takes(call[c]), ~Waits(call[c]),
         bridge.destroyed => v.aborted, Local(c, v)
  PROVE  CallsKeep
<1> DEFINE w == [v EXCEPT !.on = bridge.session]
<1>1. bridge.session \in Nat
  BY ConstantsAssumption DEF Inductive, Whole, Between, Bridges
<1>2. w \in CallRecords /\ w.aborted = v.aborted
  BY <1>1 DEF CallRecords
<1>3. Acquire(c, w)
  BY DEF Local
<1> HIDE DEF w
<1>4. QED
  BY <1>2, <1>3, AcquireKeeps

LEMMA CloudKeeps ==
  ASSUME Inductive, NEW c \in Calls, NEW v \in CallRecords, ~Takes(call[c]), ~Waits(call[c]),
         v.key \in Recommended(bridge), bridge.lacked, bridge.destroyed => v.aborted, Cloud(c, v)
  PROVE  CallsKeep
<1>1. c \in Work
  BY DEF Work
<1>2. CASE v.aborted
  <2>1. Elsewhere(c, v, "done")
    BY <1>2 DEF Cloud
  <2>2. QED
    BY <1>1, <2>1, ElsewhereKeeps
<1>3. CASE ~v.aborted
  <2>1. Elsewhere(c, v, "cloud")
    BY <1>3 DEF Cloud
  <2>2. QED
    BY <1>1, <1>3, <2>1, ElsewhereKeeps
<1>4. QED
  BY <1>2, <1>3

LEMMA BeginKeeps ==
  ASSUME Inductive, NEW c \in Work, Begin(c) \/ RunCommand(c)
  PROVE  CallsKeep
<1>1. PICK k \in LocalKeys :
        LET v == [call[c] EXCEPT !.key = k]
        IN \/ c \in Calls /\ k \in Recommended(bridge) /\ CallRecommended(c, v)
           \/ c \in Calls /\ CallRequired(c, v)
           \/ SessionFor(k) # 0 /\ Local(c, v)
           \/ Elsewhere(c, v, "done")
  BY DEF Begin, RunCommand
<1> DEFINE v == [call[c] EXCEPT !.key = k]
<1>2. ~bridge.destroyed /\ call[c].stage = "new" /\ ~Takes(call[c]) /\ ~Waits(call[c])
  BY DEF Begin, RunCommand, Takes, Waits
<1>3. v \in CallRecords /\ v.key = k
  BY DEF Inductive, Slots, CallRecords
<1>4. \/ c \in Calls /\ k \in Recommended(bridge) /\ CallRecommended(c, v)
      \/ c \in Calls /\ CallRequired(c, v)
      \/ Local(c, v)
      \/ Elsewhere(c, v, "done")
  BY <1>1
<1> HIDE DEF v
<1>5. CASE Local(c, v)
  BY <1>2, <1>3, <1>5, LocalKeeps
<1>6. CASE Elsewhere(c, v, "done")
  BY <1>2, <1>3, <1>6, ElsewhereKeeps
<1>7. CASE c \in Calls /\ k \in Recommended(bridge) /\ CallRecommended(c, v)
  <2>1. CASE ~bridge.checked /\ ~bridge.ended
    <3>1. Elsewhere(c, v, "checking")
      BY <1>7, <2>1 DEF CallRecommended
    <3>2. QED
      BY <1>2, <1>3, <1>7, <3>1, ElsewhereKeeps
  <2>2. CASE bridge.checked \/ bridge.ended
    <3>1. CASE SessionFor(v.key) # 0
      BY <1>5, <1>7, <2>2, <3>1 DEF CallRecommended
    <3>2. CASE SessionFor(v.key) = 0
      <4>1. Cloud(c, v)
        BY <1>7, <2>2, <3>2 DEF CallRecommended
      <4>2. bridge.lacked
        BY <1>3, <2>2, <3>2, NoSession
      <4>3. QED
        BY <1>2, <1>3, <1>7, <4>1, <4>2, CloudKeeps
    <3>3. QED
      BY <3>1, <3>2
  <2>3. QED
    BY <2>1, <2>2
<1>8. CASE c \in Calls /\ CallRequired(c, v)
  <2>1. CASE SessionFor(v.key) # 0
    BY <1>5, <1>8, <2>1 DEF CallRequired
  <2>2. CASE SessionFor(v.key) = 0 /\ bridge.ended
    BY <1>6, <1>8, <2>2 DEF CallRequired
  <2>3. CASE SessionFor(v.key) = 0 /\ ~bridge.ended
    <3> DEFINE n == Len(bridge.sessionReady)
               w == [v EXCEPT !.on = n]
    <3>1. n \in Nat /\ n \in 1..n
      BY DEF Inductive, Whole, Between, PastSettled, Bridges
    <3>2. Elsewhere(c, w, "granting")
      BY <1>8, <2>3 DEF CallRequired
    <3> HIDE DEF n
    <3>3. w \in CallRecords /\ w.on = n
      BY <1>3, <3>1 DEF CallRecords
    <3> HIDE DEF w
    <3>4. QED
      BY <1>2, <3>1, <3>2, <3>3, ElsewhereKeeps DEF n
  <2>4. QED
    BY <2>1, <2>2, <2>3
<1>9. QED
  BY <1>4, <1>5, <1>6, <1>7, <1>8

LEMMA CallStepKeeps ==
  ASSUME Inductive, NEW c \in Work, CallStep(c)
  PROVE  CallsKeep
<1>1. call[c] \in CallRecords /\ CallFits(c, call[c], bridge)
  BY DEF Inductive, Slots, CallsFit
<1>2. CASE Checked(c)
  <2>1. /\ ~Takes(call[c]) /\ ~Waits(call[c]) /\ call[c].stage = "checking" /\ bridge.checked
        /\ IF SessionFor(call[c].key) # 0 THEN Local(c, call[c]) ELSE Cloud(c, call[c])
    BY <1>2 DEF Checked, Takes, Waits
  <2>2. call[c].key \in Recommended(bridge) /\ c \in Calls /\ (bridge.destroyed => call[c].aborted)
    BY <1>1, <2>1 DEF CallFits
  <2>3. CASE SessionFor(call[c].key) # 0
    BY <1>1, <2>1, <2>2, <2>3, LocalKeeps
  <2>4. CASE SessionFor(call[c].key) = 0
    <3>1. bridge.lacked
      BY <2>1, <2>2, <2>4, NoSession DEF Recommended
    <3>2. QED
      BY <1>1, <2>1, <2>2, <2>4, <3>1, CloudKeeps
  <2>5. QED
    BY <2>3, <2>4
<1>3. CASE GrantKnown(c)
  <2>1. ~Takes(call[c]) /\ ~Waits(call[c]) /\ (bridge.destroyed => call[c].aborted)
    BY <1>1, <1>3 DEF GrantKnown, Takes, Waits, CallFits
  <2>2. Local(c, call[c]) \/ Elsewhere(c, call[c], "done")
    BY <1>3 DEF GrantKnown
  <2>3. QED
    BY <1>1, <2>1, <2>2, LocalKeeps, ElsewhereKeeps
<1>4. CASE WaitAborted(c) \/ CloudAnswers(c)
  <2>1. ~Takes(call[c]) /\ ~Waits(call[c]) /\ Elsewhere(c, call[c], "done")
    BY <1>4 DEF WaitAborted, CloudAnswers, Takes, Waits
  <2>2. QED
    BY <1>1, <2>1, ElsewhereKeeps
<1>5. CASE Starts(c)
  <2>1. Takes(call[c]) /\ ~Waits(call[c]) /\ ~bridge.destroyed /\ Elsewhere(c, call[c], "running")
    BY <1>1, <1>5 DEF Starts, Takes, Waits, CallFits
  <2>2. QED
    BY <1>1, <2>1, ElsewhereKeeps
<1>6. CASE RunEnds(c)
  <2>1. Takes(call[c]) /\ Release(c)
    BY <1>6 DEF RunEnds, Takes
  <2>2. QED
    BY <2>1, ReleaseKeeps
<1>7. QED
  BY <1>2, <1>3, <1>4, <1>5, <1>6 DEF CallStep

(* What fits the bridge still does when it went on.                        *)
LEMMA FitsGoOn ==
  ASSUME Whole(bridge), Whole(bridge'), GoesOn(bridge, bridge')
  PROVE  /\ \A c, v : CallFits(c, v, bridge) => CallFits(c, v, bridge')
         /\ \A v \in SuggestRecords : SuggestFits(v, bridge) => SuggestFits(v, bridge')
<1>1. /\ bridge.sent \in Nat /\ bridge.revision \in Nat /\ Len(bridge.sessionReady) \in Nat
      /\ bridge'.sent \in Nat /\ bridge'.revision \in Nat /\ Len(bridge'.sessionReady) \in Nat
  BY DEF Whole, Between, Bridges
<1>2. \A n \in 1..Len(bridge.sessionReady) : n \in 1..Len(bridge'.sessionReady)
  BY <1>1 DEF GoesOn, Further
<1>3. ASSUME NEW c, NEW v, CallFits(c, v, bridge) PROVE CallFits(c, v, bridge')
  BY <1>2, <1>3 DEF CallFits, GoesOn, Further, Recommended
<1>4. ASSUME NEW v \in SuggestRecords, SuggestFits(v, bridge) PROVE SuggestFits(v, bridge')
  <2>1. v.revision \in Nat
    BY DEF SuggestRecords
  <2>2. QED
    BY <1>1, <1>2, <1>4, <2>1 DEF SuggestFits, GoesOn, Further
<1>5. QED
  BY <1>3, <1>4

LEMMA CallsThenBridge ==
  ASSUME Inductive, CallsKeep, Whole(bridge'), GoesOn(bridge, bridge'), UNCHANGED <<suggest, world>>
  PROVE  Inductive'
<1>1. CallsFit'
  BY FitsGoOn DEF Inductive, CallsKeep, CallsFit
<1>2. SuggestionsFit'
  BY FitsGoOn DEF Inductive, SuggestionsFit
<1>3. QED
  BY <1>1, <1>2 DEF Inductive, CallsKeep, GoesOn, world

LEMMA CallsAlone ==
  ASSUME Inductive, CallsKeep, UNCHANGED <<bridge, suggest, world>>
  PROVE  Inductive'
BY DEF Inductive, CallsKeep, CallsFit, SuggestionsFit, SuggestFits, world

LEMMA UnmovedKeeps ==
  ASSUME Inductive, UNCHANGED <<call, free, queue>>
  PROVE  CallsKeep
<1>1. Slots'
  BY SameSlots DEF Inductive, Slots
<1>2. QED
  BY <1>1 DEF CallsKeep, Quiet, Inductive, CallsFit

LEMMA BridgeAlone ==
  ASSUME Inductive, Whole(bridge'), GoesOn(bridge, bridge'), Unmoved,
         grant' \subseteq LocalKeys, changes' \in 0..MaxChanges
  PROVE  Inductive' /\ Quiet
<1>1. CallsKeep
  BY UnmovedKeeps DEF Unmoved
<1>2. CallsFit'
  BY <1>1, FitsGoOn DEF Inductive, CallsKeep, CallsFit
<1>3. SuggestionsFit'
  BY FitsGoOn DEF Inductive, SuggestionsFit, Unmoved
<1>4. QED
  BY <1>1, <1>2, <1>3 DEF Inductive, CallsKeep, GoesOn

LEMMA SuggestAlone ==
  ASSUME Inductive, Whole(bridge'), GoesOn(bridge, bridge'), UNCHANGED <<call, free, queue>>,
         NEW s \in Suggestions, NEW v \in SuggestRecords, SuggestTo(s, v), SuggestFits(v, bridge'),
         grant' \subseteq LocalKeys, changes' \in 0..MaxChanges
  PROVE  Inductive' /\ Quiet
<1>1. CallsKeep
  BY UnmovedKeeps
<1>2. CallsFit'
  BY <1>1, FitsGoOn DEF Inductive, CallsKeep, CallsFit
<1>3. SuggestionsFit'
  BY FitsGoOn DEF Inductive, SuggestionsFit, SuggestTo
<1>4. QED
  BY <1>1, <1>2, <1>3 DEF Inductive, CallsKeep, GoesOn

LEMMA RunRefusedKeeps ==
  ASSUME Inductive, NEW c \in Work, RunRefused(c)
  PROVE  Inductive' /\ Quiet
<1>1. Takes(call[c]) /\ Release(c)
  BY DEF RunRefused, Takes
<1>2. CallsKeep
  BY <1>1, ReleaseKeeps
<1>3. bridge \in Bridges /\ bridge.session \in 0..MaxSessions /\ bridge.sent <= bridge.revision
      /\ bridge.sent \in Nat /\ bridge.revision \in Nat
  BY DEF Inductive, Whole, Between, Bridges
<1>4. bridge' = bridge \/ bridge' = [bridge EXCEPT !.refreshing = bridge.session]
  BY DEF RunRefused
<1>5. CASE bridge' = bridge
  BY <1>2, <1>5, CallsAlone DEF RunRefused, CallsKeep
<1>6. CASE bridge' = [bridge EXCEPT !.refreshing = bridge.session]
  <2>1. /\ bridge' \in Bridges
        /\ SameSession(bridge, bridge') /\ SameSetup(bridge, bridge') /\ SameReady(bridge, bridge')
        /\ SameBanner(bridge, bridge') /\ SamePromises(bridge, bridge') /\ bridge'.destroyed = bridge.destroyed
        /\ bridge'.bannerRevision = bridge.bannerRevision /\ bridge'.revision = bridge.revision
        /\ bridge'.sent = bridge.sent
    BY <1>3, <1>6 DEF Bridges, SameSession, SameSetup, SameReady, SameBanner, SamePromises
  <2>2. Whole(bridge') /\ GoesOn(bridge, bridge')
    BY <1>3, <2>1, TouchKeeps DEF Inductive
  <2>3. QED
    BY <1>2, <2>2, CallsThenBridge DEF RunRefused, CallsKeep
<1>7. QED
  BY <1>4, <1>5, <1>6

LEMMA RefreshKeeps ==
  ASSUME Inductive, RefreshAnswers \/ RefreshFails
  PROVE  Inductive' /\ Quiet
<1>1. Unmoved /\ grant' = grant /\ changes' = changes
  BY DEF RefreshAnswers, RefreshFails, Unmoved, world
<1>2. CASE RefreshAnswers
  <2>1. Whole(bridge') /\ GoesOn(bridge, bridge')
    BY <1>2, RefreshAnswersKeeps DEF Inductive
  <2>2. QED
    BY <1>1, <2>1, BridgeAlone DEF Inductive
<1>3. CASE RefreshFails
  <2>1. bridge \in Bridges /\ bridge.sent <= bridge.revision /\ 0 \in 0..MaxSessions
        /\ bridge.sent \in Nat /\ bridge.revision \in Nat
    BY ConstantsAssumption DEF Inductive, Whole, Between, Bridges
  <2>2. bridge' = [bridge EXCEPT !.refreshing = 0]
    BY <1>3 DEF RefreshFails
  <2>3. /\ bridge' \in Bridges
        /\ SameSession(bridge, bridge') /\ SameSetup(bridge, bridge') /\ SameReady(bridge, bridge')
        /\ SameBanner(bridge, bridge') /\ SamePromises(bridge, bridge') /\ bridge'.destroyed = bridge.destroyed
        /\ bridge'.bannerRevision = bridge.bannerRevision /\ bridge'.revision = bridge.revision
        /\ bridge'.sent = bridge.sent
    BY <2>1, <2>2 DEF Bridges, SameSession, SameSetup, SameReady, SameBanner, SamePromises
  <2>4. Whole(bridge') /\ GoesOn(bridge, bridge')
    BY <2>1, <2>3, TouchKeeps DEF Inductive
  <2>5. QED
    BY <1>1, <2>4, BridgeAlone DEF Inductive
<1>4. QED
  BY <1>2, <1>3

LEMMA BannerKeeps ==
  ASSUME Inductive,
         BannerStep \/ BannerAsks \/ BannerDeclined \/ BannerConnects \/ BannerDismissed
  PROVE  Inductive' /\ Quiet
<1>1. Whole(bridge) /\ grant \subseteq LocalKeys /\ changes \in 0..MaxChanges
  BY DEF Inductive
<1>2. CASE BannerPending
  BY <1>1, <1>2, BannerPendingKeeps, BridgeAlone DEF BannerPending, world
<1>3. CASE BannerResumes
  <2>1. LastStage(bridge) \in Facing /\ CanMake /\ grant = LocalKeys
        /\ bridge' = Adopt([BannerTo(bridge, "handed") EXCEPT !.made = @ + 1], NewSession, grant)
    BY <1>1, <1>3 DEF BannerResumes, BannerAt, Current, LastStage, Facing
  <2>2. Whole(bridge') /\ GoesOn(bridge, bridge')
    BY <1>1, <2>1, HandOverKeeps
  <2>3. QED
    BY <1>1, <1>3, <2>2, BridgeAlone DEF BannerResumes, world
<1>4. CASE BannerConnects
  <2>1. LastStage(bridge) \in Facing /\ CanMake
        /\ bridge' = Adopt([BannerTo(bridge, "handed") EXCEPT !.made = @ + 1], NewSession, LocalKeys)
    BY <1>4 DEF BannerConnects, BannerAt, Current, LastStage, Facing
  <2>2. Whole(bridge') /\ GoesOn(bridge, bridge')
    BY <1>1, <2>1, HandOverKeeps
  <2>3. QED
    BY <1>1, <1>4, <2>2, BridgeAlone DEF BannerConnects
<1>5. CASE BannerAsks \/ BannerDeclined \/ BannerDismissed
  <2>1. Whole(bridge') /\ GoesOn(bridge, bridge')
    BY <1>1, <1>5, BannerAsksKeeps
  <2>2. QED
    BY <1>1, <1>5, <2>1, BridgeAlone DEF BannerAsks, BannerDeclined, BannerDismissed, world
<1>6. CASE \E n \in 1..Current : BannerClosed(n)
  <2>1. PICK n \in 1..Current : BannerClosed(n)
    BY <1>6
  <2>2. Whole(bridge') /\ GoesOn(bridge, bridge')
    BY <1>1, <2>1, BannerClosedKeeps
  <2>3. QED
    BY <1>1, <2>1, <2>2, BridgeAlone DEF BannerClosed, world
<1>7. QED
  BY <1>2, <1>3, <1>4, <1>5, <1>6 DEF BannerStep

LEMMA VisitorKeeps ==
  ASSUME Inductive, VisitorChanges
  PROVE  Inductive' /\ Quiet
<1>1. changes' \in 0..MaxChanges
  <2>1. MaxChanges \in Nat
    BY ConstantsAssumption
  <2>2. QED
    BY <2>1 DEF Inductive, VisitorChanges
<1>2. GoesOn(bridge, bridge') /\ Whole(bridge')
  BY DEF VisitorChanges, GoesOn, Further, Inductive, Whole, Between, Bridges
<1>3. grant' \subseteq LocalKeys
  BY DEF VisitorChanges
<1>4. QED
  BY <1>1, <1>2, <1>3, BridgeAlone DEF VisitorChanges

LEMMA DestroyStep ==
  ASSUME Inductive, Destroy
  PROVE  Inductive' /\ Quiet
<1>1. Whole(bridge') /\ Further(bridge, bridge') /\ bridge'.destroyed /\ ~bridge.destroyed
  BY DestroyKeeps DEF Inductive, Destroy
<1>2. /\ call' = [c \in Work |-> IF Under(c) THEN Aborted(c) ELSE call[c]]
      /\ queue' = <<>> /\ UNCHANGED <<free, suggest, grant, changes>>
  BY DEF Destroy, world
<1>3. ASSUME NEW c \in Work
      PROVE  /\ call'[c] \in CallRecords /\ call'[c].key = call[c].key
             /\ call'[c].stage = call[c].stage \/ call'[c].stage = "done"
             /\ (Takes(call'[c]) <=> Takes(call[c])) /\ ~Waits(call'[c])
             /\ call'[c].on = call[c].on
             /\ call'[c].stage \notin {"new", "done"} => call'[c].aborted
  <2>1. call[c] \in CallRecords
    BY DEF Inductive, Slots
  <2>2. CASE Under(c)
    BY <1>2, <2>1, <2>2 DEF Aborted, Done, CallRecords, CallStages, Takes, Waits, Under
  <2>3. CASE ~Under(c)
    BY <1>2, <2>1, <2>3 DEF Takes, Waits, Under
  <2>4. QED
    BY <2>2, <2>3
<1>4. Slots'
  <2>1. call' \in [Work -> CallRecords]
    BY <1>2, <1>3
  <2>2. Taken' = Taken /\ Are({"queued"})' = {}
    BY <1>3 DEF Taken, Are, Takes, Waits
  <2>3. <<>> \in Seq(Work) /\ ToSet(<<>>) = {} /\ IsInjective(<<>>)
    BY DEF ToSet, IsInjective
  <2>4. QED
    BY <1>2, <2>1, <2>2, <2>3 DEF Inductive, Slots, SlotsAreConserved
<1>5. Len(bridge.sessionReady) \in Nat /\ Len(bridge'.sessionReady) \in Nat
      /\ bridge.sent \in Nat /\ bridge'.sent \in Nat /\ bridge.revision \in Nat /\ bridge'.revision \in Nat
  BY <1>1 DEF Inductive, Whole, Between, Bridges
<1>6. \A n \in 1..Len(bridge.sessionReady) : n \in 1..Len(bridge'.sessionReady)
  BY <1>1, <1>5 DEF Further
<1>7. CallsFit'
  BY <1>1, <1>3, <1>6 DEF Inductive, CallsFit, CallFits, Further, Recommended
<1>8. SuggestionsFit'
  <2> SUFFICES ASSUME NEW s \in Suggestions PROVE SuggestFits(suggest[s], bridge')
    BY <1>2 DEF Inductive, SuggestionsFit
  <2>1. SuggestFits(suggest[s], bridge) /\ suggest[s].revision \in Nat
    BY DEF Inductive, SuggestionsFit, SuggestRecords
  <2>2. QED
    BY <1>1, <1>5, <1>6, <2>1 DEF SuggestFits, Further
<1>9. QED
  BY <1>1, <1>2, <1>4, <1>7, <1>8 DEF Inductive, Quiet

LEMMA SuggestKeeps ==
  ASSUME Inductive, NEW s \in Suggestions, Suggest(s)
  PROVE  Inductive' /\ Quiet
<1> DEFINE n == Len(bridge.sessionReady)
           rev == bridge.revision + 1
           b == [bridge EXCEPT !.revision = rev]
           v == [suggest[s] EXCEPT !.revision = rev, !.on = n]
<1>1. /\ bridge \in Bridges /\ n \in Nat /\ n \in 1..n
      /\ bridge.sent \in Nat /\ bridge.revision \in Nat /\ rev \in Nat
      /\ bridge.sent <= bridge.revision /\ bridge.revision <= rev
  BY DEF Inductive, Whole, Between, PastSettled, Bridges
<1>2. v \in SuggestRecords /\ v.revision = rev /\ v.on = n
  BY <1>1 DEF Inductive, SuggestionsFit, SuggestRecords
<1>3. UNCHANGED <<call, free, queue>> /\ grant' \subseteq LocalKeys /\ changes' \in 0..MaxChanges
  BY DEF Suggest, world, Inductive
<1>4. /\ b \in Bridges /\ b.revision = rev /\ b.sent = bridge.sent /\ b.destroyed = bridge.destroyed
      /\ b.bannerRevision = bridge.bannerRevision /\ b.sessionReady = bridge.sessionReady
      /\ SameSession(bridge, b) /\ SameSetup(bridge, b) /\ SameReady(bridge, b)
      /\ SameBanner(bridge, b) /\ SamePromises(bridge, b)
  BY <1>1 DEF Bridges, SameSession, SameSetup, SameReady, SameBanner, SamePromises
<1>5. IF b.session = 0 THEN bridge' = b /\ SuggestTo(s, [v EXCEPT !.stage = "waiting"])
      ELSE bridge' = Carries(b) /\ SuggestTo(s, Connecting(v))
  <2>1. b.revision = rev /\ Len(b.sessionReady) = n
    BY <1>4
  <2>2. QED
    BY <2>1 DEF Suggest
<1> HIDE DEF rev, b, n
<1>6. CASE b.session = 0
  <2> DEFINE w == [v EXCEPT !.stage = "waiting"]
  <2>1. w \in SuggestRecords /\ w.stage = "waiting" /\ w.revision = rev /\ w.on = n
    BY <1>2 DEF SuggestRecords
  <2>2. bridge' = b /\ SuggestTo(s, w)
    BY <1>5, <1>6
  <2> HIDE DEF w
  <2>3. Whole(bridge') /\ GoesOn(bridge, bridge')
    BY <1>1, <1>4, <2>2, TouchKeeps DEF Inductive
  <2>4. SuggestFits(w, bridge')
    BY <1>1, <1>4, <2>1, <2>2 DEF SuggestFits, n
  <2>5. QED
    BY <1>3, <2>1, <2>2, <2>3, <2>4, SuggestAlone
<1>7. CASE b.session # 0
  <2> DEFINE w == Connecting(v)
  <2>1. w \in SuggestRecords /\ w.stage = "connecting" /\ w.revision = rev
    BY <1>2 DEF SuggestRecords, Connecting
  <2>2. bridge' = Carries(b) /\ SuggestTo(s, w)
    BY <1>5, <1>7
  <2> HIDE DEF w
  <2>3. /\ bridge' \in Bridges /\ bridge'.revision = rev /\ bridge'.sent = rev
        /\ bridge'.destroyed = bridge.destroyed /\ bridge'.bannerRevision = bridge.bannerRevision
        /\ SameSession(b, bridge') /\ SameSetup(b, bridge') /\ SameReady(b, bridge')
        /\ SameBanner(b, bridge') /\ SamePromises(b, bridge')
    BY <1>1, <1>4, <2>2 DEF Carries, Bridges, SameSession, SameSetup, SameReady, SameBanner, SamePromises
  <2>4. /\ SameSession(bridge, bridge') /\ SameSetup(bridge, bridge') /\ SameReady(bridge, bridge')
        /\ SameBanner(bridge, bridge') /\ SamePromises(bridge, bridge')
    BY <1>4, <2>3 DEF SameSession, SameSetup, SameReady, SameBanner, SamePromises
  <2>5. bridge.sent <= rev /\ rev <= rev
    BY <1>1
  <2>6. Whole(bridge') /\ GoesOn(bridge, bridge')
    BY <1>1, <2>3, <2>4, <2>5, TouchKeeps DEF Inductive
  <2>7. SuggestFits(w, bridge')
    BY <1>1, <2>1, <2>3 DEF SuggestFits
  <2>8. QED
    BY <1>3, <2>1, <2>2, <2>6, <2>7, SuggestAlone
<1>8. QED
  BY <1>6, <1>7

LEMMA SuggestGoesOnKeeps ==
  ASSUME Inductive, NEW s \in Suggestions, SuggestGoesOn(s)
  PROVE  Inductive' /\ Quiet
<1> DEFINE v == suggest[s]
<1>1. /\ bridge \in Bridges /\ bridge.sent \in Nat /\ bridge.revision \in Nat /\ bridge.bannerRevision \in Nat
      /\ bridge.bannerRevision <= bridge.sent /\ bridge.sent <= bridge.revision
  BY DEF Inductive, Whole, Between, Bridges
<1>2. v \in SuggestRecords /\ SuggestFits(v, bridge) /\ v.revision \in Nat /\ v.stage = "waiting"
      /\ v.revision <= bridge.revision
  BY DEF Inductive, SuggestionsFit, SuggestRecords, SuggestGoesOn, SuggestFits
<1>3. UNCHANGED <<call, free, queue>> /\ grant' \subseteq LocalKeys /\ changes' \in 0..MaxChanges
  BY DEF SuggestGoesOn, world, Inductive
<1>4. CASE bridge.bannerRevision >= v.revision
  <2> DEFINE w == [v EXCEPT !.stage = "ok"]
  <2>1. w \in SuggestRecords /\ w.stage = "ok" /\ w.revision = v.revision
    BY <1>2 DEF SuggestRecords
  <2>2. bridge' = bridge /\ SuggestTo(s, w)
    BY <1>4 DEF SuggestGoesOn
  <2> HIDE DEF w
  <2>3. Whole(bridge') /\ GoesOn(bridge, bridge')
    BY <2>2, <1>1, TouchKeeps
    DEF Inductive, SameSession, SameSetup, SameReady, SameBanner, SamePromises
  <2>4. SuggestFits(w, bridge')
    BY <1>1, <1>2, <1>4, <2>1, <2>2 DEF SuggestFits
  <2>5. QED
    BY <1>3, <2>1, <2>2, <2>3, <2>4, SuggestAlone
<1>5. CASE ~(bridge.bannerRevision >= v.revision)
  <2> DEFINE w == Connecting(v)
  <2>1. w \in SuggestRecords /\ w.stage = "connecting" /\ w.revision = v.revision
    BY <1>2 DEF SuggestRecords, Connecting
  <2>2. bridge' = Carries(bridge) /\ SuggestTo(s, w)
    BY <1>5 DEF SuggestGoesOn
  <2> HIDE DEF w
  <2>3. /\ bridge' \in Bridges /\ bridge'.revision = bridge.revision /\ bridge'.sent = bridge.revision
        /\ bridge'.destroyed = bridge.destroyed /\ bridge'.bannerRevision = bridge.bannerRevision
        /\ SameSession(bridge, bridge') /\ SameSetup(bridge, bridge') /\ SameReady(bridge, bridge')
        /\ SameBanner(bridge, bridge') /\ SamePromises(bridge, bridge')
    BY <1>1, <2>2 DEF Carries, Bridges, SameSession, SameSetup, SameReady, SameBanner, SamePromises
  <2>4. Whole(bridge') /\ GoesOn(bridge, bridge')
    BY <1>1, <2>3, TouchKeeps DEF Inductive
  <2>5. SuggestFits(w, bridge')
    BY <1>1, <1>2, <2>1, <2>3 DEF SuggestFits
  <2>6. QED
    BY <1>3, <2>1, <2>2, <2>4, <2>5, SuggestAlone
<1>6. QED
  BY <1>4, <1>5

LEMMA SuggestEndsKeeps ==
  ASSUME Inductive, NEW s \in Suggestions, SuggestConnects(s) \/ SuggestFails(s)
  PROVE  Inductive' /\ Quiet
<1> DEFINE v == suggest[s]
<1>1. v \in SuggestRecords /\ SuggestFits(v, bridge) /\ v.revision \in Nat
  BY DEF Inductive, SuggestionsFit, SuggestRecords
<1>2. CASE SuggestConnects(s)
  <2> DEFINE w == [v EXCEPT !.stage = "ok"]
  <2>1. w \in SuggestRecords /\ w.stage = "ok" /\ w.revision = v.revision /\ v.stage = "connecting"
    BY <1>1, <1>2 DEF SuggestRecords, SuggestConnects
  <2>2. SuggestTo(s, w) /\ UNCHANGED <<call, free, queue>> /\ changes' \in 0..MaxChanges
    BY <1>2 DEF SuggestConnects, Inductive
  <2> HIDE DEF w
  <2>3. /\ Whole(bridge') /\ GoesOn(bridge, bridge') /\ grant' \subseteq LocalKeys
        /\ bridge'.sent = bridge.sent /\ bridge'.revision = bridge.revision
    BY <1>2, SuggestConnectsKeeps DEF Inductive
  <2>4. SuggestFits(w, bridge')
    BY <1>1, <2>1, <2>3 DEF SuggestFits
  <2>5. QED
    BY <2>1, <2>2, <2>3, <2>4, SuggestAlone
<1>3. CASE SuggestFails(s)
  <2> DEFINE w == [v EXCEPT !.stage = "failed"]
  <2>1. w \in SuggestRecords /\ w.stage = "failed" /\ w.revision = v.revision /\ v.stage # "new"
    BY <1>1, <1>3 DEF SuggestRecords, SuggestFails
  <2>2. /\ SuggestTo(s, w) /\ UNCHANGED <<call, free, queue>> /\ bridge' = bridge
        /\ grant' \subseteq LocalKeys /\ changes' \in 0..MaxChanges
    BY <1>3 DEF SuggestFails, Inductive, world
  <2> HIDE DEF w
  <2>3. Whole(bridge') /\ GoesOn(bridge, bridge')
    BY <2>2, TouchKeeps
    DEF Inductive, Whole, Between, Bridges, SameSession, SameSetup, SameReady, SameBanner, SamePromises
  <2>4. SuggestFits(w, bridge')
    BY <1>1, <2>1, <2>2 DEF SuggestFits
  <2>5. QED
    BY <2>1, <2>2, <2>3, <2>4, SuggestAlone
<1>4. QED
  BY <1>2, <1>3

-----------------------------------------------------------------------------
(* The theorems                                                            *)

LEMMA InitInductive ==
  ASSUME Init
  PROVE  Inductive
<1>1. MaxSessions \in Nat /\ MaxChanges \in Nat /\ MaxLocal \in Nat \ {0} /\ LocalKeys # {}
  BY ConstantsAssumption
<1>2. bridge \in Bridges /\ bridge.required \in SUBSET LocalKeys
  <2>1. <<"pending">> \in Seq(Settled) /\ <<"looking">> \in Seq(BannerStages) /\ "pending" \in Settled
    BY DEF Settled, BannerStages
  <2>2. 0 \in 0..MaxSessions /\ {} \in SUBSET LocalKeys
    BY <1>1
  <2>3. Contracts \subseteq SUBSET LocalKeys
    BY ConstantsAssumption
  <2>4. QED
    BY <2>1, <2>2, <2>3 DEF Init, Bridges
<1>3. Len(bridge.sessionReady) = 1 /\ LastPromise(bridge) = "pending"
      /\ Len(bridge.banner) = 1 /\ LastStage(bridge) = "looking"
  BY DEF Init, LastPromise, LastStage
<1>4. /\ bridge.session = 0 /\ bridge.granted = {} /\ ~bridge.checked /\ ~bridge.ended /\ ~bridge.ready
      /\ bridge.promise = "pending" /\ bridge.generation = 1 /\ ~bridge.destroyed
      /\ bridge.revision = 0 /\ bridge.bannerRevision = 0 /\ bridge.sent = 0
  BY DEF Init
<1>5. Whole(bridge)
  <2>1. BannerFits(bridge) /\ PromiseFits(bridge)
    BY <1>3, <1>4 DEF BannerFits, PromiseFits, Facing
  <2>2. PastSettled(bridge)
    BY <1>3 DEF PastSettled
  <2>3. ~Able(bridge)
    BY <1>4 DEF Able
  <2>4. QED
    BY <1>2, <1>3, <1>4, <2>1, <2>2, <2>3 DEF Whole, Between, Facing
<1>6. call \in [Work -> CallRecords] /\ \A c \in Work : call[c].stage = "new"
  BY DEF Init, CallRecords, CallStages
<1>7. Slots
  <2>1. Taken = {} /\ Are({"queued"}) = {}
    BY <1>6 DEF Taken, Are
  <2>2. IsFiniteSet({}) /\ Cardinality({}) = 0
    BY FS_EmptySet
  <2>3. queue = <<>> /\ queue \in Seq(Work) /\ ToSet(queue) = {} /\ IsInjective(queue)
    BY DEF Init, ToSet, IsInjective
  <2>4. free = MaxLocal /\ free \in 0..MaxLocal /\ free + 0 = MaxLocal
    BY <1>1 DEF Init
  <2>5. QED
    BY <1>6, <2>1, <2>2, <2>3, <2>4 DEF Slots, SlotsAreConserved
<1>8. CallsFit
  BY <1>4, <1>6 DEF CallsFit, CallFits
<1>9. SuggestionsFit
  BY DEF Init, SuggestionsFit, SuggestRecords, SuggestFits
<1>10. grant \subseteq LocalKeys /\ changes \in 0..MaxChanges /\ ~bridge.destroyed
  BY <1>1 DEF Init
<1>11. QED
  BY <1>5, <1>7, <1>8, <1>9, <1>10 DEF Inductive

LEMMA NextInductive ==
  ASSUME Inductive, [Next]_vars
  PROVE  Inductive' /\ Quiet
<1>1. CASE BannerStep \/ BannerAsks \/ BannerDeclined \/ BannerConnects \/ BannerDismissed
  BY <1>1, BannerKeeps
<1>2. CASE VisitorChanges
  BY <1>2, VisitorKeeps
<1>3. CASE \E c \in Work : CallStep(c) \/ Begin(c) \/ RunCommand(c) \/ RunRefused(c) \/ Abort(c)
  <2>1. PICK c \in Work : CallStep(c) \/ Begin(c) \/ RunCommand(c) \/ RunRefused(c) \/ Abort(c)
    BY <1>3
  <2>2. CASE CallStep(c)
    <3>1. UNCHANGED <<bridge, suggest, world>>
      BY <2>2 DEF CallStep, Checked, GrantKnown, WaitAborted, CloudAnswers, Starts, RunEnds
    <3>2. CallsKeep
      BY <2>2, CallStepKeeps
    <3>3. QED
      BY <3>1, <3>2, CallsAlone DEF CallsKeep
  <2>3. CASE Begin(c) \/ RunCommand(c)
    <3>1. UNCHANGED <<bridge, suggest, world>>
      BY <2>3 DEF Begin, RunCommand
    <3>2. CallsKeep
      BY <2>3, BeginKeeps
    <3>3. QED
      BY <3>1, <3>2, CallsAlone DEF CallsKeep
  <2>4. CASE RunRefused(c)
    BY <2>4, RunRefusedKeeps
  <2>5. CASE Abort(c)
    <3>1. UNCHANGED <<bridge, suggest, world>>
      BY <2>5 DEF Abort
    <3>2. CallsKeep
      BY <2>5, AbortKeeps
    <3>3. QED
      BY <3>1, <3>2, CallsAlone DEF CallsKeep
  <2>6. QED
    BY <2>1, <2>2, <2>3, <2>4, <2>5
<1>4. CASE RefreshAnswers \/ RefreshFails
  BY <1>4, RefreshKeeps
<1>5. CASE Destroy
  BY <1>5, DestroyStep
<1>6. CASE \E s \in Suggestions : Suggest(s) \/ SuggestGoesOn(s) \/ SuggestConnects(s) \/ SuggestFails(s)
  BY <1>6, SuggestKeeps, SuggestGoesOnKeeps, SuggestEndsKeeps
<1>7. CASE UNCHANGED vars
  <2>1. CallsKeep
    BY <1>7, UnmovedKeeps DEF vars
  <2>2. QED
    BY <1>7, <2>1, CallsAlone DEF CallsKeep, vars, world
<1>8. QED
  BY <1>1, <1>2, <1>3, <1>4, <1>5, <1>6, <1>7 DEF Next

LEMMA InductiveBridge ==
  ASSUME Inductive
  PROVE  BridgeInv
<1>1. Whole(bridge) /\ bridge \in Bridges /\ Slots
  BY DEF Inductive, Whole, Between
<1>2. TypeOK
  BY <1>1 DEF TypeOK, Inductive, Slots, CallRecords, SuggestionsFit, SuggestRecords
<1>3. SessionIsComplete /\ SetupGoesOn
  BY <1>1 DEF SessionIsComplete, SetupGoesOn, Whole, Between
<1>4. ReadyIsTrue
  <2>1. bridge.ready \in BOOLEAN /\ bridge.destroyed \in BOOLEAN /\ Able(bridge) \in BOOLEAN
    BY <1>1 DEF Bridges, Able
  <2>2. QED
    BY <1>1, <2>1 DEF ReadyIsTrue, Whole, Between, PromiseFits
<1>5. BannerIsHeard
  BY <1>1 DEF BannerIsHeard, Whole, Between, BannerFits, BannerAt, Current, LastStage, Facing, Bridges
<1>6. SlotsAreConserved
  BY <1>1 DEF Slots
<1>7. CloudIsNoRace
  BY <1>1 DEF CloudIsNoRace, Are, Inductive, CallsFit, CallFits, Whole
<1>8. DestroyedIsQuiet
  BY DEF DestroyedIsQuiet, Inductive, CallsFit, CallFits, Under
<1>9. SuggestionsAreShown
  BY <1>1 DEF SuggestionsAreShown, Inductive, SuggestionsFit, SuggestFits, Whole, Between
<1>10. QED
  BY <1>2, <1>3, <1>4, <1>5, <1>6, <1>7, <1>8, <1>9 DEF BridgeInv

LEMMA InductiveWaiters ==
  ASSUME Inductive
  PROVE  WaitersAreHeard
<1>1. /\ Whole(bridge) /\ bridge.sessionReady \in Seq(Settled) /\ Len(bridge.sessionReady) >= 1
      /\ DOMAIN bridge.sessionReady = 1..Len(bridge.sessionReady)
      /\ Last(bridge.sessionReady) = LastPromise(bridge)
  BY DEF Inductive, Whole, Between, PastSettled, Bridges, Last, LastPromise
<1>2. PromisesFit
  <2>1. bridge.sessionReady # <<>>
    BY <1>1
  <2>2. ASSUME NEW n \in DOMAIN bridge.sessionReady, bridge.sessionReady[n] = "pending"
        PROVE  /\ n = Len(bridge.sessionReady)
               /\ bridge.session = 0 /\ ~bridge.destroyed
               /\ bridge.generation = Current
               /\ BannerAt({"looking", "shown", "consent", "closing"})
    <3>1. n = Len(bridge.sessionReady)
      BY <1>1, <2>2 DEF Whole, Between, PastSettled
    <3>2. LastPromise(bridge) = "pending"
      BY <2>2, <3>1 DEF LastPromise
    <3>3. QED
      BY <1>1, <3>1, <3>2 DEF Whole, Current, BannerAt, LastStage, Facing
  <2>3. bridge.session = 0 /\ ~bridge.ended /\ ~bridge.destroyed => Last(bridge.sessionReady) = "pending"
    BY <1>1 DEF Whole
  <2>4. QED
    BY <2>1, <2>2, <2>3 DEF PromisesFit
<1>3. \A c \in Work : call[c].stage = "granting" => call[c].on \in 1..Len(bridge.sessionReady)
  BY DEF Inductive, CallsFit, CallFits
<1>4. \A s \in Suggestions : suggest[s].stage = "waiting" => suggest[s].on \in 1..Len(bridge.sessionReady)
  BY DEF Inductive, SuggestionsFit, SuggestFits
<1>5. QED
  BY <1>1, <1>2, <1>3, <1>4 DEF WaitersAreHeard

LEMMA AlwaysInductive == Spec => []Inductive
<1>1. Init => Inductive
  BY InitInductive
<1>2. Inductive /\ [Next]_vars => Inductive'
  BY NextInductive
<1>3. QED
  BY <1>1, <1>2, PTL DEF Spec

(* For any contract and any traffic of the page and its server: session,   *)
(* grant, readiness and banner agree, the setup goes on while a function is*)
(* required, slots are conserved, no call runs on the cloud by a race, and *)
(* a suggestion that resolved was shown (BridgeRuntime, Slots).            *)
THEOREM BridgeInvHolds == Spec => []BridgeInv
<1>1. Inductive => BridgeInv
  BY InductiveBridge
<1>2. QED
  BY <1>1, AlwaysInductive, PTL

(* Every call and every suggestion that waits for the visitor's Writ waits *)
(* on a promise that is settled, or that a banner still up, which the      *)
(* bridge listens to, will settle (#resetLocal, #replaceSession, #endLocal)*)
THEOREM WaitersAreHeardHolds == Spec => []WaitersAreHeard
<1>1. Inductive => WaitersAreHeard
  BY InductiveWaiters
<1>2. QED
  BY <1>1, AlwaysInductive, PTL

(* Once destroy() returned, no call takes a slot, runs or goes to the cloud*)
(* (destroy, #waitChecked, #waitForGrant, Slots.acquire).                  *)
THEOREM NothingStartsHolds == Spec => NothingStartsOnceDestroyed
<1>1. Inductive /\ [Next]_vars =>
        [bridge.destroyed =>
           \A c \in DOMAIN call : call'[c].stage \in {"queued", "holding", "running", "cloud"} => call'[c].stage = call[c].stage]_vars
  <2> SUFFICES ASSUME Inductive, [Next]_vars, bridge.destroyed, NEW c \in DOMAIN call,
                      call'[c].stage \in {"queued", "holding", "running", "cloud"}
               PROVE  call'[c].stage = call[c].stage
    OBVIOUS
  <2>1. c \in Work
    BY DEF Inductive, Slots
  <2>2. Quiet
    BY NextInductive
  <2>3. QED
    BY <2>1, <2>2 DEF Quiet
<1>2. QED
  BY <1>1, AlwaysInductive, PTL DEF Spec, NothingStartsOnceDestroyed
=============================================================================
