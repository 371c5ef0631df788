------------------------- MODULE ServerPartsProofs --------------------------
(***************************************************************************)
(* Receipts: for any subjects, functions, devices, challenges, lives and   *)
(* number of verifications, however long their awaits take, ReceiptsInv.   *)
(*                                                                         *)
(* CloudRuns: for any requests, limits and timeouts, CloudInv.  What it    *)
(* says of one request is RunFine, which a step keeps for the request it   *)
(* is about; the count of the runs in flight is a lemma of its own.        *)
(*                                                                         *)
(* BridgeConfig: for any contracts and options, ConfigInv.                 *)
(*                                                                         *)
(* Presence: for any pages, hello slots and stores, PresenceInv.           *)
(***************************************************************************)
EXTENDS CloudRuns, Receipts, Presence, BridgeConfig, FilterTheorems, FiniteSetTheorems, TLAPS

-----------------------------------------------------------------------------
(* Receipts                                                                *)

(* The bounds, and lives of whole seconds. *)
Bounds == Lives \subseteq Nat /\ MaxTime \in Nat

(* ReceiptsInv but for AcceptedOnce. *)
TrueReceipts == ReceiptsTypeOK /\ FirstUsePinsOne /\ AcceptedIsTrue /\ VerificationsAreSound

Begun(v) == check[v].phase \notin {"idle", "refused"}

LEMMA SecondOfClock ==
  ASSUME clock \in Nat
  PROVE  Second \in Nat /\ TickOf(Second) <= clock /\ clock <= TickOf(Second) + 1
BY DEF Second, TickOf

LEMMA BegunTypes ==
  ASSUME ReceiptsTypeOK, NEW v \in Verifications, Begun(v)
  PROVE  /\ check[v] \in Checks
         /\ check[v].receipt \in Receipt /\ check[v].subject \in Subjects /\ check[v].second \in Nat
         /\ check[v].receipt.challenge \in Challenges /\ check[v].receipt.device \in Devices
         /\ check[v].receipt.key \in Keys
<1>1. check[v] \in Checks \cup {Idle, Refused}
  BY DEF ReceiptsTypeOK
<1>2. check[v] \in Checks
  BY <1>1 DEF Begun, Idle, Refused
<1>3. QED
  BY <1>2 DEF Checks, Receipt

(* Another phase for one verification. *)
LEMMA Moved ==
  ASSUME ReceiptsTypeOK, NEW v \in Verifications, Begun(v), NEW phase, To(v, phase),
         phase \in {"pinning", "spending", "accepted", "unknownDevice", "threw"}
  PROVE  /\ check' \in [Verifications -> Checks \cup {Idle, Refused}]
         /\ check'[v].phase = phase /\ check'[v].receipt = check[v].receipt
         /\ check'[v].subject = check[v].subject /\ check'[v].second = check[v].second
         /\ \A w \in Verifications : w # v => check'[w] = check[w]
<1> DEFINE k == [check[v] EXCEPT !.phase = phase]
<1>1. k \in Checks /\ k.phase = phase /\ k.receipt = check[v].receipt
      /\ k.subject = check[v].subject /\ k.second = check[v].second
  BY BegunTypes DEF Checks
<1>2. check' = [check EXCEPT ![v] = k]
  BY DEF To
<1> HIDE DEF k
<1>3. QED
  BY <1>1, <1>2 DEF ReceiptsTypeOK

LEMMA IsRefused ==
  ASSUME ReceiptsTypeOK, NEW v \in Verifications, RefuseReceipt(v)
  PROVE  /\ check' \in [Verifications -> Checks \cup {Idle, Refused}]
         /\ check'[v].phase = "refused"
         /\ \A w \in Verifications : w # v => check'[w] = check[w]
BY DEF RefuseReceipt, Refused, ReceiptsTypeOK

-----------------------------------------------------------------------------
(* What one verification is owed, and what it is when accepted. *)
Sound(v) ==
  Begun(v) =>
    LET r == check[v].receipt
        s == check[v].subject
        began == TickOf(check[v].second)
        payload == minted[r.challenge]
    IN /\ payload # Unminted /\ payload.key = r.key /\ payload.sub = s
       /\ check[v].second < payload.exp
       /\ began <= clock
       /\ check[v].phase = "spending" /\ devices = "first-use" /\ s \notin forgotten => r.device \in pins[s]
       /\ check[v].phase = "accepted" =>
            /\ spentTill[r.challenge] >= TickOf(payload.exp + 1)
            /\ r.fits
            /\ devices = "first-use" /\ s \notin forgotten => r.device \in pins[s]

LEMMA TrueReceiptsParts ==
  TrueReceipts <=> ReceiptsTypeOK /\ FirstUsePinsOne /\ \A v \in Verifications : Sound(v)
<1>1. TrueReceipts => ReceiptsTypeOK /\ FirstUsePinsOne /\ \A v \in Verifications : Sound(v)
  BY DEF TrueReceipts, AcceptedIsTrue, VerificationsAreSound, Sound, Begun
<1>2. ReceiptsTypeOK /\ FirstUsePinsOne /\ (\A v \in Verifications : Sound(v)) => TrueReceipts
  BY DEF TrueReceipts, AcceptedIsTrue, VerificationsAreSound, Sound, Begun
<1>3. QED
  BY <1>1, <1>2
(* The payload a verification goes by. *)
LEMMA SoundPayload ==
  ASSUME ReceiptsTypeOK, NEW v \in Verifications, Begun(v), Sound(v)
  PROVE  LET p == minted[check[v].receipt.challenge]
         IN  p \in Payloads /\ p.exp \in Nat /\ SubjectOf(v) = check[v].subject
<1>1. minted[check[v].receipt.challenge] \in Payloads \cup {Unminted}
  BY BegunTypes DEF ReceiptsTypeOK
<1>2. /\ minted[check[v].receipt.challenge] # Unminted
      /\ minted[check[v].receipt.challenge].sub = check[v].subject
  BY DEF Sound
<1>3. QED
  BY <1>1, <1>2 DEF Payloads, SubjectOf

(* The inductive invariant. *)
ReceiptsInd == ReceiptsTypeOK /\ FirstUsePinsOne /\ \A v \in Verifications : Sound(v)

LEMMA MintStep ==
  ASSUME Bounds, ReceiptsInd, NEW c \in Challenges, NEW s \in Subjects, NEW k \in Keys, NEW ttl \in Lives,
         Mint(c, s, k, ttl)
  PROVE  ReceiptsInd'
<1> DEFINE p == [sub |-> s, key |-> k, exp |-> Second + ttl]
<1>1. p \in Payloads
  <2>1. Second + ttl \in Nat
    BY SecondOfClock DEF Bounds, ReceiptsInd, ReceiptsTypeOK
  <2>2. QED
    BY <2>1 DEF Payloads
<1>2. minted' = [minted EXCEPT ![c] = p] /\ minted[c] = Unminted
  BY DEF Mint
<1> HIDE DEF p
<1>3. UNCHANGED <<devices, clock, spentTill, pins, check, late, approved, forgotten>>
  BY DEF Mint, stored
<1>4. ReceiptsTypeOK' /\ FirstUsePinsOne'
  BY <1>1, <1>2, <1>3 DEF ReceiptsInd, ReceiptsTypeOK, FirstUsePinsOne
<1>5. ASSUME NEW v \in Verifications PROVE Sound(v)'
  <2>1. Sound(v)
    BY DEF ReceiptsInd
  <2>2. CASE ~Begun(v)
    BY <1>3, <2>2 DEF Sound, Begun
  <2>3. CASE Begun(v)
    <3>1. check[v].receipt.challenge # c /\ check[v].receipt.challenge \in Challenges
      BY <1>2, <2>1, <2>3, BegunTypes DEF Sound, ReceiptsInd
    <3>2. minted'[check[v].receipt.challenge] = minted[check[v].receipt.challenge]
      BY <1>2, <3>1 DEF ReceiptsInd, ReceiptsTypeOK
    <3>3. QED
      BY <1>3, <2>1, <3>2 DEF Sound, Begun
  <2>4. QED
    BY <2>2, <2>3
<1>6. QED
  BY <1>4, <1>5 DEF ReceiptsInd

LEMMA BeginStep ==
  ASSUME Bounds, ReceiptsInd, NEW v \in Verifications, NEW r \in Receipt, NEW c \in Challenges,
         NEW k \in Keys, NEW s \in Subjects, Begin(v, r, c, k, s)
  PROVE  ReceiptsInd'
<1>1. UNCHANGED <<devices, clock, minted, spentTill, pins, late, approved, forgotten>>
  BY DEF Begin, stored
<1>2. Second \in Nat /\ TickOf(Second) <= clock /\ clock <= TickOf(Second) + 1
  BY SecondOfClock DEF ReceiptsInd, ReceiptsTypeOK, Bounds
<1> DEFINE n == [phase |-> IF devices = "off" THEN "spending" ELSE "pinning",
                 receipt |-> r, subject |-> s, second |-> Second]
<1>3. n \in Checks /\ n.receipt = r /\ n.subject = s /\ n.second = Second
      /\ n.phase = IF devices = "off" THEN "spending" ELSE "pinning"
  BY <1>2 DEF Checks
<1>4. check' = [check EXCEPT ![v] = IF Answers(r, c, k, s) THEN n ELSE Refused]
  BY DEF Begin
<1> HIDE DEF n
<1>5. ReceiptsTypeOK' /\ FirstUsePinsOne'
  BY <1>1, <1>3, <1>4 DEF ReceiptsInd, ReceiptsTypeOK, FirstUsePinsOne
<1>6. ASSUME NEW w \in Verifications, w # v PROVE Sound(w)'
  <2>1. check'[w] = check[w] /\ Sound(w)
    BY <1>4, <1>6 DEF ReceiptsInd, ReceiptsTypeOK
  <2>2. QED
    BY <1>1, <2>1 DEF Sound, Begun
<1>7. Sound(v)'
  <2>1. CASE Answers(r, c, k, s)
    <3>1. check'[v] = n
      BY <1>4, <2>1 DEF ReceiptsInd, ReceiptsTypeOK
    <3>2. minted'[r.challenge] # Unminted /\ minted'[r.challenge].key = r.key
          /\ minted'[r.challenge].sub = s /\ Second < minted'[r.challenge].exp
      <4>1. minted[c] # Unminted /\ minted[c].exp > Second /\ minted[c].key = k /\ minted[c].sub = s
            /\ r.challenge = c /\ r.key = k
        BY <2>1 DEF Answers, Readable
      <4>2. minted[c].exp \in Nat
        BY <4>1 DEF ReceiptsInd, ReceiptsTypeOK, Payloads
      <4>3. QED
        BY <1>1, <1>2, <4>1, <4>2
    <3>3. (devices = "off" => n.phase = "spending") /\ (devices # "off" => n.phase = "pinning")
      BY <1>3
    <3>4. QED
      BY <1>1, <1>2, <1>3, <3>1, <3>2, <3>3 DEF Sound, Begun
  <2>2. CASE ~Answers(r, c, k, s)
    <3>1. check'[v] = Refused
      BY <1>4, <2>2 DEF ReceiptsInd, ReceiptsTypeOK
    <3>2. QED
      BY <3>1 DEF Sound, Begun, Refused
  <2>3. QED
    BY <2>1, <2>2
<1>8. QED
  BY <1>5, <1>6, <1>7 DEF ReceiptsInd

(* The verifications that a step leaves where they are stay sound while    *)
(* pins are only added and nonces only kept longer.                        *)
LEMMA OthersSound ==
  ASSUME ReceiptsInd, NEW w \in Verifications, check'[w] = check[w],
         UNCHANGED <<devices, clock, minted, forgotten>>,
         \A s \in Subjects : pins[s] \subseteq pins'[s],
         \A c \in Challenges : spentTill[c] <= spentTill'[c], spentTill' \in [Challenges -> Nat]
  PROVE  Sound(w)'
<1>1. Sound(w)
  BY DEF ReceiptsInd
<1>2. CASE ~Begun(w)
  BY <1>2 DEF Sound, Begun
<1>3. CASE Begun(w)
  <2> DEFINE c == check[w].receipt.challenge
  <2>1. check[w].subject \in Subjects /\ c \in Challenges
    BY <1>3, BegunTypes DEF ReceiptsInd
  <2>2. minted[c].exp \in Nat
    BY <1>1, <1>3, SoundPayload DEF ReceiptsInd
  <2>3. spentTill[c] >= TickOf(minted[c].exp + 1) => spentTill'[c] >= TickOf(minted[c].exp + 1)
    <3>1. spentTill[c] \in Nat /\ spentTill'[c] \in Nat /\ spentTill[c] <= spentTill'[c]
      BY <2>1 DEF ReceiptsInd, ReceiptsTypeOK
    <3>2. TickOf(minted[c].exp + 1) \in Nat
      BY <2>2 DEF TickOf
    <3>3. QED
      BY <3>1, <3>2
  <2>4. QED
    BY <1>1, <2>1, <2>3 DEF Sound, Begun
<1>4. QED
  BY <1>2, <1>3

LEMMA PinCheckStep ==
  ASSUME Bounds, ReceiptsInd, NEW v \in Verifications,
         PinCheck(v) \/ HookAnswers(v) \/ PinCheckThrows(v)
  PROVE  ReceiptsInd'
<1> DEFINE s == check[v].subject
           d == check[v].receipt.device
<1>1. Begun(v) /\ check[v].phase = "pinning"
  BY DEF PinCheck, HookAnswers, PinCheckThrows, Begun
<1>2. SubjectOf(v) = s /\ s \in Subjects /\ d \in Devices /\ Sound(v)
  BY <1>1, BegunTypes, SoundPayload DEF ReceiptsInd
<1>3. UNCHANGED <<devices, clock, minted, spentTill, late, approved, forgotten>>
  BY DEF PinCheck, HookAnswers, PinCheckThrows, stored
<1>4. /\ pins' \in [Subjects -> SUBSET Devices]
      /\ \A t \in Subjects : pins[t] \subseteq pins'[t]
      /\ \A t \in Subjects : pins'[t] = pins[t] \/ (pins[t] = {} /\ pins'[t] = {d})
  <2>1. CASE UNCHANGED pins
    BY <2>1 DEF ReceiptsInd, ReceiptsTypeOK
  <2>2. CASE PinCheck(v)
    <3>1. pins' = [pins EXCEPT ![s] = IF FirstUse(s, d) = "pinned" THEN @ \cup {d} ELSE @]
      BY <1>2, <2>2 DEF PinCheck
    <3>2. FirstUse(s, d) = "pinned" => pins[s] = {}
      BY DEF FirstUse
    <3>3. QED
      BY <1>2, <3>1, <3>2 DEF ReceiptsInd, ReceiptsTypeOK
  <2>3. QED
    BY <2>1, <2>2 DEF HookAnswers, PinCheckThrows, stored
<1>5. PICK phase \in {"spending", "unknownDevice"} :
        To(v, phase) /\ (phase = "spending" /\ devices = "first-use" => d \in pins'[s])
  <2>1. CASE PinCheck(v)
    <3>1. pins' = [pins EXCEPT ![s] = IF FirstUse(s, d) = "pinned" THEN @ \cup {d} ELSE @]
          /\ To(v, IF FirstUse(s, d) = "unknown" THEN "unknownDevice" ELSE "spending")
      BY <1>2, <2>1 DEF PinCheck
    <3>2. pins'[s] = IF FirstUse(s, d) = "pinned" THEN pins[s] \cup {d} ELSE pins[s]
      BY <1>2, <3>1 DEF ReceiptsInd, ReceiptsTypeOK
    <3>3. FirstUse(s, d) # "unknown" => d \in pins'[s]
      BY <3>2 DEF FirstUse
    <3>4. QED
      BY <3>1, <3>3
  <2>2. CASE HookAnswers(v)
    BY <2>2 DEF HookAnswers
  <2>3. CASE PinCheckThrows(v)
    BY <2>3 DEF PinCheckThrows
  <2>4. QED
    BY <2>1, <2>2, <2>3
<1>6. /\ check' \in [Verifications -> Checks \cup {Idle, Refused}]
      /\ check'[v].phase = phase /\ check'[v].receipt = check[v].receipt
      /\ check'[v].subject = check[v].subject /\ check'[v].second = check[v].second
      /\ \A w \in Verifications : w # v => check'[w] = check[w]
  BY <1>1, <1>5, Moved DEF ReceiptsInd
<1>7. ReceiptsTypeOK'
  BY <1>3, <1>4, <1>6 DEF ReceiptsInd, ReceiptsTypeOK
<1>8. FirstUsePinsOne'
  BY <1>3, <1>4 DEF ReceiptsInd, FirstUsePinsOne
<1>9. Sound(v)'
  BY <1>1, <1>2, <1>3, <1>5, <1>6 DEF Sound, Begun
<1>10. ASSUME NEW w \in Verifications, w # v PROVE Sound(w)'
  <2>1. \A c \in Challenges : spentTill[c] <= spentTill'[c]
    BY <1>3 DEF ReceiptsInd, ReceiptsTypeOK
  <2>2. QED
    BY <1>3, <1>4, <1>6, <1>10, <2>1, OthersSound DEF ReceiptsInd, ReceiptsTypeOK
<1>11. QED
  BY <1>7, <1>8, <1>9, <1>10 DEF ReceiptsInd
(* A spent nonce stays spent a second longer than its challenge lives. *)
LEMMA KeptLongEnough ==
  ASSUME ReceiptsInd, NEW v \in Verifications, Begun(v)
  PROVE  /\ KeptFor(v) \in Nat
         /\ clock + KeptFor(v) >= TickOf(minted[check[v].receipt.challenge].exp + 1)
<1> DEFINE c == check[v].receipt.challenge
<1>1. minted[c].exp \in Nat /\ check[v].second \in Nat /\ clock \in Nat
  BY BegunTypes, SoundPayload DEF ReceiptsInd, ReceiptsTypeOK
<1>2. check[v].second < minted[c].exp /\ TickOf(check[v].second) <= clock
  BY DEF ReceiptsInd, Sound
<1>3. minted[c].exp - check[v].second + 1 \in Nat
  BY <1>1, <1>2
<1>4. QED
  BY <1>1, <1>2, <1>3 DEF KeptFor, TickOf

LEMMA SpendStep ==
  ASSUME Bounds, ReceiptsInd, NEW v \in Verifications, Spend(v) \/ SpendThrows(v)
  PROVE  ReceiptsInd'
<1> DEFINE c == check[v].receipt.challenge
           s == check[v].subject
<1>1. Begun(v) /\ check[v].phase = "spending"
  BY DEF Spend, SpendThrows, Begun
<1>2. s \in Subjects /\ c \in Challenges /\ Sound(v) /\ minted[c].exp \in Nat
  BY <1>1, BegunTypes, SoundPayload DEF ReceiptsInd
<1>3. UNCHANGED <<devices, clock, minted, pins, approved, forgotten>>
  BY DEF Spend, SpendThrows
<1>4. clock \in Nat /\ KeptFor(v) \in Nat /\ clock + KeptFor(v) >= TickOf(minted[c].exp + 1)
  BY <1>1, KeptLongEnough DEF ReceiptsInd, ReceiptsTypeOK
<1>5. UNCHANGED spentTill \/ (spentTill[c] <= clock /\ spentTill' = [spentTill EXCEPT ![c] = clock + KeptFor(v)])
  BY <1>2, <1>4 DEF Spend, SpendThrows, ReceiptsInd, ReceiptsTypeOK
<1>6. spentTill' \in [Challenges -> Nat] /\ \A k \in Challenges : spentTill[k] <= spentTill'[k]
  <2>1. CASE UNCHANGED spentTill
    BY <2>1 DEF ReceiptsInd, ReceiptsTypeOK
  <2>2. CASE spentTill[c] <= clock /\ spentTill' = [spentTill EXCEPT ![c] = clock + KeptFor(v)]
    <3>1. spentTill \in [Challenges -> Nat]
      BY DEF ReceiptsInd, ReceiptsTypeOK
    <3>2. spentTill[c] <= clock + KeptFor(v) /\ clock + KeptFor(v) \in Nat
      BY <1>2, <1>4, <2>2, <3>1
    <3>3. QED
      BY <1>2, <2>2, <3>1, <3>2
  <2>3. QED
    BY <1>5, <2>1, <2>2
<1>7. \/ RefuseReceipt(v)
      \/ To(v, "threw")
      \/ /\ To(v, "accepted") /\ check[v].receipt.fits
         /\ spentTill'[c] = clock + KeptFor(v)
  BY <1>2 DEF Spend, SpendThrows, ReceiptsInd, ReceiptsTypeOK
<1>8. /\ check' \in [Verifications -> Checks \cup {Idle, Refused}]
      /\ \A w \in Verifications : w # v => check'[w] = check[w]
  BY <1>1, <1>7, Moved, IsRefused DEF ReceiptsInd
<1>9. ReceiptsTypeOK' /\ FirstUsePinsOne'
  <2>1. late' \subseteq Verifications
    BY DEF Spend, SpendThrows, ReceiptsInd, ReceiptsTypeOK
  <2>2. QED
    BY <1>3, <1>6, <1>8, <2>1 DEF ReceiptsInd, ReceiptsTypeOK, FirstUsePinsOne
<1>10. Sound(v)'
  <2>1. CASE RefuseReceipt(v)
    BY <2>1, IsRefused DEF Sound, Begun, ReceiptsInd
  <2>2. CASE To(v, "threw")
    <3>1. /\ check'[v].phase = "threw" /\ check'[v].receipt = check[v].receipt
          /\ check'[v].subject = check[v].subject /\ check'[v].second = check[v].second
      BY <1>1, <2>2, Moved DEF ReceiptsInd
    <3>2. QED
      BY <1>1, <1>2, <1>3, <3>1 DEF Sound, Begun
  <2>3. CASE To(v, "accepted") /\ check[v].receipt.fits /\ spentTill'[c] = clock + KeptFor(v)
    <3>1. /\ check'[v].phase = "accepted" /\ check'[v].receipt = check[v].receipt
          /\ check'[v].subject = check[v].subject /\ check'[v].second = check[v].second
      BY <1>1, <2>3, Moved DEF ReceiptsInd
    <3>2. QED
      BY <1>1, <1>2, <1>3, <1>4, <2>3, <3>1 DEF Sound, Begun
  <2>4. QED
    BY <1>7, <2>1, <2>2, <2>3
<1>11. ASSUME NEW w \in Verifications, w # v PROVE Sound(w)'
  <2>1. \A t \in Subjects : pins[t] \subseteq pins'[t]
    BY <1>3
  <2>2. QED
    BY <1>3, <1>6, <1>8, <1>11, <2>1, OthersSound
<1>12. QED
  BY <1>9, <1>10, <1>11 DEF ReceiptsInd

LEMMA DeveloperSteps ==
  ASSUME Bounds, ReceiptsInd, (\E v \in Verifications : Approve(v)) \/ \E s \in Subjects : Forget(s)
  PROVE  ReceiptsInd'
<1>1. ASSUME NEW v \in Verifications, Approve(v) PROVE ReceiptsInd'
  <2> DEFINE s == check[v].subject
             d == check[v].receipt.device
  <2>1. Begun(v)
    BY <1>1 DEF Approve, Begun
  <2>2. SubjectOf(v) = s /\ s \in Subjects /\ d \in Devices
    BY <2>1, BegunTypes, SoundPayload DEF ReceiptsInd
  <2>3. /\ pins' = [pins EXCEPT ![s] = @ \cup {d}] /\ approved' = [approved EXCEPT ![s] = @ \cup {d}]
        /\ UNCHANGED <<devices, clock, minted, spentTill, check, late, forgotten>>
    BY <1>1, <2>2 DEF Approve
  <2>4. ReceiptsTypeOK' /\ \A t \in Subjects : pins[t] \subseteq pins'[t]
    BY <2>2, <2>3 DEF ReceiptsInd, ReceiptsTypeOK
  <2>5. \A t \in Subjects : pins'[t] \ approved'[t] \subseteq pins[t] \ approved[t]
    BY <2>2, <2>3 DEF ReceiptsInd, ReceiptsTypeOK
  <2>6. FirstUsePinsOne'
    BY <2>5 DEF ReceiptsInd, FirstUsePinsOne
  <2>7. ASSUME NEW w \in Verifications PROVE Sound(w)'
    <3>1. spentTill' \in [Challenges -> Nat] /\ \A c \in Challenges : spentTill[c] <= spentTill'[c]
      BY <2>3 DEF ReceiptsInd, ReceiptsTypeOK
    <3>2. QED
      BY <2>3, <2>4, <3>1, OthersSound
  <2>8. QED
    BY <2>4, <2>6, <2>7 DEF ReceiptsInd
<1>2. ASSUME NEW s \in Subjects, Forget(s) PROVE ReceiptsInd'
  <2>1. /\ pins' = [pins EXCEPT ![s] = {}] /\ approved' = [approved EXCEPT ![s] = {}]
        /\ forgotten' = forgotten \cup {s}
        /\ UNCHANGED <<devices, clock, minted, spentTill, check, late>>
    BY <1>2 DEF Forget
  <2>2. ReceiptsTypeOK' /\ FirstUsePinsOne'
    BY <2>1 DEF ReceiptsInd, ReceiptsTypeOK, FirstUsePinsOne
  <2>3. ASSUME NEW w \in Verifications PROVE Sound(w)'
    <3>1. Sound(w) /\ (Begun(w) => check[w].subject \in Subjects)
      BY BegunTypes DEF ReceiptsInd
    <3>2. \A t \in Subjects : t \notin forgotten' => t \notin forgotten /\ pins'[t] = pins[t]
      BY <2>1 DEF ReceiptsInd, ReceiptsTypeOK
    <3>3. QED
      BY <2>1, <3>1, <3>2 DEF Sound, Begun
  <2>4. QED
    BY <2>2, <2>3 DEF ReceiptsInd
<1>3. QED
  BY <1>1, <1>2

LEMMA TimeStep ==
  ASSUME Bounds, ReceiptsInd, TimePasses
  PROVE  ReceiptsInd'
<1>1. /\ clock' = clock + 1 /\ clock < MaxTime /\ clock \in Nat
      /\ UNCHANGED <<devices, minted, spentTill, pins, check, late, approved, forgotten>>
  BY DEF TimePasses, stored, ReceiptsInd, ReceiptsTypeOK, Bounds
<1>2. clock' \in 0..MaxTime
  BY <1>1 DEF Bounds
<1>3. ReceiptsTypeOK' /\ FirstUsePinsOne'
  BY <1>1, <1>2 DEF ReceiptsInd, ReceiptsTypeOK, FirstUsePinsOne
<1>4. ASSUME NEW v \in Verifications PROVE Sound(v)'
  <2>1. Sound(v)
    BY DEF ReceiptsInd
  <2>2. CASE ~Begun(v)
    BY <1>1, <2>2 DEF Sound, Begun
  <2>3. CASE Begun(v)
    <3>1. check[v].second \in Nat /\ TickOf(check[v].second) \in Nat
      BY <2>3, BegunTypes DEF ReceiptsInd, TickOf
    <3>2. TickOf(check[v].second) <= clock'
      BY <1>1, <2>1, <2>3, <3>1 DEF Sound
    <3>3. QED
      BY <1>1, <2>1, <2>3, <3>2 DEF Sound, Begun
  <2>4. QED
    BY <2>2, <2>3
<1>5. QED
  BY <1>3, <1>4 DEF ReceiptsInd

-----------------------------------------------------------------------------
LEMMA ReceiptsStart == Bounds /\ ReceiptsInit => ReceiptsInd
BY DEF Bounds, ReceiptsInit, ReceiptsInd, ReceiptsTypeOK, FirstUsePinsOne, Sound, Begun, Idle

LEMMA ReceiptsStep ==
  ASSUME Bounds, ReceiptsInd, [ReceiptsNext]_receiptVars
  PROVE  ReceiptsInd'
<1>1. CASE UNCHANGED receiptVars
  BY <1>1 DEF receiptVars, stored, ReceiptsInd, ReceiptsTypeOK, FirstUsePinsOne, Sound, Begun
<1>2. CASE ReceiptsNext
  BY <1>2, MintStep, BeginStep, PinCheckStep, SpendStep, DeveloperSteps, TimeStep DEF ReceiptsNext
<1>3. QED
  BY <1>1, <1>2

(* A step accepts one verification more at most, and that one spends a     *)
(* nonce that was free; it is late when its challenge has been out for a   *)
(* second, and nobody who was late is so no longer.                        *)
LEMMA WhatIsAccepted ==
  ASSUME ReceiptsInd, [ReceiptsNext]_receiptVars, NEW v \in Verifications, check'[v].phase = "accepted"
  PROVE  \/ check'[v] = check[v]
         \/ /\ check[v].phase = "spending" /\ check'[v].receipt = check[v].receipt
            /\ spentTill[check[v].receipt.challenge] <= clock
            /\ clock >= TickOf(minted[check[v].receipt.challenge].exp + 1) => v \in late'
            /\ \A w \in Verifications : w # v => check'[w] = check[w]
<1>1. CASE \E w \in Verifications : Spend(w)
  <2>1. PICK w \in Verifications : Spend(w)
    BY <1>1
  <2>2. Begun(w) /\ check[w].phase = "spending"
    BY <2>1 DEF Spend, Begun
  <2>3. \A u \in Verifications : u # w => check'[u] = check[u]
    BY <2>1, <2>2, Moved, IsRefused DEF Spend, ReceiptsInd
  <2>4. CASE RefuseReceipt(w)
    BY <2>3, <2>4, IsRefused DEF ReceiptsInd
  <2>5. CASE ~RefuseReceipt(w)
    <3>1. To(w, "accepted") /\ ~(spentTill[check[w].receipt.challenge] > clock)
      BY <2>1, <2>5 DEF Spend
    <3>2. spentTill[check[w].receipt.challenge] \in Nat /\ clock \in Nat
      BY <2>2, BegunTypes DEF ReceiptsInd, ReceiptsTypeOK
    <3>3. check'[w].receipt = check[w].receipt
      BY <2>2, <3>1, Moved DEF ReceiptsInd
    <3>4. clock >= TickOf(minted[check[w].receipt.challenge].exp + 1) => w \in late'
      BY <2>1, <2>2, <3>1, Moved DEF Spend, ReceiptsInd
    <3>5. QED
      BY <2>2, <2>3, <3>1, <3>2, <3>3, <3>4
  <2>6. QED
    BY <2>4, <2>5
<1>2. CASE \E w \in Verifications, phase \in {"pinning", "spending", "unknownDevice", "threw"} :
             Begun(w) /\ To(w, phase)
  BY <1>2, Moved DEF ReceiptsInd
<1>3. CASE UNCHANGED check
  BY <1>3
<1>4. CASE \E w \in Verifications, r \in Receipt, c \in Challenges, k \in Keys, s \in Subjects :
             Begin(w, r, c, k, s)
  <2>1. \E w \in Verifications : \E n : check' = [check EXCEPT ![w] = n] /\ n.phase # "accepted"
    <3>1. PICK w \in Verifications, r \in Receipt, c \in Challenges, k \in Keys, s \in Subjects :
            Begin(w, r, c, k, s)
      BY <1>4
    <3> DEFINE n == IF Answers(r, c, k, s)
                    THEN [phase |-> IF devices = "off" THEN "spending" ELSE "pinning",
                          receipt |-> r, subject |-> s, second |-> Second]
                    ELSE Refused
    <3>2. check' = [check EXCEPT ![w] = n]
      BY <3>1 DEF Begin
    <3>3. n.phase # "accepted"
      BY DEF Refused
    <3>4. QED
      BY <3>2, <3>3
  <2>2. QED
    BY <2>1 DEF ReceiptsInd, ReceiptsTypeOK
<1>5. QED
  BY <1>1, <1>2, <1>3, <1>4
     DEF ReceiptsNext, receiptVars, Mint, PinCheck, HookAnswers, PinCheckThrows, SpendThrows, Approve, Forget, TimePasses, Begun

LEMMA LateStaysLate == [ReceiptsNext]_receiptVars => late \subseteq late'
BY DEF ReceiptsNext, receiptVars, Mint, Begin, PinCheck, HookAnswers, PinCheckThrows, Spend, SpendThrows,
       Approve, Forget, TimePasses

LEMMA StepAcceptedOnce ==
  ASSUME Bounds, ReceiptsInd, AcceptedOnce, [ReceiptsNext]_receiptVars
  PROVE  AcceptedOnce'
<1> SUFFICES ASSUME NEW v \in Verifications, NEW w \in Verifications, v # w,
                    v \notin late', w \notin late',
                    check'[v].phase = "accepted", check'[w].phase = "accepted",
                    check'[v].receipt.challenge = check'[w].receipt.challenge
             PROVE  FALSE
  BY DEF AcceptedOnce
(* A nonce that was spent for one is free for another only once the        *)
(* challenge has been out for a second: the other is late.                 *)
<1>1. ASSUME NEW a \in Verifications, NEW b \in Verifications,
             check[a].phase = "accepted", check[b].phase = "spending",
             check[a].receipt.challenge = check[b].receipt.challenge,
             spentTill[check[b].receipt.challenge] <= clock
      PROVE  clock >= TickOf(minted[check[b].receipt.challenge].exp + 1)
  <2> DEFINE c == check[b].receipt.challenge
  <2>1. Begun(a) /\ Begun(b) /\ Sound(a) /\ Sound(b)
    BY <1>1 DEF Begun, ReceiptsInd
  <2>2. minted[c].exp \in Nat /\ spentTill[c] \in Nat /\ clock \in Nat
    BY <2>1, BegunTypes, SoundPayload DEF ReceiptsInd, ReceiptsTypeOK
  <2>3. spentTill[c] >= TickOf(minted[c].exp + 1)
    BY <1>1, <2>1 DEF Sound
  <2>4. QED
    BY <1>1, <2>2, <2>3 DEF TickOf
<1>2. CASE check'[v] = check[v] /\ check'[w] = check[w]
  BY <1>2, LateStaysLate DEF AcceptedOnce
<1>3. CASE check'[v] # check[v]
  BY <1>1, <1>3, WhatIsAccepted
<1>4. CASE check'[w] # check[w]
  BY <1>1, <1>4, WhatIsAccepted
<1>5. QED
  BY <1>2, <1>3, <1>4

(* With any policy and however long the awaits of a verification take: a   *)
(* subject's first receipts pin one device, and what is accepted is a run  *)
(* the caller asked about, signed by a device of its subject.              *)
THEOREM ReceiptsAreTrue == ASSUME Bounds PROVE ReceiptsSpec => [](FirstUsePinsOne /\ AcceptedIsTrue)
<1>1. ReceiptsInd => FirstUsePinsOne /\ AcceptedIsTrue
  BY TrueReceiptsParts DEF ReceiptsInd, TrueReceipts
<1>2. ReceiptsInit => ReceiptsInd
  BY ReceiptsStart
<1>3. ReceiptsInd /\ [ReceiptsNext]_receiptVars => ReceiptsInd'
  BY ReceiptsStep
<1>4. QED
  BY <1>1, <1>2, <1>3, PTL DEF ReceiptsSpec

(* However long awaits take, one acceptance at most of a challenge is not  *)
(* late, with all that ReceiptsAreTrue says (checkReceipt).                *)
THEOREM ReceiptsInvHolds == ASSUME Bounds PROVE ReceiptsSpec => []ReceiptsInv
<1>1. ReceiptsInd /\ AcceptedOnce => ReceiptsInv
  BY TrueReceiptsParts DEF ReceiptsInd, TrueReceipts, ReceiptsInv
<1>2. ReceiptsInit => ReceiptsInd /\ AcceptedOnce
  BY ReceiptsStart DEF ReceiptsInit, AcceptedOnce, Idle
<1>3. ReceiptsInd /\ AcceptedOnce /\ [ReceiptsNext]_receiptVars => ReceiptsInd' /\ AcceptedOnce'
  BY ReceiptsStep, StepAcceptedOnce
<1>4. QED
  BY <1>1, <1>2, <1>3, PTL DEF ReceiptsSpec

-----------------------------------------------------------------------------
(* The runs on Writ Cloud                                                  *)

USE ConstantsAssumption

Runs == [stage : Stages, timer : 0..(ReadTime + MaxPause), odd : 0..OddReads,
         left : 0..Timeout, gone : BOOLEAN, outcome : Outcomes]

(* The run v, its task t, a ticks old, s of them waiting for bodies. *)
Typed(v, t, a, s) == v \in Runs /\ t \in TaskStates /\ a \in Nat /\ s \in 0..MaxStall

TrueAnswer(v, t, a) ==
  /\ v.outcome = "data" => t = "succeeded"
  /\ v.outcome = "RUN_FAILED" => t \in {"none", "failed"} \/ v.odd = OddReads
  /\ v.outcome = "TIMEOUT" => a >= Timeout \/ t = "timed_out"
  /\ v.outcome = "CANCELLED" => v.gone \/ t = "cancelled"

Timed(v, a, s) ==
  /\ v.outcome # "none" => v.stage \in {"ended", "done"}
  /\ v.stage \notin {"ended", "done"} => v.odd < OddReads
  /\ v.left = IF a < Timeout THEN Timeout - a ELSE 0
  /\ v.stage \in {"new", "authorizing"} => a = 0
  /\ v.stage \in {"dispatching", "sleeping"} => a + v.timer <= Timeout + s
  /\ v.stage \in {"refusing", "dispatched"} => a <= Timeout + s
  /\ v.stage = "reading" => a + v.timer <= Timeout + s + 1
  /\ v.stage # "done" => a <= Timeout + 1 + s

RunFine(v, t, a, s) == Typed(v, t, a, s) /\ TrueAnswer(v, t, a) /\ Timed(v, a, s)

Shapes ==
  /\ run \in [Requests -> Runs] /\ task \in [Requests -> TaskStates]
  /\ age \in [Requests -> Nat] /\ stall \in [Requests -> 0..MaxStall]

RunsFine == \A r \in Requests : RunFine(run[r], task[r], age[r], stall[r])

Flying == {r \in Requests : run[r].stage \in InFlight}
Counted ==
  /\ IsFiniteSet(Flying) /\ pageRuns \in Nat
  /\ pageRuns = Cardinality(Flying) /\ pageRuns <= MaxPageRuns

Inductive == Shapes /\ RunsFine /\ Counted

LEMMA CloudInvParts == Inductive => CloudInv
<1> SUFFICES ASSUME Inductive PROVE CloudInv
  OBVIOUS
<1>1. TypeOK
  BY DEF Inductive, Shapes, Counted, TypeOK, Runs
<1>2. LimitHolds
  BY DEF Inductive, Counted, Flying, LimitHolds
<1>3. \A r \in Requests : RunFine(run[r], task[r], age[r], stall[r])
  BY DEF Inductive, RunsFine
<1>4. AnswerIsTrue
  BY <1>3 DEF RunFine, TrueAnswer, AnswerIsTrue
<1>5. EndsInTime
  BY <1>3 DEF RunFine, Timed, EndsInTime
<1>6. RunsAreTimed
  <2>1. \A r \in Requests : Timeout + stall[r] + 1 = (Timeout + stall[r]) + 1
    OBVIOUS
  <2>2. QED
    BY <1>3, <2>1 DEF RunFine, Timed, RunsAreTimed
<1>7. QED
  BY <1>1, <1>2, <1>4, <1>5, <1>6 DEF CloudInv

-----------------------------------------------------------------------------
(* The changes of one run that the steps are made of *)

LEMMA SetStage ==
  ASSUME NEW v \in Runs, NEW st \in Stages
  PROVE  [v EXCEPT !.stage = st] \in Runs
BY DEF Runs

LEMMA SetOdd ==
  ASSUME NEW v \in Runs, NEW d \in 0..OddReads
  PROVE  [v EXCEPT !.odd = d] \in Runs
BY DEF Runs

LEMMA SetOddOutcome ==
  ASSUME NEW v \in Runs, NEW st \in Stages, NEW d \in 0..OddReads, NEW o \in Outcomes
  PROVE  [v EXCEPT !.stage = st, !.odd = d, !.outcome = o] \in Runs
BY DEF Runs

LEMMA SetTimer ==
  ASSUME NEW v \in Runs, NEW st \in Stages, NEW n \in 0..(ReadTime + MaxPause)
  PROVE  [v EXCEPT !.stage = st, !.timer = n] \in Runs
BY DEF Runs

LEMMA SetOutcome ==
  ASSUME NEW v \in Runs, NEW st \in Stages, NEW n \in 0..(ReadTime + MaxPause), NEW o \in Outcomes
  PROVE  [v EXCEPT !.stage = st, !.timer = n, !.outcome = o] \in Runs
BY DEF Runs

Ended(v, o) == [v EXCEPT !.stage = "ended", !.timer = 0, !.outcome = o]

(* A run in flight may end with any answer that is true. *)
LEMMA EndedFine ==
  ASSUME NEW v, NEW t, NEW u \in TaskStates, NEW a, NEW s, RunFine(v, t, a, s), v.stage # "done",
         NEW o \in Outcomes, TrueAnswer(Ended(v, o), u, a)
  PROVE  RunFine(Ended(v, o), u, a, s)
<1>1. "ended" \in Stages /\ 0 \in 0..(ReadTime + MaxPause) /\ v \in Runs
  BY DEF Stages, InFlight, RunFine, Typed
<1>2. Ended(v, o) \in Runs
  BY <1>1, SetOutcome DEF Ended
<1>3. /\ Ended(v, o).stage = "ended" /\ Ended(v, o).left = v.left
  BY <1>1 DEF Ended, Runs
<1>4. QED
  BY <1>2, <1>3 DEF RunFine, Typed, Timed

(* The budget of a read that begins now, by the deadline and one tick. *)
Budget(v) == Least(ReadTime, Most(1, v.left))

LEMMA BudgetFits ==
  ASSUME NEW v, NEW t, NEW a, NEW s, RunFine(v, t, a, s), v.stage # "done"
  PROVE  /\ Budget(v) \in 0..(ReadTime + MaxPause)
         /\ a <= Timeout + s => a + Budget(v) <= Timeout + s + 1
         /\ a < Timeout => a + Budget(v) <= Timeout + s
<1>1. v.left \in Nat /\ a \in Nat /\ s \in Nat
  BY DEF RunFine, Typed, Runs
<1>2. v.left = IF a < Timeout THEN Timeout - a ELSE 0
  BY DEF RunFine, Timed
<1>3. Budget(v) \in Nat /\ Budget(v) <= ReadTime /\ (Budget(v) <= 1 \/ Budget(v) <= v.left)
  BY <1>1 DEF Budget, Least, Most
<1>4. a < Timeout => a + 1 <= Timeout /\ a + v.left <= Timeout
  BY <1>1, <1>2
<1>5. QED
  BY <1>1, <1>2, <1>3, <1>4

(* #top of the loop: Reading. *)
LEMMA ReadingFine ==
  ASSUME NEW r, RunFine(run[r], task[r], age[r], stall[r]),
         run[r].stage \in {"dispatched", "sleeping"}
  PROVE  RunFine(Reading(r), task[r], age[r], stall[r]) /\ Reading(r).stage \in {"ended", "reading"}
<1> DEFINE v == run[r]
<1>1. v \in Runs /\ v.stage # "done" /\ v.outcome = "none" /\ v.odd < OddReads
      /\ age[r] <= Timeout + stall[r]
  BY DEF RunFine, Typed, Timed, Runs
<1>2. CASE v.gone
  <2>1. Reading(r) = Ended(v, "CANCELLED")
    BY <1>2 DEF Reading, Ended
  <2>2. Ended(v, "CANCELLED").gone /\ Ended(v, "CANCELLED").outcome = "CANCELLED"
        /\ Ended(v, "CANCELLED").stage = "ended"
    BY <1>1, <1>2 DEF Ended, Runs
  <2>3. TrueAnswer(Ended(v, "CANCELLED"), task[r], age[r])
    BY <2>2 DEF TrueAnswer
  <2>4. QED
    BY <1>1, <2>1, <2>2, <2>3, EndedFine DEF RunFine, Typed, Outcomes
<1>3. CASE ~v.gone
  <2> DEFINE w == [v EXCEPT !.stage = "reading", !.timer = Budget(v)]
  <2>1. Reading(r) = w
    BY <1>3 DEF Reading, Budget
  <2>2. Budget(v) \in 0..(ReadTime + MaxPause) /\ age[r] + Budget(v) <= Timeout + stall[r] + 1
    BY <1>1, BudgetFits
  <2>3. w \in Runs
    <3>1. "reading" \in Stages
      BY DEF Stages, InFlight
    <3>2. QED
      BY <1>1, <2>2, <3>1, SetTimer
  <2>4. w.stage = "reading" /\ w.timer = Budget(v) /\ w.odd = v.odd /\ w.left = v.left
        /\ w.outcome = v.outcome /\ w.gone = v.gone
    BY <1>1 DEF Runs
  <2> HIDE DEF w
  <2>5. age[r] <= Timeout + 1 + stall[r]
    BY <1>1 DEF RunFine, Typed
  <2>6. QED
    BY <1>1, <2>1, <2>2, <2>3, <2>4, <2>5 DEF RunFine, Typed, TrueAnswer, Timed
<1>4. QED
  BY <1>2, <1>3

(* The end of the loop body: Pauses. *)
LEMMA PausesFine ==
  ASSUME NEW v, NEW t, NEW a, NEW s, RunFine(v, t, a, s), v.stage \in {"reading", "answered"},
         NEW w \in Pauses(v)
  PROVE  RunFine(w, t, a, s) /\ w.stage \in {"ended", "sleeping"}
<1>1. v \in Runs /\ v.outcome = "none" /\ v.odd < OddReads /\ v.left \in Nat /\ a \in Nat /\ s \in Nat
  BY DEF RunFine, Typed, Timed, Runs
<1>2. v.left = IF a < Timeout THEN Timeout - a ELSE 0
  BY DEF RunFine, Timed
<1>3. CASE v.left = 0
  <2>1. w = Ended(v, "TIMEOUT")
    BY <1>3 DEF Pauses, Ended
  <2>2. a >= Timeout
    BY <1>1, <1>2, <1>3
  <2>3. Ended(v, "TIMEOUT").outcome = "TIMEOUT" /\ Ended(v, "TIMEOUT").stage = "ended"
    BY <1>1 DEF Ended, Runs
  <2>4. TrueAnswer(Ended(v, "TIMEOUT"), t, a)
    BY <2>2, <2>3 DEF TrueAnswer
  <2>5. QED
    BY <2>1, <2>3, <2>4, EndedFine DEF RunFine, Typed, Outcomes
<1>4. CASE v.left # 0
  <2>1. PICK p \in 0..Least(MaxPause, v.left) : w = [v EXCEPT !.stage = "sleeping", !.timer = p]
    BY <1>4 DEF Pauses
  <2>2. p \in Nat /\ p <= MaxPause /\ p <= v.left
    BY <1>1, <2>1 DEF Least
  <2>3. p \in 0..(ReadTime + MaxPause) /\ a + p <= Timeout + s
    BY <1>1, <1>2, <1>4, <2>2
  <2>4. w \in Runs
    <3>1. "sleeping" \in Stages
      BY DEF Stages, InFlight
    <3>2. QED
      BY <1>1, <2>1, <2>3, <3>1, SetTimer
  <2>5. w.stage = "sleeping" /\ w.timer = p /\ w.odd = v.odd /\ w.left = v.left
        /\ w.outcome = v.outcome /\ w.gone = v.gone
    BY <1>1, <2>1 DEF Runs
  <2>6. a <= Timeout + 1 + s
    BY DEF RunFine, Timed
  <2>7. QED
    BY <1>1, <1>2, <2>3, <2>4, <2>5, <2>6 DEF RunFine, Typed, TrueAnswer, Timed
<1>5. QED
  BY <1>3, <1>4
-----------------------------------------------------------------------------
(* The steps of one request *)

(* What a step about r does: r stays fine, and is counted or released as   *)
(* it comes and goes.                                                      *)
Counts(r, v) ==
  \/ UNCHANGED pageRuns /\ (v.stage \in InFlight <=> run[r].stage \in InFlight)
  \/ /\ pageRuns < MaxPageRuns /\ pageRuns' = pageRuns + 1
     /\ run[r].stage \notin InFlight /\ v.stage \in InFlight
  \/ /\ pageRuns' = pageRuns - 1
     /\ run[r].stage \in InFlight /\ v.stage \notin InFlight

Moves(r) ==
  \E v \in Runs, t \in TaskStates :
    /\ run' = [run EXCEPT ![r] = v] /\ task' = [task EXCEPT ![r] = t] /\ UNCHANGED <<age, stall>>
    /\ RunFine(v, t, age[r], stall[r])
    /\ Counts(r, v)

LEMMA MovesTo ==
  ASSUME Shapes, NEW r \in Requests, NEW v, NEW t, Becomes(r, v), task' = [task EXCEPT ![r] = t],
         UNCHANGED <<age, stall>>, RunFine(v, t, age[r], stall[r]), Counts(r, v)
  PROVE  Moves(r)
BY DEF Moves, Becomes, RunFine, Typed

LEMMA SameTask ==
  ASSUME Shapes, NEW r \in Requests, UNCHANGED task
  PROVE  task' = [task EXCEPT ![r] = task[r]] /\ task[r] \in TaskStates
BY DEF Shapes

(* runOnCloud ends with an answer that happened. *)
LEMMA EndMoves ==
  ASSUME Shapes, RunsFine, NEW r \in Requests, NEW o \in Outcomes, NEW u \in TaskStates,
         End(r, o), task' = [task EXCEPT ![r] = u], UNCHANGED <<pageRuns, age, stall>>,
         run[r].stage \in InFlight,
         o = "data" => u = "succeeded",
         o = "RUN_FAILED" => u \in {"none", "failed"} \/ run[r].odd = OddReads,
         o = "TIMEOUT" => age[r] >= Timeout \/ u = "timed_out",
         o = "CANCELLED" => run[r].gone \/ u = "cancelled"
  PROVE  Moves(r)
<1> DEFINE w == Ended(run[r], o)
<1>1. RunFine(run[r], task[r], age[r], stall[r]) /\ run[r] \in Runs /\ run[r].stage # "done"
  BY DEF RunsFine, Shapes, InFlight
<1>2. w.outcome = o /\ w.odd = run[r].odd /\ w.gone = run[r].gone /\ w.stage = "ended"
  BY <1>1 DEF Ended, Runs
<1>3. TrueAnswer(w, u, age[r])
  BY <1>2 DEF TrueAnswer
<1>4. RunFine(w, u, age[r], stall[r])
  BY <1>1, <1>3, EndedFine
<1>5. Becomes(r, w)
  BY DEF End, Ended
<1>6. Counts(r, w)
  BY <1>2 DEF Counts, InFlight
<1> HIDE DEF w
<1>7. QED
  BY <1>4, <1>5, <1>6, MovesTo

(* Refused before it is counted. *)
LEMMA RefuseMoves ==
  ASSUME Shapes, RunsFine, NEW r \in Requests, NEW o \in {"refused", "RATE_LIMITED"}, Refuse(r, o),
         UNCHANGED <<task, pageRuns, age, stall>>, run[r].stage \in {"new", "authorizing"}
  PROVE  Moves(r)
<1> DEFINE w == [run[r] EXCEPT !.stage = "done", !.timer = run[r].timer, !.outcome = o]
<1>1. RunFine(run[r], task[r], age[r], stall[r]) /\ run[r] \in Runs
  BY DEF RunsFine, Shapes
<1>2. "done" \in Stages /\ o \in Outcomes /\ run[r].timer \in 0..(ReadTime + MaxPause)
  BY <1>1 DEF Stages, Outcomes, Runs
<1>3. w \in Runs
  BY <1>1, <1>2, SetOutcome
<1>4. w.outcome = o /\ w.stage = "done" /\ w.left = run[r].left
  BY <1>1 DEF Runs
<1>5. Becomes(r, w)
  BY <1>1 DEF Refuse, Becomes, Runs
<1> HIDE DEF w
<1>6. RunFine(w, task[r], age[r], stall[r])
  BY <1>1, <1>3, <1>4 DEF RunFine, Typed, TrueAnswer, Timed
<1>7. Counts(r, w)
  BY <1>4 DEF Counts, InFlight
<1>8. QED
  BY <1>5, <1>6, <1>7, SameTask, MovesTo

LEMMA ArrivalSteps ==
  ASSUME Shapes, RunsFine, NEW r \in Requests,
         Arrive(r) \/ Authorized(r) \/ NotAuthorized(r) \/ TooMany(r) \/ Release(r) \/ PageLeaves(r)
  PROVE  Moves(r)
<1> USE DEF history
<1>0. RunFine(run[r], task[r], age[r], stall[r]) /\ run[r] \in Runs
  BY DEF RunsFine, Shapes
<1>1. CASE UNCHANGED <<task, pageRuns, age, stall>> /\ run[r].stage \in {"new", "authorizing"}
             /\ (Refuse(r, "refused") \/ Refuse(r, "RATE_LIMITED"))
  BY <1>1, RefuseMoves
<1>2. CASE Arrive(r) /\ Becomes(r, [run[r] EXCEPT !.stage = "authorizing"])
  <2> DEFINE w == [run[r] EXCEPT !.stage = "authorizing"]
  <2>1. w \in Runs
    BY <1>0, SetStage DEF Stages
  <2>2. w.outcome = run[r].outcome /\ w.stage = "authorizing" /\ w.left = run[r].left /\ w.odd = run[r].odd
        /\ w.gone = run[r].gone
    BY <1>0 DEF Runs
  <2>3. Becomes(r, w) /\ run[r].stage = "new" /\ UNCHANGED <<task, pageRuns, age, stall>>
    BY <1>2 DEF Arrive, At
  <2> HIDE DEF w
  <2>4. RunFine(w, task[r], age[r], stall[r])
    BY <1>0, <2>1, <2>2, <2>3 DEF RunFine, Typed, TrueAnswer, Timed
  <2>5. Counts(r, w)
    BY <2>2, <2>3 DEF Counts, InFlight
  <2>6. QED
    BY <2>3, <2>4, <2>5, SameTask, MovesTo
<1>3. CASE Authorized(r)
  <2> DEFINE w == [run[r] EXCEPT !.stage = "dispatching", !.timer = Budget(run[r])]
  <2>1. Becomes(r, w) /\ run[r].stage = "authorizing" /\ UNCHANGED <<task, age, stall>>
        /\ pageRuns < MaxPageRuns /\ pageRuns' = pageRuns + 1
    BY <1>3 DEF Authorized, At, Dispatching, Budget
  <2>2. age[r] = 0 /\ age[r] < Timeout /\ run[r].outcome = "none" /\ run[r].odd < OddReads
    BY <1>0, <2>1 DEF RunFine, Timed
  <2>3. Budget(run[r]) \in 0..(ReadTime + MaxPause) /\ age[r] + Budget(run[r]) <= Timeout + stall[r]
    BY <1>0, <2>1, <2>2, BudgetFits
  <2>4. w \in Runs
    BY <1>0, <2>3, SetTimer DEF Stages, InFlight
  <2>5. w.outcome = run[r].outcome /\ w.stage = "dispatching" /\ w.left = run[r].left /\ w.odd = run[r].odd
        /\ w.gone = run[r].gone /\ w.timer = Budget(run[r])
    BY <1>0 DEF Runs
  <2> HIDE DEF w
  <2>6. RunFine(w, task[r], age[r], stall[r])
    BY <1>0, <2>2, <2>3, <2>4, <2>5 DEF RunFine, Typed, TrueAnswer, Timed
  <2>7. Counts(r, w)
    BY <2>1, <2>5 DEF Counts, InFlight
  <2>8. QED
    BY <2>1, <2>6, <2>7, SameTask, MovesTo
<1>4. CASE Release(r)
  <2> DEFINE w == [run[r] EXCEPT !.stage = "done"]
  <2>1. w \in Runs
    BY <1>0, SetStage DEF Stages
  <2>2. w.outcome = run[r].outcome /\ w.stage = "done" /\ w.left = run[r].left /\ w.odd = run[r].odd
        /\ w.gone = run[r].gone
    BY <1>0 DEF Runs
  <2>3. Becomes(r, w) /\ run[r].stage = "ended" /\ UNCHANGED <<task, age, stall>> /\ pageRuns' = pageRuns - 1
    BY <1>4 DEF Release, At
  <2> HIDE DEF w
  <2>4. RunFine(w, task[r], age[r], stall[r])
    BY <1>0, <2>1, <2>2, <2>3 DEF RunFine, Typed, TrueAnswer, Timed
  <2>5. Counts(r, w)
    BY <2>2, <2>3 DEF Counts, InFlight
  <2>6. QED
    BY <2>3, <2>4, <2>5, SameTask, MovesTo
<1>5. CASE PageLeaves(r)
  <2> DEFINE w == [run[r] EXCEPT !.gone = TRUE]
  <2>1. w \in Runs /\ w.outcome = run[r].outcome /\ w.stage = run[r].stage /\ w.left = run[r].left
        /\ w.odd = run[r].odd /\ w.gone = TRUE /\ w.timer = run[r].timer
    BY <1>0 DEF Runs
  <2>2. Becomes(r, w) /\ UNCHANGED <<task, pageRuns, age, stall>>
    BY <1>5 DEF PageLeaves
  <2> HIDE DEF w
  <2>3. RunFine(w, task[r], age[r], stall[r])
    BY <1>0, <2>1 DEF RunFine, Typed, TrueAnswer, Timed
  <2>4. Counts(r, w)
    BY <2>1, <2>2 DEF Counts
  <2>5. QED
    BY <2>2, <2>3, <2>4, SameTask, MovesTo
<1>6. QED
  BY <1>1, <1>2, <1>3, <1>4, <1>5 DEF Arrive, NotAuthorized, TooMany, At

LEMMA DispatchSteps ==
  ASSUME Shapes, RunsFine, NEW r \in Requests,
         DispatchLost(r) \/ DispatchRefused(r) \/ RefusalRead(r) \/ Dispatched(r) \/ TaskIdRead(r)
  PROVE  Moves(r)
<1> USE DEF history
<1>0. RunFine(run[r], task[r], age[r], stall[r]) /\ run[r] \in Runs /\ run[r].stage \in InFlight
  BY DEF RunsFine, Shapes, DispatchLost, DispatchRefused, RefusalRead, Dispatched, TaskIdRead, At, InFlight
<1>1. CloudMayTake(r) => \E u \in TaskStates : task' = [task EXCEPT ![r] = u]
  BY SameTask DEF CloudMayTake, Shapes, TaskStates
<1>2. CASE DispatchLost(r)
  <2>1. PICK u \in TaskStates : task' = [task EXCEPT ![r] = u]
    BY <1>1, <1>2 DEF DispatchLost
  <2>2. PICK o \in {"CANCELLED", "CLOUD_UNAVAILABLE"} : End(r, o) /\ (o = "CANCELLED" => run[r].gone)
    BY <1>2 DEF DispatchLost
  <2>3. UNCHANGED <<pageRuns, age, stall>> /\ o \in Outcomes
    BY <1>2 DEF DispatchLost, Outcomes
  <2>4. QED
    BY <1>0, <2>1, <2>2, <2>3, EndMoves
(* The answer's headers: the timer is cleared. *)
<1>3. ASSUME NEW st \in {"refusing", "dispatched"}, NEW u \in TaskStates, task' = [task EXCEPT ![r] = u],
             Becomes(r, [run[r] EXCEPT !.stage = st, !.timer = 0]), run[r].stage = "dispatching",
             UNCHANGED <<pageRuns, age, stall>>
      PROVE  Moves(r)
  <2> DEFINE w == [run[r] EXCEPT !.stage = st, !.timer = 0]
  <2>1. w \in Runs
    <3>1. st \in Stages /\ 0 \in 0..(ReadTime + MaxPause)
      BY DEF Stages, InFlight
    <3>2. QED
      BY <1>0, <3>1, SetTimer
  <2>2. w.outcome = run[r].outcome /\ w.stage = st /\ w.left = run[r].left
        /\ w.odd = run[r].odd /\ w.gone = run[r].gone
    BY <1>0 DEF Runs
  <2>3. age[r] <= Timeout + stall[r] /\ run[r].outcome = "none"
    BY <1>0, <1>3 DEF RunFine, Typed, Timed, Runs
  <2> HIDE DEF w
  <2>4. RunFine(w, u, age[r], stall[r])
    BY <1>0, <1>3, <2>1, <2>2, <2>3 DEF RunFine, Typed, TrueAnswer, Timed
  <2>5. Counts(r, w)
    BY <1>3, <2>2 DEF Counts, InFlight
  <2>6. QED
    BY <1>3, <2>4, <2>5, MovesTo DEF w
<1>4. CASE DispatchRefused(r)
  <2>1. PICK u \in TaskStates : task' = [task EXCEPT ![r] = u]
    BY <1>1, <1>4 DEF DispatchRefused
  <2>2. QED
    BY <1>3, <1>4, <2>1 DEF DispatchRefused, At
<1>5. CASE Dispatched(r)
  BY <1>3, <1>5 DEF Dispatched, At, TaskStates
<1>6. CASE RefusalRead(r)
  <2>1. PICK o \in {"refused", "RATE_LIMITED", "CLOUD_UNAVAILABLE", "RUN_FAILED"} :
          (o # "CLOUD_UNAVAILABLE" => task[r] = "none") /\ End(r, o)
    BY <1>6 DEF RefusalRead
  <2>2. UNCHANGED <<task, pageRuns, age, stall>> /\ o \in Outcomes
    BY <1>6 DEF RefusalRead, Outcomes
  <2>3. QED
    BY <1>0, <2>1, <2>2, SameTask, EndMoves
<1>7. CASE TaskIdRead(r)
  <2>1. UNCHANGED <<task, pageRuns, age, stall>> /\ run[r].stage = "dispatched"
    BY <1>7 DEF TaskIdRead, At
  <2>2. CASE End(r, "CLOUD_UNAVAILABLE")
    BY <1>0, <2>1, <2>2, SameTask, EndMoves DEF Outcomes
  <2>3. CASE Becomes(r, Reading(r))
    <3>1. RunFine(Reading(r), task[r], age[r], stall[r]) /\ Reading(r).stage \in {"ended", "reading"}
      BY <1>0, <2>1, ReadingFine
    <3>2. Counts(r, Reading(r))
      BY <1>0, <2>1, <3>1 DEF Counts, InFlight
    <3>3. QED
      BY <2>1, <2>3, <3>1, <3>2, SameTask, MovesTo
  <2>4. QED
    BY <1>7, <2>2, <2>3 DEF TaskIdRead
<1>8. QED
  BY <1>2, <1>4, <1>5, <1>6, <1>7
(* The body is read, whatever number of odd ones came before it. *)
LEMMA PausesMove ==
  ASSUME Shapes, RunsFine, NEW r \in Requests, NEW d \in 0..OddReads, d < OddReads,
         run[r].stage \in {"reading", "answered"},
         NEW w \in Pauses([run[r] EXCEPT !.odd = d]), Becomes(r, w), UNCHANGED <<task, pageRuns, age, stall>>
  PROVE  Moves(r)
<1> DEFINE v == [run[r] EXCEPT !.odd = d]
<1>1. RunFine(run[r], task[r], age[r], stall[r]) /\ run[r] \in Runs
  BY DEF RunsFine, Shapes
<1>2. v \in Runs
  BY <1>1, SetOdd
<1>3. v.outcome = run[r].outcome /\ v.stage = run[r].stage /\ v.left = run[r].left /\ v.timer = run[r].timer
      /\ v.odd = d /\ v.gone = run[r].gone
  BY <1>1 DEF Runs
<1> HIDE DEF v
<1>4. run[r].outcome = "none"
  BY <1>1 DEF RunFine, Timed
<1>5. RunFine(v, task[r], age[r], stall[r])
  BY <1>1, <1>2, <1>3, <1>4 DEF RunFine, Typed, TrueAnswer, Timed
<1>6. RunFine(w, task[r], age[r], stall[r]) /\ w.stage \in {"ended", "sleeping"}
  <2>1. w \in Pauses(v)
    BY DEF v
  <2>2. QED
    BY <1>3, <1>5, <2>1, PausesFine
<1>7. Counts(r, w)
  BY <1>6 DEF Counts, InFlight
<1>8. QED
  BY <1>6, <1>7, SameTask, MovesTo

LEMMA SameOdd ==
  ASSUME NEW v \in Runs
  PROVE  v.odd \in 0..OddReads /\ v = [v EXCEPT !.odd = v.odd]
BY DEF Runs

LEMMA ReadSteps ==
  ASSUME Shapes, RunsFine, NEW r \in Requests,
         ReadFails(r) \/ ReadRefused(r) \/ ReadAnswered(r) \/ BodyUseless(r) \/ Wakes(r)
  PROVE  Moves(r)
<1> USE DEF history
<1>0. /\ RunFine(run[r], task[r], age[r], stall[r]) /\ run[r] \in Runs
      /\ run[r].stage \in {"reading", "answered", "sleeping"} /\ run[r].stage \in InFlight
      /\ run[r].odd < OddReads /\ run[r].outcome = "none"
      /\ UNCHANGED <<task, pageRuns, age, stall>>
  BY DEF RunsFine, RunFine, Timed, Shapes, ReadFails, ReadRefused, ReadAnswered, BodyUseless, Wakes, At, InFlight
<1>1. CASE ReadFails(r) \/ BodyUseless(r)
  <2>1. PICK w \in Pauses([run[r] EXCEPT !.odd = run[r].odd]) : Becomes(r, w)
    BY <1>0, <1>1, SameOdd DEF ReadFails, BodyUseless
  <2>2. run[r].stage \in {"reading", "answered"}
    BY <1>1 DEF ReadFails, BodyUseless, At
  <2>3. QED
    BY <1>0, <2>1, <2>2, SameOdd, PausesMove
<1>2. CASE ReadRefused(r)
  <2>1. PICK o \in {"refused", "CLOUD_UNAVAILABLE"} : End(r, o)
    BY <1>2 DEF ReadRefused
  <2>2. QED
    BY <1>0, <2>1, SameTask, EndMoves DEF Outcomes
<1>3. CASE ReadAnswered(r)
  <2> DEFINE w == [run[r] EXCEPT !.stage = "answered", !.timer = 0]
  <2>1. w \in Runs
    <3>1. "answered" \in Stages /\ 0 \in 0..(ReadTime + MaxPause)
      BY DEF Stages, InFlight
    <3>2. QED
      BY <1>0, <3>1, SetTimer
  <2>2. w.outcome = run[r].outcome /\ w.stage = "answered" /\ w.left = run[r].left
        /\ w.odd = run[r].odd /\ w.gone = run[r].gone
    BY <1>0 DEF Runs
  <2>3. Becomes(r, w)
    BY <1>3 DEF ReadAnswered
  <2> HIDE DEF w
  <2>4. RunFine(w, task[r], age[r], stall[r])
    BY <1>0, <2>1, <2>2 DEF RunFine, Typed, TrueAnswer, Timed
  <2>5. Counts(r, w)
    BY <1>0, <2>2 DEF Counts, InFlight
  <2>6. QED
    BY <1>0, <2>3, <2>4, <2>5, SameTask, MovesTo
<1>4. CASE Wakes(r)
  <2>1. run[r].stage = "sleeping" /\ Becomes(r, Reading(r))
    BY <1>4 DEF Wakes, At
  <2>2. RunFine(Reading(r), task[r], age[r], stall[r]) /\ Reading(r).stage \in {"ended", "reading"}
    BY <1>0, <2>1, ReadingFine
  <2>3. Counts(r, Reading(r))
    BY <1>0, <2>2 DEF Counts, InFlight
  <2>4. QED
    BY <1>0, <2>1, <2>2, <2>3, SameTask, MovesTo
<1>5. QED
  BY <1>1, <1>2, <1>3, <1>4

LEMMA StatusStep ==
  ASSUME Shapes, RunsFine, NEW r \in Requests, StatusRead(r)
  PROVE  Moves(r)
<1> USE DEF history
<1>0. /\ RunFine(run[r], task[r], age[r], stall[r]) /\ run[r] \in Runs /\ task[r] \in TaskStates
      /\ run[r].stage = "answered" /\ run[r].odd < OddReads /\ run[r].odd \in Nat /\ run[r].outcome = "none"
      /\ UNCHANGED <<task, pageRuns, age, stall>>
  BY DEF RunsFine, RunFine, Timed, Shapes, StatusRead, At, Runs
<1>1. CASE task[r] \in TaskEnds
  <2>1. End(r, AnswerFor(task[r]))
    <3>1. task[r] # "pending"
      BY <1>1 DEF TaskEnds
    <3>2. QED
      BY <1>1, <3>1 DEF StatusRead
  <2>2. PICK o \in {"data", "TIMEOUT", "CANCELLED", "RUN_FAILED"} :
          /\ o = AnswerFor(task[r])
          /\ o = "data" => task[r] = "succeeded"
          /\ o = "RUN_FAILED" => task[r] = "failed"
          /\ o = "TIMEOUT" => task[r] = "timed_out"
          /\ o = "CANCELLED" => task[r] = "cancelled"
    BY <1>1 DEF AnswerFor, TaskEnds
  <2>3. run[r].stage \in InFlight /\ o \in Outcomes
    BY <1>0 DEF InFlight, Outcomes
  <2>4. QED
    BY <1>0, <2>1, <2>2, <2>3, SameTask, EndMoves
<1>2. CASE task[r] = "pending"
  <2>1. PICK w \in Pauses([run[r] EXCEPT !.odd = 0]) : Becomes(r, w)
    BY <1>2 DEF StatusRead, TaskEnds
  <2>2. 0 \in 0..OddReads /\ 0 < OddReads /\ run[r].stage \in {"reading", "answered"}
    BY <1>0
  <2>3. QED
    BY <1>0, <2>1, <2>2, PausesMove
<1>3. CASE task[r] \notin TaskEnds /\ task[r] # "pending"
  <2>1. PICK w \in Unknown(run[r]) : Becomes(r, w)
    BY <1>3 DEF StatusRead
  <2> DEFINE d == run[r].odd + 1
  <2>2. d \in 0..OddReads
    BY <1>0
  <2>3. CASE d < OddReads
    <3>1. w \in Pauses([run[r] EXCEPT !.odd = d]) /\ run[r].stage \in {"reading", "answered"}
      BY <1>0, <2>1, <2>2, <2>3 DEF Unknown
    <3> HIDE DEF d
    <3>2. QED
      BY <1>0, <2>1, <2>2, <2>3, <3>1, PausesMove
  <2>4. CASE ~(d < OddReads)
    <3>1. w = [run[r] EXCEPT !.stage = "ended", !.odd = d, !.outcome = "RUN_FAILED"] /\ d = OddReads
      BY <1>0, <2>1, <2>2, <2>4 DEF Unknown
    <3>2. "ended" \in Stages /\ "RUN_FAILED" \in Outcomes
      BY DEF Stages, InFlight, Outcomes
    <3> HIDE DEF d
    <3>3. w \in Runs
      BY <1>0, <2>2, <3>1, <3>2, SetOddOutcome
    <3>4. w.stage = "ended" /\ w.odd = OddReads /\ w.outcome = "RUN_FAILED" /\ w.left = run[r].left
      BY <1>0, <3>1 DEF Runs
    <3>5. RunFine(w, task[r], age[r], stall[r])
      BY <1>0, <3>3, <3>4 DEF RunFine, Typed, TrueAnswer, Timed
    <3>6. Counts(r, w)
      BY <1>0, <3>4 DEF Counts, InFlight
    <3>7. QED
      BY <1>0, <2>1, <3>5, <3>6, SameTask, MovesTo
  <2>5. QED
    BY <2>3, <2>4
<1>4. QED
  BY <1>1, <1>2, <1>3

LEMMA CloudStep ==
  ASSUME Shapes, RunsFine, NEW r \in Requests, TaskMoves(r)
  PROVE  Moves(r)
<1>1. RunFine(run[r], task[r], age[r], stall[r]) /\ run[r] \in Runs
  BY DEF RunsFine, Shapes
<1>2. PICK u \in TaskStates : task' = [task EXCEPT ![r] = u]
  BY DEF TaskMoves, TaskStates
<1>3. task[r] \in {"pending", "odd"} /\ UNCHANGED <<run, pageRuns, age, stall>>
  BY DEF TaskMoves, history
<1>4. RunFine(run[r], u, age[r], stall[r])
  BY <1>1, <1>3 DEF RunFine, Typed, TrueAnswer, TaskEnds
<1>5. Becomes(r, run[r]) /\ Counts(r, run[r])
  BY <1>3 DEF Becomes, Counts, Shapes
<1>6. QED
  BY <1>2, <1>3, <1>4, <1>5, MovesTo
-----------------------------------------------------------------------------
(* Time, the count, and the theorem *)

LEMMA TickFine ==
  ASSUME Shapes, RunsFine, Tick
  PROVE  Shapes' /\ RunsFine' /\ UNCHANGED pageRuns
         /\ \A r \in Requests : run'[r].stage = run[r].stage
<1> DEFINE v(r) == [run[r] EXCEPT !.left = Sooner(@), !.timer = Sooner(@)]
<1>1. /\ run' = [r \in Requests |-> IF run[r].stage \in InFlight THEN v(r) ELSE run[r]]
      /\ age' = [r \in Requests |-> IF run[r].stage \in InFlight THEN age[r] + 1 ELSE age[r]]
      /\ stall' = [r \in Requests |-> IF AwaitsBody(r) THEN stall[r] + 1 ELSE stall[r]]
      /\ UNCHANGED <<task, pageRuns>>
  BY DEF Tick
<1>2. ASSUME NEW r \in Requests
      PROVE  /\ RunFine(run'[r], task[r], age'[r], stall'[r])
             /\ run'[r].stage = run[r].stage
  <2>1. /\ RunFine(run[r], task[r], age[r], stall[r]) /\ run[r] \in Runs
        /\ age[r] \in Nat /\ stall[r] \in 0..MaxStall /\ Waits(r)
    BY DEF RunsFine, Shapes, Tick
  <2>2. CASE run[r].stage \notin InFlight
    <3>1. ~AwaitsBody(r)
      BY <2>2 DEF AwaitsBody, InFlight
    <3>2. run'[r] = run[r] /\ age'[r] = age[r] /\ stall'[r] = stall[r]
      BY <1>1, <2>2, <3>1
    <3>3. QED
      BY <2>1, <3>2
  <2>3. CASE run[r].stage \in InFlight
    <3>1. run'[r] = v(r) /\ age'[r] = age[r] + 1
          /\ stall'[r] = IF AwaitsBody(r) THEN stall[r] + 1 ELSE stall[r]
      BY <1>1, <2>3
    <3>2. run[r].left \in 0..Timeout /\ run[r].timer \in 0..(ReadTime + MaxPause)
      BY <2>1 DEF Runs
    <3>3. Sooner(run[r].left) \in 0..Timeout /\ Sooner(run[r].timer) \in 0..(ReadTime + MaxPause)
      BY <3>2 DEF Sooner
    <3>4. v(r) \in Runs
      BY <2>1, <3>3 DEF Runs
    <3>5. /\ v(r).stage = run[r].stage /\ v(r).outcome = run[r].outcome /\ v(r).odd = run[r].odd
          /\ v(r).gone = run[r].gone
          /\ v(r).left = Sooner(run[r].left) /\ v(r).timer = Sooner(run[r].timer)
      BY <2>1 DEF Runs
    <3>6. v(r).left = IF age[r] + 1 < Timeout THEN Timeout - (age[r] + 1) ELSE 0
      BY <2>1, <3>5 DEF RunFine, Timed, Sooner
    <3>7. CASE AwaitsBody(r)
      <4>1. stall[r] < MaxStall /\ stall'[r] = stall[r] + 1
            /\ run[r].stage \in {"refusing", "dispatched", "answered"}
        BY <2>1, <3>1, <3>7 DEF Waits, AwaitsBody
      <4> HIDE DEF v
      <4>2. stall'[r] \in 0..MaxStall /\ age'[r] \in Nat
        BY <2>1, <3>1, <4>1
      <4>3. Timed(v(r), age'[r], stall'[r])
        BY <2>1, <3>1, <3>5, <3>6, <4>1 DEF RunFine, Timed
      <4>4. QED
        BY <2>1, <3>1, <3>4, <3>5, <4>2, <4>3 DEF RunFine, Typed, TrueAnswer
    <3>8. CASE ~AwaitsBody(r)
      <4>1. run[r].timer > 0 /\ run[r].stage \in {"dispatching", "reading", "sleeping"} /\ stall'[r] = stall[r]
        BY <2>1, <2>3, <3>1, <3>8 DEF Waits, InFlight
      <4> HIDE DEF v
      <4>2. v(r).timer = run[r].timer - 1
        BY <3>2, <3>5, <4>1 DEF Sooner
      <4>3. age[r] + run[r].timer <= Timeout + stall[r] + 1
            /\ (run[r].stage # "reading" => age[r] + run[r].timer <= Timeout + stall[r])
        BY <2>1, <3>2, <4>1 DEF RunFine, Timed
      <4>4. Timed(v(r), age'[r], stall'[r])
        BY <2>1, <3>1, <3>2, <3>5, <3>6, <4>1, <4>2, <4>3 DEF RunFine, Timed
      <4>5. age'[r] \in Nat
        BY <2>1, <3>1
      <4>6. QED
        BY <2>1, <3>1, <3>4, <3>5, <4>1, <4>4, <4>5 DEF RunFine, Typed, TrueAnswer
    <3>9. QED
      BY <3>7, <3>8
  <2>4. QED
    BY <2>2, <2>3
<1> HIDE DEF v
<1>3. RunsFine'
  BY <1>1, <1>2 DEF RunsFine
<1>4. Shapes'
  <2>1. \A r \in Requests : run'[r] \in Runs /\ age'[r] \in Nat /\ stall'[r] \in 0..MaxStall
    BY <1>2 DEF RunFine, Typed
  <2>2. /\ run' = [r \in Requests |-> run'[r]]
        /\ age' = [r \in Requests |-> age'[r]]
        /\ stall' = [r \in Requests |-> stall'[r]]
    BY <1>1
  <2>3. QED
    BY <1>1, <2>1, <2>2 DEF Shapes
<1>5. QED
  BY <1>1, <1>2, <1>3, <1>4

(* A request that comes or goes changes the count by one. *)
LEMMA MovesCounted ==
  ASSUME Shapes, Counted, NEW r \in Requests, NEW v \in Runs, run' = [run EXCEPT ![r] = v], Counts(r, v)
  PROVE  Counted'
<1>1. Flying' = IF v.stage \in InFlight THEN Flying \cup {r} ELSE Flying \ {r}
  BY DEF Shapes, Flying
<1>2. r \in Flying <=> run[r].stage \in InFlight
  BY DEF Flying
<1>3. IsFiniteSet(Flying) /\ pageRuns \in Nat /\ pageRuns = Cardinality(Flying) /\ pageRuns <= MaxPageRuns
  BY DEF Counted
<1>4. CASE UNCHANGED pageRuns /\ (v.stage \in InFlight <=> run[r].stage \in InFlight)
  <2>1. Flying' = Flying
    BY <1>1, <1>2, <1>4
  <2>2. QED
    BY <1>3, <1>4, <2>1 DEF Counted
<1>5. CASE pageRuns < MaxPageRuns /\ pageRuns' = pageRuns + 1 /\ run[r].stage \notin InFlight /\ v.stage \in InFlight
  <2>1. Flying' = Flying \cup {r} /\ r \notin Flying
    BY <1>1, <1>2, <1>5
  <2>2. IsFiniteSet(Flying \cup {r}) /\ Cardinality(Flying \cup {r}) = Cardinality(Flying) + 1
    BY <1>3, <2>1, FS_AddElement
  <2>3. IsFiniteSet(Flying') /\ pageRuns' = Cardinality(Flying')
    BY <1>3, <1>5, <2>1, <2>2
  <2>4. pageRuns' \in Nat /\ pageRuns' <= MaxPageRuns
    BY <1>3, <1>5
  <2>5. QED
    BY <2>3, <2>4 DEF Counted
<1>6. CASE pageRuns' = pageRuns - 1 /\ run[r].stage \in InFlight /\ v.stage \notin InFlight
  <2>1. Flying' = Flying \ {r} /\ r \in Flying
    BY <1>1, <1>2, <1>6
  <2>2. IsFiniteSet(Flying \ {r}) /\ Cardinality(Flying \ {r}) = Cardinality(Flying) - 1
    BY <1>3, <2>1, FS_RemoveElement
  <2>3. Cardinality(Flying \ {r}) \in Nat
    BY <2>2, FS_CardinalityType
  <2>4. IsFiniteSet(Flying') /\ pageRuns' = Cardinality(Flying')
    BY <1>3, <1>6, <2>1, <2>2
  <2>5. pageRuns' \in Nat /\ pageRuns' <= MaxPageRuns
    BY <1>3, <1>6, <2>1, <2>2, <2>3
  <2>6. QED
    BY <2>4, <2>5 DEF Counted
<1>7. QED
  BY <1>4, <1>5, <1>6 DEF Counts

LEMMA InitInductive == Init => Inductive
<1> SUFFICES ASSUME Init PROVE Inductive
  OBVIOUS
<1> DEFINE v == [stage |-> "new", timer |-> 0, odd |-> 0, left |-> Timeout, gone |-> FALSE, outcome |-> "none"]
<1>1. v \in Runs
  BY DEF Runs, Stages, Outcomes
<1>2. RunFine(v, "none", 0, 0)
  BY <1>1 DEF RunFine, Typed, TrueAnswer, Timed, TaskStates
<1>3. /\ run = [r \in Requests |-> v] /\ task = [r \in Requests |-> "none"]
      /\ age = [r \in Requests |-> 0] /\ stall = [r \in Requests |-> 0] /\ pageRuns = 0
  BY DEF Init
<1>4. \A r \in Requests : run[r].stage \notin InFlight
  BY <1>3 DEF InFlight
<1> HIDE DEF v
<1>5. Shapes
  BY <1>1, <1>3 DEF Shapes, TaskStates
<1>6. RunsFine
  BY <1>2, <1>3 DEF RunsFine
<1>7. Flying = {}
  BY <1>4 DEF Flying
<1>8. Counted
  BY <1>3, <1>7, FS_EmptySet DEF Counted
<1>9. QED
  BY <1>5, <1>6, <1>8 DEF Inductive

LEMMA StepInductive ==
  ASSUME Inductive, [Next]_vars
  PROVE  Inductive'
<1>1. ASSUME NEW r \in Requests, Moves(r) PROVE Inductive'
  <2>1. PICK v \in Runs, t \in TaskStates :
          /\ run' = [run EXCEPT ![r] = v] /\ task' = [task EXCEPT ![r] = t] /\ UNCHANGED <<age, stall>>
          /\ RunFine(v, t, age[r], stall[r])
          /\ Counts(r, v)
    BY <1>1 DEF Moves
  <2>2. Shapes'
    BY <2>1 DEF Inductive, Shapes
  <2>3. RunsFine'
    BY <2>1 DEF Inductive, Shapes, RunsFine
  <2>4. Counted'
    BY <2>1, MovesCounted DEF Inductive
  <2>5. QED
    BY <2>2, <2>3, <2>4 DEF Inductive
<1>2. CASE \E r \in Requests : HandlerStep(r) \/ Arrive(r) \/ PageLeaves(r) \/ TaskMoves(r)
  BY <1>1, <1>2, ArrivalSteps, DispatchSteps, ReadSteps, StatusStep, CloudStep DEF Inductive, HandlerStep
<1>3. CASE Tick
  <2>1. Shapes' /\ RunsFine' /\ UNCHANGED pageRuns /\ \A r \in Requests : run'[r].stage = run[r].stage
    BY <1>3, TickFine DEF Inductive
  <2>2. Flying' = Flying
    BY <2>1 DEF Flying
  <2>3. QED
    BY <2>1, <2>2 DEF Inductive, Counted
<1>4. CASE UNCHANGED vars
  BY <1>4 DEF vars, history, Inductive, Shapes, RunsFine, Counted, Flying
<1>5. QED
  BY <1>2, <1>3, <1>4 DEF Next

(* However the runs of one user's pages, Writ Cloud and the clock          *)
(* interleave: the count is that of the runs in flight and never above the *)
(* limit, what a page hears is what happened, and every run is over by its *)
(* deadline and one tick, but for what the bodies lag.                     *)
THEOREM CloudInvHolds == Spec => []CloudInv
<1>1. Inductive => CloudInv
  BY CloudInvParts
<1>2. Inductive /\ [Next]_vars => Inductive'
  BY StepInductive
<1>3. QED
  BY InitInductive, <1>1, <1>2, PTL DEF Spec

-----------------------------------------------------------------------------
(* Creating bridges and clients                                            *)

(* buildTree has a place for each function of a contract without clashes:  *)
(* once the first i had their turn, it holds just these.                   *)
LEMMA TreeHoldsAll ==
  ASSUME functions \in Seq(Functions), ~Clash(functions)
  PROVE  Tree = The
<1> DEFINE n == Len(functions)
           First(i) == {functions[j] : j \in 1..i}
           Grown(t) == t = [i \in 0..n |-> IF i = 0 THEN {} ELSE Plant(t[i - 1], functions[i])]
           firsts == [i \in 0..n |-> First(i)]
<1>1. n \in Nat /\ DOMAIN functions = 1..n /\ The = First(n)
  BY DEF The, ToSet
<1>2. ASSUME NEW i \in 1..n PROVE Plant(First(i - 1), functions[i]) = First(i)
  <2>1. \A j \in 1..(i - 1) : /\ ~IsStrictPrefix(functions[j].key, functions[i].key)
                              /\ ~IsPrefix(functions[i].key, functions[j].key)
    BY <1>1 DEF Clash, IsStrictPrefix
  <2>2. \A f \in First(i - 1) : /\ ~IsStrictPrefix(f.key, functions[i].key)
                                /\ ~IsPrefix(functions[i].key, f.key)
    BY <2>1
  <2>3. Plant(First(i - 1), functions[i]) = First(i - 1) \cup {functions[i]}
    BY <2>2 DEF Plant
  <2>4. First(i) = First(i - 1) \cup {functions[i]}
    BY <1>1
  <2> QED BY <2>3, <2>4
<1>3. Grown(firsts)
  <2>1. \A i \in 0..n : First(i) = IF i = 0 THEN {} ELSE Plant(firsts[i - 1], functions[i])
    <3>1. \A i \in 1..n : i - 1 \in 0..n
      BY <1>1
    <3>2. First(0) = {}
      OBVIOUS
    <3> HIDE DEF First
    <3>3. ASSUME NEW i \in 1..n PROVE i # 0 /\ Plant(firsts[i - 1], functions[i]) = First(i)
      <4>1. firsts[i - 1] = First(i - 1) /\ i # 0
        BY <3>1, <1>1
      <4> QED BY <4>1, <1>2
    <3>4. \A i \in 0..n : i = 0 \/ i \in 1..n
      BY <1>1
    <3> QED BY <3>2, <3>3, <3>4
  <2> QED BY <2>1
<1>4. ASSUME NEW t, Grown(t) PROVE t[n] = First(n)
  <2> DEFINE T == {i \in Nat : i <= n => t[i] = First(i)}
  <2>1. 0 \in T
    BY <1>1, <1>4
  <2>2. ASSUME NEW i \in T PROVE i + 1 \in T
    <3>1. CASE i + 1 <= n
      <4>1. i + 1 \in 1..n /\ (i + 1) - 1 = i /\ t[i] = First(i)
        BY <1>1, <3>1
      <4>2. t[i + 1] = Plant(t[(i + 1) - 1], functions[i + 1])
        <5>1. i + 1 \in 0..n /\ i + 1 # 0
          BY <4>1, <1>1
        <5>2. t = [m \in 0..n |-> IF m = 0 THEN {} ELSE Plant(t[m - 1], functions[m])]
          BY <1>4
        <5> HIDE DEF n
        <5> QED BY <5>1, <5>2
      <4>3. Plant(First((i + 1) - 1), functions[i + 1]) = First(i + 1)
        BY <1>2, <4>1
      <4> HIDE DEF First
      <4> QED BY <4>1, <4>2, <4>3
    <3> QED BY <3>1
  <2> HIDE DEF T
  <2>3. T = Nat
    BY <2>1, <2>2, Induction DEF T
  <2> QED BY <1>1, <2>3 DEF T
<1> DEFINE tree == CHOOSE t : Grown(t)
<1>5. Grown(tree)
  BY <1>3, Zenon
<1>6. Tree = tree[n]
  BY DEF Tree
<1> HIDE DEF Grown, First, tree
<1> QED BY <1>1, <1>4, <1>5, <1>6

(* What was created was accepted. *)
Created ==
  /\ server = "built" => ServerAccepts
  /\ page = "built" => PageAccepts
  /\ client = "built" => PageContract /\ TokensFor(The)

CallTold == NothingFailsLater /\ LanStaysHome /\ PagesAgree

ConfigInd == ConfigTypeOK /\ Created /\ CallTold

LEMMA ConfigInvParts == ConfigInd => ConfigInv
<1> SUFFICES ASSUME ConfigInd PROVE ConfigInv
  OBVIOUS
<1>1. EveryKeyIsReached
  <2>1. ASSUME "built" \in {server, page, client} PROVE ~Clash(functions)
    BY <2>1 DEF ConfigInd, Created, ServerAccepts, ServerContract, PageAccepts, PageContract
  <2> QED BY <2>1, TreeHoldsAll DEF ConfigInd, ConfigTypeOK, EveryKeyIsReached
<1>2. OneValuePerPackage
  <2> SUFFICES ASSUME page = "built", NEW f \in Suggesting PROVE Suggested(f.package) = {f.suggest}
    BY DEF OneValuePerPackage
  <2>1. \A g \in Suggesting : g.package = f.package => g.suggest = f.suggest
    BY DEF ConfigInd, Created, PageAccepts, SuggestionsAgree
  <2> QED BY <2>1 DEF Suggested
<1> QED
  BY <1>1, <1>2 DEF ConfigInd, CallTold, ConfigInv

LEMMA FunctionsOfContract ==
  ASSUME ConfigTypeOK, NEW f \in The
  PROVE  f \in Functions /\ options \in Options
BY DEF ConfigTypeOK, The, ToSet

(* A call of what was created, by the server, a page or a client. *)
CallFine(by, f, v) ==
  /\ v \in Venues \ {"CLOUD_NOT_CONFIGURED", "CONFIG_INVALID", "BAD_REQUEST"}
  /\ Lan(f) => v # "cloud"
  /\ by = "page" /\ f.over = "none" => v # "WRIT_REQUIRED"

LEMMA ServerCalls ==
  ASSUME ConfigInd, server = "built", NEW f \in The
  PROVE  /\ \A v \in UserCallVenues(f) : CallFine("user", f, v)
         /\ CallFine("server", f, ServerRun(f))
         /\ Lan(f) => ServerMode(f) = "required"
         /\ ~Lan(f) /\ f.over = "none" => ServerMode(f) = PageMode(f)
         /\ ServerRun(f) = "WRIT_REQUIRED" => ServerMode(f) = "required"
<1>1. f \in Functions /\ options \in Options
  BY FunctionsOfContract DEF ConfigInd
<1>2. ServerAccepts
  BY DEF ConfigInd, Created
<1>3. ServerMode(f) # "required" => f.cloud # "none" /\ options.apiKey
  BY <1>2 DEF ServerAccepts
<1>4. ServerMapping(f) \in {"none", "number"}
  BY <1>2 DEF ServerAccepts, ServerContract, ServerFunction
<1>5. ServerMode(f) # "required" => CloudVenue(f) = "cloud"
  BY <1>1, <1>3, <1>4 DEF CloudVenue, ServerMapping
<1>6. ServerMode(f) # "cloud" => UserVenues = {"away", "user"}
  BY <1>1, <1>2 DEF ServerAccepts, UserVenues, Options
<1>7. Lan(f) => ServerMode(f) = "required"
  BY DEF ServerMode
<1>8. ~Lan(f) /\ f.over = "none" => ServerMode(f) = PageMode(f)
  BY DEF ServerMode, Explicit, PageMode
<1>9. \A v \in UserCallVenues(f) : CallFine("user", f, v)
  BY <1>5, <1>6, <1>7 DEF UserCallVenues, CallFine, Venues
<1>10. CallFine("server", f, ServerRun(f)) /\ (ServerRun(f) = "WRIT_REQUIRED" => ServerMode(f) = "required")
  BY <1>5, <1>7 DEF ServerRun, CallFine, Venues
<1> QED BY <1>7, <1>8, <1>9, <1>10

LEMMA LocalCalls ==
  ASSUME NEW f \in The, f.linked = "token" => options.runToken, NEW by
  PROVE  CallFine(by, f, LocalVenue(f))
BY DEF LocalVenue, CallFine, Venues

LEMMA PageCalls ==
  ASSUME ConfigInd, page = "built", NEW f \in The
  PROVE  /\ PageMode(f) # "cloud" => CallFine("page", f, LocalVenue(f))
         /\ PageMode(f) # "required" /\ server = "built" => CallFine("page", f, ServerRun(f))
<1>1. PageAccepts
  BY DEF ConfigInd, Created
<1>2. PageMode(f) # "cloud" => CallFine("page", f, LocalVenue(f))
  <2>1. PageMode(f) # "cloud" /\ f.linked = "token" => options.runToken
    BY <1>1 DEF PageAccepts, TokensFor
  <2> QED BY <2>1, LocalCalls
<1>3. ASSUME PageMode(f) # "required", server = "built" PROVE CallFine("page", f, ServerRun(f))
  <2>1. ~Lan(f)
    BY <1>1, <1>3 DEF PageAccepts
  <2>2. f.over = "none" => ServerRun(f) # "WRIT_REQUIRED"
    BY <2>1, <1>3, ServerCalls
  <2>3. CallFine("server", f, ServerRun(f))
    BY <1>3, ServerCalls
  <2> QED BY <2>1, <2>2, <2>3 DEF CallFine
<1> QED BY <1>2, <1>3

LEMMA CallIsFine ==
  ASSUME ConfigInd, NEW by \in {"user", "server", "page", "client"}, NEW f \in The, NEW V,
         \A v \in V : CallFine(by, f, v), Called(by, f, V)
  PROVE  ConfigInd'
<1>1. PICK v \in V : call' = [by |-> by, fn |-> f, venue |-> v]
  BY DEF Called
<1>2. f \in Functions /\ v \in Venues /\ CallFine(by, f, v)
  BY <1>1, FunctionsOfContract DEF ConfigInd, CallFine
<1>3. call'.venue = v /\ call'.fn = f /\ call'.by = by
  BY <1>1
<1>4. ConfigTypeOK'
  BY <1>1, <1>2 DEF Called, ConfigInd, ConfigTypeOK
<1>5. Created'
  BY DEF ConfigInd, Created, Called, ServerAccepts, ServerContract, ServerFunction, ServerMapping, ServerMode,
         Explicit, PageAccepts, PageContract, PageMode, TokensFor, SuggestionsAgree, Suggesting, The
<1>6. CallTold'
  BY <1>2, <1>3 DEF CallFine, CallTold, NothingFailsLater, LanStaysHome, PagesAgree, Lan
<1> QED BY <1>4, <1>5, <1>6 DEF ConfigInd

LEMMA Creation ==
  ASSUME ConfigInd, CreateServer \/ CreatePage \/ CreateClient
  PROVE  ConfigInd'
<1>1. UNCHANGED <<functions, options, call>>
  BY DEF CreateServer, CreatePage, CreateClient
<1>2. ConfigTypeOK' /\ CallTold'
  BY <1>1 DEF ConfigInd, ConfigTypeOK, MadeStates, CallTold, NothingFailsLater, LanStaysHome, PagesAgree,
         CreateServer, CreatePage, CreateClient
<1>3. (ServerAccepts' <=> ServerAccepts) /\ (PageAccepts' <=> PageAccepts)
      /\ ((PageContract /\ TokensFor(The))' <=> (PageContract /\ TokensFor(The)))
  BY <1>1 DEF ServerAccepts, ServerContract, ServerFunction, ServerMapping, ServerMode,
         Explicit, PageAccepts, PageContract, PageMode, TokensFor, SuggestionsAgree, Suggesting, The
<1>4. Created'
  BY <1>3 DEF ConfigInd, Created, CreateServer, CreatePage, CreateClient
<1> QED BY <1>2, <1>4 DEF ConfigInd

(* Whatever contract and options are tried, and whatever is called of what *)
(* was created: no call fails for its configuration, a function of the     *)
(* visitor's network never runs on Writ Cloud, every key has its method,   *)
(* page and server agree on what needs Writ, and a package has one value   *)
(* (createWritBridge of server and page, createWritClient).                *)
THEOREM ConfigInvHolds == ConfigSpec => []ConfigInv
<1>1. ConfigInit => ConfigInd
  BY ConfigAssumption DEF ConfigInit, ConfigInd, ConfigTypeOK, MadeStates, Created, CallTold,
         NothingFailsLater, LanStaysHome, PagesAgree
<1>2. ConfigInd /\ [ConfigNext]_configVars => ConfigInd'
  <2> SUFFICES ASSUME ConfigInd, [ConfigNext]_configVars PROVE ConfigInd'
    OBVIOUS
  <2>1. CASE CreateServer \/ CreatePage \/ CreateClient
    BY <2>1, Creation
  <2>2. ASSUME NEW f \in The, CallForUser(f) PROVE ConfigInd'
    BY <2>2, ServerCalls, CallIsFine DEF CallForUser
  <2>3. ASSUME NEW f \in The, CallOnCloud(f) PROVE ConfigInd'
    BY <2>3, ServerCalls, CallIsFine DEF CallOnCloud
  <2>4. ASSUME NEW f \in The, PageCall(f) PROVE ConfigInd'
    BY <2>4, PageCalls, CallIsFine DEF PageCall
  <2>5. ASSUME NEW f \in The, ClientCall(f) PROVE ConfigInd'
    <3>1. f.linked = "token" => options.runToken
      BY <2>5 DEF ClientCall, ConfigInd, Created, TokensFor
    <3> QED BY <2>5, <3>1, LocalCalls, CallIsFine DEF ClientCall
  <2>6. CASE UNCHANGED configVars
    BY <2>6 DEF configVars, ConfigInd, ConfigTypeOK, CallTold, NothingFailsLater, LanStaysHome, PagesAgree,
         Created, ServerAccepts, ServerContract, ServerFunction, ServerMapping, ServerMode,
         Explicit, PageAccepts, PageContract, PageMode, TokensFor, SuggestionsAgree, Suggesting, The
  <2> QED BY <2>1, <2>2, <2>3, <2>4, <2>5, <2>6 DEF ConfigNext
<1> QED BY <1>1, <1>2, ConfigInvParts, PTL DEF ConfigSpec

-----------------------------------------------------------------------------
(* Presence                                                                *)

USE PresenceAssumption

PageRequests == RequestRecords \cup {NoRequest}

(* A request by its stage. *)
LEMMA RequestStages ==
  ASSUME NEW r \in PageRequests
  PROVE  /\ r.stage = "none" => r = NoRequest
         /\ r.stage = "sent" => r \in [stage : {"sent"}, says : Readiness]
         /\ r.stage = "read" => r \in [stage : {"read"}, says : Readiness, saw : Records]
         /\ r # NoRequest => r.says \in Readiness /\ r.stage \in {"sent", "read"}
         /\ NoRequest.stage = "none"
BY DEF PageRequests, RequestRecords, NoRequest

(* A stored readiness is one of the three, and never says more than what   *)
(* was reported.                                                           *)
Backed(r, told) == r \in Records /\ (r.says # "no" \/ r.ever => told)

LEMMA GreetedBacked ==
  ASSUME NEW saw, NEW told \in BOOLEAN, Backed(saw, told), NEW r \in Readiness
  PROVE  /\ Backed(Greeted(saw, r), told \/ r # "no")
         /\ saw.ever = told => Greeted(saw, r).ever = (told \/ r # "no")
BY DEF Backed, Greeted, Records

LEMMA SeenBacked ==
  ASSUME NEW s, NEW told \in BOOLEAN, Backed(presence, told)
  PROVE  Backed(Seen(s), told)
<1>1. CASE s = "poll"
  BY <1>1 DEF Seen
<1>2. CASE s # "poll"
  <2>1. Seen(s) = [says |-> "no", ever |-> presence.ever]
    BY <1>2 DEF Seen, NoRecord
  <2>2. QED
    BY <2>1 DEF Backed, Records, Readiness
<1>3. QED
  BY <1>1, <1>2

(* PresenceInv but for the requests' part. *)
Ready ==
  /\ store \in Stores /\ tab \in [Pages -> Tabs]
  /\ says \in [Pages -> Readiness]
  /\ turns \in 0..MaxTurns
  /\ online \in BOOLEAN /\ reported \in BOOLEAN
  /\ Backed(presence, reported)
  /\ store = "memory" => presence.ever = reported

Sent ==
  /\ lastHello \in [Pages -> Readiness \cup {"none"}]
  /\ req \in [Pages -> [Slots -> PageRequests]]
  /\ \A p \in Pages, s \in Slots :
       req[p][s].stage = "read" => store # "memory" /\ Backed(req[p][s].saw, reported)

LEMMA PresenceInvParts == Ready /\ Sent => PresenceInv
<1> SUFFICES ASSUME Ready, Sent PROVE PresenceInv
  OBVIOUS
<1>1. PresenceTypeOK
  BY DEF Ready, Sent, PresenceTypeOK, Backed, PageRequests
<1>2. RecordsAreBacked
  BY DEF Ready, Sent, RecordsAreBacked, Backed
<1>3. AwayCodeIsTrue
  BY DEF Ready, AwayCodeIsTrue, Route, Backed, Records, Readiness
<1>4. QED
  BY <1>1, <1>2, <1>3 DEF PresenceInv

-----------------------------------------------------------------------------
(* A turn is one of those the bound allows. *)
LEMMA TurnCounts == turns \in 0..MaxTurns /\ CountTurn => turns' \in 0..MaxTurns
BY DEF CountTurn

LEMMA NewTab ==
  ASSUME tab \in [Pages -> Tabs], NEW p \in Pages, NEW to \in Tabs, BecomesTab(p, to)
  PROVE  tab' \in [Pages -> Tabs]
BY DEF BecomesTab

(* What is left of a page's channel that is over. *)
LEMMA OverIsWellFormed ==
  ASSUME Ready, Sent, NEW p \in Pages, IsOver(p)
  PROVE  /\ tab' \in [Pages -> Tabs] /\ says' \in [Pages -> Readiness]
         /\ lastHello' \in [Pages -> Readiness \cup {"none"}]
<1>1. tab' \in [Pages -> Tabs]
  BY NewTab DEF IsOver, Ready, Tabs
<1>2. says' \in [Pages -> Readiness] /\ lastHello' \in [Pages -> Readiness \cup {"none"}]
  BY DEF IsOver, Ready, Sent, Readiness
<1>3. QED
  BY <1>1, <1>2

(* A page's hello, or nothing, in one of its slots. *)
LEMMA GreetingSent ==
  ASSUME Ready, Sent, NEW p \in Pages, NEW r \in Readiness, NEW force \in BOOLEAN, Greet(p, r, force),
         UNCHANGED <<store, reported>>
  PROVE  Sent'
<1>1. CASE force \/ r # lastHello[p]
  <2>1. PICK s \in HelloSlots : req' = [req EXCEPT ![p][s] = [stage |-> "sent", says |-> r]]
    <3>1. (CHOOSE s \in HelloSlots : IsFree(s)) \in HelloSlots
      BY <1>1 DEF Greet
    <3>2. QED
      BY <1>1, <3>1 DEF Greet, Send
  <2>2. [stage |-> "sent", says |-> r] \in PageRequests
    BY DEF PageRequests, RequestRecords
  <2>3. s \in Slots
    BY DEF Slots
  <2>4. req' \in [Pages -> [Slots -> PageRequests]]
    BY <2>1, <2>2, <2>3 DEF Sent
  <2>5. \A q \in Pages, t \in Slots : req'[q][t].stage = "read" => req'[q][t] = req[q][t]
    BY <2>1, <2>3 DEF Sent
  <2>6. lastHello' \in [Pages -> Readiness \cup {"none"}]
    BY <1>1 DEF Greet, Sent
  <2>7. QED
    BY <2>4, <2>5, <2>6 DEF Sent
<1>2. CASE ~(force \/ r # lastHello[p])
  BY <1>2 DEF Greet, Sent
<1>3. QED
  BY <1>1, <1>2

LEMMA PageSteps ==
  ASSUME Ready, Sent, NEW p \in Pages,
         \/ Open(p) \/ Leave(p) \/ Pause(p) \/ Resume(p)
         \/ Change(p) \/ HelloTimer(p) \/ Poll(p)
  PROVE  (Ready /\ Sent)'
<1>0. says[p] \in Readiness
  BY DEF Ready
<1>1. CASE Open(p)
  <2>1. Sent'
    BY <1>0, <1>1, GreetingSent DEF Open
  <2>2. tab' \in [Pages -> Tabs] /\ turns' \in 0..MaxTurns
    BY <1>1, NewTab, TurnCounts DEF Open, Ready, Tabs
  <2>3. QED
    BY <1>1, <2>1, <2>2 DEF Open, Ready
<1>2. CASE Leave(p)
  BY <1>2, OverIsWellFormed DEF Leave, Ready, Sent
<1>3. CASE Pause(p)
  <2>1. tab' \in [Pages -> Tabs] /\ turns' \in 0..MaxTurns
    BY <1>3, NewTab, TurnCounts DEF Pause, Ready, Tabs
  <2>2. QED
    BY <1>3, <2>1 DEF Pause, Ready, Sent
<1>4. CASE Resume(p)
  <2>1. Sent'
    BY <1>0, <1>4, GreetingSent DEF Resume
  <2>2. tab' \in [Pages -> Tabs]
    BY <1>4, NewTab DEF Resume, Ready, Tabs
  <2>3. QED
    BY <1>4, <2>1, <2>2 DEF Resume, Ready
<1>5. CASE Change(p)
  <2>1. PICK r \in Readiness : says' = [says EXCEPT ![p] = r] /\ Greet(p, r, FALSE)
    BY <1>5 DEF Change
  <2>2. Sent'
    BY <1>5, <2>1, GreetingSent DEF Change
  <2>3. turns' \in 0..MaxTurns
    BY <1>5, TurnCounts DEF Change, Ready
  <2>4. Ready'
    BY <1>5, <2>1, <2>3 DEF Change, Ready
  <2>5. QED
    BY <2>2, <2>4
<1>6. CASE HelloTimer(p)
  BY <1>0, <1>6, GreetingSent DEF HelloTimer, Ready
<1>7. CASE Poll(p)
  <2>1. req' = [req EXCEPT ![p]["poll"] = [stage |-> "sent", says |-> "no"]]
    BY <1>7 DEF Poll, Send
  <2>2. [stage |-> "sent", says |-> "no"] \in PageRequests /\ "poll" \in Slots
    BY DEF PageRequests, RequestRecords, Readiness, Slots
  <2>3. req' \in [Pages -> [Slots -> PageRequests]]
    BY <2>1, <2>2 DEF Sent
  <2>4. \A q \in Pages, t \in Slots : req'[q][t].stage = "read" => req'[q][t] = req[q][t]
    BY <2>1, <2>2 DEF Sent
  <2>5. QED
    BY <1>7, <2>3, <2>4 DEF Poll, pageVars, Ready, Sent
<1>8. QED
  BY <1>1, <1>2, <1>3, <1>4, <1>5, <1>6, <1>7

(* A request that is over leaves the others as they are. *)
LEMMA AnsweredSent ==
  ASSUME Sent, NEW p \in Pages, NEW s \in Slots, NEW heard \in BOOLEAN, Answered(p, s, heard),
         UNCHANGED store, reported => reported'
  PROVE  Sent'
<1>1. req' \in [Pages -> [Slots -> PageRequests]] /\ lastHello' \in [Pages -> Readiness \cup {"none"}]
  BY DEF Answered, Sent, PageRequests
<1>2. \A q \in Pages, t \in Slots : req'[q][t].stage = "read" => req'[q][t] = req[q][t]
  BY RequestStages DEF Answered, Sent
<1>3. QED
  BY <1>1, <1>2 DEF Sent, Backed

LEMMA ServerSteps ==
  ASSUME Ready, Sent, NEW p \in Pages, NEW s \in Slots, Read(p, s) \/ Write(p, s) \/ Fail(p, s) \/ RefusePage(p, s)
  PROVE  (Ready /\ Sent)'
<1> DEFINE r == req[p][s]
<1>0. r \in PageRequests
  BY DEF Sent
<1>1. CASE Read(p, s)
  <2> DEFINE n == [stage |-> "read", says |-> r.says, saw |-> Seen(s)]
  <2>1. store = "redis" /\ r.stage = "sent" /\ req' = [req EXCEPT ![p][s] = n]
    BY <1>1 DEF Read
  <2>2. Backed(Seen(s), reported) /\ Seen(s) \in Records
    BY SeenBacked DEF Ready, Backed
  <2>3. n \in PageRequests
    BY <1>0, <2>1, <2>2, RequestStages DEF PageRequests, RequestRecords
  <2>4. n.saw = Seen(s)
    OBVIOUS
  <2> HIDE DEF n
  <2>5. req' \in [Pages -> [Slots -> PageRequests]]
    BY <2>1, <2>3 DEF Sent
  <2>6. \A q \in Pages, t \in Slots : req'[q][t] = req[q][t] \/ req'[q][t] = n
    BY <2>1 DEF Sent
  <2>7. UNCHANGED <<tab, says, lastHello, turns, presence, online, reported, store>>
    BY <1>1 DEF Read, pageVars
  <2>8. Ready'
    BY <2>7 DEF Ready
  <2>9. Sent'
    BY <2>1, <2>2, <2>4, <2>5, <2>6, <2>7 DEF Sent
  <2>10. QED
    BY <2>8, <2>9
<1>2. CASE Write(p, s)
  <2>1. PICK saw \in Records :
          /\ Backed(saw, reported) /\ (store = "memory" => saw.ever = reported)
          /\ Store(p, s, saw)
    <3>1. CASE store = "redis"
      BY <1>0, <1>2, <3>1, RequestStages DEF Write, Sent, Backed
    <3>2. CASE store # "redis"
      BY <1>2, <3>2 DEF Write, Ready, Backed
    <3>3. QED
      BY <3>1, <3>2
  <2>2. r.says \in Readiness
    BY <1>0, <1>2, RequestStages DEF Write
  <2>3. /\ presence' = IF s = "poll" THEN saw ELSE Greeted(saw, r.says)
        /\ reported' = (reported \/ (s # "poll" /\ r.says # "no"))
        /\ online' = TRUE
    BY <2>1 DEF Store, Touched
  <2>4. Backed(presence', reported') /\ (store = "memory" => presence'.ever = reported')
    <3>1. CASE s = "poll"
      BY <2>1, <2>3, <3>1 DEF Ready
    <3>2. CASE s # "poll"
      <4>1. /\ Backed(Greeted(saw, r.says), reported \/ r.says # "no")
            /\ saw.ever = reported => Greeted(saw, r.says).ever = (reported \/ r.says # "no")
        BY <2>1, <2>2, GreetedBacked DEF Ready
      <4>2. presence' = Greeted(saw, r.says) /\ reported' = (reported \/ r.says # "no")
        BY <2>3, <3>2
      <4>3. QED
        BY <2>1, <4>1, <4>2
    <3>3. QED
      BY <3>1, <3>2
  <2>5. PICK heard \in BOOLEAN : Answered(p, s, heard)
    BY <1>2 DEF Write
  <2>6. UNCHANGED <<tab, says, turns, store>>
    BY <1>2 DEF Write
  <2>7. Sent'
    BY <2>3, <2>5, <2>6, AnsweredSent DEF Ready
  <2>8. Ready'
    BY <2>3, <2>4, <2>6 DEF Ready
  <2>9. QED
    BY <2>7, <2>8
<1>3. CASE Fail(p, s)
  BY <1>3, AnsweredSent DEF Fail, Ready
<1>4. CASE RefusePage(p, s)
  <2>1. req' \in [Pages -> [Slots -> PageRequests]]
    BY <1>4 DEF RefusePage, Sent, PageRequests
  <2>2. \A q \in Pages, t \in Slots : req'[q][t].stage = "read" => req'[q][t] = req[q][t]
    BY <1>4, RequestStages DEF RefusePage, Sent
  <2>3. QED
    BY <1>4, <2>1, <2>2, OverIsWellFormed DEF RefusePage, Ready, Sent
<1>5. QED
  BY <1>1, <1>2, <1>3, <1>4

-----------------------------------------------------------------------------
LEMMA InitPresence == PresenceInit => Ready /\ Sent
<1> SUFFICES ASSUME PresenceInit PROVE Ready /\ Sent
  OBVIOUS
<1>1. NoRecord \in Records /\ NoRecord.says = "no" /\ NoRecord.ever = FALSE
  BY DEF NoRecord, Records, Readiness
<1>2. Ready
  <2>1. presence = NoRecord /\ reported = FALSE
    BY DEF PresenceInit
  <2>2. Backed(presence, reported) /\ presence.ever = reported
    BY <1>1, <2>1 DEF Backed
  <2>3. QED
    <3>1. says \in [Pages -> Readiness] /\ tab \in [Pages -> Tabs] /\ store \in Stores /\ turns \in 0..MaxTurns
      BY DEF PresenceInit, Readiness, Tabs
    <3>2. online \in BOOLEAN /\ reported \in BOOLEAN
      BY DEF PresenceInit
    <3>3. QED
      BY <2>2, <3>1, <3>2 DEF Ready
<1>3. NoRequest \in PageRequests /\ NoRequest.stage = "none"
  BY DEF PageRequests, NoRequest
<1>4. Sent
  BY <1>3 DEF PresenceInit, Sent
<1>5. QED
  BY <1>2, <1>4

(* Whatever hellos and polls of any number of pages race, fail or go       *)
(* unheard, over either store: the away code is true, and no call is       *)
(* routed to a user whose pages never said ready.                          *)
THEOREM PresenceInvHolds == PresenceSpec => []PresenceInv
<1>1. Ready /\ Sent /\ [PresenceNext]_presenceVars => (Ready /\ Sent)'
  <2> SUFFICES ASSUME Ready, Sent, [PresenceNext]_presenceVars PROVE (Ready /\ Sent)'
    OBVIOUS
  <2>1. CASE GrowOld
    BY <2>1 DEF GrowOld, pageVars, Ready, Sent
  <2>2. CASE UNCHANGED presenceVars
    BY <2>2 DEF presenceVars, Ready, Sent
  <2>3. QED
    BY <2>1, <2>2, PageSteps, ServerSteps DEF PresenceNext
<1>2. Ready /\ Sent => PresenceInv
  BY PresenceInvParts
<1>3. QED
  BY InitPresence, <1>1, <1>2, PTL DEF PresenceSpec
=============================================================================
