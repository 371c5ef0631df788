------------------------------ MODULE Receipts ------------------------------
(***************************************************************************)
(* The challenges a server mints and the receipts it verifies itself       *)
(* (bridge.challenge, bridge.verify, approveDevice and forgetDevices): the *)
(* rules of checkReceipt (verify.ts), the store's nonces and its pins of   *)
(* devices.  Several verifications run at once, each with its own awaits.  *)
(*                                                                         *)
(* One tick of the clock is half a second, as checkReceipt compares whole  *)
(* seconds and a nonce is kept by the millisecond.  A receipt is the       *)
(* challenge it answers, the function it ran, the device that signed it    *)
(* and whether it succeeded with the data and inputs the caller names;     *)
(* what is no genuine receipt is refused before any of this is looked at.  *)
(***************************************************************************)
EXTENDS Naturals

CONSTANTS
  Subjects, Keys, Devices,
  Challenges,    \* the challenges a run may mint
  Lives,         \* the ttlSeconds a server gives them
  Verifications, \* bound: verify() calls
  Policies,      \* the device policies a bridge may be given
  MaxTime        \* bound: ticks in all

VARIABLES
  devices,   \* options.devices: never changes
  clock,     \* Date.now()
  minted,    \* the payloads of the challenges
  spentTill, \* the store's nonces: a nonce is spent until this tick
  pins,      \* the store's devices of a subject
  check,     \* the verifications
  late,      \* history: verifications accepted when their challenge had
             \* been out for a second or more
  approved,  \* history: devices pinned by approveDevice, not by a receipt
  forgotten  \* history: subjects whose devices were forgotten

stored == <<spentTill, pins>>
receiptVars == <<devices, clock, minted, spentTill, pins, check, late, approved, forgotten>>

(* Math.floor(now() / 1000), and the tick a second begins with. *)
Second == clock \div 2
TickOf(second) == 2 * second

Unminted == [sub |-> "none", key |-> "none", exp |-> 0]
Payloads == [sub : Subjects, key : Keys, exp : Nat]

Receipt == [challenge : Challenges, key : Keys, device : Devices, fits : BOOLEAN]

Idle == [phase |-> "idle"]
Refused == [phase |-> "refused"]
(* A receipt on its way, the subject the caller expects, and the second it *)
(* asked in.                                                               *)
Checks == [phase : {"pinning", "spending", "accepted", "unknownDevice", "threw"},
           receipt : Receipt, subject : Subjects, second : Nat]

ReceiptsTypeOK ==
  /\ devices \in Policies
  /\ clock \in 0..MaxTime
  /\ minted \in [Challenges -> Payloads \cup {Unminted}]
  /\ spentTill \in [Challenges -> Nat]
  /\ pins \in [Subjects -> SUBSET Devices]
  /\ check \in [Verifications -> Checks \cup {Idle, Refused}]
  /\ late \subseteq Verifications
  /\ approved \in [Subjects -> SUBSET Devices]
  /\ forgotten \subseteq Subjects

ReceiptsInit ==
  /\ devices \in Policies
  /\ clock = 0
  /\ minted = [c \in Challenges |-> Unminted]
  /\ spentTill = [c \in Challenges |-> 0]
  /\ pins = [s \in Subjects |-> {}]
  /\ check = [v \in Verifications |-> Idle]
  /\ late = {}
  /\ approved = [s \in Subjects |-> {}]
  /\ forgotten = {}

-----------------------------------------------------------------------------
(* challenge(): nothing is kept of it but what the token itself says.      *)
Mint(c, s, k, ttl) ==
  /\ minted[c] = Unminted
  /\ minted' = [minted EXCEPT ![c] = [sub |-> s, key |-> k, exp |-> Second + ttl]]
  /\ UNCHANGED <<devices, clock, stored, check, late, approved, forgotten>>

(* readChallenge: minted by this server, and not expired. *)
Readable(c) == minted[c] # Unminted /\ minted[c].exp > Second

(* What checkReceipt compares before its first await: a receipt r, and the *)
(* challenge, function and subject its caller expects.                     *)
Answers(r, c, k, s) ==
  /\ r.key = k /\ r.challenge = c
  /\ Readable(c)
  /\ minted[c].key = k
  /\ minted[c].sub = s

Begin(v, r, c, k, s) ==
  /\ check[v] = Idle
  /\ check' = [check EXCEPT ![v] =
       IF Answers(r, c, k, s)
       THEN [phase |-> IF devices = "off" THEN "spending" ELSE "pinning",
             receipt |-> r, subject |-> s, second |-> Second]
       ELSE Refused]
  /\ UNCHANGED <<devices, clock, minted, stored, late, approved, forgotten>>

To(v, phase) == check' = [check EXCEPT ![v].phase = phase]
RefuseReceipt(v) == check' = [check EXCEPT ![v] = Refused]

SubjectOf(v) == minted[check[v].receipt.challenge].sub

(* CHECK_DEVICE_SCRIPT and memoryStore's checkDevice: one atomic step. *)
FirstUse(s, d) ==
  IF d \in pins[s] THEN "known" ELSE IF pins[s] = {} THEN "pinned" ELSE "unknown"

PinCheck(v) ==
  LET s == SubjectOf(v)
      d == check[v].receipt.device
      says == FirstUse(s, d)
  IN /\ devices = "first-use" /\ check[v].phase = "pinning"
     /\ pins' = [pins EXCEPT ![s] = IF says = "pinned" THEN @ \cup {d} ELSE @]
     /\ To(v, IF says = "unknown" THEN "unknownDevice" ELSE "spending")
     /\ UNCHANGED <<devices, clock, minted, spentTill, late, approved, forgotten>>

(* The developer's own registry answers. *)
HookAnswers(v) ==
  /\ devices = "hook" /\ check[v].phase = "pinning"
  /\ \E phase \in {"spending", "unknownDevice"} : To(v, phase)
  /\ UNCHANGED <<devices, clock, minted, stored, late, approved, forgotten>>

(* A hook or store that throws refuses (devicePinned). *)
PinCheckThrows(v) ==
  /\ check[v].phase = "pinning"
  /\ To(v, "unknownDevice")
  /\ UNCHANGED <<devices, clock, minted, stored, late, approved, forgotten>>

(* ttlMs: a second longer than what was left of the challenge when the     *)
(* verification began.                                                     *)
\* Seeded fault: no margin.
KeptBarely(v) ==
  TickOf(minted[check[v].receipt.challenge].exp - check[v].second)

KeptFor(v) ==
  TickOf(minted[check[v].receipt.challenge].exp - check[v].second + 1)

(* spendNonce, and what is compared after it. *)
Spend(v) ==
  LET c == check[v].receipt.challenge IN
  /\ check[v].phase = "spending"
  /\ IF spentTill[c] > clock
     THEN RefuseReceipt(v) /\ UNCHANGED spentTill
     ELSE /\ spentTill' = [spentTill EXCEPT ![c] = clock + KeptFor(v)]
          /\ IF check[v].receipt.fits THEN To(v, "accepted") ELSE RefuseReceipt(v)
  /\ late' = IF clock >= TickOf(minted[c].exp + 1) /\ check'[v].phase = "accepted"
             THEN late \cup {v} ELSE late
  /\ UNCHANGED <<devices, clock, minted, pins, approved, forgotten>>

(* The store throws, before or after it spent the nonce. *)
SpendThrows(v) ==
  LET c == check[v].receipt.challenge IN
  /\ check[v].phase = "spending"
  /\ To(v, "threw")
  /\ \/ UNCHANGED spentTill
     \/ /\ spentTill[c] <= clock
        /\ spentTill' = [spentTill EXCEPT ![c] = clock + KeptFor(v)]
  /\ UNCHANGED <<devices, clock, minted, pins, late, approved, forgotten>>

(* approveDevice: a device whose receipt came back unknownDevice. *)
Approve(v) ==
  LET s == SubjectOf(v)
      d == check[v].receipt.device
  IN /\ check[v].phase = "unknownDevice"
     /\ d \notin pins[s]
     /\ pins' = [pins EXCEPT ![s] = @ \cup {d}]
     /\ approved' = [approved EXCEPT ![s] = @ \cup {d}]
     /\ UNCHANGED <<devices, clock, minted, spentTill, check, late, forgotten>>

Forget(s) ==
  /\ pins[s] # {}
  /\ pins' = [pins EXCEPT ![s] = {}]
  /\ approved' = [approved EXCEPT ![s] = {}]
  /\ forgotten' = forgotten \cup {s}
  /\ UNCHANGED <<devices, clock, minted, spentTill, check, late>>

(* Time passes: nothing limits how long a hook or a store takes. *)
TimePasses ==
  /\ clock < MaxTime
  /\ clock' = clock + 1
  /\ UNCHANGED <<devices, minted, stored, check, late, approved, forgotten>>

ReceiptsNext ==
  \/ \E c \in Challenges, s \in Subjects, k \in Keys, ttl \in Lives : Mint(c, s, k, ttl)
  \/ \E v \in Verifications, r \in Receipt, c \in Challenges, k \in Keys, s \in Subjects :
       Begin(v, r, c, k, s)
  \/ \E v \in Verifications : PinCheck(v) \/ HookAnswers(v) \/ PinCheckThrows(v)
                                \/ Spend(v) \/ SpendThrows(v) \/ Approve(v)
  \/ \E s \in Subjects : Forget(s)
  \/ TimePasses

ReceiptsSpec == ReceiptsInit /\ [][ReceiptsNext]_receiptVars

-----------------------------------------------------------------------------
(* checkReceipt: "so a genuine receipt is never accepted twice".  The code *)
(* does accept it twice: a nonce is forgotten a second after its challenge *)
(* runs out, while a verification that began in time and still waits for   *)
(* its device check, or for the store, has yet to spend it.                *)
NeverAcceptedTwice ==
  \A v, w \in Verifications :
    /\ check[v].phase = "accepted" /\ check[w].phase = "accepted"
    /\ check[v].receipt.challenge = check[w].receipt.challenge
    => v = w

(* However the verifications of a challenge's receipts overlap and however *)
(* long their awaits take, one is accepted at most whose nonce was spent   *)
(* before the challenge had been out for a second (checkReceipt): every    *)
(* other acceptance is of an answer that came later than that.             *)
AcceptedOnce ==
  \A v, w \in Verifications \ late :
    /\ check[v].phase = "accepted" /\ check[w].phase = "accepted"
    /\ check[v].receipt.challenge = check[w].receipt.challenge
    => v = w

(* However many first receipts race, a subject has one device that nobody  *)
(* approved (CHECK_DEVICE_SCRIPT).                                         *)
FirstUsePinsOne == \A s \in Subjects : \A d, e \in pins[s] \ approved[s] : d = e

(* What was accepted was signed by a device that is the subject's own, as  *)
(* long as nobody forgot them, and was the run it claims to be.            *)
AcceptedIsTrue ==
  \A v \in Verifications : check[v].phase = "accepted" =>
    LET r == check[v].receipt
        s == check[v].subject
    IN /\ r.fits /\ r.key = minted[r.challenge].key
       /\ devices = "first-use" /\ s \notin forgotten => r.device \in pins[s]

(* A verification goes by a challenge that lived when it began; past the   *)
(* device check its device is pinned, and once it is accepted, the nonce   *)
(* is spent until the challenge has been out for a second (checkReceipt).  *)
VerificationsAreSound ==
  \A v \in Verifications : check[v].phase \notin {"idle", "refused"} =>
    LET r == check[v].receipt
        s == check[v].subject
        began == TickOf(check[v].second)
        payload == minted[r.challenge]
    IN /\ payload # Unminted /\ payload.key = r.key /\ payload.sub = s
       /\ check[v].second < payload.exp
       /\ began <= clock
       /\ check[v].phase = "spending" /\ devices = "first-use" /\ s \notin forgotten => r.device \in pins[s]
       /\ check[v].phase = "accepted" => spentTill[r.challenge] >= TickOf(payload.exp + 1)

(* Challenges are answered once in their time, by the devices of their     *)
(* subject (checkReceipt and the store behind it).                         *)
ReceiptsInv ==
  ReceiptsTypeOK /\ AcceptedOnce /\ FirstUsePinsOne /\ AcceptedIsTrue /\ VerificationsAreSound
=============================================================================
