---------------------------- MODULE QueuesProofs ----------------------------
(***************************************************************************)
(* For any commands, polls, lives and bounds: QueuesInv of the queues of   *)
(* both stores, and that each keeps the promise of the store interface.    *)
(* The first lemmas are about queues: what joining, leaving and going back *)
(* to a line of commands does.                                             *)
(***************************************************************************)
EXTENDS QueuesMC, FilterTheorems, TLAPS

-----------------------------------------------------------------------------
(* Lines of commands in which nobody stands twice                          *)

LEMMA EmptyLine == ToSet(<< >>) = {} /\ IsInjective(<< >>) /\ \A X : << >> \in Seq(X)
BY DEF ToSet, IsInjective

LEMMA LineIsEmpty ==
  ASSUME NEW X, NEW q \in Seq(X), ToSet(q) = {}
  PROVE  q = << >>
<1>1. 1 \notin DOMAIN q
  BY DEF ToSet
<1> QED BY <1>1

LEMMA MembersOf ==
  ASSUME NEW X, NEW q \in Seq(X)
  PROVE  ToSet(q) \subseteq X /\ \A x : x \in ToSet(q) <=> \E i \in 1..Len(q) : q[i] = x
BY DEF ToSet

(* One joins at the end. *)
LEMMA Joined ==
  ASSUME NEW X, NEW q \in Seq(X), IsInjective(q), NEW x \in X, x \notin ToSet(q)
  PROVE  /\ Append(q, x) \in Seq(X) /\ IsInjective(Append(q, x))
         /\ ToSet(Append(q, x)) = ToSet(q) \cup {x} /\ Append(q, x) # << >>
<1> DEFINE l == Append(q, x)
<1>1. /\ l \in Seq(X) /\ Len(l) = Len(q) + 1 /\ l[Len(q) + 1] = x
      /\ \A i \in 1..Len(q) : l[i] = q[i]
  OBVIOUS
<1>2. \A i \in 1..Len(q) : q[i] # x
  BY MembersOf
<1>3. IsInjective(l)
  BY <1>1, <1>2 DEF IsInjective
<1>4. ToSet(l) = ToSet(q) \cup {x}
  <2>1. ASSUME NEW y PROVE y \in ToSet(l) <=> y \in ToSet(q) \/ y = x
    <3>1. y \in ToSet(l) <=> \E i \in 1..(Len(q) + 1) : l[i] = y
      BY <1>1, MembersOf
    <3>2. y \in ToSet(q) <=> \E i \in 1..Len(q) : q[i] = y
      BY MembersOf
    <3>3. \A i \in 1..(Len(q) + 1) : i \in 1..Len(q) \/ i = Len(q) + 1
      OBVIOUS
    <3>4. Len(q) + 1 \in 1..(Len(q) + 1) /\ \A i \in 1..Len(q) : i \in 1..(Len(q) + 1)
      OBVIOUS
    <3> QED BY <1>1, <3>1, <3>2, <3>3, <3>4, Zenon
  <2> QED BY <2>1
<1> QED BY <1>1, <1>3, <1>4

(* The first n leave together. *)
LEMMA Parted ==
  ASSUME NEW X, NEW q \in Seq(X), IsInjective(q), NEW n \in 1..Len(q)
  PROVE  LET h == SubSeq(q, 1, n)
             r == SubSeq(q, n + 1, Len(q))
         IN  /\ h \in Seq(X) /\ IsInjective(h) /\ h # << >> /\ Len(h) = n
             /\ r \in Seq(X) /\ IsInjective(r)
             /\ ToSet(h) \cup ToSet(r) = ToSet(q) /\ ToSet(h) \cap ToSet(r) = {}
<1> DEFINE h == SubSeq(q, 1, n)
           r == SubSeq(q, n + 1, Len(q))
<1>1. /\ h \in Seq(X) /\ Len(h) = n /\ \A i \in 1..n : h[i] = q[i]
      /\ r \in Seq(X) /\ Len(r) = Len(q) - n /\ \A i \in 1..(Len(q) - n) : r[i] = q[n + i]
  OBVIOUS
<1> HIDE DEF h, r
<1>2. \A i, j \in 1..Len(q) : q[i] = q[j] => i = j
  BY DEF IsInjective
<1>3. IsInjective(h)
  BY <1>1, <1>2 DEF IsInjective
<1>4. IsInjective(r)
  <2>1. ASSUME NEW i \in 1..(Len(q) - n), NEW j \in 1..(Len(q) - n), r[i] = r[j] PROVE i = j
    <3>1. n + i \in 1..Len(q) /\ n + j \in 1..Len(q) /\ q[n + i] = q[n + j]
      BY <1>1, <2>1
    <3>2. n + i = n + j
      BY <3>1, <1>2
    <3> QED BY <3>2
  <2>2. DOMAIN r = 1..(Len(q) - n)
    BY <1>1
  <2> QED BY <2>1, <2>2 DEF IsInjective
<1>5. ASSUME NEW x PROVE /\ x \in ToSet(h) <=> \E i \in 1..n : q[i] = x
                         /\ x \in ToSet(r) <=> \E i \in (n + 1)..Len(q) : q[i] = x
                         /\ x \in ToSet(q) <=> \E i \in 1..Len(q) : q[i] = x
  <2>1. x \in ToSet(h) <=> \E i \in 1..n : h[i] = x
    <3>1. h \in Seq(X) /\ Len(h) = n
      BY <1>1
    <3>2. x \in ToSet(h) <=> \E i \in 1..Len(h) : h[i] = x
      BY <3>1, MembersOf
    <3> QED BY <3>1, <3>2
  <2>2. x \in ToSet(r) <=> \E i \in 1..(Len(q) - n) : r[i] = x
    <3>1. r \in Seq(X) /\ Len(r) = Len(q) - n
      BY <1>1
    <3>2. x \in ToSet(r) <=> \E i \in 1..Len(r) : r[i] = x
      BY <3>1, MembersOf
    <3> QED BY <3>1, <3>2
  <2>3. ASSUME NEW i \in 1..(Len(q) - n), r[i] = x PROVE \E j \in (n + 1)..Len(q) : q[j] = x
    <3>1. n + i \in (n + 1)..Len(q) /\ q[n + i] = x
      BY <1>1, <2>3
    <3> QED BY <3>1
  <2>4. ASSUME NEW j \in (n + 1)..Len(q), q[j] = x PROVE \E i \in 1..(Len(q) - n) : r[i] = x
    <3>1. j - n \in 1..(Len(q) - n) /\ n + (j - n) = j
      OBVIOUS
    <3>2. r[j - n] = x
      BY <3>1, <1>1, <2>4
    <3> QED BY <3>1, <3>2
  <2> QED BY <2>1, <2>2, <2>3, <2>4, <1>1, MembersOf
<1>6. \A i \in 1..Len(q) : i \in 1..n \/ i \in (n + 1)..Len(q)
  OBVIOUS
<1>7. \A i \in 1..n, j \in (n + 1)..Len(q) : q[i] # q[j]
  BY <1>2
<1>8. ToSet(h) \cup ToSet(r) = ToSet(q)
  <2>1. ASSUME NEW x PROVE x \in ToSet(q) <=> x \in ToSet(h) \/ x \in ToSet(r)
    <3>1. \A i \in 1..n : i \in 1..Len(q)
      OBVIOUS
    <3>2. \A i \in (n + 1)..Len(q) : i \in 1..Len(q)
      OBVIOUS
    <3> QED BY <1>5, <1>6, <3>1, <3>2, Zenon
  <2> QED BY <2>1
<1>9. ToSet(h) \cap ToSet(r) = {}
  BY <1>5, <1>7
<1>10. h # << >>
  BY <1>1
<1> QED BY <1>1, <1>3, <1>4, <1>8, <1>9, <1>10 DEF h, r

(* One line is put before another. *)
LEMMA PutBefore ==
  ASSUME NEW X, NEW b \in Seq(X), NEW q \in Seq(X), IsInjective(b), IsInjective(q),
         ToSet(b) \cap ToSet(q) = {}
  PROVE  /\ b \o q \in Seq(X) /\ IsInjective(b \o q)
         /\ ToSet(b \o q) = ToSet(b) \cup ToSet(q)
         /\ b # << >> => b \o q # << >>
<1> DEFINE l == b \o q
           n == Len(b)
<1>1. /\ l \in Seq(X) /\ Len(l) = n + Len(q) /\ n \in Nat /\ Len(q) \in Nat
      /\ \A i \in 1..n : l[i] = b[i]
      /\ \A i \in 1..Len(q) : l[n + i] = q[i]
  OBVIOUS
<1> HIDE DEF l
<1>2. \A i \in (n + 1)..Len(l) : i - n \in 1..Len(q) /\ n + (i - n) = i
  BY <1>1
<1>3. \A i \in (n + 1)..Len(l) : l[i] = q[i - n]
  BY <1>1, <1>2
<1>4. \A i \in 1..n, j \in 1..Len(q) : b[i] # q[j]
  BY MembersOf
<1>5. \A i \in 1..Len(l) : i \in 1..n \/ i \in (n + 1)..Len(l)
  BY <1>1
<1>6. ASSUME NEW i \in 1..Len(l), NEW j \in 1..Len(l), l[i] = l[j] PROVE i = j
  <2>1. CASE i \in 1..n /\ j \in 1..n
    <3>1. b[i] = b[j]
      BY <2>1, <1>1, <1>6
    <3> QED BY <3>1, <2>1 DEF IsInjective
  <2>2. CASE i \in (n + 1)..Len(l) /\ j \in (n + 1)..Len(l)
    <3>1. q[i - n] = q[j - n] /\ i - n \in 1..Len(q) /\ j - n \in 1..Len(q)
      BY <2>2, <1>2, <1>3, <1>6
    <3>2. i - n = j - n
      BY <3>1 DEF IsInjective
    <3> QED BY <3>2, <1>2, <2>2, <1>1
  <2>3. CASE i \in 1..n /\ j \in (n + 1)..Len(l)
    BY <2>3, <1>1, <1>2, <1>3, <1>4, <1>6
  <2>4. CASE j \in 1..n /\ i \in (n + 1)..Len(l)
    BY <2>4, <1>1, <1>2, <1>3, <1>4, <1>6
  <2> QED BY <2>1, <2>2, <2>3, <2>4, <1>5
<1>7. IsInjective(l)
  <2>1. DOMAIN l = 1..Len(l)
    BY <1>1
  <2> QED BY <2>1, <1>6 DEF IsInjective
<1>8. ToSet(l) = ToSet(b) \cup ToSet(q)
  <2>1. ASSUME NEW x \in ToSet(l) PROVE x \in ToSet(b) \cup ToSet(q)
    <3>1. PICK i \in 1..Len(l) : l[i] = x
      BY <1>1, MembersOf
    <3>2. CASE i \in 1..n
      BY <3>1, <3>2, <1>1, MembersOf
    <3>3. CASE i \in (n + 1)..Len(l)
      <4>1. i - n \in 1..Len(q) /\ q[i - n] = x
        BY <3>1, <3>3, <1>2, <1>3
      <4> QED BY <4>1, MembersOf
    <3> QED BY <3>1, <3>2, <3>3, <1>5
  <2>2. ASSUME NEW x \in ToSet(b) PROVE x \in ToSet(l)
    <3>1. PICK i \in 1..n : b[i] = x
      BY MembersOf
    <3>2. i \in 1..Len(l) /\ l[i] = x
      BY <3>1, <1>1
    <3> QED BY <3>2, <1>1, MembersOf
  <2>3. ASSUME NEW x \in ToSet(q) PROVE x \in ToSet(l)
    <3>1. PICK i \in 1..Len(q) : q[i] = x
      BY MembersOf
    <3>2. n + i \in 1..Len(l) /\ l[n + i] = x
      BY <3>1, <1>1
    <3> QED BY <3>2, <1>1, MembersOf
  <2> QED BY <2>1, <2>2, <2>3
<1>9. b # << >> => l # << >>
  BY <1>1
<1> QED BY <1>1, <1>7, <1>8, <1>9 DEF l

LEMMA ReversedTwice ==
  ASSUME NEW X, NEW q \in Seq(X)
  PROVE  Reverse(Reverse(q)) = q
BY DEF Reverse

-----------------------------------------------------------------------------
(* A queue and the batches that left it                                    *)

(* The function f but for t, which has v. *)
Instead(f, t, v) == [f EXCEPT ![t] = v]

Hands(p) == [t \in Takers |-> p[t].batch]

(* Nobody is in the queue q and in a batch of b, or twice in one of them;  *)
(* g are the commands that ever were in a batch.                           *)
Places(q, b, g) ==
  /\ q \in Seq(Commands) /\ IsInjective(q)
  /\ g \subseteq Commands
  /\ b \in [Takers -> Seq(Commands)]
  /\ \A t \in Takers :
       IsInjective(b[t]) /\ ToSet(b[t]) \subseteq g /\ ToSet(b[t]) \cap ToSet(q) = {}
  /\ \A t, u \in Takers : t # u => ToSet(b[t]) \cap ToSet(b[u]) = {}

LEMMA PlacesKept ==
  ASSUME NEW q, NEW b, NEW g, Places(q, b, g), NEW S
  PROVE  Places(Keep(q, S), b, g)
<1>1. /\ Keep(q, S) \in Seq(Commands) /\ ToSet(Keep(q, S)) = ToSet(q) \cap S
      /\ IsInjective(Keep(q, S))
  BY KeepFacts DEF Places
<1> QED BY <1>1 DEF Places

LEMMA PlacesJoined ==
  ASSUME NEW q, NEW b, NEW g, Places(q, b, g), NEW c \in Commands, c \notin ToSet(q) \cup g
  PROVE  Places(Append(q, c), b, g) /\ ToSet(Append(q, c)) = ToSet(q) \cup {c}
<1>1. /\ Append(q, c) \in Seq(Commands) /\ IsInjective(Append(q, c))
      /\ ToSet(Append(q, c)) = ToSet(q) \cup {c}
  BY Joined DEF Places
<1>2. \A t \in Takers : ToSet(b[t]) \cap ToSet(Append(q, c)) = {}
  BY <1>1 DEF Places
<1> QED BY <1>1, <1>2 DEF Places

LEMMA PlacesTaken ==
  ASSUME NEW q, NEW b, NEW g, Places(q, b, g), NEW t \in Takers, NEW n \in 1..Len(q)
  PROVE  LET h == SubSeq(q, 1, n)
             r == SubSeq(q, n + 1, Len(q))
         IN  /\ Places(r, Instead(b, t, h), g \cup ToSet(h))
             /\ ToSet(r) \cup ToSet(h) = ToSet(q)
             /\ h \in Seq(Commands) /\ h # << >> /\ Len(h) = n
<1> DEFINE h == SubSeq(q, 1, n)
           r == SubSeq(q, n + 1, Len(q))
<1>1. /\ h \in Seq(Commands) /\ IsInjective(h) /\ h # << >> /\ Len(h) = n
      /\ r \in Seq(Commands) /\ IsInjective(r)
      /\ ToSet(h) \cup ToSet(r) = ToSet(q) /\ ToSet(h) \cap ToSet(r) = {}
  BY Parted DEF Places
<1>2. ToSet(q) \subseteq Commands
  BY MembersOf DEF Places
<1> HIDE DEF h, r
<1> DEFINE d == Instead(b, t, h)
<1>3. d \in [Takers -> Seq(Commands)] /\ d[t] = h /\ \A u \in Takers : u # t => d[u] = b[u]
  BY <1>1 DEF Places, Instead
<1> HIDE DEF d
<1>4. ASSUME NEW u \in Takers
      PROVE  IsInjective(d[u]) /\ ToSet(d[u]) \subseteq g \cup ToSet(h) /\ ToSet(d[u]) \cap ToSet(r) = {}
  <2>1. CASE u = t
    BY <2>1, <1>1, <1>3
  <2>2. CASE u # t
    BY <2>2, <1>1, <1>3 DEF Places
  <2> QED BY <2>1, <2>2
<1>5. ASSUME NEW u \in Takers, NEW v \in Takers, u # v PROVE ToSet(d[u]) \cap ToSet(d[v]) = {}
  BY <1>1, <1>3, <1>5 DEF Places
<1>6. Places(r, d, g \cup ToSet(h))
  BY <1>1, <1>2, <1>3, <1>4, <1>5 DEF Places
<1> QED BY <1>1, <1>6 DEF h, r, d

LEMMA PlacesGiven ==
  ASSUME NEW q, NEW b, NEW g, Places(q, b, g), NEW t \in Takers
  PROVE  Places(q, Instead(b, t, << >>), g)
<1> DEFINE d == Instead(b, t, << >>)
<1>1. d \in [Takers -> Seq(Commands)] /\ d[t] = << >> /\ \A u \in Takers : u # t => d[u] = b[u]
  BY DEF Places, Instead
<1> HIDE DEF d
<1>2. ASSUME NEW u \in Takers
      PROVE  IsInjective(d[u]) /\ ToSet(d[u]) \subseteq g /\ ToSet(d[u]) \cap ToSet(q) = {}
  <2>1. CASE u = t
    BY <2>1, <1>1, EmptyLine
  <2>2. CASE u # t
    BY <2>2, <1>1 DEF Places
  <2> QED BY <2>1, <2>2
<1>3. ASSUME NEW u \in Takers, NEW v \in Takers, u # v PROVE ToSet(d[u]) \cap ToSet(d[v]) = {}
  BY <1>1, <1>3, EmptyLine DEF Places
<1>4. Places(q, d, g)
  BY <1>1, <1>2, <1>3 DEF Places
<1> QED BY <1>4 DEF d

LEMMA PlacesBack ==
  ASSUME NEW q, NEW b, NEW g, Places(q, b, g), NEW t \in Takers, NEW S,
         NEW k, k = Keep(b[t], S), NEW l, l = k \o q
  PROVE  Places(l, Instead(b, t, << >>), g)
<1> DEFINE d == Instead(b, t, << >>)
<1>1. k \in Seq(Commands) /\ ToSet(k) = ToSet(b[t]) \cap S /\ IsInjective(k)
  BY KeepFacts DEF Places
<1>2. q \in Seq(Commands) /\ IsInjective(q) /\ ToSet(k) \cap ToSet(q) = {}
  BY <1>1 DEF Places
<1>3. k \o q \in Seq(Commands) /\ IsInjective(k \o q) /\ ToSet(k \o q) = ToSet(k) \cup ToSet(q)
  BY <1>1, <1>2, PutBefore
<1>4. Places(q, d, g)
  BY PlacesGiven
<1>5. ASSUME NEW u \in Takers PROVE ToSet(d[u]) \cap ToSet(k \o q) = {}
  <2>1. CASE u = t
    BY <2>1, EmptyLine DEF Places, Instead
  <2>2. CASE u # t
    <3>1. d[u] = b[u]
      BY <2>2 DEF Places, Instead
    <3>2. ToSet(b[u]) \cap ToSet(b[t]) = {}
      BY <2>2 DEF Places
    <3> QED BY <3>1, <3>2, <1>1, <1>3 DEF Places
  <2> QED BY <2>1, <2>2
<1>6. Places(k \o q, d, g)
  BY <1>3, <1>4, <1>5 DEF Places
<1> QED BY <1>6

(* One taker changes. *)
LEMMA OneChanges ==
  ASSUME NEW R, NEW p \in [Takers -> R], NEW t \in Takers, NEW r \in R,
         NEW o, o = Instead(p, t, r)
  PROVE  /\ o \in [Takers -> R] /\ o[t] = r /\ \A u \in Takers : u # t => o[u] = p[u]
         /\ Hands(o) = Instead(Hands(p), t, r.batch)
<1>1. o \in [Takers -> R] /\ o[t] = r /\ \A u \in Takers : u # t => o[u] = p[u]
  BY DEF Instead
<1>2. \A u \in Takers : Hands(o)[u] = IF u = t THEN r.batch ELSE Hands(p)[u]
  BY <1>1 DEF Hands
<1>3. Hands(o) = Instead(Hands(p), t, r.batch)
  BY <1>2 DEF Hands, Instead
<1> QED BY <1>1, <1>3

LEMMA SameBatch ==
  ASSUME NEW R, NEW p \in [Takers -> R], NEW t \in Takers, NEW r \in R,
         NEW o, o = Instead(p, t, r), r.batch = p[t].batch
  PROVE  Hands(o) = Hands(p)
BY DEF Hands, Instead

-----------------------------------------------------------------------------
(* The queue in memory                                                     *)

LEMMA MemoryConstants ==
  /\ PollWait \in Nat \ {0} /\ MaxBatch \in Nat \ {0} /\ MaxTakes \in Nat
  /\ Ttl \in [Commands -> Nat] /\ Patience \in [Commands -> Nat]
  /\ \A c \in Commands : Patience[c] < Ttl[c]
BY QueueAssumption, MemoryAssumption DEF Times

PollersFine(p) ==
  /\ p \in [Takers -> Pollers]
  /\ \A t \in Takers : p[t].batch # << >> <=> p[t].stage = "holding"

CallsTyped ==
  /\ pendings \subseteq Commands
  /\ life \in [Commands -> Nat] /\ left \in [Commands -> Nat]
  /\ \A c \in Commands : life[c] <= Ttl[c] /\ left[c] <= Patience[c]
  /\ waiter \in [Commands -> WaiterStages]
  /\ removed \in [Commands -> {"nothing", "removed", "taken"}]

(* Where a call stands, where its command is and whether it is pending; a  *)
(* call that waits has more time than it will wait.                        *)
CallBooks(c) ==
  /\ waiter[c] = "new" => c \notin ToSet(queue) \cup given /\ life[c] = Ttl[c]
  /\ waiter[c] \in {"new", "done"} => c \notin pendings
  /\ waiter[c] \notin {"new", "done"} /\ c \in Live => c \in pendings
  /\ waiter[c] \in {"new", "waiting"} => removed[c] = "nothing"
  /\ waiter[c] = "waiting" =>
       c \in ToSet(queue) \cup given /\ Ttl[c] + left[c] <= Patience[c] + life[c]

MemoryInd ==
  /\ Places(queue, Hands(poller), given)
  /\ PollersFine(poller)
  /\ CallsTyped
  /\ takes \in [Takers -> 0..MaxTakes]
  /\ NobodySleepsBeside
  /\ \A c \in Commands : CallBooks(c)

LEMMA MemoryIndImplies ==
  ASSUME MemoryInd
  PROVE  MemoryQueueInv
<1>1. \A t \in Takers : ToSet(poller[t].batch) \cap ToSet(queue) = {}
  BY DEF MemoryInd, Places, Hands
<1> QED BY <1>1 DEF MemoryInd, MemoryQueueInv, MemoryTypeOK, Places, PollersFine, CallsTyped

LEMMA MemoryStarts == MemoryInit => MemoryInd
<1> SUFFICES ASSUME MemoryInit PROVE MemoryInd
  OBVIOUS
<1>1. NoTake \in Pollers /\ NoTake.batch = << >> /\ NoTake.stage = "out"
  BY MemoryConstants DEF NoTake, Pollers
<1>2. PollersFine(poller)
  BY <1>1 DEF MemoryInit, PollersFine
<1>3. Places(queue, Hands(poller), given)
  BY <1>1, EmptyLine DEF MemoryInit, Places, Hands
<1>4. CallsTyped
  BY MemoryConstants DEF MemoryInit, CallsTyped, WaiterStages
<1>5. takes \in [Takers -> 0..MaxTakes]
  BY MemoryConstants DEF MemoryInit
<1>6. NobodySleepsBeside
  BY <1>1 DEF MemoryInit, NobodySleepsBeside
<1>7. ASSUME NEW c \in Commands PROVE CallBooks(c)
  BY EmptyLine DEF MemoryInit, CallBooks
<1> QED BY <1>2, <1>3, <1>4, <1>5, <1>6, <1>7 DEF MemoryInd

LEMMA AllWoken ==
  ASSUME NEW p, PollersFine(p)
  PROVE  /\ PollersFine(WakeAll(p)) /\ Hands(WakeAll(p)) = Hands(p)
         /\ \A t \in Takers : WakeAll(p)[t].stage # "asleep"
<1> DEFINE w == WakeAll(p)
<1>1. ASSUME NEW t \in Takers
      PROVE  /\ w[t] \in Pollers /\ w[t].batch = p[t].batch /\ w[t].stage # "asleep"
             /\ w[t].stage = "holding" <=> p[t].stage = "holding"
  <2>1. p[t] \in Pollers /\ w[t] = IF p[t].stage = "asleep" THEN [p[t] EXCEPT !.stage = "looking"] ELSE p[t]
    BY DEF WakeAll, PollersFine
  <2> QED BY <2>1 DEF Pollers
<1>2. w = [t \in Takers |-> w[t]]
  BY DEF WakeAll
<1>3. Hands(w) = Hands(p)
  BY <1>1 DEF Hands
<1>4. w \in [Takers -> Pollers]
  BY <1>1, <1>2
<1> QED BY <1>1, <1>3, <1>4 DEF PollersFine

LEMMA OnePollerChanges ==
  ASSUME NEW p, PollersFine(p), NEW t \in Takers, NEW r \in Pollers,
         r.batch # << >> <=> r.stage = "holding", NEW o, o = Instead(p, t, r)
  PROVE  /\ PollersFine(o) /\ Hands(o) = Instead(Hands(p), t, r.batch)
         /\ o[t] = r /\ \A u \in Takers : u # t => o[u] = p[u]
<1>1. p \in [Takers -> Pollers]
  BY DEF PollersFine
<1>2. o \in [Takers -> Pollers] /\ o[t] = r /\ \A u \in Takers : u # t => o[u] = p[u]
  BY <1>1 DEF Instead
<1>3. Hands(o) = Instead(Hands(p), t, r.batch)
  BY <1>1 DEF Hands, Instead
<1> QED BY <1>1, <1>2, <1>3 DEF PollersFine

LEMMA PollerKeepsBatch ==
  ASSUME NEW p, PollersFine(p), NEW t \in Takers, NEW r \in Pollers,
         NEW o, o = Instead(p, t, r), r.batch = p[t].batch
  PROVE  Hands(o) = Hands(p)
BY SameBatch DEF PollersFine

LEMMA Leaves ==
  NoTake \in Pollers /\ NoTake.batch = << >> /\ NoTake.stage = "out" /\ NoTake.left = 0
BY MemoryConstants DEF NoTake, Pollers

(* The waiting calls have time left. *)
LEMMA WaitingIsLive ==
  ASSUME MemoryInd, NEW c \in Commands, waiter[c] = "waiting"
  PROVE  c \in Live
BY MemoryConstants DEF MemoryInd, CallBooks, CallsTyped, Live

(* A step of a poll: what is live stays in the queue or has been taken.    *)
LEMMA BooksOfPoll ==
  ASSUME MemoryInd, UNCHANGED <<pendings, life, callVars>>,
         ToSet(queue') \cup given' \subseteq ToSet(queue) \cup given,
         (ToSet(queue) \cup given) \cap Live \subseteq ToSet(queue') \cup given'
  PROVE  CallsTyped' /\ \A c \in Commands : CallBooks(c)'
<1>1. CallsTyped'
  BY DEF MemoryInd, CallsTyped, callVars
<1>2. ASSUME NEW c \in Commands PROVE CallBooks(c)'
  <2>1. waiter[c] = "waiting" => c \in Live
    BY WaitingIsLive
  <2>2. CallBooks(c)
    BY DEF MemoryInd
  <2>3. Live' = Live
    BY DEF Live
  <2> QED BY <2>1, <2>2, <2>3 DEF CallBooks, callVars
<1> QED BY <1>1, <1>2

LEMMA SweepsOnlyExpired ==
  ASSUME MemoryInd, NEW kept \in Sweeps
  PROVE  /\ Places(Keep(queue, kept), Hands(poller), given)
         /\ ToSet(Keep(queue, kept)) = ToSet(queue) \cap kept
         /\ ToSet(queue) \subseteq Commands /\ Live \subseteq kept /\ kept \subseteq Commands
<1>1. queue \in Seq(Commands) /\ Live \subseteq kept /\ kept \subseteq Commands
  BY DEF MemoryInd, Places, Sweeps, Live
<1> QED BY <1>1, KeepFacts, MembersOf, PlacesKept DEF MemoryInd

LEMMA EnqueueKeeps ==
  ASSUME MemoryInd, NEW c \in Commands, Enqueue(c)
  PROVE  MemoryInd'
<1> USE DEF MemoryInd
<1>1. PICK kept \in Sweeps : queue' = Append(Keep(queue, kept), c) /\ pendings' = (pendings \cap kept) \cup {c}
  BY DEF Enqueue
<1>2. /\ waiter[c] = "new" /\ waiter' = [waiter EXCEPT ![c] = "waiting"]
      /\ left' = [left EXCEPT ![c] = Patience[c]] /\ poller' = WakeAll(poller)
      /\ UNCHANGED <<life, removed, takes, given>>
  BY DEF Enqueue, WaiterGoes
<1>3. c \notin ToSet(queue) \cup given /\ life[c] = Ttl[c]
  BY <1>2 DEF CallBooks
<1>4. /\ Places(queue', Hands(poller), given)
      /\ ToSet(queue') = (ToSet(queue) \cap kept) \cup {c}
      /\ ToSet(queue) \subseteq Commands /\ Live \subseteq kept /\ kept \subseteq Commands
  <2>1. c \notin ToSet(Keep(queue, kept)) \cup given
    BY <1>3, SweepsOnlyExpired
  <2> QED BY <1>1, <2>1, SweepsOnlyExpired, PlacesJoined
<1>5. PollersFine(poller') /\ Hands(poller') = Hands(poller) /\ \A t \in Takers : poller'[t].stage # "asleep"
  BY <1>2, AllWoken
<1>6. CallsTyped'
  <2>1. /\ pendings' \subseteq Commands /\ waiter' \in [Commands -> WaiterStages]
        /\ life' = life /\ removed' = removed
    BY <1>1, <1>2, <1>4 DEF CallsTyped, WaiterStages
  <2>2. left' \in [Commands -> Nat] /\ \A d \in Commands : left'[d] <= Patience[d]
    <3>1. left \in [Commands -> Nat] /\ \A d \in Commands : left[d] <= Patience[d]
      BY DEF CallsTyped
    <3>2. Patience \in [Commands -> Nat] /\ left' = [left EXCEPT ![c] = Patience[c]]
      BY <1>2, MemoryConstants
    <3> HIDE DEF MemoryInd
    <3> QED BY <3>1, <3>2
  <2> QED BY <2>1, <2>2 DEF CallsTyped
<1>7. NobodySleepsBeside'
  BY <1>5 DEF NobodySleepsBeside
<1>8. Live' = Live
  BY <1>2 DEF Live
<1>9. ASSUME NEW d \in Commands PROVE CallBooks(d)'
  <2>1. CASE d = c
    <3>1. waiter'[c] = "waiting" /\ left'[c] = Patience[c] /\ life'[c] = Ttl[c] /\ removed'[c] = "nothing"
      BY <1>2, <1>3 DEF CallsTyped, CallBooks
    <3>2. Ttl[c] + Patience[c] <= Patience[c] + Ttl[c]
      BY MemoryConstants
    <3>3. c \in pendings' /\ c \in ToSet(queue')
      BY <1>1, <1>4
    <3> QED BY <2>1, <3>1, <3>2, <3>3 DEF CallBooks
  <2>2. CASE d # c
    <3>1. waiter'[d] = waiter[d] /\ left'[d] = left[d] /\ life'[d] = life[d] /\ removed'[d] = removed[d]
      BY <1>2, <2>2 DEF CallsTyped
    <3>2. CallBooks(d) /\ (waiter[d] = "waiting" => d \in Live)
      BY WaitingIsLive
    <3>3. /\ d \in ToSet(queue') <=> d \in ToSet(queue) /\ d \in kept
          /\ d \in pendings' <=> d \in pendings /\ d \in kept
          /\ d \in Live => d \in kept
      BY <1>1, <1>4, <2>2
    <3> QED BY <3>1, <3>2, <3>3, <1>2, <1>8 DEF CallBooks
  <2> QED BY <2>1, <2>2
<1> QED BY <1>2, <1>4, <1>5, <1>6, <1>7, <1>9

LEMMA WithdrawKeeps ==
  ASSUME MemoryInd, NEW c \in Commands, WithdrawEntry(c)
  PROVE  MemoryInd'
<1> USE DEF MemoryInd
<1>1. /\ waiter[c] = "waiting" /\ UNCHANGED <<pendings, life, left, poller, takes, given>>
      /\ \E stage \in {"withdrawn", "running"}, answer \in {"removed", "taken"} :
           /\ waiter' = [waiter EXCEPT ![c] = stage]
           /\ removed' = [removed EXCEPT ![c] = answer]
      /\ queue' = queue \/ queue' = Keep(queue, Commands \ {c})
  BY DEF WithdrawEntry, WaiterGoes
<1>2. Places(queue', Hands(poller'), given') /\ PollersFine(poller')
  BY <1>1, PlacesKept
<1>3. ToSet(queue) \subseteq Commands /\ queue \in Seq(Commands)
  BY MembersOf DEF Places
<1>4. ToSet(queue') \subseteq ToSet(queue) /\ ToSet(queue) \ {c} \subseteq ToSet(queue')
  BY <1>1, <1>3, KeepFacts
<1>5. CallsTyped'
  BY <1>1 DEF CallsTyped, WaiterStages
<1>6. Live' = Live
  BY <1>1 DEF Live
<1>7. NobodySleepsBeside'
  BY <1>1, <1>4, <1>6 DEF NobodySleepsBeside
<1>8. ASSUME NEW d \in Commands PROVE CallBooks(d)'
  <2>1. CallBooks(d)
    OBVIOUS
  <2>2. CASE d = c
    <3>1. waiter'[c] \in {"withdrawn", "running"} /\ c \in Live
      BY <1>1, WaitingIsLive DEF CallsTyped
    <3> QED BY <2>1, <2>2, <3>1, <1>1, <1>6 DEF CallBooks
  <2>3. CASE d # c
    <3>1. waiter'[d] = waiter[d] /\ removed'[d] = removed[d]
      BY <1>1, <2>3 DEF CallsTyped
    <3> QED BY <2>1, <2>3, <3>1, <1>1, <1>4, <1>6 DEF CallBooks
  <2> QED BY <2>2, <2>3
<1> QED BY <1>1, <1>2, <1>5, <1>7, <1>8

LEMMA CallEnds ==
  ASSUME MemoryInd, NEW c \in Commands, Resolve(c) \/ Cancel(c)
  PROVE  MemoryInd'
<1> USE DEF MemoryInd
<1>1. /\ waiter[c] # "new" /\ waiter' = [waiter EXCEPT ![c] = "done"] /\ pendings' = pendings \ {c}
      /\ UNCHANGED <<queue, life, left, removed, poller, takes, given>>
  BY DEF Resolve, Cancel, WaiterGoes
<1>2. Places(queue', Hands(poller'), given') /\ PollersFine(poller') /\ takes' \in [Takers -> 0..MaxTakes]
  BY <1>1
<1>3. CallsTyped' /\ Live' = Live
  BY <1>1 DEF CallsTyped, WaiterStages, Live
<1>4. NobodySleepsBeside'
  BY <1>1, <1>3 DEF NobodySleepsBeside
<1>5. ASSUME NEW d \in Commands PROVE CallBooks(d)'
  <2>1. CallBooks(d) /\ waiter'[d] = IF d = c THEN "done" ELSE waiter[d]
    BY <1>1 DEF CallsTyped
  <2> QED BY <2>1, <1>1, <1>3 DEF CallBooks
<1> QED BY <1>2, <1>3, <1>4, <1>5

LEMMA TakeBeginsKeeps ==
  ASSUME MemoryInd, NEW t \in Takers, TakeBegins(t)
  PROVE  MemoryInd'
<1> USE DEF MemoryInd
<1> DEFINE r == [NoTake EXCEPT !.stage = "looking", !.left = PollWait]
<1>1. PICK kept \in Sweeps : queue' = Keep(queue, kept) /\ pendings' = pendings \cap kept
  BY DEF TakeBegins
<1>2. /\ poller[t].stage = "out" /\ takes[t] < MaxTakes /\ takes' = [takes EXCEPT ![t] = @ + 1]
      /\ poller' = Instead(poller, t, r) /\ UNCHANGED <<life, callVars, given>>
  BY DEF TakeBegins, PollerBecomes, Instead
<1>3. r \in Pollers /\ r.batch = << >> /\ r.stage = "looking"
  <2>1. PollWait \in 0..PollWait
    BY MemoryConstants
  <2> HIDE DEF MemoryInd
  <2>3. << >> \in Seq(Commands)
    BY EmptyLine
  <2> QED BY <2>1, <2>3 DEF NoTake, Pollers
<1>4. poller[t].batch = << >>
  BY <1>2 DEF PollersFine
<1> HIDE DEF r, MemoryInd
<1>5. /\ PollersFine(poller') /\ Hands(poller') = Hands(poller)
      /\ poller'[t] = r /\ \A u \in Takers : u # t => poller'[u] = poller[u]
  <2>1. PollersFine(poller)
    BY DEF MemoryInd
  <2> QED BY <2>1, <1>2, <1>3, <1>4, OnePollerChanges, PollerKeepsBatch
<1> USE DEF MemoryInd
<1>6. /\ Places(queue', Hands(poller), given) /\ ToSet(queue') = ToSet(queue) \cap kept
      /\ ToSet(queue) \subseteq Commands /\ Live \subseteq kept
  BY <1>1, SweepsOnlyExpired
<1>7. CallsTyped' /\ Live' = Live
  BY <1>1, <1>2 DEF CallsTyped, callVars, Live
<1>8. takes' \in [Takers -> 0..MaxTakes]
  <2>1. takes[t] + 1 \in 0..MaxTakes
    BY <1>2, MemoryConstants
  <2> QED BY <2>1, <1>2
<1>9. NobodySleepsBeside'
  <2>1. ASSUME NEW u \in Takers, poller'[u].stage = "asleep" PROVE poller[u].stage = "asleep"
    BY <2>1, <1>3, <1>5
  <2> QED BY <2>1, <1>6, <1>7 DEF NobodySleepsBeside
<1>10. ASSUME NEW d \in Commands PROVE CallBooks(d)'
  <2>1. CallBooks(d) /\ (waiter[d] = "waiting" => d \in Live)
    BY WaitingIsLive
  <2>2. /\ d \in ToSet(queue') <=> d \in ToSet(queue) /\ d \in kept
        /\ d \in pendings' <=> d \in pendings /\ d \in kept
        /\ d \in Live => d \in kept
    BY <1>1, <1>6
  <2> QED BY <2>1, <2>2, <1>2, <1>7 DEF CallBooks, callVars
<1> QED BY <1>2, <1>5, <1>6, <1>7, <1>8, <1>9, <1>10

(* The steps of a take and of a park that leave every queue as it is. *)
LEMMA PollerMoves ==
  ASSUME MemoryInd, NEW t \in Takers, ParkEnds(t) \/ SignalAborts(t)
  PROVE  MemoryInd' /\ Hands(poller') = Hands(poller)
<1> USE DEF MemoryInd
<1>1. PICK r \in Pollers :
        /\ poller' = Instead(poller, t, r) /\ r.batch = poller[t].batch
        /\ r.stage # "asleep" /\ (r.stage = "holding" <=> poller[t].stage = "holding")
  <2>1. poller[t] \in Pollers
    BY DEF PollersFine
  <2>2. CASE ParkEnds(t)
    <3> DEFINE r == [poller[t] EXCEPT !.stage = "looking"]
    <3>1. r \in Pollers /\ r.batch = poller[t].batch /\ r.stage = "looking"
      BY <2>1 DEF Pollers
    <3>2. poller' = Instead(poller, t, r) /\ poller[t].stage = "asleep"
      BY <2>2 DEF ParkEnds, PollerBecomes, Instead
    <3> QED BY <3>1, <3>2
  <2>3. CASE SignalAborts(t)
    <3> DEFINE r == [poller[t] EXCEPT !.aborted = TRUE, !.stage = IF @ = "asleep" THEN "looking" ELSE @]
    <3>1. /\ r \in Pollers /\ r.batch = poller[t].batch
          /\ r.stage = IF poller[t].stage = "asleep" THEN "looking" ELSE poller[t].stage
      BY <2>1 DEF Pollers
    <3>2. poller' = Instead(poller, t, r)
      BY <2>3 DEF SignalAborts, PollerBecomes, Instead
    <3>3. r.stage # "asleep" /\ (r.stage = "holding" <=> poller[t].stage = "holding")
      BY <3>1
    <3> HIDE DEF r
    <3> QED BY <3>1, <3>2, <3>3
  <2> QED BY <2>2, <2>3
<1>2. UNCHANGED <<queue, pendings, life, callVars, takes, given>>
  BY DEF ParkEnds, SignalAborts
<1> HIDE DEF MemoryInd
<1>3. /\ PollersFine(poller') /\ Hands(poller') = Hands(poller)
      /\ poller'[t] = r /\ \A u \in Takers : u # t => poller'[u] = poller[u]
  <2>1. PollersFine(poller) /\ (r.batch # << >> <=> r.stage = "holding")
    BY <1>1 DEF PollersFine, MemoryInd
  <2> QED BY <2>1, <1>1, OnePollerChanges, PollerKeepsBatch
<1> USE DEF MemoryInd
<1>4. CallsTyped' /\ \A c \in Commands : CallBooks(c)'
  BY <1>2, BooksOfPoll
<1>5. NobodySleepsBeside'
  <2>1. ASSUME NEW u \in Takers, poller'[u].stage = "asleep" PROVE poller[u].stage = "asleep"
    BY <2>1, <1>1, <1>3
  <2> QED BY <2>1, <1>2 DEF NobodySleepsBeside, Live
<1> QED BY <1>2, <1>3, <1>4, <1>5

LEMMA TakeSomeKeeps ==
  ASSUME MemoryInd, NEW t \in Takers, TakeSome(t)
  PROVE  MemoryInd'
<1> USE DEF MemoryInd
<1> DEFINE live == Keep(queue, Live)
<1>1. PICK n \in 1..Len(live) :
        /\ poller' = Instead(poller, t, [poller[t] EXCEPT !.stage = "holding", !.batch = SubSeq(live, 1, n)])
        /\ queue' = SubSeq(live, n + 1, Len(live)) /\ given' = given \cup ToSet(SubSeq(live, 1, n))
  <2>1. live \in Seq(Commands)
    BY SweepsOnlyExpired DEF Sweeps, Places
  <2>2. Len(live) \in Nat
    BY <2>1
  <2> DEFINE n == IF Len(live) < MaxBatch THEN Len(live) ELSE MaxBatch
  <2>3. n > 0 /\ n \in 1..Len(live)
    BY <2>2, MemoryConstants DEF TakeSome
  <2> QED BY <2>3 DEF TakeSome, PollerBecomes, Instead
<1>2. poller[t].stage = "looking" /\ UNCHANGED <<pendings, life, callVars, takes>>
  BY DEF TakeSome
<1> DEFINE h == SubSeq(live, 1, n)
<1>3. /\ Places(live, Hands(poller), given) /\ ToSet(live) = ToSet(queue) \cap Live
      /\ ToSet(queue) \subseteq Commands
  BY SweepsOnlyExpired DEF Sweeps
<1> HIDE DEF live
<1>4. /\ Places(queue', Instead(Hands(poller), t, h), given')
      /\ ToSet(queue') \cup ToSet(h) = ToSet(live) /\ h \in Seq(Commands) /\ h # << >>
  BY <1>1, <1>3, PlacesTaken
<1> HIDE DEF h
<1>5. /\ PollersFine(poller') /\ Hands(poller') = Instead(Hands(poller), t, h)
      /\ \A u \in Takers : u = t \/ poller'[u] = poller[u]
      /\ poller'[t].stage = "holding"
  <2> DEFINE r == [poller[t] EXCEPT !.stage = "holding", !.batch = h]
  <2>1. r \in Pollers /\ r.batch = h /\ r.stage = "holding"
    BY <1>4 DEF PollersFine, Pollers
  <2>2. poller' = Instead(poller, t, r)
    BY <1>1 DEF h
  <2>3. PollersFine(poller)
    OBVIOUS
  <2> HIDE DEF r, MemoryInd
  <2> QED BY <2>1, <2>2, <2>3, <1>4, OnePollerChanges
<1>6. CallsTyped' /\ \A c \in Commands : CallBooks(c)'
  <2>1. given' = given \cup ToSet(h)
    BY <1>1 DEF h
  <2> QED BY <1>2, <2>1, <1>3, <1>4, BooksOfPoll
<1>7. NobodySleepsBeside'
  <2>1. ASSUME NEW u \in Takers, poller'[u].stage = "asleep" PROVE poller[u].stage = "asleep"
    BY <2>1, <1>5
  <2> QED BY <2>1, <1>2, <1>3, <1>4 DEF NobodySleepsBeside, Live
<1> QED BY <1>2, <1>4, <1>5, <1>6, <1>7

LEMMA TakeNoneKeeps ==
  ASSUME MemoryInd, NEW t \in Takers, TakeNone(t)
  PROVE  MemoryInd' /\ Hands(poller') = Hands(poller) /\ queue' = Keep(queue, Live)
<1> USE DEF MemoryInd
<1>1. /\ poller[t].stage = "looking" /\ queue' = << >> /\ Keep(queue, Live) = << >>
      /\ UNCHANGED <<pendings, life, callVars, takes, given>>
  BY DEF TakeNone
<1>2. /\ Places(queue', Hands(poller), given) /\ ToSet(queue') = ToSet(queue) \cap Live
      /\ ToSet(queue) \subseteq Commands
  BY <1>1, SweepsOnlyExpired DEF Sweeps
<1>3. ToSet(queue') = {}
  BY <1>1, EmptyLine
<1>4. PICK r \in Pollers :
        poller' = Instead(poller, t, r) /\ r.batch = << >> /\ r.stage # "holding"
  <2>1. poller[t] \in Pollers /\ poller[t].batch = << >>
    BY <1>1 DEF PollersFine
  <2>2. NoTake \in Pollers /\ NoTake.batch = << >> /\ NoTake.stage = "out"
    BY Leaves
  <2>3. [poller[t] EXCEPT !.stage = "asleep"] \in Pollers
    BY <2>1 DEF Pollers
  <2>4. [poller[t] EXCEPT !.stage = "asleep"].batch = << >> /\ [poller[t] EXCEPT !.stage = "asleep"].stage = "asleep"
    BY <2>1 DEF Pollers
  <2> QED BY <2>2, <2>3, <2>4 DEF TakeNone, PollerBecomes, Instead
<1>5. PollersFine(poller') /\ Hands(poller') = Hands(poller)
  <2>1. r.batch = poller[t].batch /\ PollersFine(poller)
    BY <1>1, <1>4 DEF PollersFine
  <2>2. r.batch # << >> <=> r.stage = "holding"
    BY <1>4
  <2> HIDE DEF MemoryInd
  <2>3. PollersFine(poller')
    BY <2>1, <2>2, <1>4, OnePollerChanges
  <2>4. Hands(poller') = Hands(poller)
    BY <2>1, <1>4, PollerKeepsBatch
  <2> QED BY <2>3, <2>4
<1>6. CallsTyped' /\ \A c \in Commands : CallBooks(c)'
  BY <1>1, <1>2, BooksOfPoll
<1>7. NobodySleepsBeside'
  BY <1>3 DEF NobodySleepsBeside
<1> QED BY <1>1, <1>2, <1>5, <1>6, <1>7

LEMMA PollAnswersKeeps ==
  ASSUME MemoryInd, NEW t \in Takers, PollAnswers(t)
  PROVE  MemoryInd' /\ Hands(poller') = Instead(Hands(poller), t, << >>)
<1> USE DEF MemoryInd
<1>1. /\ poller' = Instead(poller, t, NoTake)
      /\ UNCHANGED <<queue, pendings, life, callVars, takes, given>>
  BY DEF PollAnswers, PollerBecomes, Instead
<1>2. PollersFine(poller) /\ Places(queue, Hands(poller), given)
  OBVIOUS
<1> HIDE DEF MemoryInd
<1>3. /\ PollersFine(poller') /\ Hands(poller') = Instead(Hands(poller), t, << >>)
      /\ poller'[t] = NoTake /\ \A u \in Takers : u # t => poller'[u] = poller[u]
  BY <1>1, <1>2, OnePollerChanges, Leaves
<1>4. Places(queue', Hands(poller'), given')
  BY <1>1, <1>2, <1>3, PlacesGiven
<1> USE DEF MemoryInd
<1>5. CallsTyped' /\ \A c \in Commands : CallBooks(c)'
  BY <1>1, BooksOfPoll
<1>6. NobodySleepsBeside'
  <2>1. ASSUME NEW u \in Takers, poller'[u].stage = "asleep" PROVE poller[u].stage = "asleep"
    BY <2>1, <1>3, Leaves
  <2> QED BY <2>1, <1>1 DEF NobodySleepsBeside, Live
<1> QED BY <1>1, <1>3, <1>4, <1>5, <1>6

LEMMA PollRequeuesKeeps ==
  ASSUME MemoryInd, NEW t \in Takers, PollRequeues(t)
  PROVE  /\ MemoryInd' /\ Hands(poller') = Instead(Hands(poller), t, << >>)
         /\ queue' = Keep(Hands(poller)[t], pendings \cap Live) \o queue
<1> USE DEF MemoryInd
<1> DEFINE back == Keep(Hands(poller)[t], pendings \cap Live)
           rest == Instead(poller, t, NoTake)
<1>1. /\ poller[t].stage = "holding" /\ UNCHANGED <<pendings, life, callVars, takes, given>>
      /\ \/ back = << >> /\ poller' = rest /\ queue' = queue
         \/ back # << >> /\ poller' = WakeAll(rest) /\ queue' = back \o queue
  BY DEF PollRequeues, PutFront, Hands, Instead
<1>2. PollersFine(poller) /\ Places(queue, Hands(poller), given)
  OBVIOUS
<1> HIDE DEF MemoryInd
<1>3. /\ PollersFine(rest) /\ Hands(rest) = Instead(Hands(poller), t, << >>)
      /\ rest[t] = NoTake /\ \A u \in Takers : u # t => rest[u] = poller[u]
  BY <1>2, OnePollerChanges, Leaves
<1>4. /\ Places(back \o queue, Instead(Hands(poller), t, << >>), given)
      /\ ToSet(back \o queue) = (ToSet(Hands(poller)[t]) \cap (pendings \cap Live)) \cup ToSet(queue)
  <2> DEFINE waited == pendings \cap Live
  <2>1. back = Keep(Hands(poller)[t], waited)
    OBVIOUS
  <2> DEFINE line == back \o queue
  <2>3. line = back \o queue
    OBVIOUS
  <2> HIDE DEF back, waited, line
  <2>4. Places(line, Instead(Hands(poller), t, << >>), given)
    BY <1>2, <2>1, <2>3, PlacesBack
  <2>2. ToSet(line) = (ToSet(Hands(poller)[t]) \cap waited) \cup ToSet(queue)
    <3>1. /\ Hands(poller)[t] \in Seq(Commands) /\ IsInjective(Hands(poller)[t])
          /\ queue \in Seq(Commands) /\ IsInjective(queue)
          /\ ToSet(Hands(poller)[t]) \cap ToSet(queue) = {}
      BY <1>2 DEF Places
    <3>2. /\ back \in Seq(Commands) /\ IsInjective(back)
          /\ ToSet(back) = ToSet(Hands(poller)[t]) \cap waited
      BY <2>1, <3>1, KeepFacts
    <3>3. ToSet(back) \cap ToSet(queue) = {}
      BY <3>1, <3>2
    <3> QED BY <2>3, <3>1, <3>2, <3>3, PutBefore
  <2> QED BY <2>4, <2>2 DEF waited, line
<1> HIDE DEF back, rest
<1> USE DEF MemoryInd
<1>5. ToSet(Hands(poller)[t]) \subseteq given
  BY DEF Places
<1>6. queue' = back \o queue
  <2>1. queue \in Seq(Commands)
    BY DEF Places
  <2>2. << >> \o queue = queue
    BY <2>1
  <2> QED BY <1>1, <2>2
<1>7. PollersFine(poller') /\ Hands(poller') = Instead(Hands(poller), t, << >>)
  BY <1>1, <1>3, AllWoken
<1>8. CallsTyped' /\ \A c \in Commands : CallBooks(c)'
  BY <1>1, <1>4, <1>5, <1>6, BooksOfPoll
<1>9. NobodySleepsBeside'
  <2>1. CASE poller' = rest /\ queue' = queue
    <3>1. ASSUME NEW u \in Takers, poller'[u].stage = "asleep" PROVE poller[u].stage = "asleep"
      BY <3>1, <2>1, <1>3, Leaves
    <3> QED BY <3>1, <2>1, <1>1 DEF NobodySleepsBeside, Live
  <2>2. CASE poller' = WakeAll(rest)
    BY <2>2, <1>3, AllWoken DEF NobodySleepsBeside
  <2> QED BY <2>1, <2>2, <1>1
<1> QED BY <1>1, <1>4, <1>6, <1>7, <1>8, <1>9 DEF back

LEMMA TickKeeps ==
  ASSUME MemoryInd, MemoryTick
  PROVE  MemoryInd' /\ Hands(poller') = Hands(poller) /\ Live' \subseteq Live
<1> USE DEF MemoryInd
<1>1. /\ \A c \in Commands : waiter[c] = "waiting" => left[c] > 0
      /\ life' = [c \in Commands |-> IF Enqueued(c) THEN Less(life[c]) ELSE life[c]]
      /\ left' = [c \in Commands |-> Less(left[c])]
      /\ poller' = [t \in Takers |-> [poller[t] EXCEPT !.left = Less(@)]]
      /\ UNCHANGED <<queue, pendings, waiter, removed, takes, given>>
  BY DEF MemoryTick
<1>2. ASSUME NEW t \in Takers
      PROVE  /\ poller'[t] \in Pollers /\ poller'[t].batch = poller[t].batch
             /\ poller'[t].stage = poller[t].stage
  <2>1. poller[t] \in Pollers /\ poller[t].left \in 0..PollWait
    BY DEF PollersFine, Pollers
  <2>2. Less(poller[t].left) \in 0..PollWait
    BY <2>1, MemoryConstants DEF Less
  <2>3. poller'[t] = [poller[t] EXCEPT !.left = Less(@)]
    BY <1>1
  <2> QED BY <2>1, <2>2, <2>3 DEF Pollers
<1>3. PollersFine(poller') /\ Hands(poller') = Hands(poller)
  <2>1. poller' \in [Takers -> Pollers]
    BY <1>1, <1>2
  <2> QED BY <2>1, <1>2 DEF PollersFine, Hands
<1>4. ASSUME NEW c \in Commands
      PROVE  /\ life[c] \in Nat /\ left[c] \in Nat /\ Ttl[c] \in Nat /\ Patience[c] \in Nat
             /\ left'[c] = IF left[c] > 0 THEN left[c] - 1 ELSE 0
             /\ life'[c] = IF waiter[c] = "new" \/ life[c] = 0 THEN life[c] ELSE life[c] - 1
  BY <1>1, MemoryConstants DEF CallsTyped, Enqueued, Less
<1>5. CallsTyped'
  <2>1. life' \in [Commands -> Nat] /\ left' \in [Commands -> Nat]
    BY <1>1, <1>4 DEF Enqueued, Less
  <2>2. \A c \in Commands : life'[c] <= Ttl[c] /\ left'[c] <= Patience[c]
    BY <1>4 DEF CallsTyped
  <2> QED BY <2>1, <2>2, <1>1 DEF CallsTyped
<1>6. Live' \subseteq Live
  BY <1>4 DEF Live
<1>7. NobodySleepsBeside'
  BY <1>1, <1>2, <1>6 DEF NobodySleepsBeside
<1>8. ASSUME NEW c \in Commands PROVE CallBooks(c)'
  <2>1. CallBooks(c) /\ (waiter[c] = "waiting" => left[c] > 0)
    BY <1>1
  <2> QED BY <2>1, <1>1, <1>4, <1>6 DEF CallBooks
<1> QED BY <1>1, <1>3, <1>5, <1>6, <1>7, <1>8

LEMMA MemoryStutters ==
  ASSUME MemoryInd, UNCHANGED memoryVars
  PROVE  MemoryInd'
<1>1. CallsTyped' /\ \A c \in Commands : CallBooks(c)'
  BY BooksOfPoll DEF memoryVars, callVars
<1> QED BY <1>1 DEF MemoryInd, memoryVars, NobodySleepsBeside, Live

LEMMA MemoryStep ==
  ASSUME MemoryInd, [MemoryNext]_memoryVars
  PROVE  MemoryInd'
<1>1. ASSUME NEW c \in Commands, CallStep(c) PROVE MemoryInd'
  BY <1>1, EnqueueKeeps, WithdrawKeeps, CallEnds DEF CallStep
<1>2. ASSUME NEW t \in Takers, PollGoesOn(t) \/ TakeBegins(t) \/ SignalAborts(t) PROVE MemoryInd'
  BY <1>2, TakeSomeKeeps, TakeNoneKeeps, PollAnswersKeeps, PollRequeuesKeeps, PollerMoves, TakeBeginsKeeps
     DEF PollGoesOn
<1> QED BY <1>1, <1>2, TickKeeps, MemoryStutters DEF MemoryNext

-----------------------------------------------------------------------------
(* The queue in memory keeps the promise                                   *)

LEMMA MemoryPromiseMeans ==
  /\ \A q : MemoryPromise!ToSet(q) = ToSet(q)
  /\ \A q, S : MemoryPromise!Keep(q, S) = Keep(q, S)
  /\ Batches = Hands(poller) /\ Batches' = Hands(poller')
BY DEF MemoryPromise!ToSet, ToSet, MemoryPromise!Keep, Keep, Batches, Hands

LEMMA MemoryPromiseStarts == MemoryInit => MemoryPromise!Init
<1> SUFFICES ASSUME MemoryInit PROVE MemoryPromise!Init
  OBVIOUS
<1>1. Batches = [t \in Takers |-> << >>]
  BY Leaves DEF MemoryInit, Batches
<1>2. Lapsed = {}
  BY MemoryConstants DEF MemoryInit, Lapsed, Live
<1> QED BY <1>1, <1>2 DEF MemoryInit, MemoryPromise!Init

LEMMA SweptRests ==
  ASSUME NEW kept \in Sweeps
  PROVE  Keep(queue, kept) \in MemoryPromise!Rests
<1> DEFINE gone == Commands \ kept
<1>1. gone \in SUBSET Lapsed /\ Commands \ gone = kept
  BY DEF Sweeps, Lapsed, Live
<1>2. Keep(queue, Commands \ gone) \in MemoryPromise!Rests
  BY <1>1, MemoryPromiseMeans DEF MemoryPromise!Rests
<1> QED BY <1>1, <1>2

LEMMA SameLapsed ==
  ASSUME UNCHANGED life, \A c \in Commands : waiter'[c] = "done" <=> waiter[c] = "done"
  PROVE  Lapsed' = Lapsed
BY DEF Lapsed, Live

LEMMA EnqueuePuts ==
  ASSUME MemoryInd, NEW c \in Commands, Enqueue(c)
  PROVE  MemoryPromise!Put(c)
<1>1. PICK kept \in Sweeps : queue' = Append(Keep(queue, kept), c)
  BY DEF Enqueue
<1>2. /\ waiter[c] = "new" /\ waiter' = [waiter EXCEPT ![c] = "waiting"]
      /\ poller' = WakeAll(poller) /\ UNCHANGED <<life, removed, given>>
  BY DEF Enqueue, WaiterGoes
<1>3. waiter \in [Commands -> WaiterStages] /\ PollersFine(poller) /\ c \notin ToSet(queue)
  BY <1>2 DEF MemoryInd, CallsTyped, CallBooks
<1>4. Hands(poller') = Hands(poller)
  BY <1>2, <1>3, AllWoken
<1>5. Lapsed' = Lapsed
  BY <1>2, <1>3, SameLapsed
<1>6. Keep(queue, kept) \in MemoryPromise!Rests
  BY SweptRests
<1>7. \E rest \in MemoryPromise!Rests : queue' = Append(rest, c)
  BY <1>1, <1>6
<1> QED BY <1>2, <1>3, <1>4, <1>5, <1>7, MemoryPromiseMeans DEF MemoryPromise!Put

LEMMA WithdrawPromised ==
  ASSUME MemoryInd, NEW c \in Commands, WithdrawEntry(c)
  PROVE  MemoryPromise!Withdraw(c)
<1>1. /\ waiter[c] = "waiting" /\ UNCHANGED <<life, poller, given>>
      /\ \E stage \in {"withdrawn", "running"} : waiter' = [waiter EXCEPT ![c] = stage]
  BY DEF WithdrawEntry, WaiterGoes
<1>2. /\ waiter \in [Commands -> WaiterStages] /\ removed[c] = "nothing"
      /\ c \in ToSet(queue) \cup given
  BY <1>1 DEF MemoryInd, CallsTyped, CallBooks
<1>3. Lapsed' = Lapsed
  BY <1>1, <1>2, SameLapsed
<1>4. \/ /\ c \in ToSet(queue) /\ queue' = Keep(queue, Commands \ {c})
         /\ removed' = [removed EXCEPT ![c] = "removed"]
      \/ /\ c \notin ToSet(queue) /\ queue' = queue
         /\ removed' = [removed EXCEPT ![c] = "taken"]
  BY DEF WithdrawEntry
<1>5. UNCHANGED <<Batches, given, Lapsed>>
  BY <1>1, <1>3 DEF Batches
<1> QED BY <1>2, <1>4, <1>5, MemoryPromiseMeans DEF MemoryPromise!Withdraw

LEMMA CallEndGrows ==
  ASSUME MemoryInd, NEW c \in Commands, Resolve(c) \/ Cancel(c)
  PROVE  MemoryPromise!GrowOld
<1>1. /\ waiter' = [waiter EXCEPT ![c] = "done"]
      /\ UNCHANGED <<queue, life, removed, poller, given>>
  BY DEF Resolve, Cancel, WaiterGoes
<1>2. waiter \in [Commands -> WaiterStages]
  BY DEF MemoryInd, CallsTyped
<1>3. Lapsed \subseteq Lapsed'
  BY <1>1, <1>2 DEF Lapsed, Live
<1> QED BY <1>1, <1>3 DEF MemoryPromise!GrowOld, Batches

LEMMA MemoryTickGrows ==
  ASSUME MemoryInd, MemoryTick
  PROVE  MemoryPromise!GrowOld
<1>1. Hands(poller') = Hands(poller) /\ Live' \subseteq Live
  BY TickKeeps
<1>2. UNCHANGED <<queue, waiter, removed, given>>
  BY DEF MemoryTick
<1>3. Lapsed \subseteq Lapsed'
  BY <1>1, <1>2 DEF Lapsed
<1> QED BY <1>1, <1>2, <1>3, MemoryPromiseMeans DEF MemoryPromise!GrowOld

LEMMA TakeDrops ==
  ASSUME MemoryInd, NEW t \in Takers, TakeBegins(t) \/ TakeNone(t)
  PROVE  MemoryPromise!Drop
<1>1. UNCHANGED <<life, callVars, given>> /\ Hands(poller') = Hands(poller)
  <2>1. CASE TakeBegins(t)
    <3> DEFINE r == [NoTake EXCEPT !.stage = "looking", !.left = PollWait]
    <3>1. poller[t].stage = "out" /\ poller' = Instead(poller, t, r)
      BY <2>1 DEF TakeBegins, PollerBecomes, Instead
    <3>2. PollersFine(poller) /\ poller[t].batch = << >>
      BY <3>1 DEF MemoryInd, PollersFine
    <3>3. r \in Pollers
      <4>1. PollWait \in 0..PollWait /\ << >> \in Seq(Commands)
        BY MemoryConstants, EmptyLine
      <4> QED BY <4>1 DEF NoTake, Pollers
    <3>4. r.batch = poller[t].batch
      BY <3>2 DEF NoTake
    <3> HIDE DEF r
    <3>5. Hands(poller') = Hands(poller)
      BY <3>1, <3>2, <3>3, <3>4, PollerKeepsBatch
    <3> QED BY <2>1, <3>5 DEF TakeBegins
  <2>2. CASE TakeNone(t)
    BY <2>2, TakeNoneKeeps DEF TakeNone
  <2> QED BY <2>1, <2>2
<1>2. queue' \in MemoryPromise!Rests
  <2>1. \E kept \in Sweeps : queue' = Keep(queue, kept)
    BY TakeNoneKeeps DEF TakeBegins, Sweeps
  <2> QED BY <2>1, SweptRests
<1>3. Lapsed' = Lapsed /\ removed' = removed
  BY <1>1 DEF callVars, Lapsed, Live
<1> QED BY <1>1, <1>2, <1>3, MemoryPromiseMeans DEF MemoryPromise!Drop

LEMMA TakeSomePulls ==
  ASSUME MemoryInd, NEW t \in Takers, TakeSome(t)
  PROVE  \E n \in 1..Len(queue) : MemoryPromise!Pull(t, n)
<1> DEFINE live == Keep(queue, Live)
           n == IF Len(live) < MaxBatch THEN Len(live) ELSE MaxBatch
           h == SubSeq(live, 1, n)
           r == [poller[t] EXCEPT !.stage = "holding", !.batch = h]
<1>1. /\ poller[t].stage = "looking" /\ n > 0 /\ poller' = Instead(poller, t, r)
      /\ queue' = SubSeq(live, n + 1, Len(live)) /\ given' = given \cup ToSet(h)
      /\ UNCHANGED <<life, callVars>>
  BY DEF TakeSome, PollerBecomes, Instead
<1>2. /\ live \in MemoryPromise!Rests /\ live \in Seq(Commands) /\ queue \in Seq(Commands)
      /\ Len(live) <= Len(queue)
  <2>1. queue \in Seq(Commands) /\ Live \in Sweeps
    BY DEF MemoryInd, Places, Sweeps
  <2> QED BY <2>1, KeepFacts, SweptRests
<1> HIDE DEF live
<1> HIDE DEF h, r
<1>3. n \in 1..Len(live) /\ n \in 1..Len(queue) /\ n <= Len(live)
  <2>1. Len(live) \in Nat /\ Len(queue) \in Nat /\ Len(live) <= Len(queue)
    BY <1>2
  <2>2. MaxBatch \in Nat
    BY MemoryConstants
  <2>3. n > 0
    BY <1>1
  <2>4. n \in Nat /\ n <= Len(live)
    BY <2>1, <2>2
  <2> QED BY <2>1, <2>3, <2>4
<1> HIDE DEF n
<1>4. h \in Seq(Commands) /\ h # << >>
  <2>1. Len(h) = n /\ h \in Seq(Commands)
    BY <1>2, <1>3 DEF h
  <2> QED BY <2>1, <1>3
<1>5. PollersFine(poller) /\ poller[t].batch = << >>
  BY <1>1 DEF MemoryInd, PollersFine
<1>6. r \in Pollers /\ r.batch = h /\ r.stage = "holding"
  BY <1>4, <1>5 DEF PollersFine, Pollers, r
<1>7. Hands(poller') = Instead(Hands(poller), t, h)
  BY <1>1, <1>4, <1>5, <1>6, OnePollerChanges
<1>8. Hands(poller)[t] = << >> /\ Hands(poller')[t] = h /\ Hands(poller') = [Hands(poller) EXCEPT ![t] = h]
  BY <1>5, <1>7 DEF Hands, Instead
<1>9. Lapsed' = Lapsed /\ removed' = removed
  BY <1>1 DEF callVars, Lapsed, Live
<1>10. \E rest \in MemoryPromise!Rests :
         /\ n <= Len(rest)
         /\ Hands(poller') = [Hands(poller) EXCEPT ![t] = SubSeq(rest, 1, n)]
         /\ queue' = SubSeq(rest, n + 1, Len(rest))
  BY <1>1, <1>2, <1>3, <1>8 DEF h
<1>11. MemoryPromise!Pull(t, n)
  <2>1. given' = given \cup MemoryPromise!ToSet(Batches'[t])
    BY <1>1, <1>8, MemoryPromiseMeans
  <2> QED BY <1>8, <1>9, <1>10, <2>1, MemoryPromiseMeans DEF MemoryPromise!Pull
<1> QED BY <1>3, <1>11

LEMMA AnswerDelivers ==
  ASSUME MemoryInd, NEW t \in Takers, PollAnswers(t)
  PROVE  MemoryPromise!Deliver(t)
<1>1. Hands(poller') = [Hands(poller) EXCEPT ![t] = << >>]
  BY PollAnswersKeeps DEF Instead
<1>2. UNCHANGED <<queue, life, waiter, removed, given>>
  BY DEF PollAnswers, callVars
<1>3. Lapsed' = Lapsed
  BY <1>2 DEF Lapsed, Live
<1> QED BY <1>1, <1>2, <1>3, MemoryPromiseMeans DEF MemoryPromise!Deliver

LEMMA RequeuePutsBack ==
  ASSUME MemoryInd, NEW t \in Takers, PollRequeues(t)
  PROVE  MemoryPromise!PutBack(t)
<1>1. /\ Hands(poller') = [Hands(poller) EXCEPT ![t] = << >>]
      /\ queue' = Keep(Hands(poller)[t], pendings \cap Live) \o queue
  BY PollRequeuesKeeps DEF Instead
<1>2. UNCHANGED <<life, waiter, removed, given>>
  BY DEF PollRequeues, callVars
<1>3. Lapsed' = Lapsed
  BY <1>2 DEF Lapsed, Live
<1>4. ASSUME NEW c \in ToSet(Hands(poller)[t]), c \notin pendings \cap Live PROVE c \in Lapsed
  <2>1. c \in given /\ c \in Commands
    BY DEF MemoryInd, Places
  <2>2. waiter[c] # "new" /\ CallBooks(c)
    BY <2>1 DEF MemoryInd, CallBooks
  <2> QED BY <2>1, <2>2, <1>4 DEF CallBooks, Lapsed
<1>5. pendings \cap Live \in SUBSET Commands
  BY DEF Live
<1>6. ToSet(Hands(poller)[t]) \ (pendings \cap Live) \subseteq Lapsed
  BY <1>4
<1> DEFINE keep == pendings \cap Live
<1>7. \E k \in SUBSET Commands :
        /\ ToSet(Hands(poller)[t]) \ k \subseteq Lapsed
        /\ queue' = Keep(Hands(poller)[t], k) \o queue
  BY <1>1, <1>5, <1>6
<1> QED BY <1>1, <1>2, <1>3, <1>7, MemoryPromiseMeans DEF MemoryPromise!PutBack

LEMMA MovesStutter ==
  ASSUME MemoryInd, NEW t \in Takers, ParkEnds(t) \/ SignalAborts(t)
  PROVE  UNCHANGED MemoryPromise!vars
<1>1. Hands(poller') = Hands(poller)
  BY PollerMoves
<1>2. UNCHANGED <<queue, life, waiter, removed, given>>
  BY DEF ParkEnds, SignalAborts, callVars
<1>3. Lapsed' = Lapsed
  BY <1>2 DEF Lapsed, Live
<1> QED BY <1>1, <1>2, <1>3, MemoryPromiseMeans DEF MemoryPromise!vars

LEMMA MemoryKeepsPromise ==
  ASSUME MemoryInd, [MemoryNext]_memoryVars
  PROVE  [MemoryPromise!Next]_(MemoryPromise!vars)
<1>1. ASSUME NEW c \in Commands, CallStep(c) PROVE MemoryPromise!Next
  BY <1>1, EnqueuePuts, WithdrawPromised, CallEndGrows DEF CallStep, MemoryPromise!Next
<1>2. ASSUME NEW t \in Takers, PollGoesOn(t) \/ TakeBegins(t) \/ SignalAborts(t)
      PROVE  [MemoryPromise!Next]_(MemoryPromise!vars)
  BY <1>2, TakeSomePulls, TakeDrops, MovesStutter, AnswerDelivers, RequeuePutsBack
     DEF PollGoesOn, MemoryPromise!Next
<1>3. CASE MemoryTick
  BY <1>3, MemoryTickGrows DEF MemoryPromise!Next
<1>4. CASE UNCHANGED memoryVars
  BY <1>4 DEF memoryVars, MemoryPromise!vars, Batches, Lapsed, Live
<1> QED BY <1>1, <1>2, <1>3, <1>4 DEF MemoryNext

-----------------------------------------------------------------------------
(* The queue in Redis                                                      *)

LEMMA RedisConstants ==
  /\ PollWait \in Nat /\ MaxBatch \in Nat \ {0} /\ MaxPolls \in Nat /\ SafetyPoll \in Nat \ {0}
  /\ Life \in [Commands -> Nat \ {0}] /\ Pickup \in [Commands -> Nat]
  /\ \A c \in Commands : Pickup[c] < Life[c]
BY QueueAssumption, ConstantsAssumption DEF Times

TakerFine(r) ==
  /\ r \in RedisTakers
  /\ r.batch # << >> <=> r.stage = "holding"
  /\ Len(r.batch) <= MaxBatch /\ r.timer <= SafetyPoll

TakersFine(p) == p \in [Takers -> RedisTakers] /\ \A t \in Takers : TakerFine(p[t])

CallersTyped ==
  /\ caller \in [Commands -> CallerStages]
  /\ wait \in [Commands -> Nat] /\ age \in [Commands -> Nat] /\ idle \in [Commands -> Nat]
  /\ \A c \in Commands : wait[c] <= Pickup[c] /\ age[c] <= Life[c]
  /\ told \in [Commands -> {"nothing", "removed", "taken"}]

OthersTyped == ttl \in Nat \cup {NoTtl} /\ polls \in [Takers -> 0..MaxPolls] /\ flying \subseteq Takers \ Local
               /\ lost \subseteq Commands

(* What a call has not pushed yet is nowhere, and never lay in the list.   *)
NotPushed(c) == caller[c] \in {"new", "set"} => c \notin ToSet(list) \cup taken /\ idle[c] = 0

(* A poll about to park sees what came to the list in this very tick; one  *)
(* asleep wakes before anything lies there longer than the safety poll.    *)
WakesInTime(t) ==
  \A c \in ToSet(list) :
    /\ taker[t].stage = "parking" => idle[c] = 0
    /\ taker[t].stage = "asleep" => idle[c] + taker[t].timer <= SafetyPoll

RedisInd ==
  /\ Places(list, Hands(taker), taken)
  /\ TakersFine(taker)
  /\ CallersTyped
  /\ OthersTyped
  /\ \A c \in Commands : NotPushed(c)
  /\ \A t \in Takers : WakesInTime(t)

LEMMA RedisIndImplies ==
  ASSUME RedisInd
  PROVE  RedisQueueInv
<1>1. \A t \in Takers : ToSet(taker[t].batch) \cap ToSet(list) = {}
  BY DEF RedisInd, Places, Hands
<1>2. taken \subseteq Commands /\ list \in Seq(Commands) /\ IsInjective(list)
  BY DEF RedisInd, Places
<1>3. TypeOK
  BY <1>1, <1>2 DEF RedisInd, TypeOK, TakersFine, TakerFine, CallersTyped, OthersTyped
<1>4. PickedUpInTime
  <2>1. SUFFICES ASSUME NEW t \in Takers, NEW c \in ToSet(list), taker[t].stage = "asleep"
                 PROVE  idle[c] <= SafetyPoll
    BY DEF PickedUpInTime
  <2>2. idle[c] + taker[t].timer <= SafetyPoll
    BY <2>1 DEF RedisInd, WakesInTime
  <2>3. c \in Commands
    BY <1>2, MembersOf
  <2>4. idle[c] \in Nat /\ taker[t].timer \in Nat
    BY <2>3, RedisConstants DEF RedisInd, CallersTyped, TakersFine, RedisTakers
  <2> QED BY <2>2, <2>4, RedisConstants
<1> QED BY <1>3, <1>4 DEF RedisQueueInv

LEMMA AwayFine == TakerFine(Away) /\ Away.batch = << >> /\ Away.stage = "out"
<1>1. Away \in RedisTakers
  BY RedisConstants, EmptyLine DEF Away, RedisTakers, TakerStages
<1> QED BY <1>1, RedisConstants DEF Away, TakerFine

LEMMA RedisStarts == Init => RedisInd
<1> SUFFICES ASSUME Init PROVE RedisInd
  OBVIOUS
<1>1. TakersFine(taker)
  BY AwayFine DEF Init, TakersFine, TakerFine
<1>2. Places(list, Hands(taker), taken)
  BY AwayFine, EmptyLine DEF Init, Places, Hands
<1>3. CallersTyped
  BY RedisConstants DEF Init, CallersTyped, CallerStages
<1>4. OthersTyped
  BY RedisConstants DEF Init, OthersTyped, NoTtl
<1>5. \A c \in Commands : NotPushed(c)
  BY EmptyLine DEF Init, NotPushed
<1>6. \A t \in Takers : WakesInTime(t)
  BY EmptyLine DEF Init, WakesInTime
<1> QED BY <1>1, <1>2, <1>3, <1>4, <1>5, <1>6 DEF RedisInd

(* No taker of o sleeps, or is about to, that did not do so in p.          *)
NoNewSleep(o, p) ==
  \A t \in Takers :
    /\ o[t].stage = "parking" => p[t].stage = "parking"
    /\ o[t].stage = "asleep" => p[t].stage = "asleep" /\ o[t].timer = p[t].timer

LEMMA SomeWoken ==
  ASSUME NEW p, TakersFine(p), NEW who
  PROVE  /\ TakersFine(Woken(p, who)) /\ Hands(Woken(p, who)) = Hands(p)
         /\ NoNewSleep(Woken(p, who), p)
<1> DEFINE w == Woken(p, who)
<1>1. ASSUME NEW t \in Takers
      PROVE  /\ TakerFine(w[t]) /\ w[t].batch = p[t].batch
             /\ w[t].stage = "parking" => p[t].stage = "parking"
             /\ w[t].stage = "asleep" => p[t].stage = "asleep" /\ w[t].timer = p[t].timer
  <2>1. /\ p[t] \in RedisTakers /\ TakerFine(p[t])
        /\ w[t] = IF t \in who /\ p[t].stage = "asleep"
                  THEN [p[t] EXCEPT !.stage = "reading", !.timer = 0] ELSE p[t]
    BY DEF Woken, TakersFine
  <2>2. CASE t \in who /\ p[t].stage = "asleep"
    <3> DEFINE r == [p[t] EXCEPT !.stage = "reading", !.timer = 0]
    <3>1. /\ r \in RedisTakers /\ r.batch = p[t].batch /\ r.stage = "reading" /\ r.timer = 0
      <4>1. 0 \in 0..PollWait /\ p[t] \in RedisTakers
        BY <2>1, RedisConstants
      <4> HIDE DEF w
      <4> QED BY <4>1 DEF RedisTakers, TakerStages
    <3>2. w[t] = r
      BY <2>1, <2>2
    <3> HIDE DEF r, w
    <3> QED BY <2>1, <2>2, <3>1, <3>2, RedisConstants DEF TakerFine
  <2>3. CASE ~(t \in who /\ p[t].stage = "asleep")
    BY <2>1, <2>3
  <2> QED BY <2>2, <2>3
<1>2. w = [t \in Takers |-> w[t]]
  BY DEF Woken
<1>3. Hands(w) = Hands(p)
  BY <1>1 DEF Hands
<1>4. w \in [Takers -> RedisTakers]
  BY <1>1, <1>2 DEF TakerFine
<1> QED BY <1>1, <1>3, <1>4 DEF TakersFine, NoNewSleep

LEMMA OneTakerChanges ==
  ASSUME NEW p, TakersFine(p), NEW t \in Takers, NEW r, TakerFine(r), NEW o, o = Instead(p, t, r)
  PROVE  /\ TakersFine(o) /\ Hands(o) = Instead(Hands(p), t, r.batch)
         /\ o[t] = r /\ \A u \in Takers : u # t => o[u] = p[u]
         /\ r.batch = p[t].batch => Hands(o) = Hands(p)
<1>1. p \in [Takers -> RedisTakers] /\ r \in RedisTakers
  BY DEF TakersFine, TakerFine
<1>2. o \in [Takers -> RedisTakers] /\ o[t] = r /\ \A u \in Takers : u # t => o[u] = p[u]
  BY <1>1 DEF Instead
<1>3. Hands(o) = Instead(Hands(p), t, r.batch)
  BY <1>1 DEF Hands, Instead
<1>4. r.batch = p[t].batch => Hands(o) = Hands(p)
  BY <1>1, SameBatch
<1>5. TakersFine(o)
  BY <1>2 DEF TakersFine
<1> QED BY <1>2, <1>3, <1>4, <1>5

(* A step that adds nothing to the list. *)
LEMMA NothingAdded ==
  ASSUME RedisInd, idle' = idle, TakersFine(taker'), CallersTyped', OthersTyped',
         Places(list', Hands(taker'), taken'),
         ToSet(list') \subseteq ToSet(list), taken' \subseteq taken \cup ToSet(list),
         \A c \in Commands : caller'[c] \in {"new", "set"} => caller[c] \in {"new", "set"},
         ToSet(list') = {} \/ NoNewSleep(taker', taker)
  PROVE  RedisInd'
<1>1. \A c \in Commands : NotPushed(c)'
  BY DEF RedisInd, NotPushed
<1>2. ASSUME NEW t \in Takers PROVE WakesInTime(t)'
  BY DEF RedisInd, WakesInTime, NoNewSleep
<1> QED BY <1>1, <1>2 DEF RedisInd

(* The steps of a call that leave the list as it is. *)
LEMMA CallerMoves ==
  ASSUME RedisInd, NEW c \in Commands,
         SetPending(c) \/ PExpire(c) \/ WakePages(c) \/ EnqueueThrows(c) \/ Collect(c)
  PROVE  RedisInd' /\ Hands(taker') = Hands(taker)
<1> USE DEF RedisInd
<1>1. PICK stage \in CallerStages \ {"new"} :
        /\ caller' = [caller EXCEPT ![c] = stage] /\ (stage = "set" => caller[c] = "new")
        /\ UNCHANGED <<list, told, polls, age, idle, taken, lost>>
  BY DEF SetPending, PExpire, WakePages, EnqueueThrows, Collect, Goes, CallerStages
<1>2. /\ taker' = taker \/ taker' = Woken(taker, Local)
      /\ ttl' = ttl \/ ttl' = Expire(c)
      /\ wait' = wait \/ wait' = [wait EXCEPT ![c] = Pickup[c]] \/ wait' = [wait EXCEPT ![c] = 0]
      /\ flying' = flying \/ flying' = flying \cup (Takers \ Local)
  BY DEF SetPending, PExpire, WakePages, EnqueueThrows, Collect, Publish
<1>3. TakersFine(taker') /\ Hands(taker') = Hands(taker) /\ NoNewSleep(taker', taker)
  <2>1. NoNewSleep(taker, taker)
    BY DEF NoNewSleep
  <2>2. TakersFine(taker)
    OBVIOUS
  <2> HIDE DEF RedisInd
  <2> QED BY <2>1, <2>2, <1>2, SomeWoken
<1>4. wait' \in [Commands -> Nat] /\ \A d \in Commands : wait'[d] <= Pickup[d]
  <2>1. /\ wait \in [Commands -> Nat] /\ Pickup \in [Commands -> Nat]
        /\ \A d \in Commands : wait[d] <= Pickup[d]
    BY RedisConstants DEF CallersTyped
  <2> HIDE DEF RedisInd
  <2> QED BY <1>2, <2>1
<1>5. CallersTyped'
  BY <1>1, <1>4 DEF CallersTyped
<1>6. OthersTyped'
  <2>1. Expire(c) \in Nat \cup {NoTtl}
    BY RedisConstants DEF Expire
  <2> QED BY <1>1, <1>2, <2>1 DEF OthersTyped
<1>7. \A d \in Commands : caller'[d] \in {"new", "set"} => caller[d] \in {"new", "set"}
  BY <1>1 DEF CallersTyped
<1>8. Places(list', Hands(taker'), taken')
  BY <1>1, <1>3
<1> HIDE DEF RedisInd
<1> QED BY <1>1, <1>3, <1>5, <1>6, <1>7, <1>8, NothingAdded

LEMMA PushKeeps ==
  ASSUME RedisInd, NEW c \in Commands, Push(c)
  PROVE  RedisInd' /\ c \notin ToSet(list) /\ list' = Append(list, c)
<1> USE DEF RedisInd
<1>1. /\ caller[c] = "set" /\ caller' = [caller EXCEPT ![c] = "pushed"]
      /\ list' = Append(list, c) /\ (ttl' = NoTtl \/ ttl' = ttl)
      /\ UNCHANGED <<wait, told, taker, polls, flying, age, idle, taken, lost>>
  BY DEF Push, Goes, ListBecomes
<1>2. c \notin ToSet(list) \cup taken /\ idle[c] = 0
  BY <1>1 DEF NotPushed
<1>3. Places(list', Hands(taker'), taken') /\ ToSet(list') = ToSet(list) \cup {c}
  BY <1>1, <1>2, PlacesJoined
<1>4. CallersTyped'
  BY <1>1 DEF CallersTyped, CallerStages
<1>5. OthersTyped'
  BY <1>1 DEF OthersTyped
<1>6. ASSUME NEW d \in Commands PROVE NotPushed(d)'
  <2>1. CASE d = c
    BY <2>1, <1>1 DEF NotPushed, CallersTyped
  <2>2. CASE d # c
    <3>1. caller'[d] = caller[d]
      BY <1>1, <2>2 DEF CallersTyped
    <3> QED BY <3>1, <1>1, <1>3, <2>2 DEF NotPushed
  <2> QED BY <2>1, <2>2
<1>7. ASSUME NEW t \in Takers PROVE WakesInTime(t)'
  <2>1. taker[t].timer \in Nat /\ taker[t].timer <= SafetyPoll
    BY RedisConstants DEF TakersFine, TakerFine, RedisTakers
  <2>2. ASSUME NEW d \in ToSet(list'), d # c PROVE d \in ToSet(list)
    BY <2>2, <1>3
  <2>3. WakesInTime(t)
    OBVIOUS
  <2> HIDE DEF RedisInd
  <2> QED BY <2>1, <2>2, <2>3, <1>1, <1>2 DEF WakesInTime
<1>8. TakersFine(taker')
  BY <1>1
<1> QED BY <1>1, <1>2, <1>3, <1>4, <1>5, <1>6, <1>7, <1>8

LEMMA RedisWithdrawKeeps ==
  ASSUME RedisInd, NEW c \in Commands, Withdraw(c) \/ CallThrows(c)
  PROVE  RedisInd'
<1> USE DEF RedisInd
<1>1. /\ \E stage \in {"done", "threw"} : caller' = [caller EXCEPT ![c] = stage]
      /\ list' = list \/ list' = Keep(list, Commands \ {c})
      /\ ttl' = NoTtl \/ ttl' = ttl
      /\ told' = told \/ \E answer \in {"removed", "taken"} : told' = [told EXCEPT ![c] = answer]
      /\ wait' = wait \/ wait' = [wait EXCEPT ![c] = 0]
      /\ UNCHANGED <<taker, polls, flying, age, idle, taken, lost>>
  BY DEF Withdraw, CallThrows, Goes, ListBecomes
<1>2. list \in Seq(Commands)
  BY DEF Places
<1>3. Places(list', Hands(taker'), taken') /\ ToSet(list') \subseteq ToSet(list)
  BY <1>1, <1>2, PlacesKept, KeepFacts
<1>4. CallersTyped'
  <2>1. wait' \in [Commands -> Nat] /\ \A d \in Commands : wait'[d] <= Pickup[d]
    <3>1. /\ wait \in [Commands -> Nat] /\ Pickup \in [Commands -> Nat]
          /\ \A d \in Commands : wait[d] <= Pickup[d]
      BY RedisConstants DEF CallersTyped
    <3> HIDE DEF RedisInd
    <3> QED BY <1>1, <3>1
  <2>2. told' \in [Commands -> {"nothing", "removed", "taken"}] /\ caller' \in [Commands -> CallerStages]
    BY <1>1 DEF CallersTyped, CallerStages
  <2> QED BY <1>1, <2>1, <2>2 DEF CallersTyped
<1>5. OthersTyped' /\ TakersFine(taker') /\ NoNewSleep(taker', taker)
  BY <1>1 DEF OthersTyped, NoNewSleep
<1>6. \A d \in Commands : caller'[d] \in {"new", "set"} => caller[d] \in {"new", "set"}
  BY <1>1 DEF CallersTyped
<1> HIDE DEF RedisInd
<1> QED BY <1>1, <1>3, <1>4, <1>5, <1>6, NothingAdded

LEMMA ListExpiresKeeps ==
  ASSUME RedisInd, ListExpires
  PROVE  RedisInd' /\ list' = Keep(list, {})
<1> USE DEF RedisInd
<1>1. /\ list' = << >> /\ ttl' = NoTtl
      /\ UNCHANGED <<callerVars, taker, polls, flying, age, idle, taken, lost>>
  BY DEF ListExpires, ListBecomes
<1>2. list' = Keep(list, {})
  BY <1>1, KeepFacts DEF Places
<1>3. Places(list', Hands(taker'), taken')
  BY <1>1, <1>2, PlacesKept
<1>4. CallersTyped' /\ OthersTyped' /\ TakersFine(taker') /\ ToSet(list') = {}
  BY <1>1, EmptyLine DEF CallersTyped, OthersTyped, callerVars
<1>5. \A d \in Commands : caller'[d] = caller[d]
  BY <1>1 DEF callerVars
<1> HIDE DEF RedisInd
<1> QED BY <1>1, <1>2, <1>3, <1>4, <1>5, NothingAdded

(* The steps of a poll that leave the list and the batches as they are. *)
TakerWalks(t) ==
  Poll(t) \/ TimerFires(t) \/ MessageArrives(t) \/ MessageLost(t) \/ PageLeaves(t)
    \/ RequeuePublish(t) \/ PollThrows(t)

LEMMA PollBegins ==
  ASSUME RedisInd, NEW t \in Takers, Poll(t)
  PROVE  TakersFine(taker') /\ Hands(taker') = Hands(taker) /\ NoNewSleep(taker', taker) /\ OthersTyped'
<1> DEFINE r == [Away EXCEPT !.stage = "reading", !.left = PollWait]
<1>1. /\ taker[t].stage = "out" /\ taker' = Instead(taker, t, r)
      /\ polls[t] < MaxPolls /\ polls' = [polls EXCEPT ![t] = @ + 1]
      /\ UNCHANGED <<ttl, flying, lost>>
  BY DEF Poll, Moves, Becomes, Instead
<1>2. TakerFine(r) /\ r.batch = << >> /\ r.stage = "reading"
  <2>1. PollWait \in 0..PollWait
    BY RedisConstants
  <2>2. Away \in RedisTakers /\ TakerFine(Away) /\ Away.batch = << >>
    BY AwayFine DEF TakerFine
  <2>3. r \in RedisTakers /\ r.batch = Away.batch /\ r.stage = "reading" /\ r.timer = Away.timer
    BY <2>1, <2>2 DEF RedisTakers, TakerStages
  <2> HIDE DEF r
  <2> QED BY <2>2, <2>3 DEF TakerFine
<1> HIDE DEF r
<1>3. TakersFine(taker) /\ taker[t].batch = << >>
  BY <1>1 DEF RedisInd, TakersFine, TakerFine
<1>4. /\ TakersFine(taker') /\ Hands(taker') = Hands(taker)
      /\ taker'[t] = r /\ \A u \in Takers : u # t => taker'[u] = taker[u]
  BY <1>1, <1>2, <1>3, OneTakerChanges
<1>5. NoNewSleep(taker', taker)
  BY <1>2, <1>4 DEF NoNewSleep
<1>6. OthersTyped'
  <2>1. polls \in [Takers -> 0..MaxPolls] /\ OthersTyped
    BY DEF RedisInd, OthersTyped
  <2>2. polls[t] + 1 \in 0..MaxPolls
    BY <2>1, <1>1, RedisConstants
  <2> QED BY <2>1, <2>2, <1>1 DEF OthersTyped
<1> QED BY <1>4, <1>5, <1>6

(* A poll gives its batch up, whatever becomes of the commands. *)
LEMMA TakerEmptied ==
  ASSUME RedisInd, NEW t \in Takers, NEW r, TakerFine(r), r.batch = << >>,
         r.stage \notin {"parking", "asleep"}, NEW o, o = Instead(taker, t, r)
  PROVE  /\ TakersFine(o) /\ Hands(o) = Instead(Hands(taker), t, << >>) /\ NoNewSleep(o, taker)
         /\ Hands(taker)[t] = << >> => Hands(o) = Hands(taker)
<1>1. TakersFine(taker) /\ Hands(taker)[t] = taker[t].batch
  BY DEF RedisInd, Hands
<1>2. /\ TakersFine(o) /\ Hands(o) = Instead(Hands(taker), t, << >>)
      /\ o[t] = r /\ \A u \in Takers : u # t => o[u] = taker[u]
      /\ r.batch = taker[t].batch => Hands(o) = Hands(taker)
  BY <1>1, OneTakerChanges
<1>3. NoNewSleep(o, taker)
  BY <1>2 DEF NoNewSleep
<1> QED BY <1>1, <1>2, <1>3

LEMMA TakerWalksOn ==
  ASSUME RedisInd, NEW t \in Takers, TakerWalks(t)
  PROVE  RedisInd' /\ Hands(taker') = Hands(taker)
<1>1. UNCHANGED <<list, callerVars, age, idle, taken, lost>> /\ ttl' = ttl
  BY DEF TakerWalks, Poll, TimerFires, MessageArrives, MessageLost, PageLeaves, RequeuePublish, PollThrows
<1>2. TakersFine(taker) /\ OthersTyped
  BY DEF RedisInd
<1>3. TakersFine(taker') /\ Hands(taker') = Hands(taker) /\ NoNewSleep(taker', taker) /\ OthersTyped'
  <2>1. CASE Poll(t)
    BY <2>1, PollBegins
  <2>2. CASE TimerFires(t) \/ MessageArrives(t) \/ MessageLost(t)
    <3>1. /\ taker' = taker \/ taker' = Woken(taker, {t})
          /\ flying' \subseteq flying /\ polls' = polls
      BY <2>2 DEF TimerFires, MessageArrives, MessageLost
    <3>2. NoNewSleep(taker, taker)
      BY DEF NoNewSleep
    <3>3. OthersTyped'
      BY <3>1, <1>1, <1>2 DEF OthersTyped
    <3> QED BY <3>1, <3>2, <3>3, <1>2, SomeWoken
  <2>3. CASE PageLeaves(t)
    <3> DEFINE r == [taker[t] EXCEPT !.aborted = TRUE]
               o == Instead(taker, t, r)
    <3>1. taker' = Woken(o, {t}) /\ UNCHANGED <<polls, flying>>
      BY <2>3 DEF PageLeaves, Instead
    <3>2. /\ TakerFine(r) /\ r.batch = taker[t].batch /\ r.stage = taker[t].stage
          /\ r.timer = taker[t].timer
      <4>1. taker[t] \in RedisTakers /\ TakerFine(taker[t])
        BY <1>2 DEF TakersFine
      <4> QED BY <4>1 DEF TakerFine, RedisTakers
    <3>3. o = Instead(taker, t, r)
      OBVIOUS
    <3> HIDE DEF r, o
    <3>4. /\ TakersFine(o) /\ Hands(o) = Hands(taker)
          /\ o[t] = r /\ \A u \in Takers : u # t => o[u] = taker[u]
      BY <3>2, <3>3, <1>2, OneTakerChanges
    <3>5. TakersFine(taker') /\ Hands(taker') = Hands(o) /\ NoNewSleep(taker', o)
      BY <3>1, <3>4, SomeWoken
    <3>6. NoNewSleep(o, taker)
      BY <3>2, <3>4 DEF NoNewSleep
    <3>7. NoNewSleep(taker', taker)
      BY <3>5, <3>6 DEF NoNewSleep
    <3>8. OthersTyped'
      BY <3>1, <1>1, <1>2 DEF OthersTyped
    <3> QED BY <3>4, <3>5, <3>7, <3>8
  <2>4. CASE RequeuePublish(t) \/ PollThrows(t)
    <3> DEFINE o == Instead(taker, t, Away)
    <3>1. /\ taker[t].stage \in {"reading", "parking", "returned"} /\ polls' = polls
          /\ \/ taker' = Woken(o, Local) /\ flying' = flying \cup (Takers \ Local)
             \/ taker' = o /\ flying' = flying
      BY <2>4 DEF RequeuePublish, PollThrows, Moves, Becomes, Publish, Instead
    <3>2. Hands(taker)[t] = << >>
      BY <3>1, <1>2 DEF TakersFine, TakerFine, Hands
    <3>3. o = Instead(taker, t, Away)
      OBVIOUS
    <3> HIDE DEF o
    <3>4. TakersFine(o) /\ Hands(o) = Hands(taker) /\ NoNewSleep(o, taker)
      BY <3>2, <3>3, AwayFine, TakerEmptied
    <3>5. /\ TakersFine(Woken(o, Local)) /\ Hands(Woken(o, Local)) = Hands(o)
          /\ NoNewSleep(Woken(o, Local), o)
      BY <3>4, SomeWoken
    <3>6. NoNewSleep(taker', taker)
      BY <3>1, <3>4, <3>5 DEF NoNewSleep
    <3>7. OthersTyped'
      BY <3>1, <1>1, <1>2 DEF OthersTyped
    <3> QED BY <3>1, <3>4, <3>5, <3>6, <3>7
  <2> QED BY <2>1, <2>2, <2>3, <2>4 DEF TakerWalks
<1>4. CallersTyped' /\ (\A d \in Commands : caller'[d] = caller[d])
  BY <1>1 DEF RedisInd, CallersTyped, callerVars
<1>5. Places(list', Hands(taker'), taken')
  BY <1>1, <1>3 DEF RedisInd
<1> QED BY <1>1, <1>3, <1>4, <1>5, NothingAdded

LEMMA PopSomeKeeps ==
  ASSUME RedisInd, NEW t \in Takers, PopSome(t)
  PROVE  RedisInd' /\ \E n \in 1..Len(list) :
           /\ Hands(taker') = Instead(Hands(taker), t, SubSeq(list, 1, n))
           /\ list' = SubSeq(list, n + 1, Len(list))
           /\ taken' = taken \cup ToSet(SubSeq(list, 1, n))
<1>1. PICK n \in 1..Len(list) :
        /\ taker' = Instead(taker, t, [taker[t] EXCEPT !.stage = "holding", !.batch = SubSeq(list, 1, n)])
        /\ list' = SubSeq(list, n + 1, Len(list)) /\ taken' = taken \cup ToSet(SubSeq(list, 1, n))
        /\ n <= MaxBatch
  <2>1. list \in Seq(Commands) /\ list # << >>
    BY DEF RedisInd, Places, PopSome, LPop
  <2>2. Len(list) \in Nat \ {0} /\ MaxBatch \in Nat \ {0}
    BY <2>1, RedisConstants
  <2> DEFINE n == IF Len(list) < MaxBatch THEN Len(list) ELSE MaxBatch
  <2>3. n \in 1..Len(list) /\ n <= MaxBatch
    BY <2>2
  <2> QED BY <2>3 DEF PopSome, LPop, Count, Oldest, Becomes, ListBecomes, Instead
<1>2. /\ UNCHANGED <<callerVars, polls, flying, age, idle, lost>> /\ (ttl' = NoTtl \/ ttl' = ttl)
      /\ taker[t].stage = "reading"
  BY DEF PopSome, LPop, ListBecomes, Moves
<1> DEFINE h == SubSeq(list, 1, n)
           r == [taker[t] EXCEPT !.stage = "holding", !.batch = h]
<1>3. /\ Places(list', Instead(Hands(taker), t, h), taken')
      /\ ToSet(list') \cup ToSet(h) = ToSet(list) /\ h \in Seq(Commands) /\ h # << >> /\ Len(h) = n
  BY <1>1, PlacesTaken DEF RedisInd
<1>4. taker' = Instead(taker, t, r) /\ taken' = taken \cup ToSet(h)
  BY <1>1
<1> HIDE DEF h
<1>5. TakersFine(taker) /\ TakerFine(r) /\ r.batch = h /\ r.stage = "holding"
  <2>1. TakersFine(taker) /\ taker[t] \in RedisTakers /\ TakerFine(taker[t])
    BY DEF RedisInd, TakersFine
  <2>2. r \in RedisTakers /\ r.batch = h /\ r.stage = "holding" /\ r.timer = taker[t].timer
    BY <2>1, <1>3 DEF RedisTakers, TakerStages
  <2> HIDE DEF r
  <2> QED BY <2>1, <2>2, <1>1, <1>3 DEF TakerFine
<1> HIDE DEF r
<1>6. /\ TakersFine(taker') /\ Hands(taker') = Instead(Hands(taker), t, h)
      /\ taker'[t] = r /\ \A u \in Takers : u # t => taker'[u] = taker[u]
  BY <1>4, <1>5, OneTakerChanges
<1>7. NoNewSleep(taker', taker)
  BY <1>5, <1>6 DEF NoNewSleep
<1>8. CallersTyped' /\ OthersTyped' /\ (\A d \in Commands : caller'[d] = caller[d])
  BY <1>2 DEF RedisInd, CallersTyped, OthersTyped, callerVars
<1>9. RedisInd'
  BY <1>2, <1>3, <1>4, <1>6, <1>7, <1>8, NothingAdded
<1> QED BY <1>1, <1>6, <1>9 DEF h

LEMMA PopLostKeeps ==
  ASSUME RedisInd, NEW t \in Takers, PopLost(t)
  PROVE  RedisInd' /\ Hands(taker') = Hands(taker) /\ \E n \in 1..Len(list) :
           /\ list' = SubSeq(list, n + 1, Len(list))
           /\ lost' = lost \cup ToSet(SubSeq(list, 1, n))
<1>1. PICK n \in 1..Len(list) :
        /\ list' = SubSeq(list, n + 1, Len(list)) /\ lost' = lost \cup ToSet(SubSeq(list, 1, n))
  <2>1. list \in Seq(Commands) /\ list # << >>
    BY DEF RedisInd, Places, PopLost, LPop
  <2>2. Count \in 1..Len(list)
    BY <2>1, RedisConstants DEF Count
  <2> QED BY <2>2 DEF PopLost, LPop, Oldest, ListBecomes
<1>2. /\ UNCHANGED <<callerVars, polls, flying, age, idle, taken>> /\ (ttl' = NoTtl \/ ttl' = ttl)
      /\ taker[t].stage = "reading" /\ taker' = Instead(taker, t, Away)
  BY DEF PopLost, LPop, ListBecomes, Moves, Becomes, Instead
<1>3. Hands(taker)[t] = << >>
  BY <1>2 DEF RedisInd, TakersFine, TakerFine, Hands
<1>4. TakersFine(taker') /\ Hands(taker') = Hands(taker) /\ NoNewSleep(taker', taker)
  BY <1>2, <1>3, AwayFine, TakerEmptied
<1> DEFINE h == SubSeq(list, 1, n)
           r == SubSeq(list, n + 1, Len(list))
<1>5. /\ h \in Seq(Commands) /\ r \in Seq(Commands) /\ IsInjective(r)
      /\ ToSet(h) \cup ToSet(r) = ToSet(list)
  BY Parted DEF RedisInd, Places
<1>6. list' = r /\ lost' = lost \cup ToSet(h)
  BY <1>1
<1> HIDE DEF h, r
<1>7. Places(list', Hands(taker'), taken') /\ ToSet(list') \subseteq ToSet(list)
  BY <1>2, <1>4, <1>5, <1>6 DEF RedisInd, Places
<1>8. CallersTyped' /\ OthersTyped' /\ (\A d \in Commands : caller'[d] = caller[d])
  BY <1>2, <1>5, <1>6, MembersOf DEF RedisInd, CallersTyped, OthersTyped, callerVars
<1>9. RedisInd'
  BY <1>2, <1>4, <1>7, <1>8, NothingAdded
<1> QED BY <1>1, <1>4, <1>9

LEMMA PopNoneKeeps ==
  ASSUME RedisInd, NEW t \in Takers, PopNone(t)
  PROVE  RedisInd' /\ Hands(taker') = Hands(taker)
<1>1. /\ taker[t].stage = "reading" /\ list = << >>
      /\ UNCHANGED <<list, ttl, callerVars, polls, flying, age, idle, taken, lost>>
  BY DEF PopNone, Moves
<1>2. TakersFine(taker) /\ taker[t] \in RedisTakers /\ TakerFine(taker[t]) /\ taker[t].batch = << >>
  BY <1>1 DEF RedisInd, TakersFine, TakerFine
<1>3. PICK r : TakerFine(r) /\ r.batch = << >> /\ taker' = Instead(taker, t, r)
  <2> DEFINE s == [taker[t] EXCEPT !.stage = "parking"]
  <2>1. TakerFine(s) /\ s.batch = << >>
    BY <1>2 DEF TakerFine, RedisTakers, TakerStages
  <2>2. taker' = Instead(taker, t, Away) \/ taker' = Instead(taker, t, s)
    BY DEF PopNone, Becomes, Instead
  <2> QED BY <2>1, <2>2, AwayFine
<1>4. TakersFine(taker') /\ Hands(taker') = Hands(taker)
  BY <1>2, <1>3, OneTakerChanges
<1>5. Places(list', Hands(taker'), taken') /\ ToSet(list') = {}
  BY <1>1, <1>4, EmptyLine DEF RedisInd
<1>6. CallersTyped' /\ OthersTyped' /\ (\A d \in Commands : caller'[d] = caller[d])
  BY <1>1 DEF RedisInd, CallersTyped, OthersTyped, callerVars
<1> QED BY <1>1, <1>4, <1>5, <1>6, NothingAdded

LEMMA ParkKeeps ==
  ASSUME RedisInd, NEW t \in Takers, Park(t)
  PROVE  RedisInd' /\ Hands(taker') = Hands(taker)
<1> DEFINE r == [taker[t] EXCEPT !.stage = "asleep", !.timer = ParkTime(t)]
<1>1. /\ taker[t].stage = "parking" /\ taker' = Instead(taker, t, r)
      /\ UNCHANGED <<list, ttl, callerVars, polls, flying, age, idle, taken, lost>>
  BY DEF Park, Moves, Becomes, Instead
<1>2. TakersFine(taker) /\ taker[t] \in RedisTakers /\ TakerFine(taker[t])
  BY DEF RedisInd, TakersFine
<1>3. ParkTime(t) \in 0..PollWait /\ ParkTime(t) <= SafetyPoll
  <2>1. taker[t].left \in 0..PollWait
    BY <1>2 DEF RedisTakers
  <2> QED BY <2>1, RedisConstants DEF ParkTime
<1>4. r \in RedisTakers /\ r.batch = taker[t].batch /\ r.stage = "asleep" /\ r.timer = ParkTime(t)
  BY <1>2, <1>3 DEF RedisTakers, TakerStages
<1> HIDE DEF r
<1>5. TakerFine(r)
  BY <1>1, <1>2, <1>3, <1>4 DEF TakerFine
<1>6. /\ TakersFine(taker') /\ Hands(taker') = Hands(taker)
      /\ taker'[t] = r /\ \A u \in Takers : u # t => taker'[u] = taker[u]
  BY <1>1, <1>2, <1>4, <1>5, OneTakerChanges
<1>7. Places(list', Hands(taker'), taken')
  BY <1>1, <1>6 DEF RedisInd
<1>8. CallersTyped' /\ OthersTyped' /\ \A c \in Commands : NotPushed(c)'
  BY <1>1 DEF RedisInd, CallersTyped, OthersTyped, callerVars, NotPushed
<1>9. ASSUME NEW u \in Takers PROVE WakesInTime(u)'
  <2>1. CASE u = t
    <3>1. ASSUME NEW c \in ToSet(list) PROVE idle[c] = 0
      BY <3>1, <1>1 DEF RedisInd, WakesInTime
    <3>2. 0 + r.timer <= SafetyPoll
      BY <1>3, <1>4
    <3>3. taker'[t].stage = "asleep" /\ taker'[t].timer = r.timer
      BY <1>4, <1>6
    <3> QED BY <2>1, <3>1, <3>2, <3>3, <1>1 DEF WakesInTime
  <2>2. CASE u # t
    BY <2>2, <1>1, <1>6 DEF RedisInd, WakesInTime
  <2> QED BY <2>1, <2>2
<1> QED BY <1>6, <1>7, <1>8, <1>9 DEF RedisInd

LEMMA AnswerKeeps ==
  ASSUME RedisInd, NEW t \in Takers, Answer(t)
  PROVE  RedisInd' /\ Hands(taker') = Instead(Hands(taker), t, << >>)
<1>1. /\ taker' = Instead(taker, t, Away)
      /\ UNCHANGED <<list, ttl, callerVars, polls, flying, age, idle, taken, lost>>
  BY DEF Answer, Becomes, Instead
<1>2. /\ TakersFine(taker') /\ Hands(taker') = Instead(Hands(taker), t, << >>)
      /\ NoNewSleep(taker', taker)
  BY <1>1, AwayFine, TakerEmptied
<1>3. Places(list, Instead(Hands(taker), t, << >>), taken)
  BY PlacesGiven DEF RedisInd
<1>4. Places(list', Hands(taker'), taken')
  BY <1>1, <1>2, <1>3
<1>5. CallersTyped' /\ OthersTyped' /\ (\A d \in Commands : caller'[d] = caller[d])
  BY <1>1 DEF RedisInd, CallersTyped, OthersTyped, callerVars
<1> QED BY <1>1, <1>2, <1>4, <1>5, NothingAdded

LEMMA RequeueLostKeeps ==
  ASSUME RedisInd, NEW t \in Takers, RequeueLost(t)
  PROVE  RedisInd' /\ Hands(taker') = Instead(Hands(taker), t, << >>)
<1>1. /\ taker' = Instead(taker, t, Away) /\ lost' = lost \cup ToSet(Hands(taker)[t])
      /\ UNCHANGED <<list, ttl, callerVars, polls, flying, age, idle, taken>>
  BY DEF RequeueLost, Becomes, Instead, Hands
<1>2. /\ TakersFine(taker') /\ Hands(taker') = Instead(Hands(taker), t, << >>)
      /\ NoNewSleep(taker', taker)
  BY <1>1, AwayFine, TakerEmptied
<1>3. /\ Places(list, Hands(taker), taken) /\ ToSet(Hands(taker)[t]) \subseteq Commands
      /\ Places(list, Instead(Hands(taker), t, << >>), taken)
  <2>1. Places(list, Hands(taker), taken)
    BY DEF RedisInd
  <2>2. Places(list, Instead(Hands(taker), t, << >>), taken)
    BY <2>1, PlacesGiven
  <2>3. ToSet(Hands(taker)[t]) \subseteq Commands
    BY <2>1 DEF Places
  <2> QED BY <2>1, <2>2, <2>3
<1>4. Places(list', Hands(taker'), taken')
  BY <1>1, <1>2, <1>3
<1>5. CallersTyped' /\ OthersTyped' /\ (\A d \in Commands : caller'[d] = caller[d])
  BY <1>1, <1>3 DEF RedisInd, CallersTyped, OthersTyped, callerVars
<1> QED BY <1>1, <1>2, <1>4, <1>5, NothingAdded

LEMMA RequeueKeeps ==
  ASSUME RedisInd, NEW t \in Takers, Requeue(t)
  PROVE  /\ RedisInd' /\ Hands(taker') = Instead(Hands(taker), t, << >>)
         /\ list' = Keep(Hands(taker)[t], Commands) \o list
<1> DEFINE b == Hands(taker)[t]
           r == [taker[t] EXCEPT !.stage = "returned", !.batch = << >>]
<1>1. /\ list' = Reverse(Reverse(b)) \o list /\ (ttl' = NoTtl \/ ttl' = ttl)
      /\ taker' = Instead(taker, t, r)
      /\ idle' = [c \in Commands |-> IF c \in ToSet(b) THEN 0 ELSE idle[c]]
      /\ UNCHANGED <<callerVars, polls, flying, age, taken, lost>>
  BY DEF Requeue, ListBecomes, LPush, Becomes, Instead, Hands
<1>2. b \in Seq(Commands) /\ ToSet(b) \subseteq taken /\ ToSet(b) \subseteq Commands
  BY MembersOf DEF RedisInd, Places
<1>3. TakerFine(r) /\ r.batch = << >> /\ r.stage = "returned"
  <2>1. taker[t] \in RedisTakers /\ TakerFine(taker[t])
    BY DEF RedisInd, TakersFine
  <2>2. << >> \in Seq(Commands) /\ Len(<< >>) <= MaxBatch
    BY EmptyLine, RedisConstants
  <2>3. r \in RedisTakers /\ r.batch = << >> /\ r.stage = "returned" /\ r.timer = taker[t].timer
    BY <2>1, <2>2 DEF RedisTakers, TakerStages
  <2> HIDE DEF r
  <2> QED BY <2>1, <2>2, <2>3 DEF TakerFine
<1>4. Keep(b, Commands) = b /\ Reverse(Reverse(b)) = b
  BY <1>2, KeepFacts, ReversedTwice
<1> HIDE DEF b, r
<1>5. list' = Keep(b, Commands) \o list
  BY <1>1, <1>4
<1>6. /\ TakersFine(taker') /\ Hands(taker') = Instead(Hands(taker), t, << >>)
      /\ NoNewSleep(taker', taker)
  BY <1>1, <1>3, TakerEmptied
<1>7. Places(list', Instead(Hands(taker), t, << >>), taken)
  <2> DEFINE k == Keep(b, Commands)
             l == k \o list
  <2>1. k = Keep(b, Commands) /\ l = k \o list
    OBVIOUS
  <2> HIDE DEF k, l
  <2>2. Places(l, Instead(Hands(taker), t, << >>), taken)
    BY <2>1, PlacesBack DEF RedisInd, b
  <2> QED BY <2>2, <1>5 DEF k, l
<1>8. ToSet(list') = ToSet(b) \cup ToSet(list)
  <2>1. /\ IsInjective(b) /\ ToSet(b) \cap ToSet(list) = {}
        /\ list \in Seq(Commands) /\ IsInjective(list)
    BY DEF RedisInd, Places, b
  <2> QED BY <2>1, <1>1, <1>2, <1>4, PutBefore
<1>9. /\ idle' \in [Commands -> Nat]
      /\ \A c \in Commands : idle'[c] = IF c \in ToSet(b) THEN 0 ELSE idle[c]
  BY <1>1 DEF RedisInd, CallersTyped
<1>10. CallersTyped' /\ OthersTyped'
  BY <1>1, <1>9 DEF RedisInd, CallersTyped, OthersTyped, callerVars
<1>11. ASSUME NEW c \in Commands PROVE NotPushed(c)'
  BY <1>1, <1>2, <1>8, <1>9 DEF RedisInd, NotPushed, callerVars
<1>12. ASSUME NEW u \in Takers PROVE WakesInTime(u)'
  <2>1. taker[u].timer \in Nat /\ taker[u].timer <= SafetyPoll
    BY RedisConstants DEF RedisInd, TakersFine, TakerFine, RedisTakers
  <2>2. ASSUME NEW c \in ToSet(list') PROVE (c \in ToSet(list) /\ idle'[c] = idle[c]) \/ idle'[c] = 0
    <3>1. c \in Commands
      BY <1>7, MembersOf DEF Places
    <3> QED BY <3>1, <1>8, <1>9
  <2>3. WakesInTime(u)
    BY DEF RedisInd
  <2> QED BY <2>1, <2>2, <2>3, <1>6 DEF WakesInTime, NoNewSleep
<1>13. Places(list', Hands(taker'), taken')
  BY <1>1, <1>6, <1>7
<1> QED BY <1>5, <1>6, <1>10, <1>11, <1>12, <1>13 DEF RedisInd, b

LEMMA RedisTickKeeps ==
  ASSUME RedisInd, Tick
  PROVE  RedisInd' /\ Hands(taker') = Hands(taker)
<1>1. /\ ttl' = Sooner(ttl) /\ wait' = [c \in Commands |-> Sooner(wait[c])]
      /\ age' = [c \in Commands |-> IF Pushed(c) /\ age[c] < Life[c] THEN age[c] + 1 ELSE age[c]]
      /\ idle' = [c \in Commands |-> IF c \in ToSet(list) THEN idle[c] + 1 ELSE 0]
      /\ taker' = [t \in Takers |-> [taker[t] EXCEPT !.left = Sooner(@), !.timer = Sooner(@)]]
      /\ UNCHANGED <<list, caller, told, polls, flying, taken, lost>>
  BY DEF Tick
<1>2. \A t \in Takers : taker[t].stage = "out" \/ (taker[t].stage = "asleep" /\ taker[t].timer > 0)
  BY DEF Tick, Quiet
<1>3. ASSUME NEW t \in Takers
      PROVE  /\ TakerFine(taker'[t]) /\ taker'[t].batch = taker[t].batch
             /\ taker'[t].stage = taker[t].stage
             /\ taker'[t].timer = IF taker[t].timer > 0 THEN taker[t].timer - 1 ELSE taker[t].timer
  <2>1. /\ taker[t] \in RedisTakers /\ TakerFine(taker[t])
        /\ taker[t].left \in 0..PollWait /\ taker[t].timer \in 0..PollWait
    BY DEF RedisInd, TakersFine, RedisTakers
  <2>2. Sooner(taker[t].left) \in 0..PollWait /\ Sooner(taker[t].timer) \in 0..PollWait
    BY <2>1, RedisConstants DEF Sooner
  <2> DEFINE r == [taker[t] EXCEPT !.left = Sooner(@), !.timer = Sooner(@)]
  <2>3. taker'[t] = r
    BY <1>1
  <2>4. r \in RedisTakers /\ r.batch = taker[t].batch /\ r.stage = taker[t].stage /\ r.timer = Sooner(taker[t].timer)
    BY <2>1, <2>2 DEF RedisTakers
  <2> HIDE DEF r
  <2>5. r.timer <= SafetyPoll
    BY <2>1, <2>4, RedisConstants DEF Sooner, TakerFine
  <2>6. TakerFine(r)
    BY <2>1, <2>4, <2>5 DEF TakerFine
  <2> QED BY <2>3, <2>4, <2>6 DEF Sooner
<1>4. TakersFine(taker') /\ Hands(taker') = Hands(taker)
  <2>1. taker' \in [Takers -> RedisTakers]
    BY <1>1, <1>3 DEF TakerFine
  <2> QED BY <2>1, <1>3 DEF TakersFine, Hands
<1>5. Places(list', Hands(taker'), taken')
  BY <1>1, <1>4 DEF RedisInd
<1>6. ASSUME NEW c \in Commands
      PROVE  /\ wait[c] \in Nat /\ age[c] \in Nat /\ idle[c] \in Nat /\ Life[c] \in Nat
             /\ wait'[c] = IF wait[c] > 0 THEN wait[c] - 1 ELSE wait[c]
             /\ age'[c] = IF Pushed(c) /\ age[c] < Life[c] THEN age[c] + 1 ELSE age[c]
             /\ idle'[c] = IF c \in ToSet(list) THEN idle[c] + 1 ELSE 0
             /\ wait[c] <= Pickup[c] /\ age[c] <= Life[c] /\ Pickup[c] \in Nat
  BY <1>1, RedisConstants DEF RedisInd, CallersTyped, Sooner
<1>7. CallersTyped'
  <2>1. wait' \in [Commands -> Nat] /\ age' \in [Commands -> Nat] /\ idle' \in [Commands -> Nat]
    <3>1. ASSUME NEW c \in Commands PROVE wait'[c] \in Nat /\ age'[c] \in Nat /\ idle'[c] \in Nat
      <4> HIDE DEF Pushed
      <4> QED BY <1>6
    <3>2. /\ wait' = [c \in Commands |-> wait'[c]] /\ age' = [c \in Commands |-> age'[c]]
          /\ idle' = [c \in Commands |-> idle'[c]]
      BY <1>1
    <3> QED BY <3>1, <3>2
  <2>2. \A c \in Commands : wait'[c] <= Pickup[c] /\ age'[c] <= Life[c]
    BY <1>6
  <2> QED BY <2>1, <2>2, <1>1 DEF RedisInd, CallersTyped
<1>8. OthersTyped'
  <2>1. ttl' \in Nat \cup {NoTtl}
    <3>1. ttl \in Nat \cup {NoTtl} /\ ttl' = Sooner(ttl)
      BY <1>1 DEF RedisInd, OthersTyped
    <3> QED BY <3>1 DEF Sooner, NoTtl
  <2> QED BY <2>1, <1>1 DEF RedisInd, OthersTyped
<1>9. ASSUME NEW c \in Commands PROVE NotPushed(c)'
  BY <1>1, <1>6 DEF RedisInd, NotPushed
<1>10. ASSUME NEW t \in Takers PROVE WakesInTime(t)'
  <2>1. SUFFICES ASSUME NEW c \in ToSet(list), taker[t].stage = "asleep"
                 PROVE  idle'[c] + taker'[t].timer <= SafetyPoll
    BY <1>1, <1>2, <1>3 DEF WakesInTime
  <2>2. c \in Commands /\ idle[c] + taker[t].timer <= SafetyPoll
    BY <2>1, MembersOf DEF RedisInd, Places, WakesInTime
  <2>3. taker[t].timer > 0 /\ taker[t].timer \in Nat
    BY <2>1, <1>2, RedisConstants DEF RedisInd, TakersFine, RedisTakers
  <2>4. idle'[c] = idle[c] + 1 /\ taker'[t].timer = taker[t].timer - 1 /\ idle[c] \in Nat
    BY <2>1, <2>2, <2>3, <1>3, <1>6
  <2> QED BY <2>2, <2>3, <2>4, RedisConstants
<1> QED BY <1>4, <1>5, <1>7, <1>8, <1>9, <1>10 DEF RedisInd

LEMMA RedisStep ==
  ASSUME RedisInd, [Next]_vars
  PROVE  RedisInd'
<1>1. ASSUME NEW c \in Commands, CallerStep(c) PROVE RedisInd'
  BY <1>1, CallerMoves, PushKeeps, RedisWithdrawKeeps DEF CallerStep
<1>2. ASSUME NEW t \in Takers, TakerStep(t) PROVE RedisInd'
  BY <1>2, TakerWalksOn, PopSomeKeeps, PopLostKeeps, PopNoneKeeps, ParkKeeps, AnswerKeeps,
        RequeueKeeps, RequeueLostKeeps
     DEF TakerStep, TakerMoves, TakerWalks
<1>3. CASE UNCHANGED vars
  BY <1>3 DEF vars, callerVars, RedisInd, TakersFine, CallersTyped, OthersTyped, NotPushed, WakesInTime
<1> QED BY <1>1, <1>2, <1>3, ListExpiresKeeps, RedisTickKeeps DEF Next

-----------------------------------------------------------------------------
(* The queue in Redis keeps the promise, for calls of one timeout and a    *)
(* list that does not expire while a command is added to it                *)

OneLife == \A c, d \in Commands : Life[c] = Life[d]

(* The list lives as long as the youngest command in it, and a call        *)
(* withdraws before its own time is over.                                  *)
InTime(c) ==
  /\ caller[c] \in {"new", "set", "pushed", "timed"} => age[c] = 0
  /\ caller[c] = "waiting" => age[c] + wait[c] = Pickup[c]
  /\ caller[c] \in {"pushed", "timed", "waiting"} => c \in ToSet(list) \cup taken \cup lost
  /\ ttl # NoTtl /\ caller[c] \in {"timed", "waiting", "done"} => Life[c] <= ttl + age[c]
  /\ caller[c] # "done" => told[c] = "nothing"

RedisTimes == RedisInd /\ \A c \in Commands : InTime(c)

LEMMA TimesStart == Init => RedisTimes
BY RedisStarts DEF Init, RedisTimes, InTime

(* When the list expires, no one waits for what is in it. *)
LEMMA ExpiredAreOver ==
  ASSUME ~MidEnqueue, RedisTimes, ListExpires
  PROVE  /\ \A c \in Commands : caller[c] \notin {"pushed", "timed", "waiting"}
         /\ ToSet(list) \subseteq Over
<1>1. ttl = 0 /\ \A c \in Commands : caller[c] # "pushed"
  BY DEF ListExpires
<1>2. ASSUME NEW c \in Commands
      PROVE  /\ caller[c] \notin {"timed", "waiting"}
             /\ caller[c] = "done" => age[c] = Life[c]
  <2>1. /\ age[c] \in Nat /\ wait[c] \in Nat /\ Life[c] \in Nat \ {0} /\ age[c] <= Life[c]
        /\ Pickup[c] \in Nat /\ Pickup[c] < Life[c]
    BY RedisConstants DEF RedisTimes, RedisInd, CallersTyped
  <2>2. InTime(c)
    BY DEF RedisTimes
  <2>3. caller[c] \in {"timed", "waiting", "done"} => Life[c] <= age[c]
    BY <1>1, <2>1, <2>2 DEF InTime, NoTtl
  <2>4. caller[c] # "timed"
    BY <2>1, <2>2, <2>3 DEF InTime
  <2>5. caller[c] # "waiting"
    BY <2>1, <2>2, <2>3 DEF InTime
  <2> QED BY <2>1, <2>3, <2>4, <2>5
<1>3. ASSUME NEW c \in ToSet(list) PROVE c \in Over
  <2>1. c \in Commands
    BY MembersOf DEF RedisTimes, RedisInd, Places
  <2>2. caller[c] \in CallerStages /\ caller[c] \notin {"new", "set"}
    BY <2>1 DEF RedisTimes, RedisInd, CallersTyped, NotPushed
  <2> QED BY <2>1, <2>2, <1>1, <1>2 DEF Over, CallerStages
<1> QED BY <1>1, <1>2, <1>3

(* A step that takes nothing out of reach of a waiting call. *)
LEMMA TimesOfPolls ==
  ASSUME RedisTimes, UNCHANGED <<callerVars, age>>, RedisInd', ttl' = ttl \/ ttl' = NoTtl,
         \A c \in Commands : caller[c] \in {"pushed", "timed", "waiting"} =>
           (c \in ToSet(list) \cup taken \cup lost => c \in ToSet(list') \cup taken' \cup lost')
  PROVE  RedisTimes'
<1>1. ASSUME NEW c \in Commands PROVE InTime(c)'
  BY DEF RedisTimes, InTime, callerVars
<1> QED BY <1>1 DEF RedisTimes

LEMMA TimesOfTakers ==
  ASSUME RedisTimes, NEW t \in Takers, TakerStep(t)
  PROVE  RedisTimes'
<1>1. RedisInd
  BY DEF RedisTimes
<1>2. UNCHANGED <<callerVars, age>> /\ (ttl' = ttl \/ ttl' = NoTtl)
  BY DEF TakerStep, TakerMoves, PopSome, PopNone, Park, TimerFires, Answer, Requeue, RequeuePublish,
         PopLost, LPop, RequeueLost, Poll, PageLeaves, PollThrows, MessageArrives, MessageLost, ListBecomes
<1>3. RedisInd'
  BY <1>1, RedisStep DEF Next
<1>4. ToSet(list) \cup taken \cup lost \subseteq ToSet(list') \cup taken' \cup lost'
  <2>1. CASE PopSome(t)
    <3>1. list \in Seq(Commands) /\ IsInjective(list)
      BY <1>1 DEF RedisInd, Places
    <3>2. PICK n \in 1..Len(list) : /\ list' = SubSeq(list, n + 1, Len(list))
                                    /\ taken' = taken \cup ToSet(SubSeq(list, 1, n))
      BY <2>1, <1>1, PopSomeKeeps
    <3> DEFINE h == SubSeq(list, 1, n)
               r == SubSeq(list, n + 1, Len(list))
    <3>3. ToSet(h) \cup ToSet(r) = ToSet(list)
      BY <3>1, Parted
    <3>4. lost' = lost
      BY <2>1 DEF PopSome
    <3> HIDE DEF h, r
    <3> QED BY <3>2, <3>3, <3>4 DEF h, r
  <2>2. CASE Requeue(t)
    <3> DEFINE b == Hands(taker)[t]
               k == Keep(b, Commands)
    <3>1. /\ b \in Seq(Commands) /\ IsInjective(b) /\ ToSet(b) \cap ToSet(list) = {}
          /\ list \in Seq(Commands) /\ IsInjective(list)
      BY <1>1 DEF RedisInd, Places
    <3>2. list' = k \o list /\ taken' = taken /\ lost' = lost
      BY <2>2, <1>1, RequeueKeeps DEF Requeue
    <3> HIDE DEF b
    <3>3. k \in Seq(Commands) /\ IsInjective(k) /\ ToSet(k) = ToSet(b) \cap Commands
      BY <3>1, KeepFacts
    <3> HIDE DEF k
    <3>4. ToSet(k \o list) = ToSet(k) \cup ToSet(list)
      BY <3>1, <3>3, PutBefore
    <3> QED BY <3>2, <3>4
  <2>3. CASE PopLost(t)
    <3>1. list \in Seq(Commands) /\ IsInjective(list)
      BY <1>1 DEF RedisInd, Places
    <3>2. PICK n \in 1..Len(list) : /\ list' = SubSeq(list, n + 1, Len(list))
                                    /\ lost' = lost \cup ToSet(SubSeq(list, 1, n))
      BY <2>3, <1>1, PopLostKeeps
    <3> DEFINE h == SubSeq(list, 1, n)
               r == SubSeq(list, n + 1, Len(list))
    <3>3. ToSet(h) \cup ToSet(r) = ToSet(list) /\ taken' = taken
      BY <2>3, <3>1, Parted DEF PopLost
    <3> HIDE DEF h, r
    <3> QED BY <3>2, <3>3 DEF h, r
  <2>4. CASE ~PopSome(t) /\ ~Requeue(t) /\ ~PopLost(t)
    BY <2>4 DEF TakerStep, TakerMoves, PopNone, Park, TimerFires, Answer, RequeuePublish,
                RequeueLost, Poll, PageLeaves, PollThrows, MessageArrives, MessageLost
  <2> QED BY <2>1, <2>2, <2>3, <2>4
<1> QED BY <1>2, <1>3, <1>4, TimesOfPolls

LEMMA TimesOfCallers ==
  ASSUME OneLife, RedisTimes, NEW c \in Commands, CallerStep(c)
  PROVE  RedisTimes'
<1>1. RedisInd
  BY DEF RedisTimes
<1>2. RedisInd'
  BY <1>1, RedisStep DEF Next
<1>3. /\ caller \in [Commands -> CallerStages] /\ wait \in [Commands -> Nat] /\ age \in [Commands -> Nat]
      /\ told \in [Commands -> {"nothing", "removed", "taken"}]
      /\ Life \in [Commands -> Nat \ {0}] /\ Pickup \in [Commands -> Nat]
  BY <1>1, RedisConstants DEF RedisInd, CallersTyped
<1>4. age' = age /\ taken' = taken /\ lost' = lost /\ \A d \in Commands : d # c => caller'[d] = caller[d] /\ wait'[d] = wait[d] /\ told'[d] = told[d]
  BY <1>3 DEF CallerStep, SetPending, Push, PExpire, WakePages, EnqueueThrows, Collect, Withdraw, CallThrows, Goes, callerVars
<1>5. ToSet(list) \ {c} \subseteq ToSet(list') /\ (~Withdraw(c) /\ ~CallThrows(c) => ToSet(list) \subseteq ToSet(list'))
  <2>1. list \in Seq(Commands) /\ IsInjective(list)
    BY <1>1 DEF RedisInd, Places
  <2>2. CASE Push(c)
    <3>1. c \notin ToSet(list) /\ list' = Append(list, c)
      BY <2>2, <1>1, PushKeeps
    <3> QED BY <3>1, <2>1, Joined
  <2>3. CASE Withdraw(c) \/ CallThrows(c)
    <3>1. list' = list \/ list' = Keep(list, Commands \ {c})
      BY <2>3 DEF Withdraw, CallThrows, ListBecomes
    <3>2. ToSet(Keep(list, Commands \ {c})) = ToSet(list) \cap (Commands \ {c}) /\ ToSet(list) \subseteq Commands
      BY <2>1, KeepFacts, MembersOf
    <3> QED BY <2>3, <3>1, <3>2
  <2>4. CASE ~Push(c) /\ ~Withdraw(c) /\ ~CallThrows(c)
    BY <2>4 DEF CallerStep, SetPending, PExpire, WakePages, EnqueueThrows, Collect
  <2> QED BY <2>2, <2>3, <2>4
<1>6. ttl' = NoTtl \/ ttl' = ttl \/ (PExpire(c) /\ ttl' = Life[c])
  BY DEF CallerStep, SetPending, Push, PExpire, WakePages, EnqueueThrows, Collect, Withdraw, CallThrows, ListBecomes, Expire
<1>7. ASSUME NEW d \in Commands, d # c PROVE InTime(d)'
  <2>1. InTime(d)
    BY DEF RedisTimes
  <2>2. Life[d] = Life[c] /\ Life[d] \in Nat /\ age[d] \in Nat
    BY <1>3 DEF OneLife
  <2>3. d \in ToSet(list) => d \in ToSet(list')
    BY <1>5, <1>7
  <2> QED BY <2>1, <2>2, <2>3, <1>4, <1>6, <1>7 DEF InTime
<1>8. InTime(c)'
  <2>1. InTime(c) /\ age[c] \in Nat /\ Life[c] \in Nat /\ Pickup[c] \in Nat
    BY <1>3 DEF RedisTimes
  <2>2. CASE SetPending(c)
    BY <2>1, <2>2, <1>3, <1>4 DEF SetPending, Goes, InTime
  <2>3. CASE Push(c)
    <3>1. c \in ToSet(list')
      <4>1. list \in Seq(Commands) /\ IsInjective(list) /\ c \notin ToSet(list) /\ list' = Append(list, c)
        BY <2>3, <1>1, PushKeeps DEF RedisInd, Places
      <4> QED BY <4>1, Joined
    <3>2. caller[c] = "set" /\ caller'[c] = "pushed" /\ told' = told
      BY <2>3, <1>3 DEF Push, Goes
    <3> QED BY <2>1, <3>1, <3>2, <1>4 DEF InTime
  <2>4. CASE PExpire(c)
    <3>1. /\ caller[c] = "pushed" /\ caller'[c] = "timed" /\ told' = told /\ list' = list
          /\ (ttl' = NoTtl \/ ttl' = Life[c])
      BY <2>4, <1>3 DEF PExpire, Goes, Expire
    <3> QED BY <2>1, <3>1, <1>4 DEF InTime
  <2>5. CASE WakePages(c)
    <3>1. /\ caller[c] = "timed" /\ caller'[c] = "waiting" /\ told' = told /\ list' = list /\ ttl' = ttl
          /\ wait'[c] = Pickup[c]
      BY <2>5, <1>3 DEF WakePages, Goes
    <3> QED BY <2>1, <3>1, <1>4 DEF InTime
  <2>6. CASE EnqueueThrows(c)
    <3>1. /\ caller[c] # "done" /\ caller'[c] = "threw" /\ told' = told
      BY <2>6, <1>3 DEF EnqueueThrows, Goes
    <3> QED BY <2>1, <3>1 DEF InTime
  <2>7. CASE Collect(c) \/ Withdraw(c)
    <3>1. caller[c] = "waiting" /\ caller'[c] = "done" /\ (ttl' = NoTtl \/ ttl' = ttl)
      BY <2>7, <1>3 DEF Collect, Withdraw, Goes, ListBecomes
    <3> QED BY <2>1, <3>1, <1>4 DEF InTime
  <2>8. CASE CallThrows(c)
    <3>1. caller[c] = "waiting" /\ caller'[c] = "threw" /\ told' = told
      BY <2>8, <1>3 DEF CallThrows, Goes
    <3> QED BY <2>1, <3>1 DEF InTime
  <2> QED BY <2>2, <2>3, <2>4, <2>5, <2>6, <2>7, <2>8 DEF CallerStep
<1>9. ASSUME NEW d \in Commands PROVE InTime(d)'
  <2>1. CASE d = c
    BY <2>1, <1>8
  <2> QED BY <2>1, <1>7
<1> QED BY <1>2, <1>9 DEF RedisTimes

LEMMA TimesOfTick ==
  ASSUME RedisTimes, Tick
  PROVE  RedisTimes'
<1>1. RedisInd /\ RedisInd'
  BY RedisTickKeeps DEF RedisTimes
<1>2. /\ ttl' = Sooner(ttl) /\ wait' = [c \in Commands |-> Sooner(wait[c])]
      /\ age' = [c \in Commands |-> IF Pushed(c) /\ age[c] < Life[c] THEN age[c] + 1 ELSE age[c]]
      /\ UNCHANGED <<list, caller, told, taken, lost>> /\ ttl # 0
      /\ \A c \in Commands : /\ caller[c] \notin {"set", "pushed", "timed"}
                             /\ caller[c] = "waiting" => wait[c] > 0
  BY DEF Tick, Quiet
<1>3. ttl \in Nat \cup {NoTtl}
  BY <1>1 DEF RedisInd, OthersTyped
<1>4. /\ ttl' # NoTtl <=> ttl # NoTtl
      /\ ttl # NoTtl => ttl \in Nat /\ ttl' = ttl - 1
  BY <1>2, <1>3 DEF Sooner, NoTtl
<1>5. ASSUME NEW c \in Commands PROVE InTime(c)'
  <2>1. /\ wait[c] \in Nat /\ age[c] \in Nat /\ Life[c] \in Nat /\ Pickup[c] \in Nat /\ Pickup[c] < Life[c]
        /\ age[c] <= Life[c]
    BY <1>1, RedisConstants DEF RedisInd, CallersTyped
  <2>2. InTime(c)
    BY DEF RedisTimes
  <2>3. CASE caller[c] = "new"
    BY <2>2, <2>3, <1>2 DEF InTime, Pushed
  <2>4. CASE caller[c] = "waiting"
    <3>1. wait[c] > 0 /\ wait'[c] = wait[c] - 1
      BY <2>1, <2>4, <1>2 DEF Sooner
    <3>2. age[c] < Life[c]
      BY <2>1, <2>2, <2>4, <3>1 DEF InTime
    <3>3. age'[c] = age[c] + 1
      BY <2>4, <3>2, <1>2 DEF Pushed
    <3>4. age'[c] + wait'[c] = Pickup[c]
      BY <2>1, <2>2, <2>4, <3>1, <3>3 DEF InTime
    <3>5. ttl' # NoTtl => Life[c] <= ttl' + age'[c]
      BY <2>1, <2>2, <2>4, <3>3, <1>4 DEF InTime
    <3> QED BY <2>2, <2>4, <3>4, <3>5, <1>2 DEF InTime
  <2>5. CASE caller[c] = "done"
    <3>1. age'[c] = IF age[c] < Life[c] THEN age[c] + 1 ELSE age[c]
      BY <2>5, <1>2 DEF Pushed
    <3>2. ttl' # NoTtl => Life[c] <= ttl' + age'[c]
      <4>1. CASE age[c] < Life[c]
        BY <4>1, <2>1, <2>2, <2>5, <3>1, <1>4 DEF InTime
      <4>2. CASE age[c] = Life[c]
        <5>1. ttl' # NoTtl => ttl - 1 \in Nat
          BY <1>2, <1>4
        <5> QED BY <4>2, <5>1, <2>1, <3>1, <1>4
      <4> QED BY <4>1, <4>2, <2>1
    <3> QED BY <2>5, <3>2, <1>2 DEF InTime
  <2>6. CASE caller[c] = "threw"
    BY <2>2, <2>6, <1>2 DEF InTime
  <2> QED BY <2>3, <2>4, <2>5, <2>6, <1>1, <1>2 DEF RedisInd, CallersTyped, CallerStages
<1> QED BY <1>1, <1>5 DEF RedisTimes

LEMMA TimesStep ==
  ASSUME OneLife, ~MidEnqueue, RedisTimes, [Next]_vars
  PROVE  RedisTimes'
<1>1. CASE ListExpires
  <2>1. UNCHANGED <<callerVars, age>> /\ ttl' = NoTtl
    BY <1>1 DEF ListExpires, ListBecomes
  <2>2. RedisInd'
    BY <1>1, ListExpiresKeeps DEF RedisTimes
  <2> QED BY <1>1, <2>1, <2>2, ExpiredAreOver, TimesOfPolls
<1>2. CASE UNCHANGED vars
  <2>1. RedisInd'
    BY <1>2, RedisStep DEF RedisTimes
  <2> QED BY <1>2, <2>1, TimesOfPolls DEF vars, callerVars
<1> QED BY <1>1, <1>2, TimesOfCallers, TimesOfTakers, TimesOfTick DEF Next

LEMMA RedisPromiseMeans ==
  /\ \A q : RedisPromise!ToSet(q) = ToSet(q)
  /\ \A q, S : RedisPromise!Keep(q, S) = Keep(q, S)
  /\ InHand = Hands(taker) /\ InHand' = Hands(taker')
BY DEF RedisPromise!ToSet, ToSet, RedisPromise!Keep, Keep, InHand, Hands

LEMMA RedisPromiseStarts == Init => RedisPromise!Init
<1> SUFFICES ASSUME Init PROVE RedisPromise!Init
  OBVIOUS
<1>1. InHand = [t \in Takers |-> << >>]
  BY AwayFine DEF Init, InHand
<1>2. Over = {}
  BY RedisConstants DEF Init, Over
<1> QED BY <1>1, <1>2 DEF Init, RedisPromise!Init

LEMMA SameOver ==
  ASSUME UNCHANGED age, \A c \in Commands : caller'[c] = "threw" <=> caller[c] = "threw"
  PROVE  Over' = Over
BY DEF Over

LEMMA WholeListRests ==
  ASSUME RedisInd
  PROVE  list \in RedisPromise!Rests
<1>1. Keep(list, Commands \ {}) = list
  <2>1. list \in Seq(Commands) /\ ToSet(list) \subseteq Commands \ {}
    BY MembersOf DEF RedisInd, Places
  <2> QED BY <2>1, KeepFacts
<1>2. {} \in SUBSET Over
  OBVIOUS
<1>3. Keep(list, Commands \ {}) \in RedisPromise!Rests
  BY <1>2, RedisPromiseMeans DEF RedisPromise!Rests
<1> QED BY <1>1, <1>3

LEMMA CallerPromised ==
  ASSUME RedisTimes, NEW c \in Commands, CallerStep(c)
  PROVE  [RedisPromise!Next]_(RedisPromise!vars)
<1>1. RedisInd /\ caller \in [Commands -> CallerStages] /\ InTime(c)
  BY DEF RedisTimes, RedisInd, CallersTyped
<1>2. CASE SetPending(c) \/ PExpire(c) \/ WakePages(c) \/ Collect(c)
  <2>1. UNCHANGED <<list, taken, lost, told, age>>
    BY <1>2 DEF SetPending, PExpire, WakePages, Collect
  <2>2. \A d \in Commands : caller'[d] = "threw" <=> caller[d] = "threw"
    BY <1>1, <1>2 DEF SetPending, PExpire, WakePages, Collect, Goes
  <2>3. Hands(taker') = Hands(taker)
    BY <1>1, <1>2, CallerMoves
  <2>4. Over' = Over
    BY <2>1, <2>2, SameOver
  <2> QED BY <2>1, <2>3, <2>4, RedisPromiseMeans DEF RedisPromise!vars
<1>3. CASE EnqueueThrows(c)
  <2>1. UNCHANGED <<list, taken, lost, told, age, taker>> /\ caller' = [caller EXCEPT ![c] = "threw"]
    BY <1>3 DEF EnqueueThrows, Goes
  <2>2. Over \subseteq Over'
    BY <2>1, <1>1 DEF Over
  <2>3. RedisPromise!GrowOld
    BY <2>1, <2>2, RedisPromiseMeans DEF RedisPromise!GrowOld
  <2> QED BY <2>3 DEF RedisPromise!Next
<1>4. CASE Push(c)
  <2>1. UNCHANGED <<taken, lost, told, age, taker>> /\ caller[c] = "set" /\ caller' = [caller EXCEPT ![c] = "pushed"]
    BY <1>4 DEF Push, Goes
  <2>2. Over' = Over
    BY <2>1, <1>1, SameOver
  <2>3. c \notin ToSet(list) /\ list' = Append(list, c)
    BY <1>1, <1>4, PushKeeps
  <2>4. \E rest \in RedisPromise!Rests : list' = Append(rest, c)
    BY <2>3, <1>1, WholeListRests
  <2>5. RedisPromise!Put(c)
    BY <2>1, <2>2, <2>3, <2>4, RedisPromiseMeans DEF RedisPromise!Put
  <2> QED BY <2>5 DEF RedisPromise!Next
<1>5. CASE Withdraw(c)
  <2>1. /\ UNCHANGED <<taken, lost, age, taker>> /\ caller[c] = "waiting"
        /\ caller' = [caller EXCEPT ![c] = "done"]
    BY <1>5 DEF Withdraw, Goes
  <2>2. Over' = Over
    BY <2>1, <1>1, SameOver
  <2>3. told[c] = "nothing" /\ c \in ToSet(list) \cup taken \cup lost
    BY <2>1, <1>1 DEF InTime
  <2>4. \/ /\ c \in ToSet(list) /\ list' = Keep(list, Commands \ {c})
           /\ told' = [told EXCEPT ![c] = "removed"]
        \/ /\ c \notin ToSet(list) /\ list' = list
           /\ told' = [told EXCEPT ![c] = "taken"]
    BY <1>5 DEF Withdraw, ListBecomes
  <2>5. UNCHANGED <<InHand, taken, lost, Over>>
    BY <2>1, <2>2 DEF InHand
  <2>6. RedisPromise!Withdraw(c)
    BY <2>3, <2>4, <2>5, RedisPromiseMeans DEF RedisPromise!Withdraw
  <2> QED BY <2>6 DEF RedisPromise!Next
<1>6. CASE CallThrows(c)
  <2>1. /\ UNCHANGED <<taken, lost, told, age, taker>> /\ caller' = [caller EXCEPT ![c] = "threw"]
        /\ list' = list \/ list' = Keep(list, Commands \ {c})
    BY <1>6 DEF CallThrows, Goes, ListBecomes
  <2>2. Over' = Over \cup {c}
    BY <2>1, <1>1 DEF Over
  <2>3. UNCHANGED InHand
    BY <2>1 DEF InHand
  <2>4. RedisPromise!WithdrawFails(c)
    BY <2>1, <2>2, <2>3, RedisPromiseMeans DEF RedisPromise!WithdrawFails
  <2> QED BY <2>4 DEF RedisPromise!Next
<1> QED BY <1>2, <1>3, <1>4, <1>5, <1>6 DEF CallerStep

LEMMA TakerPromised ==
  ASSUME RedisTimes, NEW t \in Takers, TakerStep(t)
  PROVE  [RedisPromise!Next]_(RedisPromise!vars)
<1>1. RedisInd
  BY DEF RedisTimes
<1>2. UNCHANGED <<callerVars, age>>
  BY DEF TakerStep, TakerMoves, PopSome, PopNone, Park, TimerFires, Answer, Requeue, RequeuePublish,
         PopLost, RequeueLost, Poll, PageLeaves, PollThrows, MessageArrives, MessageLost
<1>3. Over' = Over /\ told' = told
  BY <1>2, SameOver DEF callerVars
<1>4. CASE PopSome(t)
  <2>1. PICK n \in 1..Len(list) :
          /\ Hands(taker') = Instead(Hands(taker), t, SubSeq(list, 1, n))
          /\ list' = SubSeq(list, n + 1, Len(list))
          /\ taken' = taken \cup ToSet(SubSeq(list, 1, n))
    BY <1>1, <1>4, PopSomeKeeps
  <2>2. Hands(taker)[t] = << >>
    BY <1>1, <1>4 DEF PopSome, LPop, Moves, RedisInd, TakersFine, TakerFine, Hands
  <2>3. Hands(taker') = [Hands(taker) EXCEPT ![t] = SubSeq(list, 1, n)]
    BY <2>1 DEF Instead
  <2>4. Hands(taker')[t] = SubSeq(list, 1, n)
    BY <2>3 DEF Hands
  <2>5. taken' = taken \cup RedisPromise!ToSet(InHand'[t]) /\ lost' = lost
    BY <2>1, <2>4, <1>4, RedisPromiseMeans DEF PopSome
  <2>6. n <= Len(list)
    BY <1>1, <2>1 DEF RedisInd, Places
  <2>7. \E rest \in RedisPromise!Rests :
          /\ n <= Len(rest)
          /\ Hands(taker') = [Hands(taker) EXCEPT ![t] = SubSeq(rest, 1, n)]
          /\ list' = SubSeq(rest, n + 1, Len(rest))
    BY <2>1, <2>3, <2>6, <1>1, WholeListRests
  <2>8. RedisPromise!Pull(t, n)
    BY <2>2, <2>5, <2>7, <1>3, RedisPromiseMeans DEF RedisPromise!Pull
  <2> QED BY <2>8 DEF RedisPromise!Next
<1>5. CASE Answer(t)
  <2>1. Hands(taker') = [Hands(taker) EXCEPT ![t] = << >>]
    BY <1>1, <1>5, AnswerKeeps DEF Instead
  <2>2. UNCHANGED <<list, taken, lost>>
    BY <1>5 DEF Answer
  <2>3. RedisPromise!Deliver(t)
    BY <2>1, <2>2, <1>3, RedisPromiseMeans DEF RedisPromise!Deliver
  <2> QED BY <2>3 DEF RedisPromise!Next
<1>6. CASE Requeue(t)
  <2>1. /\ Hands(taker') = [Hands(taker) EXCEPT ![t] = << >>]
        /\ list' = Keep(Hands(taker)[t], Commands) \o list
    BY <1>1, <1>6, RequeueKeeps DEF Instead
  <2>2. taken' = taken /\ lost' = lost
    BY <1>6 DEF Requeue
  <2>3. ToSet(Hands(taker)[t]) \ Commands \subseteq Over
    BY <1>1, MembersOf DEF RedisInd, Places
  <2>4. \E keep \in SUBSET Commands :
          /\ ToSet(Hands(taker)[t]) \ keep \subseteq Over
          /\ list' = Keep(Hands(taker)[t], keep) \o list
    BY <2>1, <2>3
  <2>5. RedisPromise!PutBack(t)
    BY <2>1, <2>2, <2>4, <1>3, RedisPromiseMeans DEF RedisPromise!PutBack
  <2> QED BY <2>5 DEF RedisPromise!Next
<1>7. CASE PopNone(t) \/ Park(t) \/ TakerWalks(t)
  <2>1. Hands(taker') = Hands(taker)
    BY <1>1, <1>7, PopNoneKeeps, ParkKeeps, TakerWalksOn
  <2>2. UNCHANGED <<list, taken, lost>>
    BY <1>7 DEF PopNone, Park, TakerWalks, TimerFires, RequeuePublish,
                Poll, PageLeaves, PollThrows, MessageArrives, MessageLost
  <2> QED BY <2>1, <2>2, <1>3, RedisPromiseMeans DEF RedisPromise!vars
<1>8. CASE PopLost(t)
  <2>1. PICK n \in 1..Len(list) :
          list' = SubSeq(list, n + 1, Len(list)) /\ lost' = lost \cup ToSet(SubSeq(list, 1, n))
    BY <1>1, <1>8, PopLostKeeps
  <2>2. Hands(taker)[t] = << >> /\ Hands(taker') = Hands(taker) /\ taken' = taken
    BY <1>1, <1>8, PopLostKeeps DEF PopLost, LPop, Moves, RedisInd, TakersFine, TakerFine, Hands
  <2>3. RedisPromise!Lose(t)
    BY <2>1, <2>2, <1>3, RedisPromiseMeans DEF RedisPromise!Lose
  <2> QED BY <2>3 DEF RedisPromise!Next
<1>9. CASE RequeueLost(t)
  <2>1. Hands(taker') = [Hands(taker) EXCEPT ![t] = << >>]
    BY <1>1, <1>9, RequeueLostKeeps DEF Instead
  <2>2. UNCHANGED <<list, taken>> /\ lost' = lost \cup ToSet(Hands(taker)[t])
    BY <1>9 DEF RequeueLost, Hands
  <2>3. RedisPromise!Lose(t)
    BY <2>1, <2>2, <1>3, RedisPromiseMeans DEF RedisPromise!Lose
  <2> QED BY <2>3 DEF RedisPromise!Next
<1> QED BY <1>4, <1>5, <1>6, <1>7, <1>8, <1>9 DEF TakerStep, TakerMoves, TakerWalks

LEMMA RedisKeepsPromise ==
  ASSUME ~MidEnqueue, RedisTimes, [Next]_vars
  PROVE  [RedisPromise!Next]_(RedisPromise!vars)
<1>1. CASE ListExpires
  <2>1. /\ list' = Keep(list, {}) /\ ToSet(list) \subseteq Over
    BY <1>1, ListExpiresKeeps, ExpiredAreOver DEF RedisTimes
  <2>2. UNCHANGED <<callerVars, taker, age, taken, lost>>
    BY <1>1 DEF ListExpires
  <2>3. Keep(list, Commands \ Over) = << >> /\ list' = << >>
    <3>1. list \in Seq(Commands)
      BY DEF RedisTimes, RedisInd, Places
    <3> QED BY <3>1, <2>1, KeepFacts
  <2>4. Keep(list, Commands \ Over) \in RedisPromise!Rests
    BY RedisPromiseMeans DEF RedisPromise!Rests
  <2>5. Over' = Over /\ told' = told
    BY <2>2, SameOver DEF callerVars
  <2>6. RedisPromise!Drop
    BY <2>2, <2>3, <2>4, <2>5, RedisPromiseMeans DEF RedisPromise!Drop
  <2> QED BY <2>6 DEF RedisPromise!Next
<1>2. CASE Tick
  <2>1. Hands(taker') = Hands(taker) /\ UNCHANGED <<list, taken, lost, told, caller>>
    BY <1>2, RedisTickKeeps DEF Tick, RedisTimes
  <2>2. Over \subseteq Over'
    <3>1. age' = [c \in Commands |-> IF Pushed(c) /\ age[c] < Life[c] THEN age[c] + 1 ELSE age[c]]
      BY <1>2 DEF Tick
    <3>2. \A c \in Commands : age[c] = Life[c] => age'[c] = Life[c]
      BY <3>1, RedisConstants
    <3> QED BY <2>1, <3>2 DEF Over
  <2>3. RedisPromise!GrowOld
    BY <2>1, <2>2, RedisPromiseMeans DEF RedisPromise!GrowOld
  <2> QED BY <2>3 DEF RedisPromise!Next
<1>3. CASE UNCHANGED vars
  BY <1>3 DEF vars, callerVars, RedisPromise!vars, InHand, Over
<1> QED BY <1>1, <1>2, <1>3, CallerPromised, TakerPromised DEF Next

-----------------------------------------------------------------------------
(* The theorems                                                            *)

(* In the queues of both stores nothing is in two places and no poll       *)
(* sleeps beside a command: in memory never, in Redis no longer than the   *)
(* safety poll (enqueue, take, requeue, withdraw).                         *)
THEOREM QueuesInvHolds == MCSpec => []QueuesInv
<1> DEFINE Both == RedisInd /\ MemoryInd
<1>1. MCInit => Both
  BY RedisStarts, MemoryStarts DEF MCInit
<1>2. ASSUME Both, [MCNext]_allVars PROVE Both'
  BY <1>2, RedisStep, MemoryStep DEF MCNext, InRedis, InMemory, allVars
<1>3. Both => QueuesInv
  BY RedisIndImplies, MemoryIndImplies DEF QueuesInv
<1> QED BY <1>1, <1>2, <1>3, PTL DEF MCSpec

(* The queue in memory keeps the promise of the store interface, whatever  *)
(* the calls' timeouts are (memoryStore in store.ts).                      *)
THEOREM MemoryPromiseIsKept == MemorySpec => MemoryPromise!Spec
<1>1. MemoryInit => MemoryInd /\ MemoryPromise!Init
  BY MemoryStarts, MemoryPromiseStarts
<1>2. ASSUME MemoryInd, [MemoryNext]_memoryVars PROVE MemoryInd'
  BY <1>2, MemoryStep
<1>3. ASSUME MemoryInd, [MemoryNext]_memoryVars PROVE [MemoryPromise!Next]_(MemoryPromise!vars)
  BY <1>3, MemoryKeepsPromise
<1> QED BY <1>1, <1>2, <1>3, PTL DEF MemorySpec, MemoryPromise!Spec

(* The queues of both stores keep the promise of the store interface, the  *)
(* one in Redis for calls of one timeout and a list that does not expire   *)
(* while a command is added to it (WritBridgeStore in store.ts).           *)
THEOREM PromiseIsKept ==
  ASSUME OneLife, ~MidEnqueue
  PROVE  MCSpec => KeepsPromise
<1> DEFINE Both == RedisTimes /\ MemoryInd
           Starts == MemoryPromise!Init /\ RedisPromise!Init
           Steps == [MemoryPromise!Next]_(MemoryPromise!vars) /\ [RedisPromise!Next]_(RedisPromise!vars)
<1>1. MCInit => Both
  BY TimesStart, MemoryStarts DEF MCInit
<1>2. ASSUME Both, [MCNext]_allVars PROVE Both'
  <2>1. [Next]_vars /\ [MemoryNext]_memoryVars
    BY <1>2 DEF MCNext, InRedis, InMemory, allVars
  <2> QED BY <1>2, <2>1, TimesStep, MemoryStep
<1>3. ASSUME Both, [MCNext]_allVars PROVE Steps
  <2>1. [Next]_vars /\ [MemoryNext]_memoryVars
    BY <1>3 DEF MCNext, InRedis, InMemory, allVars
  <2> QED BY <1>3, <2>1, RedisKeepsPromise, MemoryKeepsPromise
<1>4. MCInit => Starts
  BY RedisPromiseStarts, MemoryPromiseStarts DEF MCInit
<1> QED BY <1>1, <1>2, <1>3, <1>4, PTL DEF MCSpec, KeepsPromise, MemoryPromise!Spec, RedisPromise!Spec

-----------------------------------------------------------------------------
(* What the promise gives the caller                                       *)

LEMMA RedisTruthStep ==
  ASSUME NEW c \in Commands, told \in [Commands -> {"nothing", "removed", "taken"}],
         told[c] = "taken" => c \in taken \cup lost, [RedisPromise!Next]_(RedisPromise!vars)
  PROVE  told'[c] = "taken" => c \in taken' \cup lost'
<1>1. taken \subseteq taken' /\ lost \subseteq lost'
  BY DEF RedisPromise!Next, RedisPromise!vars, RedisPromise!Put, RedisPromise!Withdraw, RedisPromise!Deliver,
         RedisPromise!PutBack, RedisPromise!Lose, RedisPromise!WithdrawFails, RedisPromise!Pull, RedisPromise!GrowOld, RedisPromise!Drop
<1>2. told' = told \/ \E d \in Commands : RedisPromise!Withdraw(d)
  BY DEF RedisPromise!Next, RedisPromise!vars, RedisPromise!Put, RedisPromise!Deliver,
         RedisPromise!PutBack, RedisPromise!Lose, RedisPromise!WithdrawFails, RedisPromise!Pull, RedisPromise!GrowOld, RedisPromise!Drop
<1>3. told'[c] = told[c] \/ told'[c] = "removed" \/ c \in taken \cup lost
  BY <1>2 DEF RedisPromise!Withdraw
<1> QED BY <1>1, <1>3

LEMMA MemoryTruthStep ==
  ASSUME NEW c \in Commands, removed \in [Commands -> {"nothing", "removed", "taken"}],
         removed[c] = "taken" => c \in given, [MemoryPromise!Next]_(MemoryPromise!vars)
  PROVE  removed'[c] = "taken" => c \in given'
<1>1. given \subseteq given'
  BY DEF MemoryPromise!Next, MemoryPromise!vars, MemoryPromise!Put, MemoryPromise!Withdraw, MemoryPromise!Deliver,
         MemoryPromise!PutBack, MemoryPromise!Lose, MemoryPromise!WithdrawFails, MemoryPromise!Pull, MemoryPromise!GrowOld, MemoryPromise!Drop
<1>2. removed' = removed \/ \E d \in Commands : MemoryPromise!Withdraw(d)
  BY DEF MemoryPromise!Next, MemoryPromise!vars, MemoryPromise!Put, MemoryPromise!Deliver,
         MemoryPromise!PutBack, MemoryPromise!Lose, MemoryPromise!WithdrawFails, MemoryPromise!Pull, MemoryPromise!GrowOld, MemoryPromise!Drop
<1>3. removed'[c] = removed[c] \/ removed'[c] = "removed" \/ c \in given
  BY <1>2 DEF MemoryPromise!Withdraw
<1> QED BY <1>1, <1>3

(* When withdraw of redisStore answers false, a page took the command, so  *)
(* that runOnUser waits for its result with reason, or a Redis command     *)
(* that failed (LPOP, LPUSH) left it nowhere: for calls of one timeout and *)
(* a list that does not expire while a command is added to it, without     *)
(* which it is false (withdraw in store.ts).                               *)
THEOREM WithdrawIsTrue ==
  ASSUME OneLife, ~MidEnqueue
  PROVE  Spec => []WithdrawTellsTruth
<1> DEFINE True == RedisTimes /\ WithdrawTellsTruth
<1>1. Init => True
  BY TimesStart DEF Init, WithdrawTellsTruth
<1>2. ASSUME True, [Next]_vars PROVE True'
  <2>1. told \in [Commands -> {"nothing", "removed", "taken"}]
    BY <1>2 DEF RedisTimes, RedisInd, CallersTyped
  <2>2. [RedisPromise!Next]_(RedisPromise!vars)
    BY <1>2, RedisKeepsPromise
  <2>3. WithdrawTellsTruth'
    BY <1>2, <2>1, <2>2, RedisTruthStep DEF WithdrawTellsTruth
  <2> QED BY <1>2, <2>3, TimesStep
<1> QED BY <1>1, <1>2, PTL DEF Spec

(* When withdraw of memoryStore answers false, a page took the command     *)
(* (withdraw in store.ts).                                                 *)
THEOREM MemoryWithdrawIsTrue == MemorySpec => [](\A c \in Commands : removed[c] = "taken" => c \in given)
<1> DEFINE True == MemoryInd /\ \A c \in Commands : removed[c] = "taken" => c \in given
<1>1. MemoryInit => True
  BY MemoryStarts DEF MemoryInit
<1>2. ASSUME True, [MemoryNext]_memoryVars PROVE True'
  <2>1. removed \in [Commands -> {"nothing", "removed", "taken"}]
    BY <1>2 DEF MemoryInd, CallsTyped
  <2>2. [MemoryPromise!Next]_(MemoryPromise!vars)
    BY <1>2, MemoryKeepsPromise
  <2>3. \A c \in Commands : removed'[c] = "taken" => c \in given'
    BY <1>2, <2>1, <2>2, MemoryTruthStep
  <2> QED BY <1>2, <2>3, MemoryStep
<1> QED BY <1>1, <1>2, PTL DEF MemorySpec
=============================================================================
