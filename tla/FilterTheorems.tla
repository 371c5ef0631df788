--------------------------- MODULE FilterTheorems ---------------------------
(***************************************************************************)
(* What Keep keeps of a sequence of any length, by induction over its      *)
(* recursion, with the library's well-founded order of the naturals.       *)
(***************************************************************************)
EXTENDS Filter, WellFoundedInduction, TLAPS

LEMMA LessIn == \A m, n \in Nat : m < n => <<m, n>> \in OpToRel(<, Nat)
BY SMT DEF OpToRel

LEMMA Induction ==
  ASSUME NEW T \in SUBSET Nat, 0 \in T, \A n \in T : n + 1 \in T
  PROVE  T = Nat
<1>1. SUFFICES ASSUME Nat \ T # {} PROVE FALSE
  OBVIOUS
<1>2. PICK n \in Nat \ T : \A m \in Nat \ T : ~(<<m, n>> \in OpToRel(<, Nat))
  BY <1>1, NatLessThanWellFounded, WFMin, Zenon
<1>3. n # 0 /\ n - 1 \in Nat /\ n - 1 < n
  BY SMT
<1>4. n - 1 \in T
  BY <1>2, <1>3, LessIn
<1>5. (n - 1) + 1 \in T
  BY <1>4
<1>6. (n - 1) + 1 = n
  BY SMT
<1> QED
  BY <1>5, <1>6

Rule(g, q, S, n) ==
  g = [i \in 0..n |->
        IF i = 0 THEN <<>>
        ELSE IF q[i] \in S THEN Append(g[i - 1], q[i]) ELSE g[i - 1]]

LEMMA RuleHasFunction ==
  ASSUME NEW q, NEW S
  PROVE  \A n \in Nat : \E g : Rule(g, q, S, n)
<1> DEFINE T == {n \in Nat : \E g : Rule(g, q, S, n)}
<1>1. 0 \in T
  <2>1. Rule([i \in 0..0 |-> << >>], q, S, 0)
    BY SMT DEF Rule
  <2> QED BY <2>1, Zenon
<1>2. ASSUME NEW n \in T PROVE n + 1 \in T
  <2>1. PICK g : Rule(g, q, S, n)
    OBVIOUS
  <2> DEFINE h == [i \in 0..(n + 1) |-> IF i = n + 1
                     THEN IF q[n + 1] \in S THEN Append(g[n], q[n + 1]) ELSE g[n]
                     ELSE g[i]]
  <2>2. Rule(h, q, S, n + 1)
    <3>1. \A i \in 0..(n + 1) : h[i] = IF i = 0 THEN <<>>
        ELSE IF q[i] \in S THEN Append(h[i - 1], q[i]) ELSE h[i - 1]
      <4>1. n \in Nat
        OBVIOUS
      <4>2. \A i \in 0..n : g[i] = IF i = 0 THEN << >>
        ELSE IF q[i] \in S THEN Append(g[i - 1], q[i]) ELSE g[i - 1]
        BY <2>1 DEF Rule
      <4>3. \A i \in 0..n : h[i] = g[i]
        BY <4>1
      <4>4. h[n + 1] = IF q[n + 1] \in S THEN Append(g[n], q[n + 1]) ELSE g[n]
        BY <4>1
      <4> QED BY <4>1, <4>2, <4>3, <4>4
    <3> QED BY <3>1 DEF Rule
  <2> QED BY <2>2
<1>3. T = Nat
  BY <1>1, <1>2, Induction
<1> QED
  BY <1>3

LEMMA KeepRule ==
  ASSUME NEW q, NEW S, Len(q) \in Nat
  PROVE  \E g : Rule(g, q, S, Len(q)) /\ Keep(q, S) = g[Len(q)]
<1> DEFINE g == CHOOSE k : Rule(k, q, S, Len(q))
<1>1. Rule(g, q, S, Len(q))
  BY RuleHasFunction
<1>2. Keep(q, S) = g[Len(q)]
  BY DEF Keep, Rule
<1> QED BY <1>1, <1>2

(* What g says of the first i members of q. *)
Kept(k, q, S, X, i) ==
  /\ k \in Seq(X) /\ Len(k) <= i
  /\ \A m \in 1..Len(k) : k[m] \in S /\ \E j \in 1..i : q[j] = k[m]
  /\ \A j \in 1..i : q[j] \in S => \E m \in 1..Len(k) : k[m] = q[j]
  /\ IsInjective(q) => IsInjective(k)
  /\ (\A j \in 1..i : q[j] \in S) => k = SubSeq(q, 1, i)

LEMMA KeptNext ==
  ASSUME NEW X, NEW q \in Seq(X), NEW S, NEW i \in 0..(Len(q) - 1), NEW k, Kept(k, q, S, X, i)
  PROVE  Kept(IF q[i + 1] \in S THEN Append(k, q[i + 1]) ELSE k, q, S, X, i + 1)
<1> DEFINE l == IF q[i + 1] \in S THEN Append(k, q[i + 1]) ELSE k
<1>1. q[i + 1] \in X /\ k \in Seq(X) /\ i + 1 \in 1..Len(q)
  BY DEF Kept
<1>2. CASE q[i + 1] \in S
  <2>1. /\ l = Append(k, q[i + 1]) /\ l \in Seq(X) /\ Len(l) = Len(k) + 1
        /\ l[Len(k) + 1] = q[i + 1] /\ \A m \in 1..Len(k) : l[m] = k[m]
    BY <1>1, <1>2
  <2>6. Len(l) <= i + 1
    BY <2>1 DEF Kept
  <2>2. \A m \in 1..Len(l) : l[m] \in S /\ \E j \in 1..(i + 1) : q[j] = l[m]
    BY <1>2, <2>1 DEF Kept
  <2>3. \A j \in 1..(i + 1) : q[j] \in S => \E m \in 1..Len(l) : l[m] = q[j]
    BY <2>1, <1>2 DEF Kept
  <2>4. ASSUME IsInjective(q) PROVE IsInjective(l)
    <3>1. \A m \in 1..Len(k) : k[m] # q[i + 1]
      <4>1. \A m \in 1..Len(k) : \E j \in 1..i : q[j] = k[m]
        BY DEF Kept
      <4>2. \A j \in 1..i : q[j] # q[i + 1]
        BY <2>4, <1>1 DEF IsInjective
      <4> QED BY <4>1, <4>2
    <3>2. IsInjective(k)
      BY <2>4 DEF Kept
    <3> QED BY <2>1, <3>1, <3>2 DEF IsInjective
  <2>5. ASSUME \A j \in 1..(i + 1) : q[j] \in S PROVE l = SubSeq(q, 1, i + 1)
    <3>1. k = SubSeq(q, 1, i)
      BY <2>5 DEF Kept
    <3> QED BY <3>1, <2>1, <1>1
  <2> QED BY <2>1, <2>2, <2>3, <2>4, <2>5, <2>6 DEF Kept
<1>3. CASE q[i + 1] \notin S
  <2>1. /\ \A m \in 1..Len(k) : k[m] \in S /\ \E j \in 1..(i + 1) : q[j] = k[m]
        /\ \A j \in 1..(i + 1) : q[j] \in S => \E m \in 1..Len(k) : k[m] = q[j]
    BY <1>1, <1>3 DEF Kept
  <2>2. ~ \A j \in 1..(i + 1) : q[j] \in S
    BY <1>1, <1>3
  <2>3. l = k /\ k \in Seq(X) /\ (IsInjective(q) => IsInjective(k))
    BY <1>3 DEF Kept
  <2>4. Kept(k, q, S, X, i + 1)
    BY <2>1, <2>2, <2>3 DEF Kept
  <2> QED BY <2>3, <2>4
<1> QED BY <1>2, <1>3

LEMMA KeepKept ==
  ASSUME NEW X, NEW q \in Seq(X), NEW S
  PROVE  Kept(Keep(q, S), q, S, X, Len(q))
<1>1. PICK g : Rule(g, q, S, Len(q)) /\ Keep(q, S) = g[Len(q)]
  BY KeepRule
<1>2. g[0] = << >> /\ \A i \in 1..Len(q) :
        g[i] = IF q[i] \in S THEN Append(g[i - 1], q[i]) ELSE g[i - 1]
  <2>1. Len(q) \in Nat
    OBVIOUS
  <2>2. \A i \in 0..Len(q) : g[i] =
          IF i = 0 THEN << >> ELSE IF q[i] \in S THEN Append(g[i - 1], q[i]) ELSE g[i - 1]
    BY <1>1 DEF Rule
  <2> QED BY <2>1, <2>2
<1> DEFINE T == {i \in Nat : i <= Len(q) => Kept(g[i], q, S, X, i)}
<1>3. 0 \in T
  <2>1. << >> = SubSeq(q, 1, 0) /\ IsInjective(<< >>) /\ << >> \in Seq(X) /\ Len(<< >>) = 0
    BY DEF IsInjective
  <2>2. Kept(<< >>, q, S, X, 0)
    BY <2>1 DEF Kept
  <2> QED BY <1>2, <2>2
<1>4. ASSUME NEW i \in T PROVE i + 1 \in T
  <2>1. CASE i + 1 <= Len(q)
    <3>1. Kept(g[i], q, S, X, i) /\ i \in 0..(Len(q) - 1)
      BY <2>1
    <3>2. g[i + 1] = IF q[i + 1] \in S THEN Append(g[i], q[i + 1]) ELSE g[i]
      BY <2>1, <1>2
    <3>3. Kept(g[i + 1], q, S, X, i + 1)
      BY <3>1, <3>2, KeptNext
    <3> QED BY <3>3
  <2> QED BY <2>1
<1>5. T = Nat
  BY <1>3, <1>4, Induction
<1> QED BY <1>1, <1>5

(* What filter gives: the members of q that are in S, in the order of q.   *)
LEMMA KeepFacts ==
  ASSUME NEW X, NEW q \in Seq(X), NEW S
  PROVE  /\ Keep(q, S) \in Seq(X) /\ Len(Keep(q, S)) <= Len(q)
         /\ ToSet(Keep(q, S)) = ToSet(q) \cap S
         /\ IsInjective(q) => IsInjective(Keep(q, S))
         /\ ToSet(q) \subseteq S => Keep(q, S) = q
         /\ ToSet(q) \cap S = {} => Keep(q, S) = << >>
<1> DEFINE k == Keep(q, S)
<1>1. Kept(k, q, S, X, Len(q))
  BY KeepKept
<1>2. /\ k \in Seq(X) /\ Len(k) <= Len(q) /\ DOMAIN k = 1..Len(k) /\ DOMAIN q = 1..Len(q)
  BY <1>1 DEF Kept
<1>3. ToSet(k) = ToSet(q) \cap S
  <2>1. ASSUME NEW x \in ToSet(k) PROVE x \in ToSet(q) \cap S
    <3>1. PICK m \in 1..Len(k) : k[m] = x
      BY <1>2 DEF ToSet
    <3>2. k[m] \in S /\ \E j \in 1..Len(q) : q[j] = k[m]
      BY <1>1 DEF Kept
    <3> QED BY <3>1, <3>2, <1>2 DEF ToSet
  <2>2. ASSUME NEW x \in ToSet(q) \cap S PROVE x \in ToSet(k)
    <3>1. PICK j \in 1..Len(q) : q[j] = x
      BY <1>2 DEF ToSet
    <3>2. \E m \in 1..Len(k) : k[m] = q[j]
      BY <1>1, <3>1 DEF Kept
    <3> QED BY <3>1, <3>2, <1>2 DEF ToSet
  <2> QED BY <2>1, <2>2
<1>4. ASSUME ToSet(q) \subseteq S PROVE k = q
  <2>1. \A j \in 1..Len(q) : q[j] \in S
    BY <1>2, <1>4 DEF ToSet
  <2>2. k = SubSeq(q, 1, Len(q))
    BY <1>1, <2>1 DEF Kept
  <2> QED BY <2>2
<1>5. ASSUME ToSet(q) \cap S = {} PROVE k = << >>
  <2>1. Len(k) = 0
    <3>1. ToSet(k) = {}
      BY <1>3, <1>5
    <3>2. 1 \notin DOMAIN k
      BY <3>1 DEF ToSet
    <3>3. Len(k) \in Nat
      BY <1>2
    <3> QED BY <3>2, <3>3, <1>2
  <2> QED BY <1>2, <2>1
<1>6. IsInjective(q) => IsInjective(k)
  BY <1>1 DEF Kept
<1> QED BY <1>2, <1>3, <1>4, <1>5, <1>6

(* What the function of Keep gives, place by place. *)
LEMMA KeepSteps ==
  ASSUME NEW X, NEW q \in Seq(X), NEW S
  PROVE  \E g : /\ Keep(q, S) = g[Len(q)]
                /\ g[0] = << >>
                /\ \A i \in 1..Len(q) :
                     g[i] = IF q[i] \in S THEN Append(g[i - 1], q[i]) ELSE g[i - 1]
                /\ \A i \in 0..Len(q) : g[i] \in Seq(X)
<1>1. PICK g : Rule(g, q, S, Len(q)) /\ Keep(q, S) = g[Len(q)]
  BY KeepRule
<1>2. g[0] = << >> /\ \A i \in 1..Len(q) :
        g[i] = IF q[i] \in S THEN Append(g[i - 1], q[i]) ELSE g[i - 1]
  <2>1. Len(q) \in Nat
    OBVIOUS
  <2>2. \A i \in 0..Len(q) : g[i] =
          IF i = 0 THEN << >> ELSE IF q[i] \in S THEN Append(g[i - 1], q[i]) ELSE g[i - 1]
    BY <1>1 DEF Rule
  <2> QED BY <2>1, <2>2
<1> DEFINE T == {i \in Nat : i <= Len(q) => g[i] \in Seq(X)}
<1>3. 0 \in T
  <2>1. << >> \in Seq(X)
    OBVIOUS
  <2> QED BY <1>2, <2>1
<1>4. ASSUME NEW i \in T PROVE i + 1 \in T
  <2>1. SUFFICES ASSUME i + 1 <= Len(q) PROVE g[i + 1] \in Seq(X)
    OBVIOUS
  <2>2. g[i] \in Seq(X) /\ q[i + 1] \in X
    BY <2>1
  <2>3. g[i + 1] = IF q[i + 1] \in S THEN Append(g[i], q[i + 1]) ELSE g[i]
    BY <2>1, <1>2
  <2> QED BY <2>2, <2>3
<1>5. T = Nat
  BY <1>3, <1>4, Induction
<1> QED BY <1>1, <1>2, <1>5

(* Of a queue that grows, what joins is kept behind what was. *)
LEMMA KeepOfAppended ==
  ASSUME NEW X, NEW q \in Seq(X), NEW S, NEW x \in X
  PROVE  Keep(Append(q, x), S) = IF x \in S THEN Append(Keep(q, S), x) ELSE Keep(q, S)
<1> DEFINE p == Append(q, x)
<1>1. p \in Seq(X) /\ Len(p) = Len(q) + 1 /\ p[Len(p)] = x /\ \A i \in 1..Len(q) : p[i] = q[i]
  OBVIOUS
<1>2. PICK g : /\ Keep(q, S) = g[Len(q)]
               /\ g[0] = << >>
               /\ \A i \in 1..Len(q) :
                    g[i] = IF q[i] \in S THEN Append(g[i - 1], q[i]) ELSE g[i - 1]
  BY KeepSteps
<1>3. PICK h : /\ Keep(p, S) = h[Len(p)]
               /\ h[0] = << >>
               /\ \A i \in 1..Len(p) :
                    h[i] = IF p[i] \in S THEN Append(h[i - 1], p[i]) ELSE h[i - 1]
               /\ \A i \in 0..Len(p) : h[i] \in Seq(X)
  <2>1. p \in Seq(X)
    BY <1>1
  <2> HIDE DEF p
  <2> QED BY <2>1, KeepSteps
<1> HIDE DEF p
<1> DEFINE T == {i \in Nat : i <= Len(q) => g[i] = h[i]}
<1>4. 0 \in T
  BY <1>2, <1>3
<1>5. ASSUME NEW i \in T PROVE i + 1 \in T
  <2>1. SUFFICES ASSUME i + 1 <= Len(q) PROVE g[i + 1] = h[i + 1]
    OBVIOUS
  <2>2. /\ g[i] = h[i] /\ i + 1 \in 1..Len(q) /\ i + 1 \in 1..Len(p) /\ p[i + 1] = q[i + 1]
        /\ (i + 1) - 1 = i
    BY <2>1, <1>1
  <2>3. g[i + 1] = IF q[i + 1] \in S THEN Append(g[i], q[i + 1]) ELSE g[i]
    BY <2>2, <1>2
  <2>4. h[i + 1] = IF p[i + 1] \in S THEN Append(h[i], p[i + 1]) ELSE h[i]
    BY <2>2, <1>3
  <2> QED BY <2>2, <2>3, <2>4
<1>6. T = Nat
  BY <1>4, <1>5, Induction
<1>7. g[Len(q)] = h[Len(q)]
  BY <1>6
<1>8. h[Len(p)] = IF x \in S THEN Append(h[Len(q)], x) ELSE h[Len(q)]
  BY <1>1, <1>3
<1> QED BY <1>2, <1>3, <1>7, <1>8 DEF p

(* Of a queue whose head leaves, the rest is kept. *)
LEMMA KeepOfTail ==
  ASSUME NEW X, NEW q \in Seq(X), q # << >>, NEW S
  PROVE  Keep(q, S) = (IF q[1] \in S THEN << q[1] >> ELSE << >>) \o Keep(Tail(q), S)
<1> DEFINE p == Tail(q)
           first == IF q[1] \in S THEN << q[1] >> ELSE << >>
<1>1. /\ p \in Seq(X) /\ Len(q) = Len(p) + 1 /\ \A i \in 1..Len(p) : p[i] = q[i + 1]
      /\ q[1] \in X /\ first \in Seq(X)
  OBVIOUS
<1>2. PICK g : /\ Keep(q, S) = g[Len(q)]
               /\ g[0] = << >>
               /\ \A i \in 1..Len(q) :
                    g[i] = IF q[i] \in S THEN Append(g[i - 1], q[i]) ELSE g[i - 1]
  BY KeepSteps
<1>3. PICK h : /\ Keep(p, S) = h[Len(p)]
               /\ h[0] = << >>
               /\ \A i \in 1..Len(p) :
                    h[i] = IF p[i] \in S THEN Append(h[i - 1], p[i]) ELSE h[i - 1]
               /\ \A i \in 0..Len(p) : h[i] \in Seq(X)
  <2> HIDE DEF p
  <2> QED BY <1>1, KeepSteps
<1> DEFINE T == {i \in Nat : i <= Len(p) => g[i + 1] = first \o h[i]}
<1>4. 0 \in T
  <2>3. 1 \in 1..Len(q) /\ Append(<< >>, q[1]) = << q[1] >>
    BY <1>1
  <2>4. g[1] = IF q[1] \in S THEN Append(g[1 - 1], q[1]) ELSE g[1 - 1]
    BY <1>2, <2>3
  <2>6. 1 - 1 = 0
    OBVIOUS
  <2>1. g[1] = first
    BY <1>2, <2>3, <2>4, <2>6, Zenon
  <2>2. first \o << >> = first
    BY <1>1
  <2>5. g[0 + 1] = first \o h[0]
    BY <2>1, <2>2, <1>3
  <2> QED BY <2>5
<1> HIDE DEF p, first
<1>5. ASSUME NEW i \in T PROVE i + 1 \in T
  <2>1. SUFFICES ASSUME i + 1 <= Len(p) PROVE g[i + 2] = first \o h[i + 1]
    OBVIOUS
  <2>2. g[i + 1] = first \o h[i] /\ i \in 0..Len(p) /\ i + 1 \in 1..Len(p) /\ i + 2 \in 1..Len(q)
    BY <2>1, <1>1
  <2>3. p[i + 1] = q[i + 2] /\ p[i + 1] \in X /\ h[i] \in Seq(X)
    BY <2>2, <1>1, <1>3
  <2>4. h[i + 1] = IF p[i + 1] \in S THEN Append(h[i], p[i + 1]) ELSE h[i]
    BY <2>2, <1>3
  <2>7. (i + 2) - 1 = i + 1 /\ (i + 1) + 1 = i + 2 /\ (i + 1) - 1 = i
    OBVIOUS
  <2>5. g[i + 2] = IF q[i + 2] \in S THEN Append(g[i + 1], q[i + 2]) ELSE g[i + 1]
    BY <2>2, <2>7, <1>2
  <2>6. first \o Append(h[i], p[i + 1]) = Append(first \o h[i], p[i + 1])
    BY <2>3, <1>1
  <2> QED BY <2>2, <2>3, <2>4, <2>5, <2>6
<1>6. T = Nat
  BY <1>4, <1>5, Induction
<1>9. Len(p) \in Nat
  BY <1>1
<1>7. Len(p) \in T /\ Len(p) + 1 = Len(q)
  BY <1>1, <1>6, <1>9
<1>8. g[Len(q)] = first \o h[Len(p)]
  BY <1>7
<1> QED BY <1>2, <1>3, <1>8 DEF p, first

(* Of numbers there is a least one. *)
LEMMA LeastNumber ==
  ASSUME NEW T \in SUBSET Nat, T # {}
  PROVE  \E m \in T : \A n \in T : m <= n
<1>1. PICK m \in T : \A n \in T : ~(<<n, m>> \in OpToRel(<, Nat))
  BY NatLessThanWellFounded, WFMin, Zenon
<1>2. \A n \in T : ~(n < m)
  BY <1>1, LessIn
<1> QED BY <1>2
=============================================================================
