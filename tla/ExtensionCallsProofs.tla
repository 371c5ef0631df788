------------------------ MODULE ExtensionCallsProofs ------------------------
(***************************************************************************)
(* For any calls, limits and tokens: CallsInv of ExtensionCalls, that a    *)
(* refused token is not used again, and that writ_disconnect comes last.   *)
(***************************************************************************)
EXTENDS ExtensionCalls, FilterTheorems, FiniteSetTheorems, TLAPS

-----------------------------------------------------------------------------
(* Held events: one entry for a call id                                    *)

Entries == [id : Calls, events : Seq(EventTypes)]
Events == [id : Calls, type : EventTypes]

HeldFine(h) ==
  /\ h \in Seq(Entries)
  /\ Len(h) <= MaxHeld
  /\ \A i, j \in 1..Len(h) : h[i].id = h[j].id => i = j

LEMMA NothingHeld == HeldFine(<< >>) /\ \A c \in Calls : HeldOf(<< >>, c) = << >>
BY CallsAssumption DEF HeldFine, HeldOf, ToSet

(* What is held for c is what its entry holds. *)
LEMMA HeldAt ==
  ASSUME NEW h, HeldFine(h), NEW c \in Calls
  PROVE  /\ \A i \in 1..Len(h) : h[i] \in Entries /\ (h[i].id = c => HeldOf(h, c) = h[i].events)
         /\ (\A i \in 1..Len(h) : h[i].id # c) => HeldOf(h, c) = << >>
         /\ HeldOf(h, c) \in Seq(EventTypes)
<1> DEFINE mine == {e \in ToSet(h) : e.id = c}
<1>1. DOMAIN h = 1..Len(h) /\ \A i \in 1..Len(h) : h[i] \in Entries
  BY DEF HeldFine
<1>2. ASSUME NEW i \in 1..Len(h), h[i].id = c PROVE HeldOf(h, c) = h[i].events
  <2>1. mine = {h[i]}
    BY <1>1, <1>2 DEF ToSet, HeldFine
  <2> QED BY <2>1 DEF HeldOf
<1>3. ASSUME \A i \in 1..Len(h) : h[i].id # c PROVE HeldOf(h, c) = << >>
  <2>1. mine = {}
    BY <1>1, <1>3 DEF ToSet
  <2> QED BY <2>1 DEF HeldOf
<1>4. HeldOf(h, c) \in Seq(EventTypes)
  <2>1. CASE \E i \in 1..Len(h) : h[i].id = c
    <3>1. PICK i \in 1..Len(h) : h[i].id = c
      BY <2>1
    <3>2. HeldOf(h, c) = h[i].events /\ h[i] \in Entries
      BY <1>1, <1>2, <3>1
    <3>3. h[i].events \in Seq(EventTypes)
      <4> DEFINE e == h[i]
      <4>1. e \in Entries
        BY <3>2
      <4> HIDE DEF e
      <4>2. e.events \in Seq(EventTypes)
        BY <4>1 DEF Entries
      <4> QED BY <4>2 DEF e
    <3>4. HeldOf(h, c) = h[i].events
      BY <3>2
    <3> QED BY <3>3, <3>4
  <2>2. CASE \A i \in 1..Len(h) : h[i].id # c
    <3>1. HeldOf(h, c) = << >>
      BY <1>3, <2>2
    <3> QED BY <3>1
  <2> QED BY <2>1, <2>2
<1> QED BY <1>1, <1>2, <1>3, <1>4

(* An entry of g is one of h: of a call the same is held, or nothing. *)
LEMMA FewerHeld ==
  ASSUME NEW h, HeldFine(h), NEW g, HeldFine(g), NEW c \in Calls,
         \A i \in 1..Len(g) : \E j \in 1..Len(h) : g[i] = h[j]
  PROVE  HeldOf(g, c) \in {<< >>, HeldOf(h, c)}
<1>1. CASE \E i \in 1..Len(g) : g[i].id = c
  <2>1. PICK i \in 1..Len(g) : g[i].id = c
    BY <1>1
  <2>2. PICK j \in 1..Len(h) : g[i] = h[j]
    OBVIOUS
  <2> QED BY <2>1, <2>2, HeldAt
<1>2. CASE \A i \in 1..Len(g) : g[i].id # c
  BY <1>2, HeldAt
<1> QED BY <1>1, <1>2

LEMMA WithoutFacts ==
  ASSUME NEW h, HeldFine(h), NEW S
  PROVE  /\ HeldFine(Without(h, S))
         /\ \A c \in Calls : HeldOf(Without(h, S), c) = IF c \in S THEN << >> ELSE HeldOf(h, c)
<1> DEFINE T == {e \in ToSet(h) : e.id \notin S}
           g == Keep(h, T)
<1>1. h \in Seq(Entries) /\ IsInjective(h) /\ DOMAIN h = 1..Len(h) /\ Len(h) <= MaxHeld
  BY DEF HeldFine, IsInjective
<1>2. /\ g \in Seq(Entries) /\ Len(g) <= Len(h) /\ ToSet(g) = ToSet(h) \cap T /\ IsInjective(g)
  <2> HIDE DEF T
  <2> QED BY <1>1, KeepFacts
<1>3. DOMAIN g = 1..Len(g) /\ \A i \in 1..Len(g) : g[i] \in T
  <2>1. \A i \in DOMAIN g : g[i] \in ToSet(g)
    BY DEF ToSet
  <2> HIDE DEF g, T
  <2> QED BY <1>2, <2>1
<1>4. \A i \in 1..Len(g) : g[i].id \notin S /\ \E j \in 1..Len(h) : g[i] = h[j]
  <2> HIDE DEF g
  <2> QED BY <1>1, <1>3 DEF ToSet
<1>5. HeldFine(g)
  <2> HIDE DEF g
  <2>1. ASSUME NEW i \in 1..Len(g), NEW j \in 1..Len(g), g[i].id = g[j].id PROVE i = j
    <3>1. PICK a \in 1..Len(h) : g[i] = h[a]
      BY <1>4
    <3>2. PICK b \in 1..Len(h) : g[j] = h[b]
      BY <1>4
    <3>3. a = b
      BY <2>1, <3>1, <3>2 DEF HeldFine
    <3> QED BY <3>1, <3>2, <3>3, <1>2, <1>3 DEF IsInjective
  <2>2. Len(g) <= MaxHeld
    BY <1>1, <1>2, CallsAssumption
  <2> QED BY <1>2, <2>1, <2>2 DEF HeldFine
<1>6. ASSUME NEW c \in Calls PROVE HeldOf(g, c) = IF c \in S THEN << >> ELSE HeldOf(h, c)
  <2>1. CASE \E i \in 1..Len(g) : g[i].id = c
    <3>1. PICK i \in 1..Len(g) : g[i].id = c
      BY <2>1
    <3>2. PICK j \in 1..Len(h) : g[i] = h[j]
      BY <1>4
    <3> HIDE DEF g
    <3>3. HeldOf(g, c) = g[i].events /\ HeldOf(h, c) = h[j].events
      BY <3>1, <3>2, <1>5, HeldAt
    <3> QED BY <3>1, <3>2, <3>3, <1>4
  <2>2. CASE \A i \in 1..Len(g) : g[i].id # c
    <3>1. HeldOf(g, c) = << >>
      <4> HIDE DEF g
      <4> QED BY <1>5, <2>2, HeldAt
    <3>2. ASSUME c \notin S PROVE \A j \in 1..Len(h) : h[j].id # c
      <4>1. SUFFICES ASSUME NEW j \in 1..Len(h), h[j].id = c PROVE FALSE
        OBVIOUS
      <4>2. h[j] \in ToSet(h) /\ h[j] \in T
        BY <1>1, <3>2, <4>1 DEF ToSet
      <4>3. h[j] \in ToSet(g)
        BY <1>2, <4>2
      <4> HIDE DEF g
      <4> QED BY <4>1, <4>3, <1>3, <2>2 DEF ToSet
    <3> QED BY <3>1, <3>2, HeldAt
  <2> QED BY <2>1, <2>2
<1> QED BY <1>5, <1>6 DEF Without

LEMMA YoungFacts ==
  ASSUME NEW h, HeldFine(h), NEW a \in 1..(Len(h) + 1)
  PROVE  /\ HeldFine(SubSeq(h, a, Len(h))) /\ Len(SubSeq(h, a, Len(h))) = Len(h) - a + 1
         /\ \A c \in Calls : HeldOf(SubSeq(h, a, Len(h)), c) \in {<< >>, HeldOf(h, c)}
<1> DEFINE g == SubSeq(h, a, Len(h))
<1>1. /\ h \in Seq(Entries) /\ Len(h) \in Nat /\ Len(h) <= MaxHeld
      /\ \A i, j \in 1..Len(h) : h[i].id = h[j].id => i = j
  BY DEF HeldFine
<1>2. /\ g \in Seq(Entries) /\ Len(g) = Len(h) - a + 1
      /\ \A i \in 1..Len(g) : g[i] = h[a + i - 1] /\ a + i - 1 \in 1..Len(h)
  BY <1>1
<1> HIDE DEF g
<1>3. HeldFine(g)
  <2>1. ASSUME NEW i \in 1..Len(g), NEW j \in 1..Len(g), g[i].id = g[j].id PROVE i = j
    <3>1. h[a + i - 1].id = h[a + j - 1].id
      BY <1>2, <2>1
    <3>2. a + i - 1 = a + j - 1
      BY <1>1, <1>2, <3>1
    <3> QED BY <3>2, <1>2
  <2>2. Len(g) <= MaxHeld
    BY <1>1, <1>2, CallsAssumption
  <2> QED BY <1>2, <2>1, <2>2 DEF HeldFine
<1>4. \A i \in 1..Len(g) : \E j \in 1..Len(h) : g[i] = h[j]
  BY <1>2
<1>5. \A c \in Calls : HeldOf(g, c) \in {<< >>, HeldOf(h, c)}
  BY <1>3, <1>4, FewerHeld
<1> QED BY <1>2, <1>3, <1>5 DEF g

(* A new entry. *)
LEMMA EntryBegins ==
  ASSUME NEW h, HeldFine(h), NEW d \in Calls, \A i \in 1..Len(h) : h[i].id # d, Len(h) < MaxHeld
  PROVE  LET g == Append(h, [id |-> d, events |-> << >>])
         IN  HeldFine(g) /\ \A c \in Calls : HeldOf(g, c) = HeldOf(h, c)
<1> DEFINE e == [id |-> d, events |-> << >>]
           g == Append(h, e)
<1>1. e \in Entries /\ h \in Seq(Entries)
  BY DEF Entries, HeldFine
<1>2. g \in Seq(Entries) /\ Len(g) = Len(h) + 1 /\ g[Len(h) + 1] = e /\ \A i \in 1..Len(h) : g[i] = h[i]
  BY <1>1
<1>3. e.id = d /\ e.events = << >>
  OBVIOUS
<1> HIDE DEF g, e
<1>4. HeldFine(g)
  <2>1. ASSUME NEW i \in 1..Len(g), NEW j \in 1..Len(g), g[i].id = g[j].id PROVE i = j
    <3>1. i \in 1..Len(h) \/ i = Len(h) + 1
      BY <1>1, <1>2
    <3>2. j \in 1..Len(h) \/ j = Len(h) + 1
      BY <1>1, <1>2
    <3> QED BY <2>1, <3>1, <3>2, <1>2, <1>3 DEF HeldFine
  <2>2. Len(g) <= MaxHeld
    BY <1>1, <1>2, CallsAssumption
  <2> QED BY <1>2, <2>1, <2>2 DEF HeldFine
<1>5. ASSUME NEW c \in Calls PROVE HeldOf(g, c) = HeldOf(h, c)
  <2>1. CASE c = d
    <3>1. HeldOf(g, c) = << >>
      <4>1. Len(h) + 1 \in 1..Len(g)
        BY <1>1, <1>2
      <4> QED BY <4>1, <1>2, <1>3, <1>4, <2>1, HeldAt
    <3>2. HeldOf(h, c) = << >>
      BY <2>1, HeldAt
    <3> QED BY <3>1, <3>2
  <2>2. CASE c # d /\ \E i \in 1..Len(h) : h[i].id = c
    <3>1. PICK i \in 1..Len(h) : h[i].id = c
      BY <2>2
    <3>2. HeldOf(h, c) = h[i].events
      BY <3>1, HeldAt
    <3>3. i \in 1..Len(g) /\ g[i] = h[i]
      BY <1>1, <1>2
    <3>4. HeldOf(g, c) = g[i].events
      BY <3>1, <3>3, <1>4, HeldAt
    <3> QED BY <3>2, <3>3, <3>4
  <2>3. CASE c # d /\ \A i \in 1..Len(h) : h[i].id # c
    <3>1. \A i \in 1..Len(g) : g[i].id # c
      <4>1. \A i \in 1..Len(g) : i \in 1..Len(h) \/ i = Len(h) + 1
        BY <1>1, <1>2
      <4> QED BY <4>1, <1>2, <1>3, <2>3
    <3>2. HeldOf(g, c) = << >>
      BY <3>1, <1>4, HeldAt
    <3>3. HeldOf(h, c) = << >>
      BY <2>3, HeldAt
    <3> QED BY <3>2, <3>3
  <2> QED BY <2>1, <2>2, <2>3
<1> QED BY <1>4, <1>5 DEF g, e

(* An event is added to the entry of its call, unless that is full. *)
LEMMA EventAdded ==
  ASSUME NEW h, HeldFine(h), NEW d \in Calls, NEW type \in EventTypes
  PROVE  LET g == [i \in DOMAIN h |->
                     IF h[i].id = d /\ Len(h[i].events) < MaxHeldEvents
                     THEN [h[i] EXCEPT !.events = Append(@, type)] ELSE h[i]]
         IN  /\ HeldFine(g)
             /\ \A c \in Calls : c # d => HeldOf(g, c) = HeldOf(h, c)
             /\ HeldOf(g, d) \in {HeldOf(h, d), Append(HeldOf(h, d), type)}
<1> DEFINE g == [i \in DOMAIN h |->
                   IF h[i].id = d /\ Len(h[i].events) < MaxHeldEvents
                   THEN [h[i] EXCEPT !.events = Append(@, type)] ELSE h[i]]
<1>1. h \in Seq(Entries) /\ DOMAIN h = 1..Len(h) /\ \A i \in 1..Len(h) : h[i] \in Entries
  BY DEF HeldFine
<1>2. ASSUME NEW i \in 1..Len(h)
      PROVE  /\ g[i] \in Entries /\ g[i].id = h[i].id
             /\ h[i].id # d => g[i] = h[i]
             /\ g[i].events \in {h[i].events, Append(h[i].events, type)}
  <2>1. h[i] \in Entries
    BY <1>1
  <2>2. g[i] = IF h[i].id = d /\ Len(h[i].events) < MaxHeldEvents
               THEN [h[i] EXCEPT !.events = Append(@, type)] ELSE h[i]
    BY <1>1
  <2>3. Append(h[i].events, type) \in Seq(EventTypes)
    BY <2>1 DEF Entries
  <2> HIDE DEF g
  <2>4. g[i] \in {h[i], [h[i] EXCEPT !.events = Append(@, type)]}
    BY <2>2
  <2> QED BY <2>1, <2>2, <2>3, <2>4 DEF Entries
<1>3. g \in Seq(Entries) /\ Len(g) = Len(h)
  <2>1. g \in [1..Len(h) -> Entries] /\ Len(h) \in Nat
    BY <1>1, <1>2
  <2> HIDE DEF g
  <2> QED BY <2>1
<1> HIDE DEF g
<1>4. HeldFine(g)
  BY <1>1, <1>2, <1>3 DEF HeldFine
<1>5. ASSUME NEW c \in Calls
      PROVE  /\ c # d => HeldOf(g, c) = HeldOf(h, c)
             /\ HeldOf(g, c) \in {HeldOf(h, c), Append(HeldOf(h, c), type)}
  <2>1. CASE \E i \in 1..Len(h) : h[i].id = c
    <3>1. PICK i \in 1..Len(h) : h[i].id = c
      BY <2>1
    <3>2. HeldOf(h, c) = h[i].events
      BY <3>1, HeldAt
    <3>3. i \in 1..Len(g) /\ g[i].id = c
      BY <3>1, <1>2, <1>3
    <3>4. HeldOf(g, c) = g[i].events
      BY <3>3, <1>4, HeldAt
    <3> QED BY <3>1, <3>2, <3>4, <1>2
  <2>2. CASE \A i \in 1..Len(h) : h[i].id # c
    <3>1. \A i \in 1..Len(g) : g[i].id # c
      BY <2>2, <1>2, <1>3
    <3>2. HeldOf(h, c) = << >>
      BY <2>2, HeldAt
    <3>3. HeldOf(g, c) = << >>
      BY <3>1, <1>4, HeldAt
    <3> QED BY <3>2, <3>3
  <2> QED BY <2>1, <2>2
<1> QED BY <1>4, <1>5 DEF g

RouterRecords ==
  [expecting : Nat, attached : BOOLEAN, routes : SUBSET Calls, held : Seq(Entries)]

(* An event that is held may be dropped, or older ones for it: of each     *)
(* call is held what was, or nothing, and then the event.                  *)
LEMMA HoldFacts ==
  ASSUME NEW r \in RouterRecords, HeldFine(r.held), NEW e \in Events, NEW swept \in 0..Len(r.held)
  PROVE  /\ Hold(r, e, swept) = [r EXCEPT !.held = Hold(r, e, swept).held]
         /\ HeldFine(Hold(r, e, swept).held)
         /\ \A c \in Calls : c # e.id =>
              HeldOf(Hold(r, e, swept).held, c) \in {<< >>, HeldOf(r.held, c)}
         /\ HeldOf(Hold(r, e, swept).held, e.id) \in
              {<< >>, HeldOf(r.held, e.id), << e.type >>, Append(HeldOf(r.held, e.id), e.type)}
<1> DEFINE h == r.held
           young == SubSeq(h, swept + 1, Len(h))
           kept == IF (\E i \in DOMAIN young : young[i].id = e.id) \/ Len(young) < MaxHeld THEN young
                   ELSE SubSeq(young, Len(young) - MaxHeld + 2, Len(young))
           held == IF \E i \in DOMAIN kept : kept[i].id = e.id THEN kept
                   ELSE Append(kept, [id |-> e.id, events |-> << >>])
           last == [i \in DOMAIN held |->
                      IF held[i].id = e.id /\ Len(held[i].events) < MaxHeldEvents
                      THEN [held[i] EXCEPT !.events = Append(@, e.type)] ELSE held[i]]
<1>1. HeldFine(h) /\ e.id \in Calls /\ e.type \in EventTypes /\ h \in Seq(Entries) /\ Len(h) \in Nat
      /\ Len(h) <= MaxHeld
  BY DEF Events, HeldFine
<1>2. Hold(r, e, swept) = [r EXCEPT !.held = last]
  BY DEF Hold
<1>3. Hold(r, e, swept).held = last /\ [r EXCEPT !.held = last] = [r EXCEPT !.held = Hold(r, e, swept).held]
  BY <1>2 DEF RouterRecords
<1>4. swept + 1 \in 1..(Len(h) + 1) /\ MaxHeld \in Nat \ {0}
  BY <1>1, CallsAssumption
<1>5. /\ HeldFine(young) /\ Len(young) \in Nat /\ Len(young) <= MaxHeld
      /\ \A c \in Calls : HeldOf(young, c) \in {<< >>, HeldOf(h, c)}
  <2>1. HeldFine(young) /\ \A c \in Calls : HeldOf(young, c) \in {<< >>, HeldOf(h, c)}
    <3> HIDE DEF h
    <3> QED BY <1>1, <1>4, YoungFacts
  <2> QED BY <2>1 DEF HeldFine
<1>6. DOMAIN young = 1..Len(young)
  BY <1>5 DEF HeldFine
<1>7. /\ HeldFine(kept) /\ \A c \in Calls : HeldOf(kept, c) \in {<< >>, HeldOf(h, c)}
      /\ (\E i \in 1..Len(kept) : kept[i].id = e.id) \/ Len(kept) < MaxHeld
  <2> HIDE DEF young, h
  <2>1. CASE (\E i \in DOMAIN young : young[i].id = e.id) \/ Len(young) < MaxHeld
    BY <1>5, <1>6, <2>1
  <2>2. CASE ~((\E i \in DOMAIN young : young[i].id = e.id) \/ Len(young) < MaxHeld)
    <3> DEFINE a == Len(young) - MaxHeld + 2
    <3>1. kept = SubSeq(young, a, Len(young))
      BY <2>2
    <3>2. Len(young) = MaxHeld /\ a = 2 /\ a \in 1..(Len(young) + 1)
      BY <2>2, <1>4, <1>5
    <3> HIDE DEF a
    <3>3. /\ HeldFine(kept) /\ Len(kept) = Len(young) - a + 1
          /\ \A c \in Calls : HeldOf(kept, c) \in {<< >>, HeldOf(young, c)}
      <4> HIDE DEF kept
      <4> QED BY <3>1, <3>2, <1>5, YoungFacts
    <3>4. Len(kept) < MaxHeld
      BY <3>2, <3>3, <1>4
    <3> HIDE DEF kept
    <3> QED BY <3>3, <3>4, <1>5
  <2> QED BY <2>1, <2>2
<1>8. /\ HeldFine(held) /\ \A c \in Calls : HeldOf(held, c) = HeldOf(kept, c)
  <2> HIDE DEF kept, young, h
  <2>1. DOMAIN kept = 1..Len(kept)
    BY <1>7 DEF HeldFine
  <2>2. CASE \E i \in DOMAIN kept : kept[i].id = e.id
    BY <2>2, <1>7
  <2>3. CASE \A i \in DOMAIN kept : kept[i].id # e.id
    <3>1. Len(kept) < MaxHeld /\ held = Append(kept, [id |-> e.id, events |-> << >>])
      BY <2>1, <2>3, <1>7
    <3> HIDE DEF held
    <3> QED BY <3>1, <2>1, <2>3, <1>1, <1>7, EntryBegins
  <2> QED BY <2>2, <2>3
<1>9. /\ HeldFine(last) /\ \A c \in Calls : c # e.id => HeldOf(last, c) = HeldOf(held, c)
      /\ HeldOf(last, e.id) \in {HeldOf(held, e.id), Append(HeldOf(held, e.id), e.type)}
  <2> HIDE DEF held, kept, young, h
  <2> QED BY <1>1, <1>8, EventAdded
<1> HIDE DEF last, held, kept, young
<1>10. ASSUME NEW c \in Calls, c # e.id PROVE HeldOf(last, c) \in {<< >>, HeldOf(h, c)}
  BY <1>7, <1>8, <1>9, <1>10
<1>11. HeldOf(last, e.id) \in {<< >>, HeldOf(h, e.id), << e.type >>, Append(HeldOf(h, e.id), e.type)}
  <2>1. HeldOf(held, e.id) \in {<< >>, HeldOf(h, e.id)}
    BY <1>1, <1>7, <1>8
  <2>2. Append(<< >>, e.type) = << e.type >>
    OBVIOUS
  <2> QED BY <1>1, <1>9, <2>1, <2>2
<1> QED BY <1>2, <1>3, <1>9, <1>10, <1>11 DEF h

-----------------------------------------------------------------------------
(* The channel: of each call the events that are still to come             *)

TypesOf(q) == [i \in DOMAIN q |-> q[i].type]
Coming(q, c) == TypesOf(Keep(q, [id : {c}, type : EventTypes]))

LEMMA ChannelIsComing == \A c : ChannelOf(c) = Coming(channel, c)
BY DEF ChannelOf, Coming, TypesOf

LEMMA TypesFacts ==
  ASSUME NEW q \in Seq(Events)
  PROVE  /\ TypesOf(q) \in Seq(EventTypes) /\ Len(TypesOf(q)) = Len(q)
         /\ \A i \in 1..Len(q) : TypesOf(q)[i] = q[i].type
<1>1. q \in [1..Len(q) -> Events] /\ DOMAIN q = 1..Len(q) /\ Len(q) \in Nat
  OBVIOUS
<1>2. TypesOf(q) \in [1..Len(q) -> EventTypes] /\ \A i \in 1..Len(q) : TypesOf(q)[i] = q[i].type
  BY <1>1 DEF TypesOf, Events
<1> QED BY <1>1, <1>2

LEMMA ComingTyped ==
  ASSUME NEW q \in Seq(Events), NEW c
  PROVE  Coming(q, c) \in Seq(EventTypes)
BY KeepFacts, TypesFacts DEF Coming

LEMMA NothingComes == \A c : Coming(<< >>, c) = << >>
<1>1. ASSUME NEW c PROVE Keep(<< >>, [id : {c}, type : EventTypes]) = << >>
  <2>1. << >> \in Seq({}) /\ ToSet(<< >>) = {}
    BY DEF ToSet
  <2> QED BY <2>1, KeepFacts
<1>2. TypesOf(<< >>) = << >>
  BY DEF TypesOf
<1> QED BY <1>1, <1>2 DEF Coming

LEMMA ComesLast ==
  ASSUME NEW q \in Seq(Events), NEW e \in Events, NEW c
  PROVE  Coming(Append(q, e), c) =
           IF e.id = c THEN Append(Coming(q, c), e.type) ELSE Coming(q, c)
<1> DEFINE S == [id : {c}, type : EventTypes]
           k == Keep(q, S)
<1>1. e \in S <=> e.id = c
  BY DEF Events
<1>2. k \in Seq(Events)
  BY KeepFacts
<1>3. Keep(Append(q, e), S) = IF e \in S THEN Append(k, e) ELSE k
  <2> HIDE DEF S
  <2> QED BY KeepOfAppended
<1>4. ASSUME NEW l \in Seq(Events) PROVE TypesOf(Append(l, e)) = Append(TypesOf(l), e.type)
  <2> DEFINE m == Append(l, e)
             t == TypesOf(m)
             u == Append(TypesOf(l), e.type)
  <2>1. m \in Seq(Events) /\ Len(m) = Len(l) + 1 /\ m[Len(l) + 1] = e /\ \A i \in 1..Len(l) : m[i] = l[i]
    OBVIOUS
  <2>2. /\ t \in Seq(EventTypes) /\ Len(t) = Len(l) + 1 /\ \A i \in 1..(Len(l) + 1) : t[i] = m[i].type
    <3> HIDE DEF m
    <3> QED BY <2>1, TypesFacts
  <2>3. /\ TypesOf(l) \in Seq(EventTypes) /\ Len(TypesOf(l)) = Len(l) /\ e.type \in EventTypes
        /\ \A i \in 1..Len(l) : TypesOf(l)[i] = l[i].type
    BY TypesFacts DEF Events
  <2>4. /\ u \in Seq(EventTypes) /\ Len(u) = Len(l) + 1 /\ u[Len(l) + 1] = e.type
        /\ \A i \in 1..Len(l) : u[i] = l[i].type
    BY <2>3
  <2>5. \A i \in 1..(Len(l) + 1) : t[i] = u[i]
    <3> HIDE DEF t, u, m
    <3>1. \A i \in 1..(Len(l) + 1) : i \in 1..Len(l) \/ i = Len(l) + 1
      BY <2>2
    <3> QED BY <3>1, <2>1, <2>2, <2>4
  <2> HIDE DEF t, u
  <2>6. t = u
    BY <2>2, <2>4, <2>5
  <2> QED BY <2>6 DEF t, u
<1> HIDE DEF k, S
<1> QED BY <1>1, <1>2, <1>3, <1>4 DEF Coming, k, S

LEMMA ComesFirst ==
  ASSUME NEW q \in Seq(Events), q # << >>, NEW c
  PROVE  Coming(q, c) =
           (IF q[1].id = c THEN << q[1].type >> ELSE << >>) \o Coming(Tail(q), c)
<1> DEFINE S == [id : {c}, type : EventTypes]
           k == Keep(Tail(q), S)
           e == q[1]
<1>1. e \in Events /\ (e \in S <=> e.id = c) /\ Tail(q) \in Seq(Events)
  <2>1. e \in Events /\ Tail(q) \in Seq(Events)
    OBVIOUS
  <2> HIDE DEF e
  <2> QED BY <2>1 DEF Events
<1>2. k \in Seq(Events)
  <2> HIDE DEF S
  <2> QED BY <1>1, KeepFacts
<1>3. Keep(q, S) = (IF e \in S THEN << e >> ELSE << >>) \o k
  <2> HIDE DEF S
  <2> QED BY KeepOfTail
<1> HIDE DEF k, S, e
<1>4. << >> \o k = k /\ << >> \o TypesOf(k) = TypesOf(k)
  BY <1>2, TypesFacts
<1>5. TypesOf(<< e >> \o k) = << e.type >> \o TypesOf(k)
  <2> DEFINE m == << e >> \o k
             t == TypesOf(m)
             u == << e.type >> \o TypesOf(k)
  <2>1. m \in Seq(Events) /\ Len(m) = Len(k) + 1 /\ m[1] = e /\ \A i \in 1..Len(k) : m[i + 1] = k[i]
    BY <1>1, <1>2
  <2>2. /\ t \in Seq(EventTypes) /\ Len(t) = Len(k) + 1 /\ \A i \in 1..(Len(k) + 1) : t[i] = m[i].type
    <3> HIDE DEF m
    <3> QED BY <2>1, TypesFacts
  <2>3. /\ TypesOf(k) \in Seq(EventTypes) /\ Len(TypesOf(k)) = Len(k) /\ e.type \in EventTypes
        /\ \A i \in 1..Len(k) : TypesOf(k)[i] = k[i].type
    BY <1>1, <1>2, TypesFacts DEF Events
  <2>4. /\ u \in Seq(EventTypes) /\ Len(u) = Len(k) + 1 /\ u[1] = e.type
        /\ \A i \in 1..Len(k) : u[i + 1] = k[i].type
    BY <2>3
  <2>5. \A i \in 1..(Len(k) + 1) : t[i] = u[i]
    <3> HIDE DEF t, u, m
    <3>1. Len(k) \in Nat
      BY <1>2
    <3>2. ASSUME NEW i \in 1..(Len(k) + 1), i # 1 PROVE t[i] = u[i]
      <4>1. i - 1 \in 1..Len(k) /\ (i - 1) + 1 = i
        BY <3>1, <3>2
      <4>2. m[(i - 1) + 1] = k[i - 1] /\ u[(i - 1) + 1] = k[i - 1].type
        BY <4>1, <2>1, <2>4
      <4>3. t[i] = m[i].type
        BY <2>2
      <4> QED BY <4>1, <4>2, <4>3
    <3>3. 1 \in 1..(Len(k) + 1)
      BY <3>1
    <3> QED BY <3>2, <3>3, <2>1, <2>2, <2>4
  <2> HIDE DEF t, u
  <2>6. t = u
    BY <2>2, <2>4, <2>5
  <2> QED BY <2>6 DEF t, u
<1> QED BY <1>1, <1>3, <1>4, <1>5 DEF Coming, k, S, e

-----------------------------------------------------------------------------
(* What is true of a call, its run and its events                          *)

CallRecords ==
  [status : {"none", "pending", "running"} \cup Final, awaits : {"none", "token", "id"},
   id : BOOLEAN, guard : BOOLEAN, ack : {"none", "sent", "done", "refused"},
   token : Tokens \cup {NoToken}, seen : Seq(EventTypes)]

Runs ==
  [run : {"none", "asked", "running", "over"}, answer : {"none", "id", "error"},
   emitted : Seq(EventTypes)]

Alive(k) == k.status \in {"pending", "running"}
Began(x) == x.run \notin {"none", "asked"}
HasEnd(s) == \E i \in 1..Len(s) : s[i] \in Terminal

(* How far a call k and its run x are: what is pending awaits the token,   *)
(* the id or the end; nothing is known of a run that did not begin.        *)
Stage(k, x) ==
  /\ k.status = "none" => k.awaits = "none" /\ x.run = "none" /\ k.seen = << >>
  /\ k.awaits = "token" => x.run = "none"
  /\ k.awaits = "id" => x.run # "none"
  /\ ~Began(x) => ~k.id /\ k.ack = "none" /\ x.answer = "none" /\ x.emitted = << >>
  /\ k.awaits = "id" \/ x.answer # "none" => ~k.id
  /\ Alive(k) => (k.id <=> k.awaits = "none")
  /\ k.guard <=> (Alive(k) \/ k.awaits = "id")

(* A call that is over, and whose id is known, has a writ_cancel on its way*)
(* or its run is over, unless the extension refused to stop it.            *)
Stopped(k, x) ==
  /\ k.ack = "done" \/ k.status = "finished" => x.run = "over"
  /\ k.id /\ k.status \in Final /\ k.ack \notin {"sent", "refused"} => x.run = "over"

(* What was heard, what is held and what is on its way are all there is. *)
AllHeard(seen, h, l, emitted) == (seen \o h) \o l = emitted

(* h is held for the call, l is on its way: the end comes last.            *)
Heard(k, x, h, l) ==
  /\ ~Began(x) \/ (k.id /\ Alive(k)) => h = << >>
  /\ ~Began(x) => l = << >>
  /\ \A i \in 1..Len(x.emitted) : x.emitted[i] \in Terminal => i = Len(x.emitted) /\ x.run = "over"
  /\ HasEnd(h) \/ HasEnd(l) => x.run = "over"

(* Nothing was lost. *)
Whole(k, x, h, l) ==
  /\ Alive(k) => AllHeard(k.seen, h, l, x.emitted)
  /\ k.status = "finished" => k.seen = x.emitted

Fine(k, x, h, l) == Stage(k, x) /\ Stopped(k, x) /\ Heard(k, x, h, l)

LEMMA Joining ==
  ASSUME NEW a \in Seq(EventTypes), NEW b \in Seq(EventTypes), NEW c \in Seq(EventTypes)
  PROVE  /\ (a \o b) \o c = a \o (b \o c) /\ a \o << >> = a /\ << >> \o a = a
         /\ a \o b \in Seq(EventTypes) /\ Len(a \o b) = Len(a) + Len(b)
OBVIOUS

SameEvents(h, l, types, rest) == h \o l = types \o rest

(* Events that are heard, and no longer held or on their way. *)
LEMMA HeardNow ==
  ASSUME NEW s \in Seq(EventTypes), NEW h \in Seq(EventTypes), NEW l \in Seq(EventTypes),
         NEW types \in Seq(EventTypes), NEW rest \in Seq(EventTypes), NEW m,
         SameEvents(h, l, types, rest), AllHeard(s, h, l, m)
  PROVE  AllHeard(s \o types, << >>, rest, m)
<1>1. (s \o h) \o l = s \o (h \o l) /\ ((s \o types) \o << >>) \o rest = s \o (types \o rest)
  OBVIOUS
<1>2. h \o l = types \o rest /\ (s \o h) \o l = m
  BY DEF SameEvents, AllHeard
<1> QED BY <1>1, <1>2 DEF AllHeard

(* The end of a run is the last it emits: who heard it heard everything. *)
LEMMA EndIsHeard ==
  ASSUME NEW s \in Seq(EventTypes), NEW types \in Seq(EventTypes), NEW rest \in Seq(EventTypes),
         NEW m \in Seq(EventTypes), AllHeard(s \o types, << >>, rest, m),
         NEW n \in 1..Len(types), types[n] \in Terminal,
         \A i \in 1..Len(m) : m[i] \in Terminal => i = Len(m)
  PROVE  s \o SubSeq(types, 1, n) = m
<1>1. m = (s \o types) \o rest
  BY DEF AllHeard
<1>2. /\ Len(m) = Len(s) + Len(types) + Len(rest) /\ Len(s) + n \in 1..Len(m)
      /\ m[Len(s) + n] = types[n]
  BY <1>1
<1>3. Len(s) + n = Len(m)
  BY <1>2
<1>4. n = Len(types) /\ Len(rest) = 0
  BY <1>2, <1>3
<1>5. rest = << >> /\ SubSeq(types, 1, n) = types
  BY <1>4
<1>6. (s \o types) \o << >> = s \o types
  OBVIOUS
<1> QED BY <1>1, <1>5, <1>6

LEMMA EndOfJoined ==
  ASSUME NEW a \in Seq(EventTypes), NEW b \in Seq(EventTypes)
  PROVE  HasEnd(a \o b) <=> HasEnd(a) \/ HasEnd(b)
<1>1. /\ Len(a \o b) = Len(a) + Len(b) /\ Len(a) \in Nat /\ Len(b) \in Nat
      /\ \A i \in 1..Len(a) : i \in 1..Len(a \o b) /\ (a \o b)[i] = a[i]
      /\ \A i \in 1..Len(b) : Len(a) + i \in 1..Len(a \o b) /\ (a \o b)[Len(a) + i] = b[i]
  OBVIOUS
<1>2. \A i \in 1..Len(a \o b) : i \in 1..Len(a) \/ \E j \in 1..Len(b) : i = Len(a) + j
  <2>1. ASSUME NEW i \in 1..Len(a \o b), i \notin 1..Len(a) PROVE \E j \in 1..Len(b) : i = Len(a) + j
    <3>1. i - Len(a) \in 1..Len(b) /\ i = Len(a) + (i - Len(a))
      BY <1>1, <2>1
    <3> QED BY <3>1
  <2> QED BY <2>1
<1>3. ASSUME HasEnd(a \o b) PROVE HasEnd(a) \/ HasEnd(b)
  <2>1. PICK i \in 1..Len(a \o b) : (a \o b)[i] \in Terminal
    BY <1>3 DEF HasEnd
  <2> QED BY <1>1, <1>2, <2>1 DEF HasEnd
<1>4. ASSUME HasEnd(a) \/ HasEnd(b) PROVE HasEnd(a \o b)
  BY <1>1, <1>4 DEF HasEnd
<1> QED BY <1>3, <1>4

(* Events that hold no end leave a call alive, the first end ends it.      *)
LEMMA AfterEventsFacts ==
  ASSUME NEW k \in CallRecords, Alive(k), NEW types \in Seq(EventTypes)
  PROVE  LET a == AfterEvents(k, types)
         IN  /\ a \in CallRecords
             /\ a.awaits = k.awaits /\ a.id = k.id /\ a.ack = k.ack
             /\ \/ /\ ~HasEnd(types) /\ Alive(a) /\ a.seen = k.seen \o types
                   /\ a.guard = k.guard /\ a.token = k.token
                \/ /\ HasEnd(types) /\ a.status \in {"finished", "failed"} /\ a.token = NoToken
                   /\ a.guard = (k.guard /\ k.awaits = "id")
                   /\ \E n \in 1..Len(types) :
                        /\ types[n] \in Terminal
                        /\ a.status = "finished" => a.seen = k.seen \o SubSeq(types, 1, n)
<1> DEFINE ends == {i \in DOMAIN types : types[i] \in Terminal}
           n == IF ends = {} THEN Len(types) ELSE CHOOSE i \in ends : \A j \in ends : i <= j
           heard == SubSeq(types, 1, n)
           known == [k EXCEPT !.seen = @ \o heard, !.status = IF n = 0 THEN @ ELSE "running"]
           a == AfterEvents(k, types)
<1>1. a = CASE ends = {} -> known
            [] ends # {} /\ types[n] = "finished" -> End(known, "finished")
            [] OTHER -> End(known, "failed")
  BY DEF AfterEvents
<1>2. DOMAIN types = 1..Len(types) /\ Len(types) \in Nat /\ (HasEnd(types) <=> ends # {})
  BY DEF HasEnd
<1>3. CASE ends = {}
  <2>1. n = Len(types) /\ heard = types
    BY <1>3
  <2>2. a = [k EXCEPT !.seen = @ \o types, !.status = IF n = 0 THEN @ ELSE "running"]
    BY <1>1, <1>3, <2>1
  <2>3. k.seen \o types \in Seq(EventTypes)
    BY DEF CallRecords
  <2> HIDE DEF a, n, ends
  <2>4. a \in CallRecords
    BY <2>2, <2>3 DEF CallRecords
  <2>5. /\ a.awaits = k.awaits /\ a.id = k.id /\ a.ack = k.ack /\ a.guard = k.guard /\ a.token = k.token
        /\ a.seen = k.seen \o types /\ Alive(a)
    BY <2>2 DEF CallRecords, Alive
  <2> QED BY <1>2, <1>3, <2>4, <2>5 DEF a
<1>4. CASE ends # {}
  <2>1. n \in ends
    <3>1. ends \in SUBSET Nat
      BY <1>2
    <3>2. \E i \in ends : \A j \in ends : i <= j
      <4> HIDE DEF ends
      <4> QED BY <1>4, <3>1, LeastNumber
    <3> QED BY <1>4, <3>2
  <2>2. n \in 1..Len(types) /\ types[n] \in Terminal /\ n # 0
    <3> HIDE DEF n
    <3>1. n \in DOMAIN types /\ types[n] \in Terminal
      BY <2>1
    <3> QED BY <1>2, <3>1
  <2>3. a \in {End(known, "finished"), End(known, "failed")}
    BY <1>1, <1>4
  <2>4. known = [k EXCEPT !.seen = @ \o heard, !.status = "running"]
    BY <2>2
  <2>5. heard \in Seq(EventTypes)
    BY <2>2
  <2> HIDE DEF n, heard, known, ends
  <2>6. k.seen \o heard \in Seq(EventTypes)
    BY <2>5 DEF CallRecords
  <2>7. /\ known \in CallRecords /\ known.seen = k.seen \o heard /\ known.awaits = k.awaits
        /\ known.id = k.id /\ known.ack = k.ack /\ known.guard = k.guard
    BY <2>4, <2>6 DEF CallRecords
  <2>8. ASSUME NEW s \in {"finished", "failed"}, a = End(known, s)
        PROVE  /\ a \in CallRecords /\ a.awaits = k.awaits /\ a.id = k.id /\ a.ack = k.ack
               /\ a.status = s /\ a.token = NoToken /\ a.guard = (k.guard /\ k.awaits = "id")
               /\ a.status = "finished" => a.seen = k.seen \o heard
    <3>1. a = [known EXCEPT !.status = s, !.guard = @ /\ known.awaits = "id", !.token = NoToken,
                            !.seen = IF s = "finished" THEN @ ELSE << >>]
      BY <2>8 DEF End
    <3> HIDE DEF a
    <3>2. /\ a.awaits = known.awaits /\ a.id = known.id /\ a.ack = known.ack /\ a.status = s
          /\ a.token = NoToken /\ a.guard = (known.guard /\ known.awaits = "id")
          /\ a.seen = IF s = "finished" THEN known.seen ELSE << >>
      BY <2>7, <3>1 DEF CallRecords
    <3>3. a \in CallRecords
      <4>1. (known.guard /\ known.awaits = "id") \in BOOLEAN
        OBVIOUS
      <4>2. (IF s = "finished" THEN known.seen ELSE << >>) \in Seq(EventTypes)
        BY <2>6, <2>7
      <4>3. s \in Final
        BY DEF Final
      <4> QED BY <2>7, <3>1, <4>1, <4>2, <4>3 DEF CallRecords
    <3> QED BY <2>7, <3>2, <3>3
  <2> HIDE DEF a
  <2>9. /\ a \in CallRecords /\ a.awaits = k.awaits /\ a.id = k.id /\ a.ack = k.ack
        /\ a.status \in {"finished", "failed"} /\ a.token = NoToken
        /\ a.guard = (k.guard /\ k.awaits = "id")
        /\ a.status = "finished" => a.seen = k.seen \o heard
    BY <2>3, <2>8
  <2> QED BY <1>2, <1>4, <2>2, <2>9 DEF a, heard
<1> QED BY <1>3, <1>4

(* The route of a call with a known id is given types: rest is still to    *)
(* come, nothing is held any more.                                         *)
LEMMA RouteHears ==
  ASSUME NEW k \in CallRecords, NEW x \in Runs, Alive(k), k.id, k.guard, x.answer = "none", Began(x),
         NEW h \in Seq(EventTypes), NEW l \in Seq(EventTypes),
         NEW types \in Seq(EventTypes), NEW rest \in Seq(EventTypes),
         SameEvents(h, l, types, rest),
         k.ack = "done" => x.run = "over",
         \A i \in 1..Len(x.emitted) : x.emitted[i] \in Terminal => i = Len(x.emitted) /\ x.run = "over",
         HasEnd(h) \/ HasEnd(l) => x.run = "over"
  PROVE  LET j == StopAwaiting(AfterEvents(k, types))
         IN  /\ j \in CallRecords /\ j.id /\ j.awaits = "none" /\ j.token \in {k.token, NoToken}
             /\ j.ack = k.ack
             /\ j.status = AfterEvents(k, types).status
             /\ Alive(j) \/ j.status \in Final
             /\ Fine(j, x, << >>, rest)
             /\ AllHeard(k.seen, h, l, x.emitted) => Whole(j, x, << >>, rest)
<1> DEFINE a == AfterEvents(k, types)
           j == StopAwaiting(a)
<1>1. /\ a \in CallRecords /\ a.awaits = k.awaits /\ a.id = k.id /\ a.ack = k.ack
      /\ \/ /\ ~HasEnd(types) /\ Alive(a) /\ a.seen = k.seen \o types
            /\ a.guard = k.guard /\ a.token = k.token
         \/ /\ HasEnd(types) /\ a.status \in {"finished", "failed"} /\ a.token = NoToken
            /\ a.guard = (k.guard /\ k.awaits = "id")
            /\ \E n \in 1..Len(types) :
                 /\ types[n] \in Terminal
                 /\ a.status = "finished" => a.seen = k.seen \o SubSeq(types, 1, n)
  BY AfterEventsFacts
<1> HIDE DEF a
<1>2. /\ j \in CallRecords /\ j.status = a.status /\ j.awaits = "none" /\ j.id = k.id /\ j.ack = k.ack
      /\ j.token = a.token /\ j.seen = a.seen /\ j.guard = (a.guard /\ a.status \notin Final)
  BY <1>1 DEF StopAwaiting, CallRecords
<1> HIDE DEF j
<1>3. (Alive(j) /\ ~HasEnd(types)) \/ (j.status \in Final /\ ~Alive(j) /\ HasEnd(types))
  BY <1>1, <1>2 DEF Alive, Final
<1>4. HasEnd(types) \/ HasEnd(rest) => x.run = "over"
  <2>1. HasEnd(types \o rest) <=> HasEnd(types) \/ HasEnd(rest)
    BY EndOfJoined
  <2>2. HasEnd(h \o l) <=> HasEnd(h) \/ HasEnd(l)
    BY EndOfJoined
  <2> QED BY <2>1, <2>2 DEF SameEvents
<1>5. k.seen \in Seq(EventTypes) /\ x.emitted \in Seq(EventTypes)
  BY DEF CallRecords, Runs
<1>6. AllHeard(k.seen, h, l, x.emitted) => AllHeard(k.seen \o types, << >>, rest, x.emitted)
  BY <1>5, HeardNow
<1>7. Stage(j, x)
  <2>1. j.guard <=> Alive(j)
    BY <1>1, <1>2, <1>3 DEF Alive, Final
  <2>2. j.status # "none"
    BY <1>3 DEF Alive, Final
  <2> QED BY <1>2, <2>1, <2>2 DEF Stage, Began
<1>8. Stopped(j, x)
  BY <1>2, <1>3, <1>4 DEF Stopped, Alive, Final
<1>9. Heard(j, x, << >>, rest)
  <2>3. HasEnd(<< >>) => FALSE
    BY DEF HasEnd
  <2> QED BY <1>4, <2>3 DEF Heard
<1>10. ASSUME AllHeard(k.seen, h, l, x.emitted) PROVE Whole(j, x, << >>, rest)
  <2>1. ASSUME Alive(j) PROVE AllHeard(j.seen, << >>, rest, x.emitted)
    BY <1>1, <1>2, <1>3, <1>6, <1>10, <2>1
  <2>2. ASSUME j.status = "finished" PROVE j.seen = x.emitted
    <3>1. PICK n \in 1..Len(types) : /\ types[n] \in Terminal
                                     /\ a.status = "finished" => a.seen = k.seen \o SubSeq(types, 1, n)
      BY <1>1, <1>2, <2>2 DEF Alive
    <3>2. \A i \in 1..Len(x.emitted) : x.emitted[i] \in Terminal => i = Len(x.emitted)
      OBVIOUS
    <3>3. k.seen \o SubSeq(types, 1, n) = x.emitted
      <4> DEFINE s == k.seen
                 m == x.emitted
      <4>1. /\ s \in Seq(EventTypes) /\ m \in Seq(EventTypes) /\ AllHeard(s \o types, << >>, rest, m)
            /\ types \in Seq(EventTypes) /\ rest \in Seq(EventTypes) /\ n \in 1..Len(types)
            /\ types[n] \in Terminal /\ \A i \in 1..Len(m) : m[i] \in Terminal => i = Len(m)
        BY <1>5, <1>6, <1>10, <2>2, <3>1
      <4> HIDE DEF s, m
      <4>2. s \o SubSeq(types, 1, n) = m
        BY ONLY <4>1, EndIsHeard
      <4> QED BY <4>2 DEF s, m
    <3> QED BY <1>2, <2>2, <3>1, <3>3
  <2> QED BY <2>1, <2>2 DEF Whole
<1> QED BY <1>1, <1>2, <1>3, <1>7, <1>8, <1>9, <1>10 DEF j, a, Fine

-----------------------------------------------------------------------------
(* The router: what it expects, routes and holds                           *)

Awaiting(cl) == {c \in Calls : cl[c].awaits = "id"}
Routed(cl) == {c \in Calls : cl[c].id /\ Alive(cl[c])}

(* But for whether it is attached. *)
Counts(r, cl) ==
  /\ r \in RouterRecords /\ HeldFine(r.held)
  /\ r.expecting = Cardinality(Awaiting(cl))
  /\ r.routes = Routed(cl)

Books(r, cl) == Counts(r, cl) /\ (r.attached <=> (r.expecting > 0 \/ r.routes # {}))

(* Of h is left g: what went was held for no call that awaits its id. *)
Left(h, g, cl) ==
  \A c \in Calls : \/ HeldOf(g, c) = HeldOf(h, c)
                   \/ HeldOf(g, c) = << >> /\ ~(Alive(cl[c]) /\ cl[c].awaits = "id")

LEMMA AwaitingCounted ==
  ASSUME NEW cl
  PROVE  /\ IsFiniteSet(Awaiting(cl)) /\ Cardinality(Awaiting(cl)) \in Nat
         /\ Cardinality(Awaiting(cl)) = 0 <=> Awaiting(cl) = {}
         /\ Cardinality(Awaiting(cl)) <= Cardinality(Calls)
<1>1. Awaiting(cl) \subseteq Calls /\ IsFiniteSet(Calls)
  BY CallsAssumption DEF Awaiting
<1>2. IsFiniteSet(Awaiting(cl))
  BY <1>1, FS_Subset
<1>3. Cardinality(Awaiting(cl)) <= Cardinality(Calls)
  BY <1>1, FS_Subset
<1> QED BY <1>2, <1>3, FS_CardinalityType, FS_EmptySet

LEMMA Detached ==
  ASSUME NEW cl, NEW r, Counts(r, cl), r.attached
  PROVE  Books(MaybeDetach(r), cl) /\ Left(r.held, MaybeDetach(r).held, cl)
<1>1. CASE r.expecting = 0 /\ r.routes = {}
  <2>1. MaybeDetach(r) = [r EXCEPT !.attached = FALSE, !.held = << >>]
    BY <1>1 DEF MaybeDetach
  <2>2. HeldFine(<< >>) /\ << >> \in Seq(Entries) /\ \A c \in Calls : HeldOf(<< >>, c) = << >>
    BY NothingHeld
  <2>3. Awaiting(cl) = {}
    BY <1>1, AwaitingCounted DEF Counts
  <2>4. /\ MaybeDetach(r) \in RouterRecords /\ MaybeDetach(r).held = << >>
        /\ MaybeDetach(r).expecting = r.expecting /\ MaybeDetach(r).routes = r.routes
        /\ MaybeDetach(r).attached = FALSE
    BY <2>1, <2>2 DEF Counts, RouterRecords
  <2>5. Left(r.held, << >>, cl)
    BY <2>2, <2>3 DEF Left, Awaiting
  <2>6. Counts(MaybeDetach(r), cl)
    BY <2>2, <2>4 DEF Counts
  <2> QED BY <1>1, <2>4, <2>5, <2>6 DEF Books
<1>2. CASE ~(r.expecting = 0 /\ r.routes = {})
  <2>1. MaybeDetach(r) = r
    BY <1>2 DEF MaybeDetach
  <2>2. r.expecting > 0 \/ r.routes # {}
    BY <1>2 DEF Counts, RouterRecords
  <2> QED BY <2>1, <2>2 DEF Books, Left
<1> QED BY <1>1, <1>2

(* One answer less is expected. *)
LEMMA Unexpected ==
  ASSUME NEW cl, NEW cm, NEW r \in RouterRecords, HeldFine(r.held), r.attached,
         NEW c \in Awaiting(cl), r.expecting = Cardinality(Awaiting(cl)),
         Awaiting(cm) = Awaiting(cl) \ {c}, r.routes = Routed(cm)
  PROVE  Books(Unexpect(r), cm) /\ Left(r.held, Unexpect(r).held, cm)
<1> DEFINE m == [r EXCEPT !.expecting = IF @ = 0 THEN 0 ELSE @ - 1]
<1>1. r.expecting \in Nat /\ r.expecting # 0
  BY AwaitingCounted DEF RouterRecords
<1>2. Cardinality(Awaiting(cm)) = r.expecting - 1
  BY AwaitingCounted, FS_RemoveElement
<1>3. /\ m \in RouterRecords /\ m.held = r.held /\ m.routes = r.routes /\ m.attached = r.attached
      /\ m.expecting = r.expecting - 1
  <2> DEFINE n == r.expecting - 1
  <2>1. n \in Nat /\ m = [r EXCEPT !.expecting = n]
    BY <1>1
  <2> HIDE DEF n, m
  <2>2. /\ m \in RouterRecords /\ m.held = r.held /\ m.routes = r.routes /\ m.attached = r.attached
        /\ m.expecting = n
    BY <2>1 DEF RouterRecords
  <2> QED BY <2>2 DEF n
<1> HIDE DEF m
<1>4. Counts(m, cm)
  BY <1>2, <1>3 DEF Counts
<1>5. Unexpect(r) = MaybeDetach(m)
  BY DEF Unexpect, m
<1> QED BY <1>3, <1>4, <1>5, Detached

(* The routes of calls that are over go, with what is held for them. *)
LEMMA Released ==
  ASSUME NEW cl, NEW r \in RouterRecords, HeldFine(r.held), r.attached,
         r.expecting = Cardinality(Awaiting(cl)),
         NEW S \in SUBSET Calls, r.routes \ S = Routed(cl), \A c \in S : ~Alive(cl[c])
  PROVE  /\ Books(Release(r, S), cl) /\ Left(r.held, Release(r, S).held, cl)
         /\ r.expecting > 0 =>
              /\ Release(r, S) \in RouterRecords /\ HeldFine(Release(r, S).held)
              /\ Release(r, S).attached /\ Release(r, S).expecting = r.expecting
              /\ Release(r, S).routes = r.routes \ S
              /\ \A c \in Calls : HeldOf(Release(r, S).held, c) =
                                    IF c \in S THEN << >> ELSE HeldOf(r.held, c)
<1> DEFINE m == [r EXCEPT !.routes = @ \ S, !.held = Without(@, S)]
<1>1. /\ HeldFine(Without(r.held, S)) /\ Without(r.held, S) \in Seq(Entries)
      /\ \A c \in Calls : HeldOf(Without(r.held, S), c) = IF c \in S THEN << >> ELSE HeldOf(r.held, c)
  BY WithoutFacts DEF HeldFine
<1>2. /\ m \in RouterRecords /\ m.held = Without(r.held, S) /\ m.routes = r.routes \ S
      /\ m.attached = r.attached /\ m.expecting = r.expecting
  BY <1>1 DEF RouterRecords
<1> HIDE DEF m
<1>3. Counts(m, cl)
  BY <1>1, <1>2 DEF Counts
<1>4. Release(r, S) = MaybeDetach(m)
  BY DEF Release, m
<1>5. Books(Release(r, S), cl) /\ Left(m.held, Release(r, S).held, cl)
  BY <1>2, <1>3, <1>4, Detached
<1>6. Left(r.held, Release(r, S).held, cl)
  BY <1>1, <1>2, <1>5 DEF Left
<1>7. r.expecting > 0 => MaybeDetach(m) = m
  BY <1>2 DEF MaybeDetach, RouterRecords
<1> QED BY <1>1, <1>2, <1>4, <1>5, <1>6, <1>7

(* The id of a call is claimed. *)
LEMMA Claimed ==
  ASSUME NEW r \in RouterRecords, HeldFine(r.held), NEW c \in Calls
  PROVE  /\ Claim(r, c) \in RouterRecords /\ HeldFine(Claim(r, c).held)
         /\ Claim(r, c).attached = r.attached /\ Claim(r, c).expecting = r.expecting
         /\ Claim(r, c).routes = r.routes \cup {c}
         /\ \A b \in Calls : HeldOf(Claim(r, c).held, b) =
                               IF b = c THEN << >> ELSE HeldOf(r.held, b)
<1>1. /\ HeldFine(Without(r.held, {c})) /\ Without(r.held, {c}) \in Seq(Entries)
      /\ \A b \in Calls : HeldOf(Without(r.held, {c}), b) = IF b \in {c} THEN << >> ELSE HeldOf(r.held, b)
  BY WithoutFacts DEF HeldFine
<1>2. /\ Claim(r, c) \in RouterRecords /\ Claim(r, c).held = Without(r.held, {c})
      /\ Claim(r, c).attached = r.attached /\ Claim(r, c).expecting = r.expecting
      /\ Claim(r, c).routes = r.routes \cup {c}
  BY <1>1 DEF Claim, RouterRecords
<1> QED BY <1>1, <1>2

(* The answers of the calls S are expected too. *)
LEMMA Expected ==
  ASSUME NEW cl, NEW cm, NEW r, Books(r, cl), NEW S \in SUBSET Calls,
         S \cap Awaiting(cl) = {}, Awaiting(cm) = Awaiting(cl) \cup S, Routed(cm) = Routed(cl)
  PROVE  LET m == Expect(r, Cardinality(S)) IN Books(m, cm) /\ m.held = r.held
<1> DEFINE n == Cardinality(S)
           m == Expect(r, n)
<1>1. IsFiniteSet(S) /\ n \in Nat
  BY CallsAssumption, FS_Subset, FS_CardinalityType
<1>2. r \in RouterRecords /\ HeldFine(r.held) /\ r.routes = Routed(cl)
      /\ r.expecting = Cardinality(Awaiting(cl)) /\ (r.attached <=> (r.expecting > 0 \/ r.routes # {}))
  BY DEF Books, Counts
<1>3. Cardinality(Awaiting(cm)) = r.expecting + n
  <2>1. IsFiniteSet(Awaiting(cl)) /\ Cardinality(Awaiting(cl)) \in Nat
    BY AwaitingCounted
  <2>2. Cardinality(Awaiting(cl) \cup S) = Cardinality(Awaiting(cl)) + n - Cardinality(Awaiting(cl) \cap S)
    BY <1>1, <2>1, FS_Union
  <2>3. Cardinality(Awaiting(cl) \cap S) = 0
    <3>1. Awaiting(cl) \cap S = {}
      OBVIOUS
    <3> QED BY <3>1, FS_EmptySet
  <2> QED BY <1>1, <1>2, <2>1, <2>2, <2>3
<1> HIDE DEF n
<1>4. /\ m \in RouterRecords /\ m.held = r.held /\ m.routes = r.routes
      /\ m.expecting = r.expecting + n /\ (m.attached <=> r.attached \/ n > 0)
  <2> DEFINE a == r.attached \/ n > 0
             e == r.expecting + n
  <2>1. a \in BOOLEAN /\ e \in Nat /\ m = [r EXCEPT !.attached = a, !.expecting = e]
    BY <1>1, <1>2 DEF Expect, RouterRecords
  <2> HIDE DEF a, e, m
  <2>2. m \in RouterRecords /\ m.held = r.held /\ m.routes = r.routes /\ m.expecting = e /\ m.attached = a
    BY <1>2, <2>1 DEF RouterRecords
  <2> QED BY <2>2 DEF a, e
<1> HIDE DEF m
<1>5. Counts(m, cm)
  BY <1>2, <1>3, <1>4 DEF Counts
<1>6. m.attached <=> (m.expecting > 0 \/ m.routes # {})
  BY <1>1, <1>2, <1>4 DEF RouterRecords
<1> QED BY <1>4, <1>5, <1>6 DEF Books, m, n

-----------------------------------------------------------------------------
(* The inductive invariant, of values                                      *)

AllFine(cl, ex, h, q, d) ==
  \A c \in Calls :
    /\ Fine(cl[c], ex[c], HeldOf(h, c), Coming(q, c))
    /\ c \in d \/ Whole(cl[c], ex[c], HeldOf(h, c), Coming(q, c))

Caches == [token : Tokens \cup {NoToken}, pending : BOOLEAN, minted : 0..MaxTokens]

(* Who waits for a token waits for the request that is out; the token that *)
(* is kept was not refused.                                                *)
TokensFine(ca, rf, cl) ==
  /\ ca \in Caches
  /\ rf \subseteq 1..ca.minted
  /\ ca.token \in (1..ca.minted \cup {NoToken}) \ rf
  /\ ca.pending => ca.token = NoToken
  /\ \A c \in Calls : /\ cl[c].token \in 1..ca.minted \cup {NoToken}
                      /\ cl[c].awaits = "token" => ca.pending

Sessions ==
  [inFlight : SUBSET Calls, begun : 0..MaxDisconnects, closing : SUBSET (SUBSET Calls)]

(* What the disconnect() calls under way wait for is over. *)
Given(se, cl) == \A S \in se.closing : \A b \in S : b \in Calls /\ cl[b].status \in Final

SessionFine(se, cl) ==
  /\ se \in Sessions
  /\ se.inFlight = {c \in Calls : Alive(cl[c])}
  /\ Given(se, cl)

Typed(cl, ex, q, d) ==
  cl \in [Calls -> CallRecords] /\ ex \in [Calls -> Runs] /\ q \in Seq(Events) /\ d \subseteq Calls

Ind ==
  /\ Typed(call, ext, channel, dropped)
  /\ Books(router, call)
  /\ AllFine(call, ext, router.held, channel, dropped)
  /\ TokensFine(cache, refused, call)
  /\ SessionFine(session, call)

(* What goes for no call that awaits its id is missed by none. *)
LEMMA NoneMissed ==
  ASSUME NEW k, NEW x, NEW h, NEW l, Fine(k, x, h, l), k.awaits \in {"none", "token", "id"},
         NEW g, g = h \/ (g = << >> /\ ~(Alive(k) /\ k.awaits = "id"))
  PROVE  Fine(k, x, g, l) /\ (Whole(k, x, h, l) => Whole(k, x, g, l))
<1>1. CASE g = h
  BY <1>1
<1>2. CASE g = << >> /\ ~(Alive(k) /\ k.awaits = "id")
  <2>1. HasEnd(<< >>) => FALSE
    BY DEF HasEnd
  <2>2. Fine(k, x, g, l)
    BY <1>2, <2>1 DEF Fine, Heard
  <2>3. Alive(k) => h = << >>
    BY <1>2 DEF Fine, Heard, Stage, Began
  <2>4. Alive(k) => g = h
    BY <1>2, <2>3
  <2> QED BY <2>2, <2>4 DEF Whole
<1> QED BY <1>1, <1>2

(* Each call stays, or what it becomes is fine. *)
LEMMA SomeMove ==
  ASSUME NEW cl, NEW ex, NEW h, NEW q, NEW d, AllFine(cl, ex, h, q, d),
         NEW cm \in [Calls -> CallRecords], NEW em, NEW g, NEW p, NEW f,
         Left(h, g, cm),
         \A b \in Calls :
           \/ /\ cm[b] = cl[b] /\ em[b] = ex[b] /\ Coming(p, b) = Coming(q, b)
              /\ b \in d => b \in f
           \/ /\ Fine(cm[b], em[b], HeldOf(g, b), Coming(p, b))
              /\ b \in f \/ Whole(cm[b], em[b], HeldOf(g, b), Coming(p, b))
  PROVE  AllFine(cm, em, g, p, f)
<1>1. ASSUME NEW b \in Calls,
             cm[b] = cl[b] /\ em[b] = ex[b] /\ Coming(p, b) = Coming(q, b), b \in d => b \in f
      PROVE  /\ Fine(cm[b], em[b], HeldOf(g, b), Coming(p, b))
             /\ b \in f \/ Whole(cm[b], em[b], HeldOf(g, b), Coming(p, b))
  <2>1. cm[b] \in CallRecords
    OBVIOUS
  <2>2. cm[b].awaits \in {"none", "token", "id"}
    BY <2>1 DEF CallRecords
  <2>3. /\ Fine(cm[b], em[b], HeldOf(h, b), Coming(p, b))
        /\ b \in d \/ Whole(cm[b], em[b], HeldOf(h, b), Coming(p, b))
    BY <1>1 DEF AllFine
  <2>4. HeldOf(g, b) = HeldOf(h, b)
        \/ (HeldOf(g, b) = << >> /\ ~(Alive(cm[b]) /\ cm[b].awaits = "id"))
    BY DEF Left
  <2>5. /\ Fine(cm[b], em[b], HeldOf(g, b), Coming(p, b))
        /\ Whole(cm[b], em[b], HeldOf(h, b), Coming(p, b))
             => Whole(cm[b], em[b], HeldOf(g, b), Coming(p, b))
    <3> DEFINE k == cm[b]
               x == em[b]
               u == HeldOf(h, b)
               v == HeldOf(g, b)
               l == Coming(p, b)
    <3>1. Fine(k, x, u, l) /\ k.awaits \in {"none", "token", "id"}
          /\ (v = u \/ (v = << >> /\ ~(Alive(k) /\ k.awaits = "id")))
      BY <2>2, <2>3, <2>4
    <3> HIDE DEF k, x, u, v, l
    <3>2. Fine(k, x, v, l) /\ (Whole(k, x, u, l) => Whole(k, x, v, l))
      BY <3>1, NoneMissed
    <3> QED BY <3>2 DEF k, x, u, v, l
  <2> QED BY <1>1, <2>3, <2>5
<1> QED BY <1>1 DEF AllFine

(* One call moves. *)
Moves(cl, ex, h, q, d, c, j, y, g, p, f, cm, em) ==
  /\ cl \in [Calls -> CallRecords] /\ ex \in [Calls -> Runs] /\ AllFine(cl, ex, h, q, d)
  /\ c \in Calls /\ j \in CallRecords /\ y \in Runs
  /\ cm = [cl EXCEPT ![c] = j] /\ em = [ex EXCEPT ![c] = y] /\ Left(h, g, cm)
  /\ \A b \in Calls : b # c => Coming(p, b) = Coming(q, b) /\ (b \in d => b \in f)
  /\ Fine(j, y, HeldOf(g, c), Coming(p, c))
  /\ c \in f \/ Whole(j, y, HeldOf(g, c), Coming(p, c))

LEMMA MovesOn ==
  ASSUME NEW cl, NEW ex, NEW h, NEW q, NEW d, NEW c, NEW j, NEW y, NEW g, NEW p, NEW f, NEW cm, NEW em,
         Moves(cl, ex, h, q, d, c, j, y, g, p, f, cm, em)
  PROVE  cm \in [Calls -> CallRecords] /\ em \in [Calls -> Runs] /\ AllFine(cm, em, g, p, f)
<1>0. /\ cl \in [Calls -> CallRecords] /\ ex \in [Calls -> Runs] /\ AllFine(cl, ex, h, q, d)
      /\ c \in Calls /\ j \in CallRecords /\ y \in Runs
      /\ cm = [cl EXCEPT ![c] = j] /\ em = [ex EXCEPT ![c] = y] /\ Left(h, g, cm)
      /\ \A b \in Calls : b # c => Coming(p, b) = Coming(q, b) /\ (b \in d => b \in f)
      /\ Fine(j, y, HeldOf(g, c), Coming(p, c))
      /\ c \in f \/ Whole(j, y, HeldOf(g, c), Coming(p, c))
  BY DEF Moves
<1>1. cm \in [Calls -> CallRecords] /\ em \in [Calls -> Runs] /\ cm[c] = j /\ em[c] = y
  BY <1>0
<1>2. ASSUME NEW b \in Calls
      PROVE  \/ /\ cm[b] = cl[b] /\ em[b] = ex[b] /\ Coming(p, b) = Coming(q, b)
                /\ b \in d => b \in f
             \/ /\ Fine(cm[b], em[b], HeldOf(g, b), Coming(p, b))
                /\ b \in f \/ Whole(cm[b], em[b], HeldOf(g, b), Coming(p, b))
  <2>1. CASE b = c
    BY <1>0, <1>1, <2>1
  <2>2. CASE b # c
    BY <1>0, <2>2
  <2> QED BY <2>1, <2>2
<1>3. AllFine(cm, em, g, p, f)
  <2>1. Left(h, g, cm) /\ AllFine(cl, ex, h, q, d)
    BY <1>0
  <2> QED BY ONLY <1>1, <1>2, <2>1, SomeMove
<1> QED BY <1>1, <1>3

LEMMA OneMoves ==
  ASSUME NEW cl \in [Calls -> CallRecords], NEW ex \in [Calls -> Runs], NEW h, NEW q, NEW d,
         AllFine(cl, ex, h, q, d),
         NEW c \in Calls, NEW j \in CallRecords, NEW y \in Runs, NEW g, NEW p, NEW f,
         NEW cm, NEW em, cm = [cl EXCEPT ![c] = j], em = [ex EXCEPT ![c] = y],
         Left(h, g, cm),
         \A b \in Calls : b # c => Coming(p, b) = Coming(q, b) /\ (b \in d => b \in f),
         Fine(j, y, HeldOf(g, c), Coming(p, c)),
         c \in f \/ Whole(j, y, HeldOf(g, c), Coming(p, c))
  PROVE  cm \in [Calls -> CallRecords] /\ em \in [Calls -> Runs] /\ AllFine(cm, em, g, p, f)
<1>1. Moves(cl, ex, h, q, d, c, j, y, g, p, f, cm, em)
  BY DEF Moves
<1> QED BY ONLY <1>1, MovesOn

(* Tokens after calls moved, and the cache did not. *)
LEMMA TokensMove ==
  ASSUME NEW cl, NEW ca, NEW rf, TokensFine(ca, rf, cl), NEW cm,
         \A b \in Calls : /\ cm[b].token \in {cl[b].token, NoToken}
                          /\ cm[b].awaits = "token" => cl[b].awaits = "token"
  PROVE  TokensFine(ca, rf, cm)
BY DEF TokensFine

LEMMA SessionStays ==
  ASSUME NEW cl, NEW se, SessionFine(se, cl), NEW cm,
         \A b \in Calls : /\ Alive(cm[b]) <=> Alive(cl[b])
                          /\ cl[b].status \in Final => cm[b].status \in Final
  PROVE  SessionFine(se, cm)
BY DEF SessionFine, Sessions, Given

LEMMA SessionEnds ==
  ASSUME NEW cl, NEW se, SessionFine(se, cl), NEW cm, NEW S,
         \A b \in Calls : /\ Alive(cm[b]) <=> Alive(cl[b]) /\ b \notin S
                          /\ cl[b].status \in Final => cm[b].status \in Final
  PROVE  SessionFine([se EXCEPT !.inFlight = @ \ S], cm)
<1>1. se \in Sessions /\ se.inFlight = {b \in Calls : Alive(cl[b])}
      /\ Given(se, cl)
  BY DEF SessionFine
<1> DEFINE I == se.inFlight \ S
           m == [se EXCEPT !.inFlight = I]
<1>2. I = {b \in Calls : Alive(cm[b])}
  BY <1>1
<1> HIDE DEF I
<1>3. m \in Sessions /\ m.inFlight = I /\ m.closing = se.closing
  BY <1>1, <1>2 DEF Sessions
<1> HIDE DEF m
<1>4. SessionFine(m, cm)
  BY <1>1, <1>2, <1>3 DEF SessionFine, Given
<1> QED BY <1>4 DEF m, I

LEMMA SessionMove ==
  ASSUME NEW cl \in [Calls -> CallRecords], NEW se, SessionFine(se, cl), NEW c \in Calls,
         NEW j, cl[c].status \in Final => j.status \in Final, NEW cm, cm = [cl EXCEPT ![c] = j]
  PROVE  /\ Alive(j) <=> Alive(cl[c]) => SessionFine(se, cm)
         /\ ~Alive(j) => SessionFine([se EXCEPT !.inFlight = @ \ {c}], cm)
         /\ Alive(j) => SessionFine([se EXCEPT !.inFlight = @ \cup {c}], cm)
<1>1. \A b \in Calls : cm[b] = IF b = c THEN j ELSE cl[b]
  OBVIOUS
<1>2. /\ se \in Sessions /\ se.inFlight = {b \in Calls : Alive(cl[b])}
      /\ Given(se, cl)
  BY DEF SessionFine
<1>3. Given(se, cm)
  BY <1>1, <1>2 DEF Given
<1>4. {b \in Calls : Alive(cm[b])} =
        ({b \in Calls : Alive(cl[b])} \ {c}) \cup (IF Alive(j) THEN {c} ELSE {})
  BY <1>1
<1>5. ASSUME NEW I \in SUBSET Calls PROVE /\ [se EXCEPT !.inFlight = I] \in Sessions
                                          /\ [se EXCEPT !.inFlight = I].inFlight = I
                                          /\ Given([se EXCEPT !.inFlight = I], cm)
  BY <1>2, <1>3 DEF Sessions, Given
<1>6. ASSUME Alive(j) <=> Alive(cl[c]) PROVE SessionFine(se, cm)
  <2>1. se.inFlight = {b \in Calls : Alive(cm[b])}
    BY <1>2, <1>4, <1>6
  <2> QED BY <1>2, <1>3, <2>1 DEF SessionFine
<1>7. ASSUME ~Alive(j) PROVE SessionFine([se EXCEPT !.inFlight = @ \ {c}], cm)
  <2> DEFINE I == se.inFlight \ {c}
  <2>1. I = {b \in Calls : Alive(cm[b])} /\ I \in SUBSET Calls
    BY <1>2, <1>4, <1>7
  <2> HIDE DEF I
  <2>2. SessionFine([se EXCEPT !.inFlight = I], cm)
    BY <1>5, <2>1 DEF SessionFine
  <2> QED BY <2>2 DEF I
<1>8. ASSUME Alive(j) PROVE SessionFine([se EXCEPT !.inFlight = @ \cup {c}], cm)
  <2> DEFINE I == se.inFlight \cup {c}
  <2>1. I = {b \in Calls : Alive(cm[b])} /\ I \in SUBSET Calls
    BY <1>2, <1>4, <1>8
  <2> HIDE DEF I
  <2>2. SessionFine([se EXCEPT !.inFlight = I], cm)
    BY <1>5, <2>1 DEF SessionFine
  <2> QED BY <2>2 DEF I
<1> QED BY <1>6, <1>7, <1>8

-----------------------------------------------------------------------------
(* One call: how it ends, is cancelled, and stops awaiting                 *)

LEMMA EndRecord ==
  ASSUME NEW k \in CallRecords, NEW s \in {"failed"}
  PROVE  /\ End(k, s) \in CallRecords
         /\ End(k, s) = [k EXCEPT !.status = s, !.guard = k.guard /\ k.awaits = "id",
                                  !.token = NoToken, !.seen = << >>]
<1>1. End(k, s) = [k EXCEPT !.status = s, !.guard = k.guard /\ k.awaits = "id",
                            !.token = NoToken, !.seen = << >>]
  BY DEF End
<1>2. s \in Final /\ << >> \in Seq(EventTypes) /\ (k.guard /\ k.awaits = "id") \in BOOLEAN
  BY DEF Final
<1> QED BY <1>1, <1>2 DEF CallRecords

LEMMA EndFacts ==
  ASSUME NEW k \in CallRecords, NEW s \in {"failed"}
  PROVE  LET j == End(k, s)
         IN  /\ j \in CallRecords /\ j.status = s /\ ~Alive(j) /\ j.status \in Final
             /\ j.awaits = k.awaits /\ j.id = k.id /\ j.ack = k.ack /\ j.token = NoToken
             /\ j.guard <=> (k.guard /\ k.awaits = "id")
<1> DEFINE j == End(k, s)
           b == k.guard /\ k.awaits = "id"
<1>1. /\ j \in CallRecords
      /\ j = [k EXCEPT !.status = s, !.guard = b, !.token = NoToken, !.seen = << >>]
  BY EndRecord
<1> HIDE DEF j, b
<1>2. /\ j.status = s /\ j.awaits = k.awaits /\ j.id = k.id /\ j.ack = k.ack /\ j.token = NoToken
      /\ j.guard = b
  BY <1>1 DEF CallRecords
<1> QED BY <1>1, <1>2 DEF j, b, Alive, Final

LEMMA CancelFacts ==
  ASSUME NEW k \in CallRecords
  PROVE  LET j == SendCancel(k)
         IN  /\ j \in CallRecords /\ j.status = k.status /\ j.awaits = k.awaits /\ j.id = k.id
             /\ j.token = k.token /\ j.seen = k.seen /\ j.guard = k.guard
             /\ j.ack = (IF k.ack = "none" THEN "sent" ELSE k.ack)
BY DEF SendCancel, CallRecords

LEMMA StopFacts ==
  ASSUME NEW k \in CallRecords
  PROVE  LET j == StopAwaiting(k)
         IN  /\ j \in CallRecords /\ j.status = k.status /\ j.awaits = "none" /\ j.id = k.id
             /\ j.token = k.token /\ j.seen = k.seen /\ j.ack = k.ack
             /\ j.guard <=> (k.guard /\ k.status \notin Final)
<1> DEFINE j == StopAwaiting(k)
           b == k.guard /\ k.status \notin Final
<1>1. b \in BOOLEAN /\ j = [k EXCEPT !.awaits = "none", !.guard = b]
  BY DEF StopAwaiting
<1> HIDE DEF j, b
<1>2. /\ j \in CallRecords /\ j.status = k.status /\ j.awaits = "none" /\ j.id = k.id
      /\ j.token = k.token /\ j.seen = k.seen /\ j.ack = k.ack /\ j.guard = b
  BY <1>1 DEF CallRecords
<1> QED BY <1>2 DEF j, b

(* cancel(), the signal, the guard, disconnect(). *)
LEMMA Abandoned ==
  ASSUME NEW k \in CallRecords, NEW x, NEW h, NEW l, Fine(k, x, h, l), Alive(k),
         NEW s \in {"failed"}
  PROVE  LET j == IF k.id THEN SendCancel(End(k, s)) ELSE End(k, s)
         IN  /\ j \in CallRecords /\ j.status = s /\ j.status \in Final /\ ~Alive(j)
             /\ j.awaits = k.awaits /\ j.id = k.id /\ j.token = NoToken
             /\ Fine(j, x, h, l) /\ Whole(j, x, h, l)
<1> DEFINE e == End(k, s)
           j == IF k.id THEN SendCancel(e) ELSE e
<1>1. /\ e \in CallRecords /\ e.status = s /\ e.awaits = k.awaits /\ e.id = k.id /\ e.ack = k.ack
      /\ e.token = NoToken /\ (e.guard <=> (k.guard /\ k.awaits = "id"))
  BY EndFacts
<1> HIDE DEF e
<1>2. /\ j \in CallRecords /\ j.status = s /\ j.awaits = k.awaits /\ j.id = k.id /\ j.token = NoToken
      /\ (j.guard <=> (k.guard /\ k.awaits = "id"))
      /\ k.id => j.ack # "none"
      /\ ~k.id => j.ack = k.ack
      /\ j.ack = "done" <=> k.ack = "done"
      /\ j.ack \in {"none", "sent", "done", "refused"}
  <2>1. CASE k.id
    <3>1. k.ack \in {"none", "sent", "done", "refused"}
      BY DEF CallRecords
    <3> QED BY <1>1, <2>1, <3>1, CancelFacts
  <2>2. CASE ~k.id
    BY <1>1, <2>2 DEF CallRecords
  <2> QED BY <2>1, <2>2
<1> HIDE DEF j
<1>3. j.status \in Final /\ ~Alive(j) /\ j.status \notin {"none", "finished"}
  BY <1>2 DEF Alive, Final
<1>4. Stage(k, x) /\ Stopped(k, x) /\ Heard(k, x, h, l)
  BY DEF Fine
<1>5. Stage(j, x)
  <2>1. k.status # "none"
    BY DEF Alive
  <2>2. Began(x) \/ ~k.id
    BY <1>4 DEF Stage
  <2> QED BY <1>2, <1>3, <1>4, <2>1, <2>2 DEF Stage
<1>6. Stopped(j, x)
  BY <1>2, <1>3, <1>4 DEF Stopped
<1>7. Heard(j, x, h, l)
  BY <1>3, <1>4 DEF Heard
<1>8. Whole(j, x, h, l)
  BY <1>3 DEF Whole
<1> QED BY <1>2, <1>3, <1>5, <1>6, <1>7, <1>8 DEF Fine, j, e

(* The answer of a call that is over is no longer awaited. *)
LEMMA AwaitedNoMore ==
  ASSUME NEW k \in CallRecords, NEW x, NEW h, NEW l, Fine(k, x, h, l), k.status \in Final
  PROVE  LET j == StopAwaiting(k)
         IN  /\ j \in CallRecords /\ ~Alive(j) /\ j.status = k.status
             /\ Fine(j, x, h, l) /\ (Whole(k, x, h, l) => Whole(j, x, h, l))
<1> DEFINE j == StopAwaiting(k)
<1>1. /\ j \in CallRecords /\ j.status = k.status /\ j.awaits = "none" /\ j.id = k.id
      /\ j.token = k.token /\ j.seen = k.seen /\ j.ack = k.ack /\ ~j.guard
  BY StopFacts
<1> HIDE DEF j
<1>2. ~Alive(k) /\ ~Alive(j) /\ k.status # "none"
  BY <1>1 DEF Alive, Final
<1>3. Fine(j, x, h, l)
  BY <1>1, <1>2 DEF Fine, Stage, Stopped, Heard
<1>4. Whole(k, x, h, l) => Whole(j, x, h, l)
  BY <1>1, <1>2 DEF Whole
<1> QED BY <1>1, <1>2, <1>3, <1>4 DEF j

(* An answer comes for a call that gave up on it, or is over. *)
LEMMA LateAnswer ==
  ASSUME NEW k \in CallRecords, NEW x \in Runs, NEW h, NEW l, Fine(k, x, h, l), x.answer = "id",
         k.awaits # "id" \/ k.status \in Final,
         NEW j, j = IF k.awaits # "id" THEN SendCancel(k)
                    ELSE StopAwaiting(SendCancel([k EXCEPT !.id = TRUE]))
  PROVE  LET y == [x EXCEPT !.answer = "none"]
         IN  /\ j \in CallRecords /\ y \in Runs /\ j.status = k.status /\ j.token = k.token
             /\ j.awaits = (IF k.awaits = "id" THEN "none" ELSE k.awaits)
             /\ Alive(j) <=> Alive(k)
             /\ j.id /\ Alive(j) <=> k.id /\ Alive(k)
             /\ Fine(j, y, h, l) /\ (Whole(k, x, h, l) => Whole(j, y, h, l))
<1> DEFINE y == [x EXCEPT !.answer = "none"]
           i == [k EXCEPT !.id = TRUE]
<1>1. y \in Runs /\ y.run = x.run /\ y.answer = "none" /\ y.emitted = x.emitted
  BY DEF Runs
<1>2. /\ i \in CallRecords /\ i.status = k.status /\ i.awaits = k.awaits /\ i.id
      /\ i.token = k.token /\ i.seen = k.seen /\ i.guard = k.guard /\ i.ack = k.ack
  BY DEF CallRecords
<1> HIDE DEF y, i
<1>3. ~k.id /\ Began(x) /\ Began(y)
  BY <1>1 DEF Fine, Stage, Began
<1>4. k.ack \in {"none", "sent", "done", "refused"}
  BY DEF CallRecords
<1>5. CASE k.awaits # "id"
  <2>1. /\ j \in CallRecords /\ j.status = k.status /\ j.awaits = k.awaits /\ j.id = k.id
        /\ j.token = k.token /\ j.seen = k.seen /\ j.guard = k.guard
        /\ j.ack = (IF k.ack = "none" THEN "sent" ELSE k.ack)
    BY <1>5, CancelFacts
  <2>2. Alive(j) <=> Alive(k)
    BY <2>1 DEF Alive
  <2>3. Fine(j, y, h, l)
    BY <1>1, <1>3, <1>4, <2>1, <2>2 DEF Fine, Stage, Stopped, Heard
  <2>4. Whole(k, x, h, l) => Whole(j, y, h, l)
    BY <1>1, <2>1, <2>2 DEF Whole
  <2> QED BY <1>1, <1>5, <2>1, <2>2, <2>3, <2>4 DEF y
<1>6. CASE k.awaits = "id"
  <2> DEFINE m == SendCancel(i)
  <2>1. /\ m \in CallRecords /\ m.status = k.status /\ m.id /\ m.token = k.token /\ m.seen = k.seen
        /\ m.ack = (IF k.ack = "none" THEN "sent" ELSE k.ack)
    BY <1>2, CancelFacts
  <2>2. j = StopAwaiting(m)
    BY <1>6 DEF i
  <2> HIDE DEF m
  <2>3. /\ j \in CallRecords /\ j.status = k.status /\ j.awaits = "none" /\ j.id
        /\ j.token = k.token /\ j.seen = k.seen /\ j.ack = (IF k.ack = "none" THEN "sent" ELSE k.ack)
        /\ ~j.guard
    BY <1>6, <2>1, <2>2, StopFacts
  <2>4. ~Alive(j) /\ ~Alive(k) /\ k.status # "none"
    BY <1>6, <2>3 DEF Alive, Final
  <2>5. Fine(j, y, h, l)
    BY <1>1, <1>3, <1>4, <1>6, <2>3, <2>4 DEF Fine, Stage, Stopped, Heard
  <2>6. Whole(k, x, h, l) => Whole(j, y, h, l)
    BY <1>1, <2>3, <2>4 DEF Whole
  <2> QED BY <1>1, <1>6, <2>3, <2>4, <2>5, <2>6 DEF y
<1> QED BY <1>5, <1>6

-----------------------------------------------------------------------------
(* A call begins                                                           *)

LEMMA SameBooks ==
  ASSUME NEW r, NEW cl, NEW cm, Books(r, cl), Awaiting(cm) = Awaiting(cl), Routed(cm) = Routed(cl)
  PROVE  Books(r, cm)
BY DEF Books, Counts

LEMMA NothingLeft == \A h, cl : Left(h, h, cl)
BY DEF Left

LEMMA EmptyIsAll == AllHeard(<< >>, << >>, << >>, << >>)
BY DEF AllHeard

(* What Ind says of a call. *)
LEMMA OfCall ==
  ASSUME Ind, NEW c \in Calls
  PROVE  /\ call[c] \in CallRecords /\ ext[c] \in Runs
         /\ Fine(call[c], ext[c], HeldOf(router.held, c), Coming(channel, c))
         /\ c \in dropped \/ Whole(call[c], ext[c], HeldOf(router.held, c), Coming(channel, c))
         /\ HeldOf(router.held, c) \in Seq(EventTypes) /\ Coming(channel, c) \in Seq(EventTypes)
         /\ call[c].awaits \in {"none", "token", "id"} /\ call[c].ack \in {"none", "sent", "done", "refused"}
         /\ call[c].status \in {"none", "pending", "running"} \cup Final
         /\ call[c].seen \in Seq(EventTypes)
<1>1. call \in [Calls -> CallRecords] /\ ext \in [Calls -> Runs] /\ channel \in Seq(Events)
  BY DEF Ind, Typed
<1>2. HeldFine(router.held)
  BY DEF Ind, Books, Counts
<1>3. call[c] \in CallRecords
  BY <1>1
<1>4. /\ call[c].awaits \in {"none", "token", "id"} /\ call[c].ack \in {"none", "sent", "done", "refused"}
      /\ call[c].status \in {"none", "pending", "running"} \cup Final
      /\ call[c].seen \in Seq(EventTypes)
  BY <1>3 DEF CallRecords
<1> QED BY <1>1, <1>2, <1>3, <1>4, HeldAt, ComingTyped DEF Ind, AllFine

LEMMA CallFailsStep ==
  ASSUME Ind, NEW c \in Calls, CallFails(c)
  PROVE  Ind'
<1> DEFINE k == call[c]
           h == HeldOf(router.held, c)
           l == Coming(channel, c)
<1>1. call' = [call EXCEPT ![c].status = "failed"]
  BY DEF CallFails
<1>2. /\ k.status = "none" /\ router' = router /\ session' = session /\ cache' = cache /\ ext' = ext
      /\ channel' = channel /\ dropped' = dropped /\ refused' = refused
  BY DEF CallFails, NotMade
<1>3. k \in CallRecords /\ ext[c] \in Runs /\ Fine(k, ext[c], h, l)
  BY OfCall
<1> DEFINE j == [k EXCEPT !.status = "failed"]
<1>4. call' = [call EXCEPT ![c] = j] /\ ext' = [ext EXCEPT ![c] = ext[c]] /\ call \in [Calls -> CallRecords]
      /\ ext \in [Calls -> Runs]
  BY <1>1, <1>2 DEF Ind, Typed
<1>5. /\ j \in CallRecords /\ j.status = "failed" /\ j.awaits = k.awaits /\ j.id = k.id /\ j.token = k.token
      /\ j.ack = k.ack /\ j.guard = k.guard /\ j.seen = k.seen
  BY <1>3 DEF CallRecords, Final
<1>6. ~Alive(k) /\ ~Alive(j) /\ j.status \in Final /\ k.awaits = "none" /\ ext[c].run = "none"
  BY <1>2, <1>3, <1>5 DEF Alive, Final, Fine, Stage
<1> HIDE DEF j
<1>7. Fine(j, ext[c], h, l) /\ Whole(j, ext[c], h, l)
  <2> DEFINE x == ext[c]
  <2>1. Fine(k, x, h, l) /\ x.run = "none" /\ ~Began(x)
    BY <1>3, <1>6 DEF Began
  <2> HIDE DEF k, x, h, l
  <2>2. Stage(j, x)
    BY <1>5, <1>6, <2>1 DEF Fine, Stage, Final
  <2>3. Stopped(j, x)
    BY <1>5, <1>6, <2>1 DEF Fine, Stage, Stopped
  <2>4. Heard(j, x, h, l)
    BY <1>6, <2>1 DEF Fine, Heard
  <2>5. Whole(j, x, h, l)
    BY <1>5, <1>6 DEF Whole
  <2> QED BY <2>2, <2>3, <2>4, <2>5 DEF Fine, x
<1>8. /\ Awaiting(call') = Awaiting(call) /\ Routed(call') = Routed(call)
  <2>1. \A b \in Calls : call'[b] = IF b = c THEN j ELSE call[b]
    BY <1>4
  <2> QED BY <1>5, <1>6, <2>1 DEF Awaiting, Routed
<1>9. Typed(call', ext', channel', dropped') /\ AllFine(call', ext', router'.held, channel', dropped')
  <2>1. AllFine(call, ext, router.held, channel, dropped) /\ Left(router.held, router.held, call')
    BY NothingLeft DEF Ind
  <2>2. call' \in [Calls -> CallRecords] /\ ext' \in [Calls -> Runs]
        /\ AllFine(call', ext', router.held, channel, dropped)
    <3> DEFINE x == ext[c]
    <3>1. /\ x \in Runs /\ j \in CallRecords /\ c \in Calls /\ call \in [Calls -> CallRecords]
          /\ ext \in [Calls -> Runs] /\ call' = [call EXCEPT ![c] = j] /\ ext' = [ext EXCEPT ![c] = x]
          /\ Fine(j, x, h, l) /\ Whole(j, x, h, l)
      BY <1>3, <1>4, <1>5, <1>7
    <3> HIDE DEF x
    <3> QED BY ONLY <2>1, <3>1, OneMoves
  <2> QED BY <1>2, <2>2 DEF Ind, Typed
<1>10. TokensFine(cache', refused', call')
  <2>1. TokensFine(cache, refused, call) /\ j.token = call[c].token /\ j.awaits = call[c].awaits
    BY <1>5 DEF Ind
  <2>3. \A b \in Calls : call'[b] = IF b = c THEN j ELSE call[b]
    BY <1>4
  <2>2. TokensFine(cache, refused, call')
    BY <2>1, <2>3, TokensMove
  <2> QED BY <1>2, <2>2
<1>11. SessionFine(session', call')
  BY <1>2, <1>4, <1>6, SessionMove DEF Ind
<1> QED BY <1>2, <1>8, <1>9, <1>10, <1>11, SameBooks DEF Ind

(* writ_call goes out, with the token that is kept or without one. *)
LEMMA SentStep ==
  ASSUME Ind, NEW c \in Calls, call[c].status = "none", NEW t \in {NoToken, cache.token},
         session' = [session EXCEPT !.inFlight = @ \cup {c}],
         SendCalls({c}, t), UNCHANGED <<cache, channel, dropped, refused>>
  PROVE  Ind'
<1> DEFINE k == call[c]
           x == ext[c]
           h == HeldOf(router.held, c)
           l == Coming(channel, c)
           j == [k EXCEPT !.status = "pending", !.awaits = "id", !.guard = TRUE, !.token = t]
           y == [x EXCEPT !.run = "asked"]
<1>1. k \in CallRecords /\ x \in Runs /\ Fine(k, x, h, l)
  BY OfCall
<1>2. call \in [Calls -> CallRecords] /\ ext \in [Calls -> Runs] /\ TokensFine(cache, refused, call)
  BY DEF Ind, Typed
<1>3. \A b \in Calls : call[b].awaits = "token" => t = NoToken
  BY <1>2 DEF TokensFine
<1>4. call' = [call EXCEPT ![c] = j] /\ ext' = [ext EXCEPT ![c] = y]
  <2>1. call' = [b \in Calls |-> IF b = c THEN j ELSE call[b]]
    BY <1>3 DEF SendCalls
  <2>2. ext' = [b \in Calls |-> IF b = c THEN y ELSE ext[b]]
    BY DEF SendCalls
  <2> HIDE DEF j, y
  <2> QED BY <1>2, <2>1, <2>2
<1>5. t \in Tokens \cup {NoToken} /\ t \in 1..cache.minted \cup {NoToken}
  <2>1. cache.token \in Tokens \cup {NoToken} /\ cache.token \in 1..cache.minted \cup {NoToken}
    BY <1>2 DEF TokensFine, Caches
  <2> QED BY <2>1
<1>6. /\ j \in CallRecords /\ j.status = "pending" /\ j.awaits = "id" /\ j.id = k.id /\ j.token = t
      /\ j.ack = k.ack /\ j.guard = TRUE /\ j.seen = k.seen
  BY <1>1, <1>5 DEF CallRecords
<1>7. y \in Runs /\ y.run = "asked" /\ y.answer = x.answer /\ y.emitted = x.emitted
  BY <1>1 DEF Runs
<1> HIDE DEF j, y
<1>8. /\ ~Alive(k) /\ Alive(j) /\ k.awaits = "none" /\ x.run = "none" /\ k.seen = << >> /\ ~k.id
      /\ k.ack = "none" /\ x.answer = "none" /\ x.emitted = << >> /\ h = << >> /\ l = << >>
      /\ ~Began(x) /\ ~Began(y)
  BY <1>1, <1>6, <1>7 DEF Alive, Fine, Stage, Heard, Began
<1>9. Fine(j, y, h, l)
  <2>1. HasEnd(h) => FALSE
    BY <1>8 DEF HasEnd
  <2>2. Stage(j, y)
    BY <1>6, <1>7, <1>8 DEF Stage, Began
  <2>3. Stopped(j, y)
    BY <1>6, <1>7, <1>8 DEF Stopped, Final
  <2>4. Heard(j, y, h, l)
    BY <1>6, <1>7, <1>8, <2>1 DEF Heard
  <2> QED BY <2>2, <2>3, <2>4 DEF Fine
<1>10. Whole(j, y, h, l)
  BY <1>6, <1>7, <1>8, EmptyIsAll DEF Whole
<1>11. /\ Awaiting(call') = Awaiting(call) \cup {c} /\ c \notin Awaiting(call)
       /\ Routed(call') = Routed(call)
  <2>1. \A b \in Calls : call'[b] = IF b = c THEN j ELSE call[b]
    BY <1>2, <1>4
  <2> QED BY <1>6, <1>8, <2>1 DEF Awaiting, Routed
<1>12. Books(router', call') /\ router'.held = router.held
  <2>1. router' = Expect(router, Cardinality({c})) /\ Books(router, call)
    BY DEF SendCalls, Ind
  <2> QED BY <1>11, <2>1, Expected
<1>13. Typed(call', ext', channel', dropped') /\ AllFine(call', ext', router'.held, channel', dropped')
  <2>1. AllFine(call, ext, router.held, channel, dropped) /\ Left(router.held, router.held, call')
    BY NothingLeft DEF Ind
  <2>2. call' \in [Calls -> CallRecords] /\ ext' \in [Calls -> Runs]
        /\ AllFine(call', ext', router.held, channel, dropped)
    BY <1>2, <1>4, <1>6, <1>7, <1>9, <1>10, <2>1, OneMoves
  <2> QED BY <1>12, <2>2 DEF Ind, Typed
<1>14. TokensFine(cache', refused', call')
  <2>1. \A b \in Calls : call'[b] = IF b = c THEN j ELSE call[b]
    BY <1>2, <1>4
  <2> QED BY <1>2, <1>5, <1>6, <2>1 DEF TokensFine
<1>15. SessionFine(session', call')
  <2>1. ~(k.status \in Final)
    BY DEF Final
  <2> QED BY <1>2, <1>4, <1>8, <2>1, SessionMove DEF Ind
<1> QED BY <1>12, <1>13, <1>14, <1>15 DEF Ind

LEMMA AsksStep ==
  ASSUME Ind, NEW c \in Calls, CallAsksForToken(c)
  PROVE  Ind'
<1> DEFINE k == call[c]
           x == ext[c]
           h == HeldOf(router.held, c)
           l == Coming(channel, c)
           j == [k EXCEPT !.status = "pending", !.awaits = "token", !.guard = TRUE]
<1>1. k \in CallRecords /\ x \in Runs /\ Fine(k, x, h, l)
  BY OfCall
<1>2. call \in [Calls -> CallRecords] /\ ext \in [Calls -> Runs] /\ TokensFine(cache, refused, call)
  BY DEF Ind, Typed
<1>3. /\ k.status = "none" /\ router' = router /\ ext' = ext /\ channel' = channel
      /\ dropped' = dropped /\ refused' = refused
      /\ session' = [session EXCEPT !.inFlight = @ \cup {c}]
      /\ cache' = [cache EXCEPT !.token = NoToken, !.pending = TRUE]
  BY DEF CallAsksForToken, NotMade
<1>4. call' = [call EXCEPT ![c] = j] /\ ext' = [ext EXCEPT ![c] = x]
  BY <1>2, <1>3 DEF CallAsksForToken
<1>5. /\ j \in CallRecords /\ j.status = "pending" /\ j.awaits = "token" /\ j.id = k.id
      /\ j.token = k.token /\ j.ack = k.ack /\ j.guard = TRUE /\ j.seen = k.seen
  BY <1>1 DEF CallRecords
<1> HIDE DEF j
<1>6. /\ ~Alive(k) /\ Alive(j) /\ k.awaits = "none" /\ x.run = "none" /\ k.seen = << >> /\ ~k.id
      /\ k.ack = "none" /\ x.answer = "none" /\ x.emitted = << >> /\ h = << >> /\ l = << >> /\ ~Began(x)
  BY <1>1, <1>3, <1>5 DEF Alive, Fine, Stage, Heard, Began
<1>7. Fine(j, x, h, l)
  <2>1. HasEnd(h) => FALSE
    BY <1>6 DEF HasEnd
  <2>2. Stage(j, x)
    BY <1>5, <1>6 DEF Stage, Began
  <2>3. Stopped(j, x)
    BY <1>5, <1>6 DEF Stopped, Final
  <2>4. Heard(j, x, h, l)
    BY <1>5, <1>6, <2>1 DEF Heard
  <2> QED BY <2>2, <2>3, <2>4 DEF Fine
<1>8. Whole(j, x, h, l)
  BY <1>5, <1>6, EmptyIsAll DEF Whole
<1>9. Awaiting(call') = Awaiting(call) /\ Routed(call') = Routed(call)
  <2>1. \A b \in Calls : call'[b] = IF b = c THEN j ELSE call[b]
    BY <1>2, <1>4
  <2> QED BY <1>5, <1>6, <2>1 DEF Awaiting, Routed
<1>10. Typed(call', ext', channel', dropped') /\ AllFine(call', ext', router'.held, channel', dropped')
  <2>1. AllFine(call, ext, router.held, channel, dropped) /\ Left(router.held, router.held, call')
    BY NothingLeft DEF Ind
  <2>2. call' \in [Calls -> CallRecords] /\ ext' \in [Calls -> Runs]
        /\ AllFine(call', ext', router.held, channel, dropped)
    <3>1. x \in Runs /\ j \in CallRecords /\ c \in Calls /\ call \in [Calls -> CallRecords]
          /\ ext \in [Calls -> Runs]
      BY <1>1, <1>2, <1>5
    <3> HIDE DEF x
    <3> QED BY ONLY <1>4, <1>7, <1>8, <2>1, <3>1, OneMoves
  <2> QED BY <1>3, <2>2 DEF Ind, Typed
<1>11. TokensFine(cache', refused', call')
  <2>1. \A b \in Calls : call'[b] = IF b = c THEN j ELSE call[b]
    BY <1>2, <1>4
  <2>2. cache' \in Caches /\ cache'.token = NoToken /\ cache'.pending /\ cache'.minted = cache.minted
    BY <1>2, <1>3 DEF TokensFine, Caches
  <2>3. NoToken \notin refused
    <3>1. refused \subseteq Nat
      BY <1>2 DEF TokensFine, Caches
    <3> QED BY <3>1, CallsAssumption
  <2> QED BY <1>2, <1>3, <1>5, <2>1, <2>2, <2>3 DEF TokensFine
<1>12. SessionFine(session', call')
  <2>1. ~(k.status \in Final)
    BY <1>3 DEF Final
  <2> QED BY <1>2, <1>3, <1>4, <1>6, <2>1, SessionMove DEF Ind
<1>13. Books(router', call')
  BY <1>3, <1>9, SameBooks DEF Ind
<1> QED BY <1>10, <1>11, <1>12, <1>13 DEF Ind

-----------------------------------------------------------------------------
(* The run token                                                           *)

(* A call that is over no longer waits for the token. *)
LEMMA WaitsNoMore ==
  ASSUME NEW k \in CallRecords, NEW x, NEW h, NEW l, Fine(k, x, h, l),
         k.awaits = "token", k.status \in Final
  PROVE  LET j == [k EXCEPT !.awaits = "none"]
         IN  /\ j \in CallRecords /\ j.status = k.status /\ j.awaits = "none" /\ j.token = k.token
             /\ j.id = k.id /\ ~Alive(j) /\ ~Alive(k)
             /\ Fine(j, x, h, l) /\ (Whole(k, x, h, l) => Whole(j, x, h, l))
<1> DEFINE j == [k EXCEPT !.awaits = "none"]
<1>1. /\ j \in CallRecords /\ j.status = k.status /\ j.awaits = "none" /\ j.id = k.id
      /\ j.token = k.token /\ j.seen = k.seen /\ j.ack = k.ack /\ j.guard = k.guard
  BY DEF CallRecords
<1> HIDE DEF j
<1>2. ~Alive(k) /\ ~Alive(j) /\ k.status # "none"
  BY <1>1 DEF Alive, Final
<1>3. Fine(j, x, h, l)
  BY <1>1, <1>2 DEF Fine, Stage, Stopped, Heard
<1>4. Whole(k, x, h, l) => Whole(j, x, h, l)
  BY <1>1, <1>2 DEF Whole
<1> QED BY <1>1, <1>2, <1>3, <1>4 DEF j

(* A call that waited goes out with the token. *)
LEMMA GoesOut ==
  ASSUME NEW k \in CallRecords, NEW x \in Runs, NEW h, NEW l, Fine(k, x, h, l),
         k.awaits = "token", k.status \notin Final, NEW t \in Tokens
  PROVE  LET j == [k EXCEPT !.status = "pending", !.awaits = "id", !.guard = TRUE, !.token = t]
             y == [x EXCEPT !.run = "asked"]
         IN  /\ j \in CallRecords /\ y \in Runs /\ j.awaits = "id" /\ j.token = t /\ j.status = "pending"
             /\ ~j.id /\ ~k.id /\ Alive(k) /\ Alive(j)
             /\ Fine(j, y, h, l) /\ (Whole(k, x, h, l) => Whole(j, y, h, l))
<1> DEFINE j == [k EXCEPT !.status = "pending", !.awaits = "id", !.guard = TRUE, !.token = t]
           y == [x EXCEPT !.run = "asked"]
<1>1. /\ j \in CallRecords /\ j.status = "pending" /\ j.awaits = "id" /\ j.id = k.id
      /\ j.token = t /\ j.seen = k.seen /\ j.ack = k.ack /\ j.guard
  BY DEF CallRecords
<1>2. y \in Runs /\ y.run = "asked" /\ y.answer = x.answer /\ y.emitted = x.emitted
  BY DEF Runs
<1>3. k.status \in {"none", "pending", "running"} \cup Final
  BY DEF CallRecords
<1> HIDE DEF j, y
<1>4. /\ Alive(k) /\ Alive(j) /\ x.run = "none" /\ ~k.id /\ k.ack = "none" /\ x.answer = "none"
      /\ x.emitted = << >> /\ h = << >> /\ l = << >> /\ ~Began(x) /\ ~Began(y)
  BY <1>1, <1>2, <1>3 DEF Alive, Fine, Stage, Heard, Began
<1>5. Stage(j, y)
  BY <1>1, <1>2, <1>4 DEF Stage, Began
<1>6. Stopped(j, y)
  BY <1>1, <1>2, <1>4 DEF Stopped, Final
<1>7. Heard(j, y, h, l)
  <2>1. HasEnd(h) => FALSE
    BY <1>4 DEF HasEnd
  <2> QED BY <1>1, <1>2, <1>4, <2>1 DEF Heard
<1>8. Whole(k, x, h, l) => Whole(j, y, h, l)
  BY <1>1, <1>2, <1>4 DEF Whole
<1> QED BY <1>1, <1>2, <1>4, <1>5, <1>6, <1>7, <1>8 DEF Fine, j, y

LEMMA TokenArrivesStep ==
  ASSUME Ind, NEW kept \in BOOLEAN, TokenArrives(kept)
  PROVE  Ind'
<1> DEFINE t == cache.minted + 1
           S == {c \in Calls : call[c].awaits = "token" /\ ~Settled(c)}
           W == {c \in Calls : call[c].awaits = "token"}
<1>1. /\ cache.pending /\ t \in Tokens /\ SendCalls(S, t) /\ session' = session
      /\ channel' = channel /\ dropped' = dropped /\ refused' = refused
      /\ cache' = [token |-> IF kept THEN t ELSE cache.token, pending |-> FALSE, minted |-> t]
  BY DEF TokenArrives
<1>2. /\ call \in [Calls -> CallRecords] /\ ext \in [Calls -> Runs] /\ TokensFine(cache, refused, call)
      /\ Books(router, call) /\ AllFine(call, ext, router.held, channel, dropped)
      /\ SessionFine(session, call)
  BY DEF Ind, Typed
<1>3. t # NoToken /\ t \in Nat
  BY <1>1, CallsAssumption DEF Tokens
<1> HIDE DEF t
<1>4. call' = [c \in Calls |->
        IF c \in S THEN [call[c] EXCEPT !.status = "pending", !.awaits = "id", !.guard = TRUE, !.token = t]
        ELSE IF c \in W THEN [call[c] EXCEPT !.awaits = "none"] ELSE call[c]]
  BY <1>1, <1>3 DEF SendCalls
<1>5. ext' = [c \in Calls |-> IF c \in S THEN [ext[c] EXCEPT !.run = "asked"] ELSE ext[c]]
  BY <1>1 DEF SendCalls
<1>6. ASSUME NEW c \in Calls
      PROVE  /\ call'[c] \in CallRecords /\ ext'[c] \in Runs
             /\ c \notin W => call'[c] = call[c] /\ ext'[c] = ext[c]
             /\ c \in W => /\ Fine(call'[c], ext'[c], HeldOf(router.held, c), Coming(channel, c))
                           /\ c \in dropped
                              \/ Whole(call'[c], ext'[c], HeldOf(router.held, c), Coming(channel, c))
             /\ Alive(call'[c]) <=> Alive(call[c])
             /\ call[c].status \in Final => call'[c].status \in Final
             /\ call'[c].token \in {t, call[c].token} /\ call'[c].awaits # "token"
             /\ call'[c].awaits = "id" <=> call[c].awaits = "id" \/ c \in S
             /\ call'[c].id /\ Alive(call'[c]) <=> call[c].id /\ Alive(call[c])
  <2> DEFINE k == call[c]
             x == ext[c]
             h == HeldOf(router.held, c)
             l == Coming(channel, c)
  <2>1. /\ k \in CallRecords /\ x \in Runs /\ Fine(k, x, h, l) /\ (c \in dropped \/ Whole(k, x, h, l))
    BY OfCall
  <2>2. CASE c \in S
    <3> DEFINE j == [k EXCEPT !.status = "pending", !.awaits = "id", !.guard = TRUE, !.token = t]
               y == [x EXCEPT !.run = "asked"]
    <3>1. call'[c] = j /\ ext'[c] = y
      BY <1>4, <1>5, <2>2
    <3>2. k.awaits = "token" /\ k.status \notin Final
      BY <2>2 DEF Settled
    <3>3. /\ j \in CallRecords /\ y \in Runs /\ j.awaits = "id" /\ j.token = t /\ j.status = "pending"
          /\ ~j.id /\ ~k.id /\ Alive(k) /\ Alive(j)
          /\ Fine(j, y, h, l) /\ (Whole(k, x, h, l) => Whole(j, y, h, l))
      <4> HIDE DEF k, x, h, l
      <4> QED BY <1>1, <2>1, <3>2, GoesOut
    <3> HIDE DEF j, y
    <3>4. c \in W /\ call[c].status \notin Final
      BY <2>2, <3>2
    <3> QED BY <2>1, <2>2, <3>1, <3>3, <3>4
  <2>3. CASE c \in W /\ c \notin S
    <3> DEFINE j == [k EXCEPT !.awaits = "none"]
    <3>1. call'[c] = j /\ ext'[c] = x
      BY <1>4, <1>5, <2>3
    <3>2. k.awaits = "token" /\ k.status \in Final
      BY <2>3 DEF Settled
    <3>3. /\ j \in CallRecords /\ j.status = k.status /\ j.awaits = "none" /\ j.token = k.token
          /\ j.id = k.id /\ ~Alive(j) /\ ~Alive(k)
          /\ Fine(j, x, h, l) /\ (Whole(k, x, h, l) => Whole(j, x, h, l))
      <4> HIDE DEF k, x, h, l
      <4> QED BY <2>1, <3>2, WaitsNoMore
    <3> HIDE DEF j
    <3> QED BY <2>1, <2>3, <3>1, <3>2, <3>3
  <2>4. CASE c \notin W /\ c \notin S
    <3>1. call'[c] = k /\ ext'[c] = x
      BY <1>4, <1>5, <2>4
    <3>2. k.awaits # "token"
      BY <2>4
    <3> QED BY <2>1, <2>4, <3>1, <3>2
  <2>5. c \in S => c \in W
    OBVIOUS
  <2> QED BY <2>2, <2>3, <2>4, <2>5
<1>7. call' \in [Calls -> CallRecords] /\ ext' \in [Calls -> Runs]
  <2>1. call' = [c \in Calls |-> call'[c]] /\ ext' = [c \in Calls |-> ext'[c]]
    BY <1>4, <1>5
  <2> QED BY <1>6, <2>1
<1>8. Books(router', call') /\ router'.held = router.held
  <2>1. Awaiting(call') = Awaiting(call) \cup S /\ S \cap Awaiting(call) = {}
    BY <1>6 DEF Awaiting
  <2>2. Routed(call') = Routed(call)
    BY <1>6 DEF Routed
  <2>3. router' = Expect(router, Cardinality(S)) /\ S \in SUBSET Calls
    BY <1>1 DEF SendCalls
  <2> HIDE DEF S
  <2> QED BY <1>2, <2>1, <2>2, <2>3, Expected
<1>9. AllFine(call', ext', router'.held, channel', dropped')
  <2>1. Left(router.held, router.held, call')
    BY NothingLeft
  <2>2. \A b \in Calls :
          \/ /\ call'[b] = call[b] /\ ext'[b] = ext[b] /\ Coming(channel, b) = Coming(channel, b)
             /\ b \in dropped => b \in dropped
          \/ /\ Fine(call'[b], ext'[b], HeldOf(router.held, b), Coming(channel, b))
             /\ b \in dropped
                \/ Whole(call'[b], ext'[b], HeldOf(router.held, b), Coming(channel, b))
    BY <1>6
  <2>4. AllFine(call', ext', router.held, channel, dropped)
    BY ONLY <1>2, <1>7, <2>1, <2>2, SomeMove
  <2> QED BY <1>1, <1>8, <2>4
<1>10. TokensFine(cache', refused', call')
  <2>1. /\ cache.minted \in 0..MaxTokens /\ refused \subseteq 1..cache.minted /\ cache.token = NoToken
    BY <1>1, <1>2 DEF TokensFine, Caches
  <2>2. t \notin refused /\ refused \subseteq 1..t /\ 1..cache.minted \subseteq 1..t /\ t \in 1..t
        /\ t \in 0..MaxTokens
    BY <1>1, <2>1 DEF t, Tokens
  <2>3. NoToken \notin refused
    <3>1. refused \subseteq Nat
      BY <1>3, <2>2
    <3> QED BY <3>1, CallsAssumption
  <2>4. /\ cache' \in Caches /\ cache'.token \in {t, NoToken} /\ ~cache'.pending /\ cache'.minted = t
    BY <1>1, <2>1, <2>2 DEF Caches
  <2>5. \A c \in Calls : call'[c].token \in 1..t \cup {NoToken} /\ call'[c].awaits # "token"
    <3>1. \A c \in Calls : call[c].token \in 1..cache.minted \cup {NoToken}
      BY <1>2 DEF TokensFine
    <3> QED BY <1>6, <2>2, <3>1
  <2> QED BY <1>1, <2>2, <2>3, <2>4, <2>5 DEF TokensFine
<1>11. SessionFine(session', call')
  BY <1>1, <1>2, <1>6, SessionStays
<1> QED BY <1>1, <1>2, <1>7, <1>8, <1>9, <1>10, <1>11 DEF Ind, Typed

(* A call that waited for a token that cannot be had fails. *)
LEMMA NoTokenComes ==
  ASSUME NEW k \in CallRecords, NEW x, NEW h, NEW l, Fine(k, x, h, l),
         k.awaits = "token", k.status \notin Final
  PROVE  LET j == End([k EXCEPT !.awaits = "none"], "failed")
         IN  /\ j \in CallRecords /\ j.awaits = "none" /\ j.token = NoToken /\ j.status \in Final
             /\ ~Alive(j) /\ ~j.id /\ ~k.id /\ Fine(j, x, h, l) /\ Whole(j, x, h, l)
<1> DEFINE i == [k EXCEPT !.awaits = "none"]
           j == End(i, "failed")
<1>1. i \in CallRecords /\ i.awaits = "none" /\ i.id = k.id /\ i.ack = k.ack
  BY DEF CallRecords
<1> HIDE DEF i
<1>2. /\ j \in CallRecords /\ j.status = "failed" /\ ~Alive(j) /\ j.status \in Final
      /\ j.awaits = "none" /\ j.id = k.id /\ j.ack = k.ack /\ j.token = NoToken /\ ~j.guard
  BY <1>1, EndFacts
<1> HIDE DEF j
<1>3. x.run = "none" /\ ~Began(x) /\ ~k.id
  BY DEF Fine, Stage, Began
<1>4. Fine(j, x, h, l) /\ Whole(j, x, h, l)
  BY <1>2, <1>3 DEF Fine, Stage, Stopped, Heard, Whole
<1> QED BY <1>2, <1>3, <1>4 DEF j, i

LEMMA TokenFailsStep ==
  ASSUME Ind, TokenFails
  PROVE  Ind'
<1> DEFINE W == {c \in Calls : call[c].awaits = "token"}
<1>1. /\ session' = [session EXCEPT !.inFlight = @ \ W] /\ router' = router /\ ext' = ext
      /\ channel' = channel /\ dropped' = dropped /\ refused' = refused
      /\ cache' = [cache EXCEPT !.pending = FALSE]
      /\ call' = [c \in Calls |->
           IF c \notin W THEN call[c]
           ELSE IF Settled(c) THEN [call[c] EXCEPT !.awaits = "none"]
           ELSE End([call[c] EXCEPT !.awaits = "none"], "failed")]
  BY DEF TokenFails
<1>2. /\ call \in [Calls -> CallRecords] /\ ext \in [Calls -> Runs] /\ TokensFine(cache, refused, call)
      /\ Books(router, call) /\ AllFine(call, ext, router.held, channel, dropped)
      /\ SessionFine(session, call)
  BY DEF Ind, Typed
<1>3. ASSUME NEW c \in Calls
      PROVE  /\ call'[c] \in CallRecords
             /\ c \notin W => call'[c] = call[c]
             /\ c \in W => /\ Fine(call'[c], ext[c], HeldOf(router.held, c), Coming(channel, c))
                           /\ c \in dropped
                              \/ Whole(call'[c], ext[c], HeldOf(router.held, c), Coming(channel, c))
             /\ Alive(call'[c]) <=> Alive(call[c]) /\ c \notin W
             /\ call[c].status \in Final => call'[c].status \in Final
             /\ call'[c].token \in {call[c].token, NoToken} /\ call'[c].awaits # "token"
             /\ call'[c].awaits = "id" <=> call[c].awaits = "id"
             /\ call'[c].id /\ Alive(call'[c]) <=> call[c].id /\ Alive(call[c])
  <2> DEFINE k == call[c]
             x == ext[c]
             h == HeldOf(router.held, c)
             l == Coming(channel, c)
  <2>1. /\ k \in CallRecords /\ x \in Runs /\ Fine(k, x, h, l) /\ (c \in dropped \/ Whole(k, x, h, l))
    BY OfCall
  <2>2. CASE c \in W /\ Settled(c)
    <3> DEFINE j == [k EXCEPT !.awaits = "none"]
    <3>1. call'[c] = j
      BY <1>1, <2>2
    <3>2. k.awaits = "token" /\ k.status \in Final
      BY <2>2 DEF Settled
    <3>3. /\ j \in CallRecords /\ j.status = k.status /\ j.awaits = "none" /\ j.token = k.token
          /\ j.id = k.id /\ ~Alive(j) /\ ~Alive(k)
          /\ Fine(j, x, h, l) /\ (Whole(k, x, h, l) => Whole(j, x, h, l))
      <4> HIDE DEF k, x, h, l
      <4> QED BY <2>1, <3>2, WaitsNoMore
    <3> HIDE DEF j
    <3> QED BY <2>1, <2>2, <3>1, <3>2, <3>3
  <2>3. CASE c \in W /\ ~Settled(c)
    <3> DEFINE j == End([k EXCEPT !.awaits = "none"], "failed")
    <3>1. call'[c] = j
      BY <1>1, <2>3
    <3>2. k.awaits = "token" /\ k.status \notin Final
      BY <2>3 DEF Settled
    <3>3. /\ j \in CallRecords /\ j.awaits = "none" /\ j.token = NoToken /\ j.status \in Final
          /\ ~Alive(j) /\ ~j.id /\ ~k.id /\ Fine(j, x, h, l) /\ Whole(j, x, h, l)
      <4> HIDE DEF k, x, h, l
      <4> QED BY <2>1, <3>2, NoTokenComes
    <3> HIDE DEF j
    <3> QED BY <2>1, <2>3, <3>1, <3>2, <3>3
  <2>4. CASE c \notin W
    <3>1. call'[c] = k
      BY <1>1, <2>4
    <3>2. k.awaits # "token"
      BY <2>4
    <3> QED BY <2>1, <2>4, <3>1, <3>2
  <2> QED BY <2>2, <2>3, <2>4
<1>4. call' \in [Calls -> CallRecords]
  <2>1. call' = [c \in Calls |-> call'[c]]
    BY <1>1
  <2> QED BY <1>3, <2>1
<1>5. Books(router, call')
  <2>1. Awaiting(call') = Awaiting(call) /\ Routed(call') = Routed(call)
    BY <1>3 DEF Awaiting, Routed
  <2> QED BY <1>2, <2>1, SameBooks
<1>6. AllFine(call', ext, router.held, channel, dropped)
  <2>1. Left(router.held, router.held, call')
    BY NothingLeft
  <2>2. \A b \in Calls :
          \/ /\ call'[b] = call[b] /\ ext[b] = ext[b] /\ Coming(channel, b) = Coming(channel, b)
             /\ b \in dropped => b \in dropped
          \/ /\ Fine(call'[b], ext[b], HeldOf(router.held, b), Coming(channel, b))
             /\ b \in dropped
                \/ Whole(call'[b], ext[b], HeldOf(router.held, b), Coming(channel, b))
    BY <1>3
  <2> QED BY ONLY <1>2, <1>4, <2>1, <2>2, SomeMove
<1>7. TokensFine(cache', refused', call')
  <2>1. /\ cache' \in Caches /\ cache'.token = cache.token /\ ~cache'.pending
        /\ cache'.minted = cache.minted
    BY <1>1, <1>2 DEF TokensFine, Caches
  <2>2. \A c \in Calls : call'[c].token \in 1..cache.minted \cup {NoToken} /\ call'[c].awaits # "token"
    BY <1>2, <1>3 DEF TokensFine
  <2> QED BY <1>1, <1>2, <2>1, <2>2 DEF TokensFine
<1>8. SessionFine(session', call')
  <2> HIDE DEF W
  <2> QED BY <1>1, <1>2, <1>3, SessionEnds
<1> QED BY <1>1, <1>2, <1>4, <1>5, <1>6, <1>7, <1>8 DEF Ind, Typed

LEMMA TokenAgesStep ==
  ASSUME Ind, TokenAges
  PROVE  Ind'
<1>1. /\ UNCHANGED <<call, router, session, ext, channel, dropped, refused>>
      /\ cache' = [cache EXCEPT !.token = NoToken]
  BY DEF TokenAges
<1>2. TokensFine(cache, refused, call)
  BY DEF Ind
<1>3. /\ cache' \in Caches /\ cache'.token = NoToken /\ cache'.pending = cache.pending
      /\ cache'.minted = cache.minted
  BY <1>1, <1>2 DEF TokensFine, Caches
<1>4. NoToken \notin refused
  <2>1. refused \subseteq Nat
    BY <1>2 DEF TokensFine, Caches
  <2> QED BY <2>1, CallsAssumption
<1>5. TokensFine(cache', refused', call')
  BY <1>1, <1>2, <1>3, <1>4 DEF TokensFine
<1> QED BY <1>1, <1>5 DEF Ind

-----------------------------------------------------------------------------
(* Calls are given up                                                      *)

(* The calls S, which are alive, are cancelled. *)
LEMMA AbandonFacts ==
  ASSUME Ind, NEW S \in SUBSET Calls, \A c \in S : Alive(call[c]), Abandon(S, "failed"),
         UNCHANGED <<cache, ext, channel, dropped, refused>>
  PROVE  /\ Typed(call', ext', channel', dropped') /\ Books(router', call')
         /\ AllFine(call', ext', router'.held, channel', dropped')
         /\ TokensFine(cache', refused', call')
         /\ \A c \in Calls : /\ Alive(call'[c]) <=> Alive(call[c]) /\ c \notin S
                             /\ call[c].status \in Final \/ c \in S => call'[c].status \in Final
<1> DEFINE known == {c \in S : call[c].id}
<1>1. /\ call \in [Calls -> CallRecords] /\ ext \in [Calls -> Runs] /\ TokensFine(cache, refused, call)
      /\ Books(router, call) /\ AllFine(call, ext, router.held, channel, dropped)
      /\ router \in RouterRecords /\ HeldFine(router.held)
      /\ router.expecting = Cardinality(Awaiting(call)) /\ router.routes = Routed(call)
      /\ router.attached <=> (router.expecting > 0 \/ router.routes # {})
  BY DEF Ind, Typed, Books, Counts
<1>2. /\ call' = [c \in Calls |->
           IF c \notin S THEN call[c]
           ELSE IF call[c].id THEN SendCancel(End(call[c], "failed"))
           ELSE End(call[c], "failed")]
      /\ router' = IF known = {} THEN router ELSE Release(router, known)
  BY DEF Abandon
<1>3. ASSUME NEW c \in Calls
      PROVE  /\ call'[c] \in CallRecords
             /\ c \notin S => call'[c] = call[c]
             /\ c \in S => /\ Fine(call'[c], ext[c], HeldOf(router.held, c), Coming(channel, c))
                           /\ Whole(call'[c], ext[c], HeldOf(router.held, c), Coming(channel, c))
                           /\ call'[c].status \in Final /\ ~Alive(call'[c])
             /\ call'[c].token \in {call[c].token, NoToken}
             /\ call'[c].awaits = call[c].awaits /\ call'[c].id = call[c].id
  <2> DEFINE k == call[c]
             x == ext[c]
             h == HeldOf(router.held, c)
             l == Coming(channel, c)
  <2>1. k \in CallRecords /\ Fine(k, x, h, l)
    BY OfCall
  <2>2. CASE c \in S
    <3> DEFINE j == IF k.id THEN SendCancel(End(k, "failed")) ELSE End(k, "failed")
    <3>1. call'[c] = j /\ Alive(k)
      BY <1>2, <2>2
    <3>2. /\ j \in CallRecords /\ j.status = "failed" /\ j.status \in Final /\ ~Alive(j)
          /\ j.awaits = k.awaits /\ j.id = k.id /\ j.token = NoToken
          /\ Fine(j, x, h, l) /\ Whole(j, x, h, l)
      <4> HIDE DEF k, x, h, l
      <4> QED BY <2>1, <3>1, Abandoned
    <3> HIDE DEF j
    <3> QED BY <2>2, <3>1, <3>2
  <2>3. CASE c \notin S
    BY <1>2, <2>1, <2>3
  <2> QED BY <2>2, <2>3
<1>4. call' \in [Calls -> CallRecords]
  <2>1. call' = [c \in Calls |-> call'[c]]
    BY <1>2
  <2> QED BY <1>3, <2>1
<1>5. Awaiting(call') = Awaiting(call) /\ Routed(call') = Routed(call) \ S
      /\ Routed(call') = Routed(call) \ known /\ known \subseteq Routed(call)
  <2>1. Awaiting(call') = Awaiting(call)
    BY <1>3 DEF Awaiting
  <2>2. Routed(call') = Routed(call) \ S
    BY <1>3 DEF Routed
  <2>3. known = Routed(call) \cap S
    BY DEF Routed
  <2> QED BY <2>1, <2>2, <2>3
<1>6. Books(router', call') /\ Left(router.held, router'.held, call')
  <2>1. CASE known = {}
    <3>1. router' = router /\ Routed(call') = Routed(call)
      BY <1>2, <1>5, <2>1
    <3> QED BY <1>1, <1>5, <3>1, SameBooks, NothingLeft
  <2>2. CASE known # {}
    <3>1. router.attached /\ router' = Release(router, known)
      BY <1>1, <1>2, <1>5, <2>2
    <3>2. \A c \in known : ~Alive(call'[c])
      BY <1>3
    <3>3. known \in SUBSET Calls
      OBVIOUS
    <3> HIDE DEF known
    <3> QED BY <1>1, <1>5, <3>1, <3>2, <3>3, Released
  <2> QED BY <2>1, <2>2
<1>7. AllFine(call', ext, router'.held, channel, dropped)
  <2>1. ASSUME NEW b \in Calls, b \in S
        PROVE  /\ Fine(call'[b], ext[b], HeldOf(router'.held, b), Coming(channel, b))
               /\ Whole(call'[b], ext[b], HeldOf(router'.held, b), Coming(channel, b))
    <3> DEFINE k == call'[b]
               x == ext[b]
               h == HeldOf(router.held, b)
               g == HeldOf(router'.held, b)
               l == Coming(channel, b)
    <3>1. /\ Fine(k, x, h, l) /\ Whole(k, x, h, l) /\ k \in CallRecords
          /\ (g = h \/ (g = << >> /\ ~(Alive(k) /\ k.awaits = "id")))
      BY <1>3, <1>6, <2>1 DEF Left
    <3> HIDE DEF k, x, h, g, l
    <3>2. k.awaits \in {"none", "token", "id"}
      BY <3>1 DEF CallRecords
    <3>3. Fine(k, x, g, l) /\ Whole(k, x, g, l)
      BY <3>1, <3>2, NoneMissed
    <3> QED BY <3>3 DEF k, x, g, l
  <2>2. \A b \in Calls :
          \/ /\ call'[b] = call[b] /\ ext[b] = ext[b] /\ Coming(channel, b) = Coming(channel, b)
             /\ b \in dropped => b \in dropped
          \/ /\ Fine(call'[b], ext[b], HeldOf(router'.held, b), Coming(channel, b))
             /\ b \in dropped
                \/ Whole(call'[b], ext[b], HeldOf(router'.held, b), Coming(channel, b))
    BY <1>3, <2>1
  <2> QED BY ONLY <1>1, <1>4, <1>6, <2>2, SomeMove
<1>8. TokensFine(cache, refused, call')
  BY <1>1, <1>3, TokensMove
<1>9. \A c \in Calls : /\ Alive(call'[c]) <=> Alive(call[c]) /\ c \notin S
                       /\ call[c].status \in Final \/ c \in S => call'[c].status \in Final
  BY <1>3
<1>10. Typed(call', ext', channel', dropped')
  BY <1>4 DEF Ind, Typed
<1> QED BY <1>6, <1>7, <1>8, <1>9, <1>10

LEMMA CancelStep ==
  ASSUME Ind, NEW c \in Calls, Cancel(c)
  PROVE  Ind'
<1> DEFINE S == {c}
<1>1. /\ Abandon(S, "failed") /\ session' = [session EXCEPT !.inFlight = @ \ S]
      /\ UNCHANGED <<cache, ext, channel, dropped, refused>>
      /\ S \in SUBSET Calls /\ \A b \in S : Alive(call[b])
  BY DEF Cancel, Live, Alive
<1>2. SessionFine(session, call)
  BY DEF Ind
<1> HIDE DEF S
<1>3. /\ Typed(call', ext', channel', dropped') /\ Books(router', call')
      /\ AllFine(call', ext', router'.held, channel', dropped')
      /\ TokensFine(cache', refused', call')
      /\ \A b \in Calls : /\ Alive(call'[b]) <=> Alive(call[b]) /\ b \notin S
                          /\ call[b].status \in Final \/ b \in S => call'[b].status \in Final
  BY <1>1, AbandonFacts
<1>4. SessionFine(session', call')
  BY <1>1, <1>2, <1>3, SessionEnds
<1> QED BY <1>3, <1>4 DEF Ind

LEMMA DisconnectStep ==
  ASSUME Ind, Disconnect
  PROVE  Ind'
<1> DEFINE S == session.inFlight
<1>1. session \in Sessions /\ S = {b \in Calls : Alive(call[b])}
      /\ Given(session, call)
  BY DEF Ind, SessionFine
<1>2. /\ Abandon(S, "failed") /\ UNCHANGED <<cache, ext, channel, dropped, refused>>
      /\ session' = [inFlight |-> {}, begun |-> session.begun + 1,
                     closing |-> session.closing \cup {S}]
      /\ session.begun < MaxDisconnects
      /\ S \in SUBSET Calls /\ \A b \in S : Alive(call[b])
  BY <1>1 DEF Disconnect
<1> HIDE DEF S
<1>3. /\ Typed(call', ext', channel', dropped') /\ Books(router', call')
      /\ AllFine(call', ext', router'.held, channel', dropped')
      /\ TokensFine(cache', refused', call')
      /\ \A b \in Calls : /\ Alive(call'[b]) <=> Alive(call[b]) /\ b \notin S
                          /\ call[b].status \in Final \/ b \in S => call'[b].status \in Final
  BY <1>2, AbandonFacts
<1>4. SessionFine(session', call')
  <2>1. {b \in Calls : Alive(call'[b])} = {}
    BY <1>1, <1>3
  <2>2. session' \in Sessions /\ session'.inFlight = {} /\ session'.closing = session.closing \cup {S}
    <3>1. session.begun + 1 \in 0..MaxDisconnects
      BY <1>1, <1>2, CallsAssumption DEF Sessions
    <3>2. session.closing \cup {S} \in SUBSET (SUBSET Calls)
      BY <1>1, <1>2 DEF Sessions
    <3> QED BY <1>2, <3>1, <3>2 DEF Sessions
  <2>3. Given(session', call')
    BY <1>1, <1>2, <1>3, <2>2 DEF Given
  <2> QED BY <2>1, <2>2, <2>3 DEF SessionFine
<1> QED BY <1>3, <1>4 DEF Ind

LEMMA SendDisconnectStep ==
  ASSUME Ind, NEW S \in session.closing, SendDisconnect(S)
  PROVE  Ind'
<1>1. /\ UNCHANGED <<call, router, cache, ext, channel, dropped, refused>>
      /\ session' = [session EXCEPT !.closing = @ \ {S}]
      /\ SessionFine(session, call)
  BY DEF SendDisconnect, Ind
<1>2. /\ session' \in Sessions /\ session'.inFlight = session.inFlight
      /\ session'.closing = session.closing \ {S}
  BY <1>1 DEF SessionFine, Sessions
<1>3. SessionFine(session', call')
  BY <1>1, <1>2 DEF SessionFine, Given
<1> QED BY <1>1, <1>3 DEF Ind

(* One call moves, nothing comes. *)
LEMMA MoveFacts ==
  ASSUME Ind, NEW c \in Calls, NEW j \in CallRecords, NEW y \in Runs,
         call' = [call EXCEPT ![c] = j], ext' = [ext EXCEPT ![c] = y],
         UNCHANGED <<channel, dropped>>,
         Left(router.held, router'.held, call'),
         Fine(j, y, HeldOf(router.held, c), Coming(channel, c)),
         Whole(call[c], ext[c], HeldOf(router.held, c), Coming(channel, c))
           => Whole(j, y, HeldOf(router.held, c), Coming(channel, c))
  PROVE  Typed(call', ext', channel', dropped') /\ AllFine(call', ext', router'.held, channel', dropped')
<1> DEFINE h == HeldOf(router.held, c)
           g == HeldOf(router'.held, c)
           l == Coming(channel, c)
<1>1. /\ call \in [Calls -> CallRecords] /\ ext \in [Calls -> Runs]
      /\ AllFine(call, ext, router.held, channel, dropped)
  BY DEF Ind, Typed
<1>2. c \in dropped \/ Whole(j, y, h, l)
  BY OfCall
<1>3. g = h \/ (g = << >> /\ ~(Alive(j) /\ j.awaits = "id"))
  <2>1. call'[c] = j
    BY <1>1
  <2> QED BY <2>1 DEF Left
<1>4. j.awaits \in {"none", "token", "id"}
  BY DEF CallRecords
<1>5. Fine(j, y, g, l) /\ (c \in dropped \/ Whole(j, y, g, l))
  <2>1. Fine(j, y, h, l)
    OBVIOUS
  <2> HIDE DEF h, g, l
  <2> QED BY <1>2, <1>3, <1>4, <2>1, NoneMissed
<1>6. \A b \in Calls : b # c => Coming(channel, b) = Coming(channel, b) /\ (b \in dropped => b \in dropped)
  OBVIOUS
<1>7. /\ call' = [call EXCEPT ![c] = j] /\ ext' = [ext EXCEPT ![c] = y] /\ c \in Calls
      /\ j \in CallRecords /\ y \in Runs /\ Left(router.held, router'.held, call')
  OBVIOUS
<1>8. call' \in [Calls -> CallRecords] /\ ext' \in [Calls -> Runs]
      /\ AllFine(call', ext', router'.held, channel, dropped)
  BY ONLY <1>1, <1>5, <1>6, <1>7, OneMoves
<1> QED BY <1>8 DEF Ind, Typed

(* The answer of c is no longer expected. *)
LEMMA AnswerGone ==
  ASSUME Ind, NEW c \in Calls, call[c].awaits = "id", NEW j, j.awaits = "none", ~(j.id /\ Alive(j)),
         call' = [call EXCEPT ![c] = j], router' = Unexpect(router)
  PROVE  Books(router', call') /\ Left(router.held, router'.held, call')
<1>1. /\ call \in [Calls -> CallRecords]
      /\ router \in RouterRecords /\ HeldFine(router.held)
      /\ router.expecting = Cardinality(Awaiting(call)) /\ router.routes = Routed(call)
      /\ router.attached <=> (router.expecting > 0 \/ router.routes # {})
  BY DEF Ind, Typed, Books, Counts
<1>2. ~call[c].id
  BY OfCall DEF Fine, Stage
<1>3. c \in Awaiting(call) /\ c \notin Routed(call)
  BY <1>2 DEF Awaiting, Routed
<1>4. Awaiting(call') = Awaiting(call) \ {c} /\ Routed(call') = Routed(call)
  <2>1. call'[c] = j /\ \A b \in Calls : b # c => call'[b] = call[b]
    BY <1>1
  <2> QED BY <1>3, <2>1 DEF Awaiting, Routed
<1>5. router.attached
  <2>1. Cardinality(Awaiting(call)) \in Nat /\ Cardinality(Awaiting(call)) # 0
    BY <1>3, AwaitingCounted
  <2> QED BY <1>1, <2>1
<1> QED BY <1>1, <1>3, <1>4, <1>5, Unexpected

(* A token is refused: it is not kept, and no other is dropped for it. *)
LEMMA RefuseFacts ==
  ASSUME Ind, NEW k, NEW code, k.token \in 1..cache.minted \cup {NoToken}, Refuse(k, code),
         \A b \in Calls : /\ call'[b].token \in {call[b].token, NoToken}
                          /\ call'[b].awaits = "token" => call[b].awaits = "token"
  PROVE  TokensFine(cache', refused', call')
<1>1. TokensFine(cache, refused, call)
  BY DEF Ind
<1>2. TokensFine(cache, refused, call')
  BY <1>1, TokensMove
<1>3. CASE ~(code = "NOT_GRANTED" /\ k.token # NoToken)
  BY <1>2, <1>3 DEF Refuse
<1>4. CASE code = "NOT_GRANTED" /\ k.token # NoToken
  <2> DEFINE t == k.token
  <2>1. /\ cache' = IF cache.token = t THEN [cache EXCEPT !.token = NoToken] ELSE cache
        /\ refused' = refused \cup {t} /\ t \in 1..cache.minted
    BY <1>4 DEF Refuse, Forget
  <2>2. cache \in Caches /\ NoToken \notin 1..cache.minted
    <3>1. cache \in Caches
      BY <1>1 DEF TokensFine
    <3>2. 1..cache.minted \subseteq Nat
      BY <3>1 DEF Caches
    <3> QED BY <3>1, <3>2, CallsAssumption
  <2> HIDE DEF t
  <2>3. /\ cache' \in Caches /\ cache'.token = (IF cache.token = t THEN NoToken ELSE cache.token)
        /\ cache'.pending = cache.pending /\ cache'.minted = cache.minted
    BY <2>1, <2>2 DEF Caches
  <2>4. NoToken \notin refused /\ NoToken # t /\ refused \subseteq 1..cache.minted
    BY <1>1, <2>1, <2>2 DEF TokensFine
  <2>5. cache'.token \in (1..cache.minted \cup {NoToken}) \ refused'
    BY <1>1, <2>1, <2>3, <2>4 DEF TokensFine
  <2>6. refused' \subseteq 1..cache.minted
    BY <2>1, <2>4
  <2>7. /\ cache'.pending => cache'.token = NoToken
        /\ \A b \in Calls : /\ call'[b].token \in 1..cache.minted \cup {NoToken}
                            /\ call'[b].awaits = "token" => cache'.pending
    BY <1>2, <2>3 DEF TokensFine
  <2> QED BY <2>3, <2>5, <2>6, <2>7 DEF TokensFine
<1> QED BY <1>3, <1>4

-----------------------------------------------------------------------------
(* The guard                                                               *)

LEMMA TimedOut ==
  ASSUME NEW k \in CallRecords, NEW x, NEW h, NEW l, Fine(k, x, h, l), k.guard
  PROVE  LET i == [k EXCEPT !.guard = FALSE]
             over == IF k.status \in Final THEN i ELSE End(i, "failed")
             told == IF Alive(k) /\ i.id THEN SendCancel(over) ELSE over
             j == IF i.awaits = "id" THEN StopAwaiting(told) ELSE told
         IN  /\ i.id = k.id /\ i.awaits = k.awaits
             /\ j \in CallRecords /\ j.status \in Final /\ ~Alive(j) /\ j.id = k.id
             /\ j.token \in {k.token, NoToken}
             /\ j.awaits = (IF k.awaits = "id" THEN "none" ELSE k.awaits)
             /\ Alive(k) \/ k.awaits = "id"
             /\ Fine(j, x, h, l) /\ (Whole(k, x, h, l) => Whole(j, x, h, l))
<1> DEFINE i == [k EXCEPT !.guard = FALSE]
           over == IF k.status \in Final THEN i ELSE End(i, "failed")
           told == IF Alive(k) /\ i.id THEN SendCancel(over) ELSE over
           j == IF i.awaits = "id" THEN StopAwaiting(told) ELSE told
<1>1. /\ i \in CallRecords /\ i.status = k.status /\ i.awaits = k.awaits /\ i.id = k.id
      /\ i.token = k.token /\ i.seen = k.seen /\ i.ack = k.ack /\ ~i.guard
  BY DEF CallRecords
<1>2. /\ Stage(k, x) /\ Stopped(k, x) /\ Heard(k, x, h, l) /\ (Alive(k) \/ k.awaits = "id")
      /\ k.ack \in {"none", "sent", "done", "refused"}
      /\ k.status \in {"none", "pending", "running"} \cup Final
  BY DEF Fine, Stage, CallRecords
<1>3. CASE k.status \in Final
  <2>1. ~Alive(k) /\ k.awaits = "id" /\ k.status # "none"
    BY <1>2, <1>3 DEF Alive, Final
  <2>2. j = StopAwaiting(i)
    BY <1>1, <1>3, <2>1
  <2> HIDE DEF i, j
  <2>3. /\ j \in CallRecords /\ j.status = k.status /\ j.awaits = "none" /\ j.id = k.id
        /\ j.token = k.token /\ j.seen = k.seen /\ j.ack = k.ack /\ ~j.guard
    BY <1>1, <2>2, StopFacts
  <2>4. ~Alive(j)
    BY <2>1, <2>3 DEF Alive
  <2>5. Fine(j, x, h, l)
    BY <1>2, <2>1, <2>3, <2>4 DEF Fine, Stage, Stopped, Heard
  <2>6. Whole(k, x, h, l) => Whole(j, x, h, l)
    BY <2>3, <2>4 DEF Whole
  <2> QED BY <1>1, <1>2, <1>3, <2>1, <2>3, <2>4, <2>5, <2>6 DEF i, j
<1>4. CASE k.status \notin Final
  <2>1. Alive(k) /\ k.status # "none"
    <3>1. k.status # "none"
      BY <1>2 DEF Stage, Alive
    <3> QED BY <1>2, <1>4, <3>1 DEF Alive
  <2> DEFINE e == End(i, "failed")
             d == IF i.id THEN SendCancel(e) ELSE e
  <2>2. j = IF i.awaits = "id" THEN StopAwaiting(d) ELSE d
    BY <1>4, <2>1
  <2> HIDE DEF i, j, over, told
  <2>3. /\ e \in CallRecords /\ e.status = "failed" /\ e.awaits = k.awaits /\ e.id = k.id
        /\ e.ack = k.ack /\ e.token = NoToken /\ ~e.guard
    BY <1>1, EndFacts
  <2> HIDE DEF e
  <2>4. /\ d \in CallRecords /\ d.status = "failed" /\ d.awaits = k.awaits /\ d.id = k.id
        /\ d.token = NoToken /\ ~d.guard
        /\ k.id => d.ack # "none"
        /\ ~k.id => d.ack = k.ack
        /\ d.ack = "done" <=> k.ack = "done"
        /\ d.ack \in {"none", "sent", "done", "refused"}
    <3>1. CASE i.id
      <4>1. d = SendCancel(e)
        BY <3>1
      <4> HIDE DEF d
      <4>2. /\ d \in CallRecords /\ d.status = e.status /\ d.awaits = e.awaits /\ d.id = e.id
            /\ d.token = e.token /\ d.guard = e.guard
            /\ d.ack = (IF e.ack = "none" THEN "sent" ELSE e.ack)
        BY <2>3, <4>1, CancelFacts
      <4>3. k.id /\ k.ack \in {"none", "sent", "done", "refused"}
        BY <1>1, <1>2, <3>1
      <4> QED BY <2>3, <4>2, <4>3
    <3>2. CASE ~i.id
      BY <1>1, <1>2, <2>3, <3>2
    <3> QED BY <3>1, <3>2
  <2> HIDE DEF d
  <2>5. /\ j \in CallRecords /\ j.status = "failed" /\ j.id = k.id /\ j.token = NoToken /\ ~j.guard
        /\ j.awaits = (IF k.awaits = "id" THEN "none" ELSE k.awaits)
        /\ j.ack = d.ack
    <3>1. CASE i.awaits = "id"
      BY <1>1, <2>2, <2>4, <3>1, StopFacts
    <3>2. CASE i.awaits # "id"
      BY <1>1, <2>2, <2>4, <3>2
    <3> QED BY <3>1, <3>2
  <2>6. ~Alive(j) /\ j.status \in Final
    BY <2>5 DEF Alive, Final
  <2>7. Stage(j, x)
    <3>1. Began(x) \/ ~k.id
      BY <1>2 DEF Stage
    <3> QED BY <1>2, <2>1, <2>4, <2>5, <2>6, <3>1 DEF Stage
  <2>8. Stopped(j, x)
    BY <1>2, <2>4, <2>5, <2>6 DEF Stopped
  <2>9. Heard(j, x, h, l)
    BY <1>2, <2>6 DEF Heard
  <2>10. Whole(j, x, h, l)
    BY <2>5, <2>6 DEF Whole
  <2> QED BY <1>1, <1>2, <2>5, <2>6, <2>7, <2>8, <2>9, <2>10 DEF i, j, over, told, Fine
<1> QED BY <1>3, <1>4

LEMMA GuardTimeoutStep ==
  ASSUME Ind, NEW c \in Calls, GuardTimeout(c)
  PROVE  Ind'
<1> DEFINE k == call[c]
           x == ext[c]
           h == HeldOf(router.held, c)
           l == Coming(channel, c)
           i == [k EXCEPT !.guard = FALSE]
           over == IF k.status \in Final THEN i ELSE End(i, "failed")
           told == IF Alive(k) /\ i.id THEN SendCancel(over) ELSE over
           j == IF i.awaits = "id" THEN StopAwaiting(told) ELSE told
           r == IF Alive(k) /\ i.id THEN Release(router, {c}) ELSE router
<1>1. /\ k.guard /\ call' = [call EXCEPT ![c] = j]
      /\ router' = IF i.awaits = "id" THEN Unexpect(r) ELSE r
      /\ session' = [session EXCEPT !.inFlight = @ \ {c}]
      /\ UNCHANGED <<cache, ext, channel, dropped, refused>>
  BY DEF GuardTimeout, Settled, Live, Alive
<1>2. /\ call \in [Calls -> CallRecords] /\ ext \in [Calls -> Runs] /\ TokensFine(cache, refused, call)
      /\ Books(router, call) /\ SessionFine(session, call)
      /\ router \in RouterRecords /\ HeldFine(router.held)
      /\ router.expecting = Cardinality(Awaiting(call)) /\ router.routes = Routed(call)
      /\ router.attached <=> (router.expecting > 0 \/ router.routes # {})
  BY DEF Ind, Typed, Books, Counts
<1>3. k \in CallRecords /\ x \in Runs /\ Fine(k, x, h, l)
  BY OfCall
<1>4. /\ i.id = k.id /\ i.awaits = k.awaits
      /\ j \in CallRecords /\ j.status \in Final /\ ~Alive(j) /\ j.id = k.id
      /\ j.token \in {k.token, NoToken}
      /\ j.awaits = (IF k.awaits = "id" THEN "none" ELSE k.awaits)
      /\ Alive(k) \/ k.awaits = "id"
      /\ Fine(j, x, h, l) /\ (Whole(k, x, h, l) => Whole(j, x, h, l))
  <2> HIDE DEF k, x, h, l
  <2> QED BY <1>1, <1>3, TimedOut
<1> HIDE DEF i, j, over, told
<1>5. Books(router', call') /\ Left(router.held, router'.held, call')
  <2>1. CASE k.awaits = "id"
    <3>1. ~k.id
      BY <1>3, <2>1 DEF Fine, Stage
    <3>2. router' = Unexpect(router)
      BY <1>1, <1>4, <2>1, <3>1
    <3> QED BY <1>1, <1>4, <2>1, <3>2, AnswerGone
  <2>2. CASE k.awaits # "id" /\ k.id
    <3>1. router' = Release(router, {c})
      BY <1>1, <1>4, <2>2
    <3>2. c \in Routed(call)
      BY <1>4, <2>2 DEF Routed
    <3>3. Awaiting(call') = Awaiting(call) /\ Routed(call') = Routed(call) \ {c}
      <4>1. c \notin Awaiting(call)
        BY <2>2 DEF Awaiting
      <4>2. call'[c] = j /\ \A b \in Calls : b # c => call'[b] = call[b]
        BY <1>1, <1>2
      <4>3. call'[c].awaits # "id" /\ ~(call'[c].id /\ Alive(call'[c]))
        BY <1>4, <2>2, <4>2
      <4>4. Awaiting(call') = Awaiting(call) \ {c} /\ Routed(call') = Routed(call) \ {c}
        BY <4>2, <4>3 DEF Awaiting, Routed
      <4> QED BY <4>1, <4>4
    <3>4. router.attached /\ call'[c] = j
      BY <1>1, <1>2, <3>2
    <3>5. {c} \in SUBSET Calls /\ \A b \in {c} : ~Alive(call'[b])
      BY <1>4, <3>4
    <3> QED BY <1>2, <3>1, <3>3, <3>4, <3>5, Released
  <2>3. CASE k.awaits # "id" /\ ~k.id
    <3>1. router' = router
      BY <1>1, <1>4, <2>3
    <3>2. Awaiting(call') = Awaiting(call) /\ Routed(call') = Routed(call)
      <4>1. c \notin Awaiting(call) /\ c \notin Routed(call)
        BY <2>3 DEF Awaiting, Routed
      <4>2. call'[c] = j /\ \A b \in Calls : b # c => call'[b] = call[b]
        BY <1>1, <1>2
      <4>3. call'[c].awaits # "id" /\ ~(call'[c].id /\ Alive(call'[c]))
        BY <1>4, <2>3, <4>2
      <4>4. Awaiting(call') = Awaiting(call) \ {c} /\ Routed(call') = Routed(call) \ {c}
        BY <4>2, <4>3 DEF Awaiting, Routed
      <4> QED BY <4>1, <4>4
    <3> QED BY <1>2, <3>1, <3>2, SameBooks, NothingLeft
  <2> QED BY <2>1, <2>2, <2>3
<1>6. Typed(call', ext', channel', dropped') /\ AllFine(call', ext', router'.held, channel', dropped')
  <2>1. x \in Runs /\ ext' = [ext EXCEPT ![c] = x]
    BY <1>1, <1>2, <1>3
  <2>2. UNCHANGED <<channel, dropped>>
    BY <1>1
  <2> QED BY <1>1, <1>4, <1>5, <2>1, <2>2, MoveFacts
<1>7. TokensFine(cache', refused', call')
  <2>1. \A b \in Calls : /\ call'[b].token \in {call[b].token, NoToken}
                         /\ call'[b].awaits = "token" => call[b].awaits = "token"
    <3>1. \A b \in Calls : call'[b] = IF b = c THEN j ELSE call[b]
      BY <1>1, <1>2
    <3> QED BY <1>4, <3>1
  <2>2. TokensFine(cache, refused, call')
    BY <1>2, <2>1, TokensMove
  <2> QED BY <1>1, <2>2
<1>8. SessionFine(session', call')
  BY <1>1, <1>2, <1>4, SessionMove
<1> QED BY <1>5, <1>6, <1>7, <1>8 DEF Ind

-----------------------------------------------------------------------------
(* The answer to writ_call                                                 *)

LEMMA AnswerWasFine ==
  ASSUME NEW k, NEW x \in Runs, NEW h, NEW l, Fine(k, x, h, l), x.answer # "none"
  PROVE  LET y == [x EXCEPT !.answer = "none"]
         IN  /\ y \in Runs /\ y.run = x.run /\ y.answer = "none" /\ y.emitted = x.emitted
             /\ Fine(k, y, h, l) /\ (Whole(k, x, h, l) => Whole(k, y, h, l))
             /\ Began(x) /\ ~k.id
<1> DEFINE y == [x EXCEPT !.answer = "none"]
<1>1. y \in Runs /\ y.run = x.run /\ y.answer = "none" /\ y.emitted = x.emitted
  BY DEF Runs
<1> HIDE DEF y
<1>2. Began(x) /\ ~k.id /\ Began(y)
  BY <1>1 DEF Fine, Stage, Began
<1>3. Fine(k, y, h, l)
  BY <1>1, <1>2 DEF Fine, Stage, Stopped, Heard
<1>4. Whole(k, x, h, l) => Whole(k, y, h, l)
  BY <1>1 DEF Whole
<1> QED BY <1>1, <1>2, <1>3, <1>4 DEF y

LEMMA OnRequestErrorStep ==
  ASSUME Ind, NEW c \in Calls, NEW code, OnRequestError(c, code)
  PROVE  Ind'
<1> DEFINE k == call[c]
           x == ext[c]
           h == HeldOf(router.held, c)
           l == Coming(channel, c)
           y == [x EXCEPT !.answer = "none"]
<1>1. x.answer = "error" /\ UNCHANGED <<channel, dropped>>
  BY DEF OnRequestError
<1>2. /\ call \in [Calls -> CallRecords] /\ ext \in [Calls -> Runs] /\ TokensFine(cache, refused, call)
      /\ Books(router, call) /\ SessionFine(session, call)
  BY DEF Ind, Typed
<1>3. ext' = [ext EXCEPT ![c] = y]
  BY <1>2 DEF OnRequestError
<1>4. k \in CallRecords /\ x \in Runs /\ Fine(k, x, h, l) /\ k.awaits \in {"none", "token", "id"}
      /\ k.status \in {"none", "pending", "running"} \cup Final
  BY OfCall
<1>5. /\ y \in Runs /\ y.answer = "none"
      /\ Fine(k, y, h, l) /\ (Whole(k, x, h, l) => Whole(k, y, h, l)) /\ Began(x) /\ ~k.id
  <2>1. x.answer # "none"
    BY <1>1
  <2> HIDE DEF k, x, h, l
  <2> QED BY <1>4, <2>1, AnswerWasFine
<1>6. CASE k.awaits # "id"
  <2>1. UNCHANGED <<call, router, session, cache, refused>>
    BY <1>6 DEF OnRequestError
  <2>2. call' = [call EXCEPT ![c] = k]
    BY <1>2, <2>1
  <2>3. Left(router.held, router'.held, call')
    BY <2>1, NothingLeft
  <2>4. Typed(call', ext', channel', dropped') /\ AllFine(call', ext', router'.held, channel', dropped')
    <3> HIDE DEF y
    <3> QED BY <1>1, <1>3, <1>4, <1>5, <2>2, <2>3, MoveFacts
  <2> QED BY <2>1, <2>4 DEF Ind
<1>7. CASE k.awaits = "id"
  <2> DEFINE i == StopAwaiting(k)
             j == IF k.status \in Final THEN i ELSE End(i, "failed")
  <2>1. /\ router' = Unexpect(router) /\ call' = [call EXCEPT ![c] = j]
        /\ session' = [session EXCEPT !.inFlight = @ \ {c}]
        /\ IF k.status \in Final THEN UNCHANGED <<cache, refused>> ELSE Refuse(i, code)
    BY <1>7 DEF OnRequestError, Settled
  <2>2. /\ i \in CallRecords /\ i.status = k.status /\ i.awaits = "none" /\ i.id = k.id
        /\ i.token = k.token /\ i.seen = k.seen /\ i.ack = k.ack
        /\ i.guard <=> (k.guard /\ k.status \notin Final)
    BY <1>4, StopFacts
  <2> HIDE DEF i
  <2>3. /\ j \in CallRecords /\ j.awaits = "none" /\ ~j.id /\ ~Alive(j) /\ j.status \in Final
        /\ j.token \in {k.token, NoToken}
        /\ Fine(j, y, h, l) /\ (Whole(k, x, h, l) => Whole(j, y, h, l))
    <3> HIDE DEF k, x, h, l, y
    <3>1. CASE k.status \in Final
      <4>1. j = StopAwaiting(k)
        BY <3>1 DEF i
      <4>2. j = i
        BY <3>1
      <4> HIDE DEF j
      <4> QED BY <1>4, <1>5, <2>2, <3>1, <4>1, <4>2, AwaitedNoMore
    <3>2. CASE k.status \notin Final
      <4>1. j = End(i, "failed")
        BY <3>2
      <4> HIDE DEF j
      <4>2. /\ j \in CallRecords /\ j.status = "failed" /\ ~Alive(j) /\ j.status \in Final
            /\ j.awaits = "none" /\ ~j.id /\ j.ack = k.ack /\ j.token = NoToken /\ ~j.guard
        BY <1>5, <2>2, <4>1, EndFacts
      <4>3. /\ Stage(k, y) /\ Stopped(k, y) /\ Heard(k, y, h, l)
        BY <1>5 DEF Fine
      <4>4. Stage(j, y)
        BY <4>2, <4>3 DEF Stage
      <4>5. Stopped(j, y)
        BY <4>2, <4>3 DEF Stopped
      <4>6. Heard(j, y, h, l)
        BY <4>2, <4>3 DEF Heard
      <4>7. Whole(j, y, h, l)
        BY <4>2 DEF Whole
      <4> QED BY <4>2, <4>4, <4>5, <4>6, <4>7 DEF Fine
    <3> QED BY <3>1, <3>2
  <2> HIDE DEF j
  <2>4. Books(router', call') /\ Left(router.held, router'.held, call')
    BY <1>7, <2>1, <2>3, AnswerGone
  <2>5. Typed(call', ext', channel', dropped') /\ AllFine(call', ext', router'.held, channel', dropped')
    <3> HIDE DEF y
    <3> QED BY <1>1, <1>3, <1>5, <2>1, <2>3, <2>4, MoveFacts
  <2>6. \A b \in Calls : /\ call'[b].token \in {call[b].token, NoToken}
                         /\ call'[b].awaits = "token" => call[b].awaits = "token"
    <3>1. \A b \in Calls : call'[b] = IF b = c THEN j ELSE call[b]
      BY <1>2, <2>1
    <3> QED BY <2>3, <3>1
  <2>7. TokensFine(cache', refused', call')
    <3>1. CASE k.status \in Final
      <4>1. TokensFine(cache, refused, call')
        BY <1>2, <2>6, TokensMove
      <4> QED BY <2>1, <3>1, <4>1
    <3>2. CASE k.status \notin Final
      <4>1. Refuse(i, code) /\ i.token \in 1..cache.minted \cup {NoToken}
        BY <1>2, <2>1, <2>2, <3>2 DEF TokensFine
      <4> QED BY <2>6, <4>1, RefuseFacts
    <3> QED BY <3>1, <3>2
  <2>8. SessionFine(session', call')
    BY <1>2, <2>1, <2>3, SessionMove
  <2> QED BY <2>4, <2>5, <2>7, <2>8 DEF Ind
<1> QED BY <1>6, <1>7

(* The id of a call that gave up on it, or is over: its run is cancelled. *)
LEMMA LateAnswerStep ==
  ASSUME Ind, NEW c \in Calls, ext[c].answer = "id",
         call[c].awaits # "id" \/ call[c].status \in Final,
         call' = [call EXCEPT ![c] =
                    IF call[c].awaits # "id" THEN SendCancel(call[c])
                    ELSE StopAwaiting(SendCancel([call[c] EXCEPT !.id = TRUE]))],
         router' = (IF call[c].awaits # "id" THEN router ELSE Unexpect(router)),
         ext' = [ext EXCEPT ![c].answer = "none"],
         UNCHANGED <<channel, dropped, session, cache, refused>>
  PROVE  Ind'
<1> DEFINE k == call[c]
           x == ext[c]
           h == HeldOf(router.held, c)
           l == Coming(channel, c)
           y == [x EXCEPT !.answer = "none"]
           j == IF k.awaits # "id" THEN SendCancel(k)
                ELSE StopAwaiting(SendCancel([k EXCEPT !.id = TRUE]))
<1>1. /\ call \in [Calls -> CallRecords] /\ ext \in [Calls -> Runs] /\ TokensFine(cache, refused, call)
      /\ Books(router, call) /\ SessionFine(session, call)
  BY DEF Ind, Typed
<1>2. call' = [call EXCEPT ![c] = j] /\ ext' = [ext EXCEPT ![c] = y]
  BY <1>1
<1>3. k \in CallRecords /\ x \in Runs /\ Fine(k, x, h, l)
  BY OfCall
<1>4. /\ j \in CallRecords /\ y \in Runs /\ j.status = k.status /\ j.token = k.token
      /\ j.awaits = (IF k.awaits = "id" THEN "none" ELSE k.awaits)
      /\ Alive(j) <=> Alive(k)
      /\ j.id /\ Alive(j) <=> k.id /\ Alive(k)
      /\ Fine(j, y, h, l) /\ (Whole(k, x, h, l) => Whole(j, y, h, l))
  <2>1. x.answer = "id" /\ (k.awaits # "id" \/ k.status \in Final)
    OBVIOUS
  <2> HIDE DEF k, x, h, l
  <2> QED BY <1>3, <2>1, LateAnswer
<1> HIDE DEF j, y
<1>5. call'[c] = j /\ \A b \in Calls : b # c => call'[b] = call[b]
  BY <1>1, <1>2
<1>6. Books(router', call') /\ Left(router.held, router'.held, call')
  <2>1. CASE k.awaits = "id"
    <3>1. router' = Unexpect(router) /\ k.status \in Final
      BY <2>1
    <3>2. ~Alive(k)
      BY <3>1 DEF Alive, Final
    <3>3. j.awaits = "none" /\ ~(j.id /\ Alive(j))
      BY <1>4, <2>1, <3>2
    <3> QED BY <1>2, <2>1, <3>1, <3>3, AnswerGone
  <2>2. CASE k.awaits # "id"
    <3>1. router' = router
      BY <2>2
    <3>2. Awaiting(call') = Awaiting(call) /\ Routed(call') = Routed(call)
      <4>1. \A b \in Calls : /\ call'[b].awaits = "id" <=> call[b].awaits = "id"
                             /\ call'[b].id /\ Alive(call'[b]) <=> call[b].id /\ Alive(call[b])
        BY <1>4, <1>5, <2>2
      <4> QED BY <4>1 DEF Awaiting, Routed
    <3> QED BY <1>1, <3>1, <3>2, SameBooks, NothingLeft
  <2> QED BY <2>1, <2>2
<1>7. Typed(call', ext', channel', dropped') /\ AllFine(call', ext', router'.held, channel', dropped')
  <2>1. UNCHANGED <<channel, dropped>> /\ Ind /\ c \in Calls
    OBVIOUS
  <2>2. /\ j \in CallRecords /\ y \in Runs /\ Fine(j, y, HeldOf(router.held, c), Coming(channel, c))
        /\ Whole(call[c], ext[c], HeldOf(router.held, c), Coming(channel, c))
             => Whole(j, y, HeldOf(router.held, c), Coming(channel, c))
    BY <1>4
  <2> QED BY ONLY <1>2, <1>6, <2>1, <2>2, MoveFacts
<1>8. TokensFine(cache', refused', call')
  <2>1. \A b \in Calls : /\ call'[b].token \in {call[b].token, NoToken}
                         /\ call'[b].awaits = "token" => call[b].awaits = "token"
    BY ONLY <1>4, <1>5 DEF k
  <2>2. TokensFine(cache, refused, call')
    BY <1>1, <2>1, TokensMove
  <2> QED BY <2>2
<1>9. SessionFine(session', call')
  <2>1. \A b \in Calls : /\ Alive(call'[b]) <=> Alive(call[b])
                         /\ call[b].status \in Final => call'[b].status \in Final
    BY <1>4, <1>5
  <2>2. SessionFine(session, call')
    BY <1>1, <2>1, SessionStays
  <2> QED BY <2>2
<1> QED BY <1>6, <1>7, <1>8, <1>9 DEF Ind

-----------------------------------------------------------------------------
(* Events at their route                                                   *)

(* c, as k, can be given types: of what was held and was coming, rest is   *)
(* still to come.                                                          *)
CanHear(k, y, h, l, types, rest) ==
  /\ k \in CallRecords /\ Alive(k) /\ k.id /\ k.guard
  /\ y \in Runs /\ y.answer = "none" /\ Began(y)
  /\ h \in Seq(EventTypes) /\ l \in Seq(EventTypes)
  /\ types \in Seq(EventTypes) /\ rest \in Seq(EventTypes) /\ SameEvents(h, l, types, rest)
  /\ k.ack = "done" => y.run = "over"
  /\ \A i \in 1..Len(y.emitted) : y.emitted[i] \in Terminal => i = Len(y.emitted) /\ y.run = "over"
  /\ HasEnd(h) \/ HasEnd(l) => y.run = "over"

(* It became j. *)
Became(j, c, k, y, h, l, rest, r) ==
  /\ j \in CallRecords /\ call' = [call EXCEPT ![c] = j] /\ j.id /\ j.awaits = "none"
  /\ Fine(j, y, << >>, rest)
  /\ AllHeard(k.seen, h, l, y.emitted) => Whole(j, y, << >>, rest)
  /\ TokensFine(cache', refused', call')
  /\ SessionFine(session', call')
  /\ LET m == IF Alive(j) THEN r ELSE Release(r, {c})
     IN  router' = IF k.awaits = "id" THEN Unexpect(m) ELSE m

(* The call, the session and the tokens, whatever the router is. *)
LEMMA RouteFacts ==
  ASSUME Ind, NEW c \in Calls, Alive(call[c]), NEW k, k.token = call[c].token,
         NEW y, NEW h, NEW l, NEW types, NEW rest, CanHear(k, y, h, l, types, rest),
         NEW r, NEW code, Route(c, k, r, types, code)
  PROVE  \E j : Became(j, c, k, y, h, l, rest, r)
<1> DEFINE a == AfterEvents(k, types)
           j == StopAwaiting(a)
<1>1. /\ j \in CallRecords /\ j.id /\ j.awaits = "none" /\ j.token \in {k.token, NoToken}
      /\ j.status = a.status /\ (Alive(j) \/ j.status \in Final)
      /\ Fine(j, y, << >>, rest)
      /\ AllHeard(k.seen, h, l, y.emitted) => Whole(j, y, << >>, rest)
  BY RouteHears DEF CanHear
<1>2. /\ call' = [call EXCEPT ![c] = j]
      /\ router' = IF k.awaits = "id"
                   THEN Unexpect(IF a.status \in Final THEN Release(r, {c}) ELSE r)
                   ELSE IF a.status \in Final THEN Release(r, {c}) ELSE r
      /\ session' = IF a.status \in Final THEN [session EXCEPT !.inFlight = @ \ {c}] ELSE session
      /\ IF a.status = "failed" THEN Refuse(k, code) ELSE UNCHANGED <<cache, refused>>
  BY DEF Route
<1> HIDE DEF j, a
<1>3. Alive(j) <=> a.status \notin Final
  BY <1>1 DEF Alive, Final
<1>4. call \in [Calls -> CallRecords] /\ TokensFine(cache, refused, call) /\ SessionFine(session, call)
  BY DEF Ind, Typed
<1>5. \A b \in Calls : call'[b] = IF b = c THEN j ELSE call[b]
  BY <1>2, <1>4
<1>6. TokensFine(cache', refused', call')
  <2>1. \A b \in Calls : /\ call'[b].token \in {call[b].token, NoToken}
                         /\ call'[b].awaits = "token" => call[b].awaits = "token"
    BY <1>1, <1>5
  <2>2. CASE a.status = "failed"
    <3>1. Refuse(k, code) /\ k.token \in 1..cache.minted \cup {NoToken}
      BY <1>2, <1>4, <2>2 DEF TokensFine
    <3> QED BY <2>1, <3>1, RefuseFacts
  <2>3. CASE a.status # "failed"
    <3>1. TokensFine(cache, refused, call')
      BY <1>4, <2>1, TokensMove
    <3> QED BY <1>2, <2>3, <3>1
  <2> QED BY <2>2, <2>3
<1>7. SessionFine(session', call')
  <2>1. call[c].status \notin Final
    BY DEF Alive, Final
  <2> QED BY <1>2, <1>3, <1>4, <2>1, SessionMove
<1>8. LET m == IF Alive(j) THEN r ELSE Release(r, {c})
      IN  router' = IF k.awaits = "id" THEN Unexpect(m) ELSE m
  BY <1>2, <1>3
<1>9. Became(j, c, k, y, h, l, rest, r)
  BY <1>1, <1>2, <1>6, <1>7, <1>8 DEF Became
<1> QED BY <1>9

(* The router when the answer comes: the id is claimed, its route given    *)
(* what was held, and the answer no longer expected.                       *)
LEMMA AnswerRouted ==
  ASSUME Ind, NEW c \in Calls, call[c].awaits = "id", Alive(call[c]),
         NEW j \in CallRecords, j.id, j.awaits = "none", call' = [call EXCEPT ![c] = j],
         NEW m, m = IF Alive(j) THEN Claim(router, c) ELSE Release(Claim(router, c), {c}),
         router' = Unexpect(m)
  PROVE  /\ Books(router', call') /\ Left(router.held, router'.held, call')
         /\ HeldOf(router'.held, c) = << >>
<1> DEFINE r == Claim(router, c)
<1>1. /\ call \in [Calls -> CallRecords]
      /\ router \in RouterRecords /\ HeldFine(router.held)
      /\ router.expecting = Cardinality(Awaiting(call)) /\ router.routes = Routed(call)
      /\ router.attached <=> (router.expecting > 0 \/ router.routes # {})
  BY DEF Ind, Typed, Books, Counts
<1>2. ~call[c].id
  BY OfCall DEF Fine, Stage
<1>3. c \in Awaiting(call) /\ c \notin Routed(call)
  BY <1>2 DEF Awaiting, Routed
<1>4. router.attached /\ router.expecting > 0
  <2>1. Cardinality(Awaiting(call)) \in Nat /\ Cardinality(Awaiting(call)) # 0
    BY <1>3, AwaitingCounted
  <2> QED BY <1>1, <2>1
<1>5. /\ r \in RouterRecords /\ HeldFine(r.held) /\ r.attached
      /\ r.expecting = router.expecting /\ r.routes = router.routes \cup {c}
      /\ \A b \in Calls : HeldOf(r.held, b) = IF b = c THEN << >> ELSE HeldOf(router.held, b)
  BY <1>1, <1>4, Claimed
<1> HIDE DEF r
<1>6. call'[c] = j /\ \A b \in Calls : b # c => call'[b] = call[b]
  BY <1>1
<1>7. Awaiting(call') = Awaiting(call) \ {c}
  BY <1>6 DEF Awaiting
<1>8. /\ m \in RouterRecords /\ HeldFine(m.held) /\ m.attached /\ m.expecting = router.expecting
      /\ m.routes = Routed(call')
      /\ \A b \in Calls : HeldOf(m.held, b) = IF b = c THEN << >> ELSE HeldOf(router.held, b)
  <2>1. CASE Alive(j)
    <3>1. m = r
      BY <2>1 DEF r
    <3>2. Routed(call') = Routed(call) \cup {c}
      BY <1>6, <2>1 DEF Routed
    <3> QED BY <1>1, <1>5, <3>1, <3>2
  <2>2. CASE ~Alive(j)
    <3> DEFINE cl == [call EXCEPT ![c] = [j EXCEPT !.awaits = "id"]]
    <3>1. /\ \A b \in Calls : b # c => cl[b] = call[b]
          /\ cl[c].awaits = "id" /\ ~Alive(cl[c])
      <4> DEFINE i == [j EXCEPT !.awaits = "id"]
      <4>1. i.awaits = "id" /\ i.status = j.status
        BY DEF CallRecords
      <4>2. ~Alive(i)
        BY <2>2, <4>1 DEF Alive
      <4> HIDE DEF i
      <4>3. cl[c] = i
        BY <1>1 DEF i
      <4> QED BY <1>1, <4>1, <4>2, <4>3
    <3> HIDE DEF cl
    <3>2. Awaiting(cl) = Awaiting(call) /\ Routed(cl) = Routed(call)
      BY <1>3, <3>1 DEF Awaiting, Routed
    <3>3. Routed(call') = Routed(call)
      BY <1>3, <1>6, <2>2 DEF Routed
    <3>4. r.routes \ {c} = Routed(cl) /\ r.expecting = Cardinality(Awaiting(cl))
          /\ {c} \in SUBSET Calls /\ \A b \in {c} : ~Alive(cl[b])
      BY <1>1, <1>3, <1>5, <3>1, <3>2
    <3>5. r.expecting > 0
      BY <1>4, <1>5
    <3> DEFINE S == {c}
    <3>6. m = Release(r, S)
      BY <2>2 DEF r
    <3>7. r.routes \ S = Routed(cl) /\ S \in SUBSET Calls /\ \A b \in S : ~Alive(cl[b])
      BY <3>4
    <3> HIDE DEF S
    <3>8. /\ m \in RouterRecords /\ HeldFine(m.held) /\ m.attached /\ m.expecting = r.expecting
          /\ m.routes = r.routes \ S
          /\ \A b \in Calls : HeldOf(m.held, b) = IF b \in S THEN << >> ELSE HeldOf(r.held, b)
      <4>1. /\ r \in RouterRecords /\ HeldFine(r.held) /\ r.attached /\ r.expecting = Cardinality(Awaiting(cl))
            /\ S \in SUBSET Calls /\ r.routes \ S = Routed(cl) /\ \A b \in S : ~Alive(cl[b])
            /\ r.expecting > 0
        BY <1>5, <3>4, <3>5, <3>7
      <4> QED BY ONLY <3>6, <4>1, Released
    <3> QED BY <1>5, <3>2, <3>3, <3>7, <3>8 DEF S
  <2> QED BY <2>1, <2>2
<1>9. Books(router', call') /\ Left(m.held, router'.held, call')
  BY <1>1, <1>3, <1>7, <1>8, Unexpected
<1>10. HeldOf(router'.held, c) = << >>
  BY <1>8, <1>9 DEF Left
<1>11. Left(router.held, router'.held, call')
  BY <1>6, <1>8, <1>9, <1>10 DEF Left
<1> QED BY <1>9, <1>10, <1>11

LEMMA OnAnswerStep ==
  ASSUME Ind, NEW c \in Calls, OnAnswer(c)
  PROVE  Ind'
<1> DEFINE k == call[c]
           x == ext[c]
           h == HeldOf(router.held, c)
           l == Coming(channel, c)
           y == [x EXCEPT !.answer = "none"]
           i == [k EXCEPT !.id = TRUE]
<1>1. /\ x.answer = "id" /\ ext' = [ext EXCEPT ![c].answer = "none"] /\ UNCHANGED <<channel, dropped>>
      /\ \/ /\ k.awaits # "id"
            /\ call' = [call EXCEPT ![c] = SendCancel(@)]
            /\ UNCHANGED <<router, session, cache, refused>>
         \/ /\ k.awaits = "id" /\ k.status \in Final
            /\ call' = [call EXCEPT ![c] = StopAwaiting(SendCancel(i))]
            /\ router' = Unexpect(router)
            /\ UNCHANGED <<session, cache, refused>>
         \/ /\ k.awaits = "id" /\ Alive(k)
            /\ \E code : Route(c, i, Claim(router, c), h, code)
  BY DEF OnAnswer, Settled, Live, Alive
<1>2. call \in [Calls -> CallRecords] /\ ext \in [Calls -> Runs]
      /\ AllFine(call, ext, router.held, channel, dropped)
  BY DEF Ind, Typed
<1>3. CASE /\ k.awaits # "id"
           /\ call' = [call EXCEPT ![c] = SendCancel(@)]
           /\ UNCHANGED <<router, session, cache, refused>>
  <2>1. call' = [call EXCEPT ![c] = IF k.awaits # "id" THEN SendCancel(k)
                                    ELSE StopAwaiting(SendCancel([k EXCEPT !.id = TRUE]))]
    BY <1>3
  <2>2. router' = (IF k.awaits # "id" THEN router ELSE Unexpect(router))
    BY <1>3
  <2> QED BY <1>1, <1>3, <2>1, <2>2, LateAnswerStep
<1>4. CASE /\ k.awaits = "id" /\ k.status \in Final
           /\ call' = [call EXCEPT ![c] = StopAwaiting(SendCancel(i))]
           /\ router' = Unexpect(router)
           /\ UNCHANGED <<session, cache, refused>>
  <2>1. call' = [call EXCEPT ![c] = IF k.awaits # "id" THEN SendCancel(k)
                                    ELSE StopAwaiting(SendCancel([k EXCEPT !.id = TRUE]))]
    BY <1>4
  <2>2. router' = (IF k.awaits # "id" THEN router ELSE Unexpect(router))
    BY <1>4
  <2> QED BY <1>1, <1>4, <2>1, <2>2, LateAnswerStep
<1>5. CASE /\ k.awaits = "id" /\ Alive(k)
           /\ \E code : Route(c, i, Claim(router, c), h, code)
  <2>1. PICK code : Route(c, i, Claim(router, c), h, code)
    BY <1>5
  <2>2. /\ k \in CallRecords /\ x \in Runs /\ Fine(k, x, h, l)
        /\ c \in dropped \/ Whole(k, x, h, l)
        /\ h \in Seq(EventTypes) /\ l \in Seq(EventTypes)
    BY OfCall
  <2>3. /\ i \in CallRecords /\ i.status = k.status /\ i.awaits = "id" /\ i.id
        /\ i.token = k.token /\ i.seen = k.seen /\ i.guard = k.guard /\ i.ack = k.ack
    BY <1>5, <2>2 DEF CallRecords
  <2>4. y \in Runs /\ y.run = x.run /\ y.answer = "none" /\ y.emitted = x.emitted
    BY <2>2 DEF Runs
  <2>5. ext' = [ext EXCEPT ![c] = y]
    BY <1>1, <1>2
  <2> HIDE DEF i, y
  <2>6. Alive(i) /\ i.guard /\ Began(y) /\ (i.ack = "done" => y.run = "over")
        /\ (\A n \in 1..Len(y.emitted) :
              y.emitted[n] \in Terminal => n = Len(y.emitted) /\ y.run = "over")
        /\ (HasEnd(h) \/ HasEnd(l) => y.run = "over")
        /\ (Whole(k, x, h, l) => AllHeard(i.seen, h, l, y.emitted))
    <3> DEFINE hh == h
               ll == l
               kk == k
               xx == x
    <3>1. /\ Stage(kk, xx) /\ Stopped(kk, xx) /\ Heard(kk, xx, hh, ll) /\ xx.answer = "id"
          /\ kk.awaits = "id" /\ Alive(kk)
      BY <1>1, <1>5, <2>2 DEF Fine
    <3>2. /\ i.status = kk.status /\ i.seen = kk.seen /\ i.guard = kk.guard /\ i.ack = kk.ack
          /\ y.run = xx.run /\ y.emitted = xx.emitted
      BY <2>3, <2>4
    <3> HIDE DEF hh, ll, kk, xx
    <3>3. Alive(i) /\ i.guard /\ Began(y) /\ (i.ack = "done" => y.run = "over")
      BY <3>1, <3>2 DEF Alive, Stage, Stopped, Began
    <3>4. /\ \A n \in 1..Len(y.emitted) :
               y.emitted[n] \in Terminal => n = Len(y.emitted) /\ y.run = "over"
          /\ HasEnd(hh) \/ HasEnd(ll) => y.run = "over"
      BY <3>1, <3>2 DEF Heard
    <3>5. Whole(kk, xx, hh, ll) => AllHeard(i.seen, hh, ll, y.emitted)
      BY <3>1, <3>2 DEF Whole
    <3> QED BY <3>3, <3>4, <3>5 DEF hh, ll, kk, xx
  <2>7. SameEvents(h, l, h, l)
    BY DEF SameEvents
  <2> DEFINE r == Claim(router, c)
  <2>8. PICK j : Became(j, c, i, y, h, l, l, r)
    <3>1. CanHear(i, y, h, l, h, l)
      <4>1. HasEnd(h) \/ HasEnd(l) => y.run = "over"
        BY <2>6
      <4> HIDE DEF k, h, l, x
      <4> QED BY <2>2, <2>3, <2>4, <2>6, <2>7, <4>1 DEF CanHear
    <3>2. Ind /\ c \in Calls /\ Alive(call[c]) /\ i.token = call[c].token
      BY <1>5, <2>3
    <3>3. Route(c, i, r, h, code)
      BY <2>1
    <3> HIDE DEF k, h, l, x, r
    <3> QED BY ONLY <3>1, <3>2, <3>3, RouteFacts
  <2> DEFINE m == IF Alive(j) THEN Claim(router, c) ELSE Release(Claim(router, c), {c})
  <2>9. router' = Unexpect(m)
    BY <2>3, <2>8 DEF Became
  <2>10. /\ Books(router', call') /\ Left(router.held, router'.held, call')
         /\ HeldOf(router'.held, c) = << >>
    BY <1>5, <2>8, <2>9, AnswerRouted DEF Became
  <2>11. call' \in [Calls -> CallRecords] /\ ext' \in [Calls -> Runs]
         /\ AllFine(call', ext', router'.held, channel, dropped)
    <3>1. Fine(j, y, HeldOf(router'.held, c), Coming(channel, c))
      BY <2>8, <2>10 DEF Became
    <3>2. c \in dropped \/ Whole(j, y, HeldOf(router'.held, c), Coming(channel, c))
      BY <2>2, <2>6, <2>8, <2>10 DEF Became
    <3>3. /\ c \in Calls /\ j \in CallRecords /\ y \in Runs /\ call' = [call EXCEPT ![c] = j]
          /\ \A b \in Calls : b # c => Coming(channel, b) = Coming(channel, b) /\ (b \in dropped => b \in dropped)
      BY <2>4, <2>8 DEF Became
    <3> QED BY ONLY <1>2, <2>5, <2>10, <3>1, <3>2, <3>3, OneMoves
  <2> QED BY <1>1, <2>8, <2>10, <2>11 DEF Ind, Typed, Became
<1> QED BY <1>1, <1>3, <1>4, <1>5

-----------------------------------------------------------------------------
(* An event of the channel                                                 *)

LEMMA HeadComes ==
  ASSUME Ind, channel # << >>
  PROVE  LET e == Head(channel)
         IN  /\ e \in Events /\ e.id \in Calls /\ e.type \in EventTypes /\ Tail(channel) \in Seq(Events)
             /\ \A b \in Calls : /\ Coming(Tail(channel), b) \in Seq(EventTypes)
                                 /\ b # e.id => Coming(Tail(channel), b) = Coming(channel, b)
             /\ Coming(channel, e.id) = << e.type >> \o Coming(Tail(channel), e.id)
<1> DEFINE e == Head(channel)
<1>1. channel \in Seq(Events)
  BY DEF Ind, Typed
<1>2. e \in Events /\ e = channel[1] /\ Tail(channel) \in Seq(Events)
  BY <1>1
<1> HIDE DEF e
<1>3. e.id \in Calls /\ e.type \in EventTypes
  BY <1>2 DEF Events
<1>4. \A b : Coming(channel, b) =
               (IF e.id = b THEN << e.type >> ELSE << >>) \o Coming(Tail(channel), b)
  BY <1>1, <1>2, ComesFirst
<1>5. \A b : Coming(Tail(channel), b) \in Seq(EventTypes)
  BY <1>2, ComingTyped
<1>6. ASSUME NEW b, b # e.id PROVE Coming(Tail(channel), b) = Coming(channel, b)
  <2> DEFINE p == Coming(Tail(channel), b)
  <2>1. Coming(channel, b) = << >> \o p /\ p \in Seq(EventTypes)
    BY <1>4, <1>5, <1>6
  <2> HIDE DEF p
  <2>2. << >> \o p = p
    BY <2>1
  <2> QED BY <2>1, <2>2 DEF p
<1>7. Coming(channel, e.id) = << e.type >> \o Coming(Tail(channel), e.id)
  BY <1>4
<1> QED BY <1>2, <1>3, <1>5, <1>6, <1>7 DEF e

(* Of what comes, type is the first. *)
StartsWith(l, type, rest) == l = << type >> \o rest

(* A call whose events have a route. *)
LEMMA RoutedCanHear ==
  ASSUME NEW k \in CallRecords, NEW x \in Runs, NEW h, NEW l \in Seq(EventTypes), Fine(k, x, h, l),
         k.id, Alive(k), NEW type \in EventTypes, NEW rest \in Seq(EventTypes),
         StartsWith(l, type, rest)
  PROVE  CanHear(k, x, h, l, << type >>, rest) /\ h = << >> /\ k.awaits = "none"
<1>1. Stage(k, x) /\ Stopped(k, x) /\ Heard(k, x, h, l)
  BY DEF Fine
<1>2. Began(x) /\ x.answer = "none" /\ k.awaits = "none" /\ k.guard
  BY <1>1 DEF Stage
<1>3. h = << >>
  BY <1>1 DEF Heard
<1>4. << type >> \in Seq(EventTypes) /\ << >> \in Seq(EventTypes)
  OBVIOUS
<1>5. SameEvents(h, l, << type >>, rest)
  <2>1. << >> \o l = l
    OBVIOUS
  <2> QED BY <1>3, <2>1 DEF SameEvents, StartsWith
<1>6. k.ack = "done" => x.run = "over"
  BY <1>1 DEF Stopped
<1>7. /\ \A i \in 1..Len(x.emitted) : x.emitted[i] \in Terminal => i = Len(x.emitted) /\ x.run = "over"
      /\ HasEnd(h) \/ HasEnd(l) => x.run = "over"
  BY <1>1 DEF Heard
<1> QED BY <1>2, <1>3, <1>4, <1>5, <1>6, <1>7 DEF CanHear

LEMMA DispatchRouted ==
  ASSUME Ind, channel # << >>, channel' = Tail(channel), UNCHANGED <<ext, dropped>>,
         NEW c, c = Head(channel).id, router.attached, c \in router.routes,
         NEW code, Route(c, call[c], router, << Head(channel).type >>, code)
  PROVE  Ind'
<1> DEFINE e == Head(channel)
           k == call[c]
           x == ext[c]
           h == HeldOf(router.held, c)
           l == Coming(channel, c)
           rest == Coming(Tail(channel), c)
<1>1. /\ call \in [Calls -> CallRecords] /\ ext \in [Calls -> Runs]
      /\ AllFine(call, ext, router.held, channel, dropped) /\ dropped \subseteq Calls
      /\ router \in RouterRecords /\ HeldFine(router.held)
      /\ router.expecting = Cardinality(Awaiting(call)) /\ router.routes = Routed(call)
      /\ Books(router, call)
  BY DEF Ind, Typed, Books, Counts
<1>2. /\ c \in Calls /\ e.type \in EventTypes /\ Tail(channel) \in Seq(Events)
      /\ \A b \in Calls : b # c => Coming(Tail(channel), b) = Coming(channel, b)
      /\ l = << e.type >> \o rest /\ rest \in Seq(EventTypes)
  BY HeadComes
<1>3. k \in CallRecords /\ x \in Runs /\ Fine(k, x, h, l) /\ l \in Seq(EventTypes)
      /\ (c \in dropped \/ Whole(k, x, h, l))
  BY <1>2, OfCall
<1>4. k.id /\ Alive(k)
  BY <1>1 DEF Routed
<1> DEFINE t == e.type
<1>5. CanHear(k, x, h, l, << t >>, rest) /\ h = << >> /\ k.awaits = "none"
  <2>1. t \in EventTypes /\ StartsWith(l, t, rest) /\ rest \in Seq(EventTypes)
    BY <1>2 DEF StartsWith
  <2> HIDE DEF k, x, h, l, rest, t
  <2> QED BY ONLY <1>3, <1>4, <2>1, RoutedCanHear
<1>6. PICK j : Became(j, c, k, x, h, l, rest, router)
  <2>1. Ind /\ c \in Calls /\ Alive(call[c]) /\ k.token = call[c].token /\ Route(c, k, router, << t >>, code)
    BY <1>2, <1>4
  <2> HIDE DEF k, x, h, l, rest, t
  <2> QED BY ONLY <1>5, <2>1, RouteFacts
<1>7. /\ j \in CallRecords /\ call' = [call EXCEPT ![c] = j] /\ j.id /\ j.awaits = "none"
      /\ Fine(j, x, << >>, rest) /\ TokensFine(cache', refused', call')
      /\ SessionFine(session', call')
      /\ router' = IF Alive(j) THEN router ELSE Release(router, {c})
  BY <1>5, <1>6 DEF Became
<1>8. Whole(k, x, h, l) => Whole(j, x, << >>, rest)
  <2> HIDE DEF k, x, h, l, rest
  <2>1. Whole(k, x, h, l) => AllHeard(k.seen, h, l, x.emitted)
    BY <1>4 DEF Whole
  <2> QED BY <1>6, <2>1 DEF Became
<1>9. call'[c] = j /\ \A b \in Calls : b # c => call'[b] = call[b]
  BY <1>1, <1>2, <1>7
<1>10. Awaiting(call') = Awaiting(call)
  BY <1>5, <1>7, <1>9 DEF Awaiting
<1>11. Books(router', call') /\ Left(router.held, router'.held, call')
  <2>1. CASE Alive(j)
    <3>1. Routed(call') = Routed(call)
      BY <1>4, <1>7, <1>9, <2>1 DEF Routed
    <3>2. router' = router
      BY <1>7, <2>1
    <3> QED BY <1>1, <1>10, <3>1, <3>2, SameBooks, NothingLeft
  <2>2. CASE ~Alive(j)
    <3>1. Routed(call') = Routed(call) \ {c}
      BY <1>9, <2>2 DEF Routed
    <3>2. router' = Release(router, {c})
      BY <1>7, <2>2
    <3> DEFINE S == {c}
    <3>3. S \in SUBSET Calls /\ router.routes \ S = Routed(call') /\ \A b \in S : ~Alive(call'[b])
      BY <1>1, <1>2, <1>9, <2>2, <3>1
    <3>4. router' = Release(router, S) /\ router.attached /\ router.expecting = Cardinality(Awaiting(call'))
      BY <1>1, <1>10, <3>2
    <3> HIDE DEF S
    <3> QED BY ONLY <1>1, <3>3, <3>4, Released
  <2> QED BY <2>1, <2>2
<1>12. HeldOf(router'.held, c) = << >>
  BY <1>2, <1>5, <1>11 DEF Left
<1>13. /\ call' \in [Calls -> CallRecords] /\ ext' \in [Calls -> Runs]
       /\ AllFine(call', ext', router'.held, Tail(channel), dropped)
  <2>1. ext' = [ext EXCEPT ![c] = x]
    BY <1>1
  <2>2. Fine(j, x, HeldOf(router'.held, c), Coming(Tail(channel), c))
    BY <1>7, <1>12
  <2>3. c \in dropped \/ Whole(j, x, HeldOf(router'.held, c), Coming(Tail(channel), c))
    BY <1>3, <1>8, <1>12
  <2>4. /\ c \in Calls /\ j \in CallRecords /\ x \in Runs /\ call' = [call EXCEPT ![c] = j]
        /\ \A b \in Calls : b # c => Coming(Tail(channel), b) = Coming(channel, b)
                                     /\ (b \in dropped => b \in dropped)
    BY <1>2, <1>3, <1>7
  <2> DEFINE p == Tail(channel)
             hh == router'.held
  <2>5. /\ Left(router.held, hh, call') /\ Fine(j, x, HeldOf(hh, c), Coming(p, c))
        /\ c \in dropped \/ Whole(j, x, HeldOf(hh, c), Coming(p, c))
        /\ \A b \in Calls : b # c => Coming(p, b) = Coming(channel, b) /\ (b \in dropped => b \in dropped)
        /\ c \in Calls /\ j \in CallRecords /\ x \in Runs /\ call' = [call EXCEPT ![c] = j]
        /\ call \in [Calls -> CallRecords] /\ ext \in [Calls -> Runs]
        /\ AllFine(call, ext, router.held, channel, dropped)
    BY <1>1, <1>11, <2>2, <2>3, <2>4
  <2> HIDE DEF x, p, hh
  <2>6. /\ call' \in [Calls -> CallRecords] /\ ext' \in [Calls -> Runs]
        /\ AllFine(call', ext', hh, p, dropped)
    <3>1. Moves(call, ext, router.held, channel, dropped, c, j, x, hh, p, dropped, call', ext')
      BY ONLY <2>1, <2>5 DEF Moves
    <3> QED BY ONLY <3>1, MovesOn
  <2> QED BY <2>6 DEF p, hh
<1> QED BY <1>1, <1>2, <1>7, <1>11, <1>13 DEF Ind, Typed

(* g is held after h was, when type comes too. *)
StillHeld(g, h, type) == g \in {<< >>, h, << type >>, Append(h, type)}
JustHeld(g, h, type) == g = h \o << type >>

(* What is held for a call, and comes, after an event of it is held. *)
LEMMA HeldIsFine ==
  ASSUME NEW k, NEW x, NEW h \in Seq(EventTypes), NEW l, Fine(k, x, h, l),
         k.seen \in Seq(EventTypes), ~(k.id /\ Alive(k)),
         NEW type \in EventTypes, NEW p \in Seq(EventTypes), StartsWith(l, type, p),
         NEW g, StillHeld(g, h, type)
  PROVE  /\ Fine(k, x, g, p)
         /\ JustHeld(g, h, type) /\ Whole(k, x, h, l) => Whole(k, x, g, p)
<1>0. l = << type >> \o p /\ g \in {<< >>, h, << type >>, Append(h, type)}
  BY DEF StartsWith, StillHeld
<1>1. Stage(k, x) /\ Stopped(k, x) /\ Heard(k, x, h, l)
  BY DEF Fine
<1>2. << type >> \in Seq(EventTypes) /\ Append(h, type) = h \o << type >> /\ l # << >>
  BY <1>0
<1>3. Began(x)
  BY <1>1, <1>2 DEF Heard
<1>4. HasEnd(<< type >>) \/ HasEnd(p) => x.run = "over"
  BY <1>0, <1>1, <1>2, EndOfJoined DEF Heard
<1>5. HasEnd(h) \/ HasEnd(h \o << type >>) => x.run = "over"
  BY <1>1, <1>2, <1>4, EndOfJoined DEF Heard
<1>6. ~HasEnd(<< >>)
  BY DEF HasEnd
<1>7. HasEnd(g) => x.run = "over"
  BY <1>0, <1>2, <1>4, <1>5, <1>6
<1>8. Heard(k, x, g, p)
  BY <1>1, <1>3, <1>4, <1>7 DEF Heard
<1>9. ASSUME g = h \o << type >>, Whole(k, x, h, l) PROVE Whole(k, x, g, p)
  <2>1. ASSUME NEW s \in Seq(EventTypes), NEW m, AllHeard(s, h, l, m) PROVE AllHeard(s, g, p, m)
    <3>1. (s \o (h \o << type >>)) \o p = (s \o h) \o (<< type >> \o p)
      OBVIOUS
    <3> QED BY <1>0, <1>9, <2>1, <3>1 DEF AllHeard
  <2> QED BY <1>9, <2>1 DEF Whole
<1> QED BY <1>1, <1>8, <1>9 DEF Fine, JustHeld

LEMMA DispatchHeld ==
  ASSUME Ind, channel # << >>, channel' = Tail(channel),
         UNCHANGED <<ext, call, session, cache, refused>>,
         NEW e, e = Head(channel), e.id \notin router.routes,
         NEW swept \in 0..Len(router.held), router' = Hold(router, e, swept),
         dropped' = dropped \cup {c \in Calls : HeldOf(router'.held, c) #
                      HeldOf(router.held, c) \o (IF c = e.id THEN <<e.type>> ELSE <<>>)}
  PROVE  Ind'
<1>1. /\ call \in [Calls -> CallRecords] /\ ext \in [Calls -> Runs]
      /\ AllFine(call, ext, router.held, channel, dropped) /\ dropped \subseteq Calls
      /\ router \in RouterRecords /\ HeldFine(router.held) /\ router.routes = Routed(call)
      /\ router.expecting = Cardinality(Awaiting(call))
      /\ router.attached <=> (router.expecting > 0 \/ router.routes # {})
  BY DEF Ind, Typed, Books, Counts
<1>2. /\ e \in Events /\ e.id \in Calls /\ e.type \in EventTypes /\ Tail(channel) \in Seq(Events)
      /\ \A b \in Calls : /\ Coming(Tail(channel), b) \in Seq(EventTypes)
                          /\ b # e.id => Coming(Tail(channel), b) = Coming(channel, b)
      /\ Coming(channel, e.id) = << e.type >> \o Coming(Tail(channel), e.id)
  BY HeadComes
<1> DEFINE g == Hold(router, e, swept).held
<1>3. /\ router' = [router EXCEPT !.held = g] /\ HeldFine(g)
      /\ \A c \in Calls : c # e.id => HeldOf(g, c) \in {<< >>, HeldOf(router.held, c)}
      /\ HeldOf(g, e.id) \in {<< >>, HeldOf(router.held, e.id), << e.type >>,
                               Append(HeldOf(router.held, e.id), e.type)}
  BY <1>1, <1>2, HoldFacts
<1> HIDE DEF g
<1>4. router'.held = g
  BY <1>1, <1>3 DEF RouterRecords
<1>5. Books(router', call')
  <2>1. /\ router' \in RouterRecords /\ router'.expecting = router.expecting
        /\ router'.routes = router.routes /\ router'.attached = router.attached
    BY <1>1, <1>3 DEF RouterRecords, HeldFine
  <2> QED BY <1>1, <1>3, <1>4, <2>1 DEF Books, Counts
<1>6. ASSUME NEW b \in Calls
      PROVE  /\ Fine(call[b], ext[b], HeldOf(g, b), Coming(Tail(channel), b))
             /\ b \in dropped' \/ Whole(call[b], ext[b], HeldOf(g, b), Coming(Tail(channel), b))
  <2> DEFINE k == call[b]
             x == ext[b]
             h == HeldOf(router.held, b)
             l == Coming(channel, b)
             p == Coming(Tail(channel), b)
             o == HeldOf(g, b)
  <2>1. /\ Fine(k, x, h, l) /\ (b \in dropped \/ Whole(k, x, h, l))
        /\ h \in Seq(EventTypes) /\ l \in Seq(EventTypes) /\ k.seen \in Seq(EventTypes)
        /\ p \in Seq(EventTypes)
    BY <1>2, OfCall
  <2>2. CASE b = e.id
    <3> DEFINE t == e.type
    <3>1. ~(k.id /\ Alive(k)) /\ t \in EventTypes /\ StartsWith(l, t, p)
          /\ StillHeld(o, h, t)
      BY <1>1, <1>2, <1>3, <2>2 DEF Routed, StartsWith, StillHeld
    <3>2. b \notin dropped' => JustHeld(o, h, t) /\ b \notin dropped
      BY <1>4, <2>2 DEF JustHeld
    <3> HIDE DEF k, x, h, l, p, o, t
    <3>3. Fine(k, x, o, p) /\ (JustHeld(o, h, t) /\ Whole(k, x, h, l) => Whole(k, x, o, p))
      BY ONLY <2>1, <3>1, HeldIsFine
    <3>4. Fine(k, x, o, p) /\ (b \in dropped' \/ Whole(k, x, o, p))
      BY <2>1, <3>2, <3>3
    <3> QED BY <3>4 DEF k, x, o, p
  <2>3. CASE b # e.id
    <3>1. p = l /\ o \in {<< >>, h}
      BY <1>2, <1>3, <2>3
    <3>2. b \notin dropped' => o = h \o << >> /\ b \notin dropped
      BY <1>4, <2>3
    <3>3. h \o << >> = h
      <4> HIDE DEF h
      <4> QED BY <2>1
    <3> HIDE DEF k, x, h, l, p, o
    <3>4. Fine(k, x, o, p)
      <4>1. ~HasEnd(<< >>)
        BY DEF HasEnd
      <4> QED BY <2>1, <3>1, <4>1 DEF Fine, Heard
    <3>5. b \in dropped' \/ Whole(k, x, o, p)
      BY <2>1, <3>1, <3>2, <3>3
    <3> QED BY <3>4, <3>5 DEF k, x, o, p
  <2> QED BY <2>2, <2>3
<1>7. AllFine(call', ext', router'.held, channel', dropped')
  BY <1>4, <1>6 DEF AllFine
<1>8. Typed(call', ext', channel', dropped')
  BY <1>1, <1>2 DEF Typed
<1> QED BY <1>5, <1>7, <1>8 DEF Ind

(* Nobody listens: the event was of a call that is over. *)
LEMMA DispatchDropped ==
  ASSUME Ind, channel # << >>, channel' = Tail(channel),
         UNCHANGED <<ext, call, router, session, cache, dropped, refused>>,
         NEW e, e = Head(channel),
         ~router.attached \/ (e.id \notin router.routes /\ router.expecting = 0)
  PROVE  Ind'
<1>1. /\ call \in [Calls -> CallRecords] /\ ext \in [Calls -> Runs]
      /\ AllFine(call, ext, router.held, channel, dropped) /\ dropped \subseteq Calls
      /\ router \in RouterRecords /\ router.routes = Routed(call)
      /\ router.expecting = Cardinality(Awaiting(call))
      /\ router.attached <=> (router.expecting > 0 \/ router.routes # {})
  BY DEF Ind, Typed, Books, Counts
<1>2. /\ e.id \in Calls /\ e.type \in EventTypes /\ Tail(channel) \in Seq(Events)
      /\ \A b \in Calls : /\ Coming(Tail(channel), b) \in Seq(EventTypes)
                          /\ b # e.id => Coming(Tail(channel), b) = Coming(channel, b)
      /\ Coming(channel, e.id) = << e.type >> \o Coming(Tail(channel), e.id)
  BY HeadComes
<1>3. Awaiting(call) = {} /\ e.id \notin Routed(call)
  <2>1. router.expecting \in Nat
    BY <1>1 DEF RouterRecords
  <2>2. router.expecting = 0 /\ e.id \notin router.routes
    BY <1>1, <2>1
  <2> QED BY <1>1, <2>2, AwaitingCounted
<1>4. ASSUME NEW b \in Calls
      PROVE  /\ Fine(call[b], ext[b], HeldOf(router.held, b), Coming(Tail(channel), b))
             /\ b \in dropped \/ Whole(call[b], ext[b], HeldOf(router.held, b), Coming(Tail(channel), b))
  <2> DEFINE k == call[b]
             x == ext[b]
             h == HeldOf(router.held, b)
             l == Coming(channel, b)
             p == Coming(Tail(channel), b)
  <2>1. /\ Fine(k, x, h, l) /\ (b \in dropped \/ Whole(k, x, h, l))
        /\ k.awaits \in {"none", "token", "id"} /\ p \in Seq(EventTypes)
    BY <1>2, OfCall
  <2>2. CASE b = e.id
    <3> DEFINE t == e.type
    <3>1. ~(k.id /\ Alive(k)) /\ k.awaits # "id" /\ t \in EventTypes /\ l = << t >> \o p
      BY <1>2, <1>3, <2>2 DEF Routed, Awaiting
    <3> HIDE DEF k, x, h, l, p, t
    <3>2. Stage(k, x) /\ Stopped(k, x) /\ Heard(k, x, h, l)
      BY <2>1 DEF Fine
    <3>3. l # << >> /\ << t >> \in Seq(EventTypes)
      BY <2>1, <3>1
    <3>4. Began(x) /\ ~Alive(k)
      BY <2>1, <3>1, <3>2, <3>3 DEF Stage, Heard, Began
    <3>5. HasEnd(p) => HasEnd(l)
      BY <2>1, <3>1, <3>3, EndOfJoined
    <3>6. Fine(k, x, h, p)
      BY <3>2, <3>4, <3>5 DEF Fine, Heard
    <3>7. b \in dropped \/ Whole(k, x, h, p)
      BY <2>1, <3>4 DEF Whole
    <3> QED BY <3>6, <3>7 DEF k, x, h, p
  <2>3. CASE b # e.id
    BY <1>2, <2>1, <2>3
  <2> QED BY <2>2, <2>3
<1>5. AllFine(call', ext', router'.held, channel', dropped')
  BY <1>4 DEF AllFine
<1>6. Typed(call', ext', channel', dropped')
  BY <1>1, <1>2 DEF Typed
<1> QED BY <1>5, <1>6 DEF Ind

LEMMA DispatchStep ==
  ASSUME Ind, Dispatch
  PROVE  Ind'
<1> DEFINE e == Head(channel)
           Drops(next) == {c \in Calls :
             HeldOf(next.held, c) # HeldOf(router.held, c) \o (IF c = e.id THEN <<e.type>> ELSE <<>>)}
<1>1. /\ channel # << >> /\ channel' = Tail(channel) /\ UNCHANGED ext
      /\ \/ /\ router.attached /\ e.id \in router.routes
            /\ \E code : Route(e.id, call[e.id], router, <<e.type>>, code)
            /\ UNCHANGED dropped
         \/ /\ router.attached /\ e.id \notin router.routes /\ router.expecting > 0
            /\ \E swept \in 0..Len(router.held) : router' = Hold(router, e, swept)
            /\ dropped' = dropped \cup Drops(router')
            /\ UNCHANGED <<call, session, cache, refused>>
         \/ /\ ~router.attached \/ (e.id \notin router.routes /\ router.expecting = 0)
            /\ UNCHANGED <<call, router, session, cache, dropped, refused>>
  BY DEF Dispatch
<1>2. CASE /\ router.attached /\ e.id \in router.routes
           /\ \E code : Route(e.id, call[e.id], router, <<e.type>>, code)
           /\ UNCHANGED dropped
  BY <1>1, <1>2, DispatchRouted
<1>3. CASE /\ router.attached /\ e.id \notin router.routes /\ router.expecting > 0
           /\ \E swept \in 0..Len(router.held) : router' = Hold(router, e, swept)
           /\ dropped' = dropped \cup Drops(router')
           /\ UNCHANGED <<call, session, cache, refused>>
  BY <1>1, <1>3, DispatchHeld
<1>4. CASE /\ ~router.attached \/ (e.id \notin router.routes /\ router.expecting = 0)
           /\ UNCHANGED <<call, router, session, cache, dropped, refused>>
  BY <1>1, <1>4, DispatchDropped
<1> QED BY <1>1, <1>2, <1>3, <1>4

-----------------------------------------------------------------------------
(* The extension                                                           *)

(* A step of the extension: of the page's records only an acknowledgement. *)
LEMMA RunMoves ==
  ASSUME Ind, NEW c \in Calls, NEW j \in CallRecords, NEW y \in Runs,
         call' = [call EXCEPT ![c] = j], ext' = [ext EXCEPT ![c] = y],
         j.status = call[c].status, j.awaits = call[c].awaits, j.id = call[c].id,
         j.token = call[c].token,
         UNCHANGED <<router, session, cache, dropped, refused>>,
         channel' \in Seq(Events),
         \A b \in Calls : b # c => Coming(channel', b) = Coming(channel, b),
         Fine(j, y, HeldOf(router.held, c), Coming(channel', c)),
         Whole(call[c], ext[c], HeldOf(router.held, c), Coming(channel, c))
           => Whole(j, y, HeldOf(router.held, c), Coming(channel', c))
  PROVE  Ind'
<1>1. /\ call \in [Calls -> CallRecords] /\ ext \in [Calls -> Runs] /\ dropped \subseteq Calls
      /\ AllFine(call, ext, router.held, channel, dropped) /\ Books(router, call)
      /\ TokensFine(cache, refused, call) /\ SessionFine(session, call)
  BY DEF Ind, Typed
<1>2. call'[c] = j /\ \A b \in Calls : b # c => call'[b] = call[b]
  BY <1>1
<1>3. \A b \in Calls : /\ call'[b].status = call[b].status /\ call'[b].awaits = call[b].awaits
                       /\ call'[b].id = call[b].id /\ call'[b].token = call[b].token
  BY <1>2
<1>4. \A b \in Calls : Alive(call'[b]) <=> Alive(call[b])
  BY <1>3 DEF Alive
<1>5. Awaiting(call') = Awaiting(call) /\ Routed(call') = Routed(call)
  BY <1>3, <1>4 DEF Awaiting, Routed
<1>6. Books(router', call')
  <2>1. Books(router, call')
    BY <1>1, <1>5, SameBooks
  <2> QED BY <2>1
<1>7. TokensFine(cache', refused', call')
  <2>1. TokensFine(cache, refused, call')
    BY <1>1, <1>3, TokensMove
  <2> QED BY <2>1
<1>8. SessionFine(session', call')
  <2>1. \A b \in Calls : /\ Alive(call'[b]) <=> Alive(call[b])
                         /\ call[b].status \in Final => call'[b].status \in Final
    BY ONLY <1>3, <1>4
  <2>2. SessionFine(session, call')
    BY ONLY <1>1, <2>1, SessionStays
  <2> QED BY <2>2
<1>9. /\ call' \in [Calls -> CallRecords] /\ ext' \in [Calls -> Runs]
      /\ AllFine(call', ext', router'.held, channel', dropped')
  <2> DEFINE h == router.held
             p == channel'
  <2>1. c \in dropped \/ Whole(j, y, HeldOf(h, c), Coming(p, c))
    BY OfCall
  <2>2. Left(h, h, call') /\ Fine(j, y, HeldOf(h, c), Coming(p, c))
        /\ \A b \in Calls : b # c => Coming(p, b) = Coming(channel, b) /\ (b \in dropped => b \in dropped)
    BY NothingLeft
  <2>3. Moves(call, ext, h, channel, dropped, c, j, y, h, p, dropped, call', ext')
    BY <1>1, <2>1, <2>2 DEF Moves
  <2> HIDE DEF h, p
  <2>4. /\ call' \in [Calls -> CallRecords] /\ ext' \in [Calls -> Runs]
        /\ AllFine(call', ext', h, p, dropped)
    BY ONLY <2>3, MovesOn
  <2> QED BY <2>4 DEF h, p
<1> QED BY <1>1, <1>6, <1>7, <1>8, <1>9 DEF Ind, Typed

LEMMA AcceptStep ==
  ASSUME Ind, NEW c \in Calls, Accept(c)
  PROVE  Ind'
<1> DEFINE k == call[c]
           x == ext[c]
           h == HeldOf(router.held, c)
           l == Coming(channel, c)
<1>1. call \in [Calls -> CallRecords] /\ ext \in [Calls -> Runs] /\ channel \in Seq(Events)
  BY DEF Ind, Typed
<1>2. k \in CallRecords /\ x \in Runs /\ Fine(k, x, h, l)
  BY OfCall
<1>3. PICK run \in {"running", "over"}, answer \in {"id", "error"} :
        ext' = [ext EXCEPT ![c] = [x EXCEPT !.run = run, !.answer = answer]]
  BY <1>1 DEF Accept
<1> DEFINE y == [x EXCEPT !.run = run, !.answer = answer]
<1>4. y \in Runs /\ y.run = run /\ y.answer = answer /\ y.emitted = x.emitted /\ Began(y)
  BY <1>2 DEF Runs, Began
<1>5. x.run = "asked" /\ UNCHANGED <<call, router, session, cache, channel, dropped, refused>>
  BY DEF Accept
<1> HIDE DEF y
<1>6. Fine(k, y, h, l) /\ (Whole(k, x, h, l) => Whole(k, y, h, l))
  <2> HIDE DEF k, x, h, l
  <2>1. Stage(k, x) /\ Stopped(k, x) /\ Heard(k, x, h, l) /\ ~Began(x)
    BY <1>2, <1>5 DEF Fine, Began
  <2>2. /\ k.status # "none" /\ k.awaits # "token" /\ ~k.id /\ k.ack = "none"
        /\ x.emitted = << >> /\ h = << >> /\ l = << >> /\ k.status # "finished"
    BY <1>5, <2>1 DEF Stage, Stopped, Heard
  <2>3. Stage(k, y)
    BY <1>4, <2>1, <2>2 DEF Stage, Began
  <2>4. Stopped(k, y)
    BY <2>2 DEF Stopped
  <2>5. Heard(k, y, h, l)
    <3>1. ~HasEnd(<< >>)
      BY DEF HasEnd
    <3>2. \A i \in 1..Len(y.emitted) : FALSE
      BY <1>4, <2>2
    <3> QED BY <1>4, <2>2, <3>1, <3>2 DEF Heard
  <2>6. Whole(k, x, h, l) => Whole(k, y, h, l)
    BY <1>4 DEF Whole
  <2> QED BY <2>3, <2>4, <2>5, <2>6 DEF Fine
<1>7. call' = [call EXCEPT ![c] = k] /\ ext' = [ext EXCEPT ![c] = y]
  BY <1>1, <1>3, <1>5 DEF y
<1>8. channel' = channel
  BY <1>5
<1>9. Fine(k, y, h, Coming(channel', c)) /\ (Whole(k, x, h, l) => Whole(k, y, h, Coming(channel', c)))
  BY <1>6, <1>8
<1>10. \A b \in Calls : b # c => Coming(channel', b) = Coming(channel, b)
  BY <1>8
<1> QED BY <1>1, <1>2, <1>4, <1>5, <1>7, <1>8, <1>9, <1>10, RunMoves

(* What the run emits is on its way. *)
LEMMA EmitFacts ==
  ASSUME NEW k \in CallRecords, NEW x \in Runs, NEW h \in Seq(EventTypes), NEW l \in Seq(EventTypes),
         Fine(k, x, h, l), x.run = "running",
         NEW type \in EventTypes,
         NEW j \in CallRecords, j.status = k.status, j.awaits = k.awaits, j.id = k.id,
         j.guard = k.guard, j.seen = k.seen, j.ack = k.ack \/ type \in Terminal,
         NEW y \in Runs, y.emitted = Append(x.emitted, type), y.answer = x.answer,
         y.run = IF type \in Terminal THEN "over" ELSE x.run
  PROVE  Fine(j, y, h, Append(l, type)) /\ (Whole(k, x, h, l) => Whole(j, y, h, Append(l, type)))
<1> DEFINE p == Append(l, type)
<1>1. Stage(k, x) /\ Stopped(k, x) /\ Heard(k, x, h, l) /\ Began(x) /\ Began(y)
  BY DEF Fine, Began
<1>2. /\ k.ack # "done" /\ k.status # "finished" /\ ~(k.id /\ k.status \in Final /\ k.ack \notin {"sent", "refused"})
  BY <1>1 DEF Stopped
<1>3. x.emitted \in Seq(EventTypes) /\ k.seen \in Seq(EventTypes)
  BY DEF Runs, CallRecords
<1>4. Stage(j, y)
  <2>1. (Alive(j) <=> Alive(k)) /\ y.run # "none" /\ x.run # "none"
    BY DEF Alive
  <2> QED BY <1>1, <2>1 DEF Stage
<1>5. Stopped(j, y)
  BY <1>2 DEF Stopped
<1>6. ~HasEnd(h) /\ ~HasEnd(l) /\ \A i \in 1..Len(x.emitted) : x.emitted[i] \notin Terminal
  BY <1>1 DEF Heard
<1>7. \A i \in 1..Len(y.emitted) : y.emitted[i] \in Terminal => i = Len(y.emitted) /\ y.run = "over"
  <2>1. /\ Len(y.emitted) = Len(x.emitted) + 1 /\ Len(x.emitted) \in Nat
        /\ y.emitted[Len(x.emitted) + 1] = type
        /\ \A i \in 1..Len(x.emitted) : y.emitted[i] = x.emitted[i]
    BY <1>3
  <2>2. \A i \in 1..Len(y.emitted) : i \in 1..Len(x.emitted) \/ i = Len(x.emitted) + 1
    BY <2>1
  <2> QED BY <1>6, <2>1, <2>2
<1>8. HasEnd(p) => y.run = "over"
  <2>1. Len(p) = Len(l) + 1 /\ p[Len(l) + 1] = type /\ \A i \in 1..Len(l) : p[i] = l[i]
    OBVIOUS
  <2>2. \A i \in 1..Len(p) : i \in 1..Len(l) \/ i = Len(l) + 1
    BY <2>1
  <2> HIDE DEF p
  <2> QED BY <1>6, <2>1, <2>2 DEF HasEnd
<1>9. Heard(j, y, h, p)
  <2>1. Alive(j) <=> Alive(k)
    BY DEF Alive
  <2> HIDE DEF p
  <2> QED BY <1>1, <1>6, <1>7, <1>8, <2>1 DEF Heard
<1>10. ASSUME Whole(k, x, h, l) PROVE Whole(j, y, h, p)
  <2>1. ASSUME Alive(j) PROVE AllHeard(j.seen, h, p, y.emitted)
    <3> DEFINE s == k.seen
    <3>1. Alive(k) /\ s \in Seq(EventTypes) /\ j.seen = s
      BY <1>3, <2>1 DEF Alive
    <3>2. (s \o h) \o l = x.emitted
      BY <1>10, <3>1 DEF Whole, AllHeard
    <3> HIDE DEF s
    <3>3. (s \o h) \o Append(l, type) = Append((s \o h) \o l, type)
      <4> DEFINE a == s \o h
      <4>1. a \in Seq(EventTypes)
        BY <3>1
      <4> HIDE DEF a
      <4>2. a \o Append(l, type) = Append(a \o l, type)
        BY <4>1
      <4> QED BY <4>2 DEF a
    <3> QED BY <3>1, <3>2, <3>3 DEF AllHeard
  <2> QED BY <1>2, <2>1 DEF Whole
<1> QED BY <1>4, <1>5, <1>9, <1>10 DEF Fine

LEMMA EmitsStep ==
  ASSUME Ind, NEW c \in Calls, NEW type \in EventTypes, ext[c].run = "running", Emits(c, type),
         NEW j \in CallRecords, call' = [call EXCEPT ![c] = j],
         j.status = call[c].status, j.awaits = call[c].awaits, j.id = call[c].id,
         j.token = call[c].token, j.guard = call[c].guard, j.seen = call[c].seen,
         j.ack = call[c].ack \/ type \in Terminal,
         UNCHANGED <<router, session, cache, dropped, refused>>
  PROVE  Ind'
<1> DEFINE k == call[c]
           x == ext[c]
           h == HeldOf(router.held, c)
           l == Coming(channel, c)
           run == IF type \in Terminal THEN "over" ELSE x.run
           y == [x EXCEPT !.emitted = Append(@, type), !.run = run]
           e == [id |-> c, type |-> type]
<1>1. call \in [Calls -> CallRecords] /\ ext \in [Calls -> Runs] /\ channel \in Seq(Events)
  BY DEF Ind, Typed
<1>2. k \in CallRecords /\ x \in Runs /\ Fine(k, x, h, l) /\ h \in Seq(EventTypes) /\ l \in Seq(EventTypes)
  BY OfCall
<1>3. ext' = [ext EXCEPT ![c] = y] /\ channel' = Append(channel, e)
  BY <1>1 DEF Emits
<1>4. e \in Events /\ e.id = c /\ e.type = type
  BY DEF Events
<1> HIDE DEF e
<1>5. channel' \in Seq(Events)
  BY <1>1, <1>3, <1>4
<1>6. \A b : Coming(channel', b) = IF c = b THEN Append(Coming(channel, b), type) ELSE Coming(channel, b)
  BY <1>1, <1>3, <1>4, ComesLast
<1>7. y \in Runs /\ y.emitted = Append(x.emitted, type) /\ y.answer = x.answer /\ y.run = run
  <2>1. run \in {"none", "asked", "running", "over"} /\ Append(x.emitted, type) \in Seq(EventTypes)
    BY <1>2 DEF Runs
  <2> HIDE DEF run
  <2> QED BY <1>2, <2>1 DEF Runs
<1>8. Fine(j, y, h, Append(l, type)) /\ (Whole(k, x, h, l) => Whole(j, y, h, Append(l, type)))
  <2>1. /\ j \in CallRecords /\ j.status = k.status /\ j.awaits = k.awaits /\ j.id = k.id
        /\ j.guard = k.guard /\ j.seen = k.seen /\ (j.ack = k.ack \/ type \in Terminal)
        /\ x.run = "running" /\ type \in EventTypes
        /\ y.run = IF type \in Terminal THEN "over" ELSE x.run
    BY <1>7
  <2> HIDE DEF k, x, h, l, y, run
  <2> QED BY ONLY <1>2, <1>7, <2>1, EmitFacts
<1>9. Fine(j, y, h, Coming(channel', c)) /\ (Whole(k, x, h, l) => Whole(j, y, h, Coming(channel', c)))
  <2>1. Coming(channel', c) = Append(l, type)
    BY <1>6
  <2> QED BY <1>8, <2>1
<1>10. \A b \in Calls : b # c => Coming(channel', b) = Coming(channel, b)
  BY <1>6
<1> HIDE DEF y
<1> QED BY <1>3, <1>5, <1>7, <1>9, <1>10, RunMoves

LEMMA EmitStep ==
  ASSUME Ind, NEW c \in Calls, NEW type \in EventTypes, Emit(c, type)
  PROVE  Ind'
<1> DEFINE k == call[c]
<1>1. call' = [call EXCEPT ![c] = k] /\ k \in CallRecords
  BY DEF Emit, Ind, Typed
<1>2. Emits(c, type) /\ ext[c].run = "running" /\ UNCHANGED <<router, session, cache, dropped, refused>>
  BY DEF Emit
<1>3. k.status = call[c].status /\ k.ack = call[c].ack
  OBVIOUS
<1> QED BY <1>1, <1>2, <1>3, EmitsStep

LEMMA StopStep ==
  ASSUME Ind, NEW c \in Calls, Stop(c)
  PROVE  Ind'
<1> DEFINE k == call[c]
           x == ext[c]
           h == HeldOf(router.held, c)
           l == Coming(channel, c)
           j == [k EXCEPT !.ack = "done"]
<1>1. call \in [Calls -> CallRecords] /\ ext \in [Calls -> Runs] /\ channel \in Seq(Events)
  BY DEF Ind, Typed
<1>2. k \in CallRecords /\ x \in Runs /\ Fine(k, x, h, l)
  BY OfCall
<1>3. /\ k.ack = "sent" /\ call' = [call EXCEPT ![c] = j]
      /\ IF x.run = "running" THEN Emits(c, "error") ELSE UNCHANGED <<ext, channel>>
      /\ UNCHANGED <<router, session, cache, dropped, refused>>
  BY <1>1 DEF Stop
<1>4. /\ j \in CallRecords /\ j.status = k.status /\ j.awaits = k.awaits /\ j.id = k.id
      /\ j.token = k.token /\ j.guard = k.guard /\ j.seen = k.seen /\ j.ack = "done"
  BY <1>2 DEF CallRecords
<1> HIDE DEF j
<1>5. CASE x.run = "running"
  <2>1. Emits(c, "error")
    BY <1>3, <1>5
  <2>2. "error" \in EventTypes /\ "error" \in Terminal
    BY DEF EventTypes, Terminal
  <2> QED BY <1>3, <1>4, <1>5, <2>1, <2>2, EmitsStep
<1>6. CASE x.run # "running"
  <2>1. UNCHANGED <<ext, channel>>
    BY <1>3, <1>6
  <2>2. Fine(j, x, h, l) /\ (Whole(k, x, h, l) => Whole(j, x, h, l))
    <3> HIDE DEF k, x, h, l
    <3>1. Stage(k, x) /\ Stopped(k, x) /\ Heard(k, x, h, l)
      BY <1>2 DEF Fine
    <3>2. x.run = "over" /\ Began(x)
      BY <1>2, <1>3, <1>6, <3>1 DEF Stage, Began, Runs
    <3>3. Alive(j) <=> Alive(k)
      BY <1>4 DEF Alive
    <3>4. Stage(j, x)
      BY <1>4, <3>1, <3>2, <3>3 DEF Stage
    <3>5. Stopped(j, x)
      BY <3>2 DEF Stopped
    <3>6. Heard(j, x, h, l)
      BY <1>4, <3>1, <3>3 DEF Heard
    <3>7. Whole(k, x, h, l) => Whole(j, x, h, l)
      BY <1>4, <3>3 DEF Whole
    <3> QED BY <3>4, <3>5, <3>6, <3>7 DEF Fine
  <2>3. ext' = [ext EXCEPT ![c] = x] /\ channel' = channel
    BY <1>1, <2>1
  <2>4. Fine(j, x, h, Coming(channel', c)) /\ (Whole(k, x, h, l) => Whole(j, x, h, Coming(channel', c)))
    BY <2>2, <2>3
  <2>5. \A b \in Calls : b # c => Coming(channel', b) = Coming(channel, b)
    BY <2>3
  <2> QED BY <1>1, <1>2, <1>3, <1>4, <2>3, <2>4, <2>5, RunMoves
<1> QED BY <1>5, <1>6

LEMMA RefuseCancelStep ==
  ASSUME Ind, NEW c \in Calls, RefuseCancel(c)
  PROVE  Ind'
<1> DEFINE k == call[c]
           x == ext[c]
           h == HeldOf(router.held, c)
           l == Coming(channel, c)
           j == [k EXCEPT !.ack = "refused"]
<1>1. call \in [Calls -> CallRecords] /\ ext \in [Calls -> Runs] /\ channel \in Seq(Events)
  BY DEF Ind, Typed
<1>2. k \in CallRecords /\ x \in Runs /\ Fine(k, x, h, l)
  BY OfCall
<1>3. /\ k.ack = "sent" /\ call' = [call EXCEPT ![c] = j] /\ x.run = "running"
      /\ UNCHANGED <<router, session, cache, ext, channel, dropped, refused>>
  BY <1>1 DEF RefuseCancel
<1>4. /\ j \in CallRecords /\ j.status = k.status /\ j.awaits = k.awaits /\ j.id = k.id
      /\ j.token = k.token /\ j.guard = k.guard /\ j.seen = k.seen /\ j.ack = "refused"
  BY <1>2 DEF CallRecords
<1> HIDE DEF j
<1>5. Fine(j, x, h, l) /\ (Whole(k, x, h, l) => Whole(j, x, h, l))
  <2>1. Fine(k, x, h, l) /\ x.run = "running"
    BY <1>2, <1>3
  <2> HIDE DEF k, x, h, l
  <2>2. Stage(k, x) /\ Stopped(k, x) /\ Heard(k, x, h, l) /\ Began(x)
    BY <2>1 DEF Fine, Began
  <2>3. Alive(j) <=> Alive(k)
    BY <1>4 DEF Alive
  <2>4. Stage(j, x)
    BY <1>4, <2>2, <2>3 DEF Stage
  <2>5. Stopped(j, x)
    BY <1>4, <2>2 DEF Stopped
  <2>6. Heard(j, x, h, l)
    BY <1>4, <2>2, <2>3 DEF Heard
  <2>7. Whole(k, x, h, l) => Whole(j, x, h, l)
    BY <1>4, <2>3 DEF Whole
  <2> QED BY <2>4, <2>5, <2>6, <2>7 DEF Fine
<1>6. ext' = [ext EXCEPT ![c] = x] /\ channel' = channel
  BY <1>1, <1>3
<1>7. Fine(j, x, h, Coming(channel', c)) /\ (Whole(k, x, h, l) => Whole(j, x, h, Coming(channel', c)))
  BY <1>5, <1>6
<1>8. \A b \in Calls : b # c => Coming(channel', b) = Coming(channel, b)
  BY <1>6
<1> QED BY <1>1, <1>2, <1>3, <1>4, <1>6, <1>7, <1>8, RunMoves

-----------------------------------------------------------------------------
(* The invariant                                                           *)

LEMMA InitInd == Init => Ind
<1> SUFFICES ASSUME Init PROVE Ind
  OBVIOUS
<1>1. /\ call = [c \in Calls |-> NewCall]
      /\ ext = [c \in Calls |-> [run |-> "none", answer |-> "none", emitted |-> << >>]]
      /\ router = [expecting |-> 0, attached |-> FALSE, routes |-> {}, held |-> << >>]
      /\ session = [inFlight |-> {}, begun |-> 0, closing |-> {}]
      /\ cache = [token |-> NoToken, pending |-> FALSE, minted |-> 0]
      /\ channel = << >> /\ dropped = {} /\ refused = {}
  BY DEF Init
<1>2. << >> \in Seq(EventTypes) /\ << >> \in Seq(Events) /\ << >> \in Seq(Entries)
  OBVIOUS
<1>3. NewCall \in CallRecords
  BY <1>2 DEF NewCall, CallRecords
<1>4. Typed(call, ext, channel, dropped)
  BY <1>1, <1>2, <1>3 DEF Typed, Runs
<1>5. \A c \in Calls : /\ call[c] = NewCall
                       /\ ext[c] = [run |-> "none", answer |-> "none", emitted |-> << >>]
  BY <1>1
<1>6. \A c \in Calls : ~Alive(call[c]) /\ call[c].awaits = "none" /\ ~call[c].id
  BY <1>5 DEF NewCall, Alive
<1>7. Books(router, call)
  <2>1. Awaiting(call) = {} /\ Routed(call) = {}
    BY <1>6 DEF Awaiting, Routed
  <2>2. Cardinality(Awaiting(call)) = 0
    BY <2>1, FS_EmptySet
  <2>3. HeldFine(router.held) /\ router \in RouterRecords
    BY <1>1, <1>2, NothingHeld DEF RouterRecords
  <2> QED BY <1>1, <2>1, <2>2, <2>3 DEF Books, Counts
<1>8. ASSUME NEW c \in Calls
      PROVE  /\ Fine(call[c], ext[c], HeldOf(router.held, c), Coming(channel, c))
             /\ Whole(call[c], ext[c], HeldOf(router.held, c), Coming(channel, c))
  <2> DEFINE k == call[c]
             x == ext[c]
             h == HeldOf(router.held, c)
             l == Coming(channel, c)
  <2>1. /\ k.status = "none" /\ k.awaits = "none" /\ ~k.id /\ ~k.guard /\ k.ack = "none" /\ k.seen = << >>
        /\ x.run = "none" /\ x.answer = "none" /\ x.emitted = << >>
    BY <1>5 DEF NewCall
  <2>2. h = << >> /\ l = << >>
    BY <1>1, NothingHeld, NothingComes
  <2> HIDE DEF k, x, h, l
  <2>3. ~HasEnd(<< >>)
    BY DEF HasEnd
  <2>4. Stage(k, x) /\ Stopped(k, x) /\ Whole(k, x, h, l)
    BY <2>1 DEF Stage, Stopped, Whole, Alive, Final, Began
  <2>5. Heard(k, x, h, l)
    BY <2>1, <2>2, <2>3 DEF Heard
  <2> QED BY <2>4, <2>5 DEF Fine, k, x, h, l
<1>9. TokensFine(cache, refused, call)
  <2>1. \A c \in Calls : call[c].token = NoToken
    BY <1>5 DEF NewCall
  <2>2. cache \in Caches
    BY <1>1, CallsAssumption DEF Caches
  <2> QED BY <1>1, <1>6, <2>1, <2>2 DEF TokensFine
<1>10. SessionFine(session, call)
  BY <1>1, <1>6, CallsAssumption DEF SessionFine, Sessions, Given
<1> QED BY <1>4, <1>7, <1>8, <1>9, <1>10 DEF Ind, AllFine

LEMMA NextInd == Ind /\ [Next]_vars => Ind'
<1> SUFFICES ASSUME Ind, [Next]_vars PROVE Ind'
  OBVIOUS
<1>1. ASSUME NEW c \in Calls, CallFails(c) PROVE Ind'
  BY <1>1, CallFailsStep
<1>2. ASSUME NEW c \in Calls, CallDirect(c) PROVE Ind'
  BY <1>2, SentStep DEF CallDirect, NotMade
<1>3. ASSUME NEW c \in Calls, CallWithCachedToken(c) PROVE Ind'
  BY <1>3, SentStep DEF CallWithCachedToken, NotMade
<1>4. ASSUME NEW c \in Calls, CallAsksForToken(c) PROVE Ind'
  BY <1>4, AsksStep
<1>5. ASSUME NEW c \in Calls, Cancel(c) PROVE Ind'
  BY <1>5, CancelStep
<1>6. ASSUME NEW c \in Calls, GuardTimeout(c) PROVE Ind'
  BY <1>6, GuardTimeoutStep
<1>7. ASSUME NEW c \in Calls, OnAnswer(c) PROVE Ind'
  BY <1>7, OnAnswerStep
<1>8. ASSUME NEW c \in Calls, NEW code, OnRequestError(c, code) PROVE Ind'
  BY <1>8, OnRequestErrorStep
<1>9. ASSUME NEW c \in Calls, Accept(c) PROVE Ind'
  BY <1>9, AcceptStep
<1>10. ASSUME NEW c \in Calls, Stop(c) PROVE Ind'
  BY <1>10, StopStep
<1>11. ASSUME NEW c \in Calls, NEW type \in EventTypes, Emit(c, type) PROVE Ind'
  BY <1>11, EmitStep
<1>12. ASSUME NEW kept \in BOOLEAN, TokenArrives(kept) PROVE Ind'
  BY <1>12, TokenArrivesStep
<1>13. CASE TokenFails
  BY <1>13, TokenFailsStep
<1>14. CASE TokenAges
  BY <1>14, TokenAgesStep
<1>15. CASE Dispatch
  BY <1>15, DispatchStep
<1>16. CASE Disconnect
  BY <1>16, DisconnectStep
<1>17. ASSUME NEW S \in session.closing, SendDisconnect(S) PROVE Ind'
  BY <1>17, SendDisconnectStep
<1>18. CASE UNCHANGED vars
  BY <1>18 DEF vars, Ind
<1>19. ASSUME NEW c \in Calls, RefuseCancel(c) PROVE Ind'
  BY <1>19, RefuseCancelStep
<1> QED BY <1>1, <1>2, <1>3, <1>4, <1>5, <1>6, <1>7, <1>8, <1>9, <1>10, <1>11, <1>12, <1>13, <1>14,
           <1>15, <1>16, <1>17, <1>18, <1>19 DEF Next, PageStep, ExtStep

LEMMA IndHolds == Spec => []Ind
<1>1. Init => Ind
  BY InitInd
<1>2. Ind /\ [Next]_vars => Ind'
  BY NextInd
<1> QED BY <1>1, <1>2, PTL DEF Spec

LEMMA IndIsEnough == Ind => CallsInv
<1> SUFFICES ASSUME Ind PROVE CallsInv
  OBVIOUS
<1>1. /\ call \in [Calls -> CallRecords] /\ router \in RouterRecords /\ HeldFine(router.held)
      /\ router.expecting = Cardinality(Awaiting(call)) /\ router.routes = Routed(call)
      /\ router.attached <=> (router.expecting > 0 \/ router.routes # {})
      /\ cache \in Caches /\ session \in Sessions /\ session.inFlight = {c \in Calls : Alive(call[c])}
  BY DEF Ind, Typed, Books, Counts, TokensFine, SessionFine
<1>2. TypeOK
  <2>1. router.routes \subseteq Calls /\ Len(router.held) <= MaxHeld
    BY <1>1 DEF Routed, HeldFine
  <2>2. router.expecting \in 0..Cardinality(Calls)
    <3>1. Cardinality(Calls) \in Nat
      BY CallsAssumption, FS_CardinalityType
    <3>2. Cardinality(Awaiting(call)) \in Nat /\ Cardinality(Awaiting(call)) <= Cardinality(Calls)
      BY AwaitingCounted
    <3> QED BY <1>1, <3>1, <3>2
  <2>3. /\ session.inFlight \subseteq Calls /\ session.begun \in 0..MaxDisconnects
        /\ session.closing \subseteq SUBSET Calls
    BY <1>1 DEF Sessions
  <2>4. cache.token \in Tokens \cup {NoToken}
    BY <1>1 DEF Caches
  <2> QED BY <1>1, <2>1, <2>2, <2>3, <2>4 DEF TypeOK, CallRecords
<1>3. EventsInOrder
  <2> SUFFICES ASSUME NEW c \in Calls \ dropped
               PROVE  /\ Live(c) => call[c].seen \o HeldOf(router.held, c) \o ChannelOf(c) = ext[c].emitted
                      /\ call[c].status = "finished" => call[c].seen = ext[c].emitted
    BY DEF EventsInOrder
  <2>1. Whole(call[c], ext[c], HeldOf(router.held, c), Coming(channel, c))
    BY OfCall
  <2> QED BY <2>1, ChannelIsComing DEF Whole, AllHeard, Live, Alive
<1>4. router.expecting = Cardinality({c \in Calls : call[c].awaits = "id"})
  BY <1>1 DEF Awaiting
<1>5. /\ router.routes = {c \in Calls : call[c].id /\ Live(c)}
      /\ session.inFlight = {c \in Calls : Live(c)}
  BY <1>1 DEF Routed, Live, Alive
<1>6. \A c \in Calls : call[c].guard <=> (Live(c) \/ call[c].awaits = "id")
  BY OfCall DEF Fine, Stage, Live, Alive
<1> QED BY <1>1, <1>2, <1>3, <1>4, <1>5, <1>6 DEF CallsInv

(* However many calls, limits and tokens there are, the router's books are *)
(* right, a call that can still change has its guard armed, and a call     *)
(* hears the events of its run in their order, those that came before its  *)
(* id included (call.ts expect, claim, release; client.ts #inFlight).      *)
THEOREM CallsInvHolds == Spec => []CallsInv
<1>1. Spec => []Ind
  BY IndHolds
<1>2. Ind => CallsInv
  BY IndIsEnough
<1> QED BY <1>1, <1>2, PTL

-----------------------------------------------------------------------------
(* Refused tokens                                                          *)

(* No token is given but one that was not refused; and a token the cache   *)
(* no longer has was refused, or aged.                                     *)
GivenTokens == \A c \in Calls : call'[c].token # call[c].token => call'[c].token \notin refused
KeptToken ==
  (cache.token # NoToken /\ cache.token # cache'.token) => (cache.token \in refused' \/ TokenAges)

LEMMA TokensOfInd ==
  ASSUME Ind
  PROVE  /\ cache \in Caches /\ cache.minted \in Nat /\ refused \subseteq 1..cache.minted
         /\ NoToken \notin refused /\ cache.token \notin refused /\ cache.minted + 1 \notin refused
         /\ cache.pending => cache.token = NoToken
<1>1. TokensFine(cache, refused, call)
  BY DEF Ind
<1>2. cache \in Caches /\ cache.minted \in Nat
  BY <1>1, CallsAssumption DEF TokensFine, Caches
<1>3. /\ refused \subseteq 1..cache.minted /\ cache.token \notin refused
      /\ cache.pending => cache.token = NoToken
  BY <1>1 DEF TokensFine
<1>4. NoToken \notin 1..cache.minted /\ cache.minted + 1 \notin 1..cache.minted
  BY <1>2, CallsAssumption
<1> QED BY <1>2, <1>3, <1>4

LEMMA NoNewToken ==
  ASSUME Ind, \A c \in Calls : call'[c].token \in {call[c].token, NoToken}
  PROVE  GivenTokens
BY TokensOfInd DEF GivenTokens

LEMMA TokenIsKept ==
  ASSUME cache'.token = cache.token
  PROVE  KeptToken
BY DEF KeptToken

LEMMA RefusedIsForgotten ==
  ASSUME Ind, NEW k, NEW code, Refuse(k, code)
  PROVE  KeptToken
<1>1. CASE cache' = Forget(k.token) /\ refused' = refused \cup {k.token}
  <2>1. CASE cache.token = k.token
    BY <1>1, <2>1 DEF KeptToken
  <2>2. CASE cache.token # k.token
    BY <1>1, <2>2 DEF KeptToken, Forget
  <2> QED BY <2>1, <2>2
<1>2. CASE UNCHANGED <<cache, refused>>
  BY <1>2 DEF KeptToken
<1> QED BY <1>1, <1>2 DEF Refuse

LEMMA TokensOfRoute ==
  ASSUME Ind, NEW c \in Calls, NEW k \in CallRecords, Alive(k), k.token = call[c].token,
         NEW types \in Seq(EventTypes), NEW r, NEW code, Route(c, k, r, types, code)
  PROVE  GivenTokens /\ KeptToken
<1> DEFINE a == AfterEvents(k, types)
           j == StopAwaiting(a)
<1>1. a \in CallRecords /\ a.token \in {k.token, NoToken}
  BY AfterEventsFacts
<1>2. /\ call' = [call EXCEPT ![c] = j]
      /\ IF a.status = "failed" THEN Refuse(k, code) ELSE UNCHANGED <<cache, refused>>
  BY DEF Route
<1> HIDE DEF a
<1>3. j.token = a.token
  BY <1>1, StopFacts
<1> HIDE DEF j
<1>4. call \in [Calls -> CallRecords]
  BY DEF Ind, Typed
<1>5. \A b \in Calls : call'[b].token \in {call[b].token, NoToken}
  <2>1. \A b \in Calls : call'[b] = IF b = c THEN j ELSE call[b]
    BY <1>2, <1>4
  <2> QED BY <1>1, <1>3, <2>1
<1>6. KeptToken
  <2>1. CASE a.status = "failed"
    BY <1>2, <2>1, RefusedIsForgotten
  <2>2. CASE a.status # "failed"
    BY <1>2, <2>2 DEF KeptToken
  <2> QED BY <2>1, <2>2
<1> QED BY <1>5, <1>6, NoNewToken

(* The calls S are abandoned. *)
LEMMA TokensOfAbandon ==
  ASSUME Ind, NEW S, NEW s \in {"failed"}, Abandon(S, s), UNCHANGED cache
  PROVE  GivenTokens /\ KeptToken
<1>1. call \in [Calls -> CallRecords]
  BY DEF Ind, Typed
<1>2. ASSUME NEW b \in Calls PROVE call'[b].token \in {call[b].token, NoToken}
  <2> DEFINE k == call[b]
             e == End(k, s)
  <2>1. k \in CallRecords /\ e \in CallRecords /\ e.token = NoToken
    BY <1>1, EndFacts
  <2>2. SendCancel(e).token = NoToken
    <3> HIDE DEF e
    <3> QED BY <2>1, CancelFacts
  <2>3. call'[b] \in {k, e, SendCancel(e)}
    BY DEF Abandon
  <2> QED BY <2>1, <2>2, <2>3
<1> QED BY <1>2, NoNewToken, TokenIsKept

LEMMA TokensOfSend ==
  ASSUME Ind, NEW S \in SUBSET Calls, NEW t, t \notin refused, SendCalls(S, t)
  PROVE  GivenTokens
<1>1. call \in [Calls -> CallRecords]
  BY DEF Ind, Typed
<1>2. ASSUME NEW b \in Calls PROVE call'[b].token \in {call[b].token, t}
  <2> DEFINE k == call[b]
  <2>1. k \in CallRecords
    BY <1>1
  <2>2. call'[b] = IF b \in S
          THEN [k EXCEPT !.status = "pending", !.awaits = "id", !.guard = TRUE, !.token = t]
          ELSE IF k.awaits = "token" /\ t # NoToken THEN [k EXCEPT !.awaits = "none"]
          ELSE k
    BY DEF SendCalls
  <2> HIDE DEF k
  <2> QED BY <2>1, <2>2 DEF CallRecords, k
<1> QED BY <1>2 DEF GivenTokens

LEMMA TokensOfPageStep ==
  ASSUME Ind, NEW c \in Calls, PageStep(c)
  PROVE  GivenTokens /\ KeptToken
<1> DEFINE k == call[c]
<1>1. call \in [Calls -> CallRecords] /\ k \in CallRecords
  BY DEF Ind, Typed
<1>2. /\ NoToken \notin refused /\ cache.token \notin refused /\ cache \in Caches
  BY TokensOfInd
<1>3. ASSUME NEW j, call' = [call EXCEPT ![c] = j], j.token \in {k.token, NoToken} PROVE GivenTokens
  <2>1. \A b \in Calls : call'[b].token \in {call[b].token, NoToken}
    BY <1>1, <1>3
  <2> QED BY <2>1, NoNewToken
<1>4. CASE CallFails(c)
  <2>1. call' = [call EXCEPT ![c] = [k EXCEPT !.status = "failed"]]
    BY <1>1, <1>4 DEF CallFails
  <2>2. [k EXCEPT !.status = "failed"].token = k.token
    BY <1>1 DEF CallRecords
  <2>3. GivenTokens
    BY <1>3, <2>1, <2>2
  <2> QED BY <1>4, <2>3, TokenIsKept DEF CallFails
<1>5. CASE CallDirect(c)
  <2>1. GivenTokens
    BY <1>2, <1>5, TokensOfSend DEF CallDirect
  <2> QED BY <1>5, <2>1, TokenIsKept DEF CallDirect
<1>6. CASE CallWithCachedToken(c)
  <2>1. GivenTokens
    BY <1>2, <1>6, TokensOfSend DEF CallWithCachedToken
  <2> QED BY <1>6, <2>1, TokenIsKept DEF CallWithCachedToken
<1>7. CASE CallAsksForToken(c)
  <2>1. call' = [call EXCEPT ![c] = [k EXCEPT !.status = "pending", !.awaits = "token", !.guard = TRUE]]
    BY <1>1, <1>7 DEF CallAsksForToken
  <2>2. [k EXCEPT !.status = "pending", !.awaits = "token", !.guard = TRUE].token = k.token
    BY <1>1 DEF CallRecords
  <2>3. GivenTokens
    BY <1>3, <2>1, <2>2
  <2>4. cache.token = NoToken
    BY <1>7 DEF CallAsksForToken, Reusable
  <2> QED BY <2>3, <2>4 DEF KeptToken
<1>8. CASE Cancel(c)
  BY <1>8, TokensOfAbandon DEF Cancel
<1>9. CASE GuardTimeout(c)
  <2> DEFINE i == [k EXCEPT !.guard = FALSE]
             over == IF Settled(c) THEN i ELSE End(i, "failed")
             told == IF Live(c) /\ i.id THEN SendCancel(over) ELSE over
             j == IF i.awaits = "id" THEN StopAwaiting(told) ELSE told
  <2>1. call' = [call EXCEPT ![c] = j] /\ cache' = cache
    BY <1>9 DEF GuardTimeout
  <2>2. i \in CallRecords /\ i.token = k.token
    BY <1>1 DEF CallRecords
  <2> HIDE DEF i
  <2>3. over \in CallRecords /\ over.token \in {k.token, NoToken}
    BY <2>2, EndFacts
  <2> HIDE DEF over
  <2>4. told \in CallRecords /\ told.token = over.token
    BY <2>3, CancelFacts
  <2> HIDE DEF told
  <2>5. j.token = told.token
    BY <2>4, StopFacts
  <2> HIDE DEF j
  <2>6. GivenTokens
    BY <1>3, <2>1, <2>3, <2>4, <2>5
  <2> QED BY <2>1, <2>6, TokenIsKept
<1>10. CASE OnAnswer(c)
  <2> DEFINE i == [k EXCEPT !.id = TRUE]
             h == HeldOf(router.held, c)
  <2>1. i \in CallRecords /\ i.token = k.token /\ i.status = k.status
    BY <1>1 DEF CallRecords
  <2>2. CASE /\ k.awaits # "id" /\ call' = [call EXCEPT ![c] = SendCancel(k)]
             /\ UNCHANGED <<cache, refused>>
    <3>1. SendCancel(k).token = k.token
      BY <1>1, CancelFacts
    <3>2. GivenTokens
      BY <1>3, <2>2, <3>1
    <3> QED BY <2>2, <3>2, TokenIsKept
  <2>3. CASE /\ k.awaits = "id" /\ call' = [call EXCEPT ![c] = StopAwaiting(SendCancel(i))]
             /\ UNCHANGED <<cache, refused>>
    <3> DEFINE m == SendCancel(i)
    <3>1. m \in CallRecords /\ m.token = k.token
      <4> HIDE DEF i
      <4> QED BY <2>1, CancelFacts
    <3>2. call' = [call EXCEPT ![c] = StopAwaiting(m)]
      BY <2>3
    <3> HIDE DEF m
    <3>3. StopAwaiting(m).token = k.token
      BY <3>1, StopFacts
    <3>4. GivenTokens
      BY <1>3, <3>2, <3>3
    <3> QED BY <2>3, <3>4, TokenIsKept
  <2>4. CASE Live(c) /\ \E code : Route(c, i, Claim(router, c), h, code)
    <3>1. Alive(i) /\ h \in Seq(EventTypes)
      BY <2>1, <2>4, OfCall DEF Live, Alive
    <3> HIDE DEF i, h
    <3> QED BY <2>1, <2>4, <3>1, TokensOfRoute
  <2> QED BY <1>1, <1>10, <2>2, <2>3, <2>4 DEF OnAnswer
<1>11. ASSUME NEW code, OnRequestError(c, code) PROVE GivenTokens /\ KeptToken
  <2> DEFINE i == StopAwaiting(k)
             j == IF Settled(c) THEN i ELSE End(i, "failed")
  <2>1. i \in CallRecords /\ i.token = k.token
    BY <1>1, StopFacts
  <2>2. CASE UNCHANGED <<call, cache, refused>>
    <3>1. GivenTokens
      BY <2>2 DEF GivenTokens
    <3> QED BY <2>2, <3>1, TokenIsKept
  <2>3. CASE /\ call' = [call EXCEPT ![c] = j]
             /\ IF Settled(c) THEN UNCHANGED <<cache, refused>> ELSE Refuse(i, code)
    <3> HIDE DEF i
    <3>1. j.token \in {k.token, NoToken}
      BY <2>1, EndFacts
    <3>2. GivenTokens
      <4> HIDE DEF j
      <4> QED BY <1>3, <2>3, <3>1
    <3>3. KeptToken
      BY <2>3, RefusedIsForgotten, TokenIsKept
    <3> QED BY <3>2, <3>3
  <2> QED BY <1>11, <2>2, <2>3 DEF OnRequestError
<1> QED BY <1>4, <1>5, <1>6, <1>7, <1>8, <1>9, <1>10, <1>11 DEF PageStep

LEMMA TokensOfOtherSteps ==
  ASSUME Ind, (\E c \in Calls : ExtStep(c)) \/ (\E kept \in BOOLEAN : TokenArrives(kept)) \/ TokenFails
              \/ TokenAges \/ Dispatch \/ Disconnect \/ \E S \in session.closing : SendDisconnect(S)
  PROVE  GivenTokens /\ KeptToken
<1>1. call \in [Calls -> CallRecords]
  BY DEF Ind, Typed
<1>2. /\ cache \in Caches /\ cache.minted + 1 \notin refused
      /\ cache.pending => cache.token = NoToken
  BY TokensOfInd
<1>3. ASSUME NEW c \in Calls, Stop(c) PROVE GivenTokens /\ KeptToken
  <2> DEFINE k == call[c]
             j == [k EXCEPT !.ack = "done"]
  <2>1. call' = [call EXCEPT ![c] = j] /\ cache' = cache
    BY <1>1, <1>3 DEF Stop
  <2>2. k \in CallRecords
    BY <1>1
  <2>3. j.token = k.token
    BY <2>2 DEF CallRecords
  <2> HIDE DEF j
  <2>4. \A b \in Calls : call'[b].token \in {call[b].token, NoToken}
    BY <1>1, <2>1, <2>3
  <2> QED BY <2>1, <2>4, NoNewToken, TokenIsKept
<1>11. ASSUME NEW c \in Calls, RefuseCancel(c) PROVE GivenTokens /\ KeptToken
  <2> DEFINE k == call[c]
             j == [k EXCEPT !.ack = "refused"]
  <2>1. call' = [call EXCEPT ![c] = j] /\ cache' = cache
    BY <1>1, <1>11 DEF RefuseCancel
  <2>2. k \in CallRecords
    BY <1>1
  <2>3. j.token = k.token
    BY <2>2 DEF CallRecords
  <2> HIDE DEF j
  <2>4. \A b \in Calls : call'[b].token \in {call[b].token, NoToken}
    BY <1>1, <2>1, <2>3
  <2> QED BY <2>1, <2>4, NoNewToken, TokenIsKept
<1>4. ASSUME NEW c \in Calls, Accept(c) \/ \E type \in EventTypes : Emit(c, type)
      PROVE  GivenTokens /\ KeptToken
  <2>1. UNCHANGED <<call, cache>>
    BY <1>4 DEF Accept, Emit
  <2> QED BY <2>1, TokenIsKept DEF GivenTokens
<1>5. ASSUME NEW kept \in BOOLEAN, TokenArrives(kept) PROVE GivenTokens /\ KeptToken
  <2> DEFINE S == {c \in Calls : call[c].awaits = "token" /\ ~Settled(c)}
  <2>1. SendCalls(S, cache.minted + 1) /\ S \in SUBSET Calls /\ cache.pending
    BY <1>5 DEF TokenArrives
  <2> HIDE DEF S
  <2>2. GivenTokens
    BY <1>2, <2>1, TokensOfSend
  <2> QED BY <1>2, <2>1, <2>2 DEF KeptToken
<1>6. CASE TokenFails
  <2>1. ASSUME NEW b \in Calls PROVE call'[b].token \in {call[b].token, NoToken}
    <3> DEFINE k == call[b]
               i == [k EXCEPT !.awaits = "none"]
               e == End(i, "failed")
    <3>1. k \in CallRecords
      BY <1>1
    <3>2. i \in CallRecords /\ i.token = k.token
      BY <3>1 DEF CallRecords
    <3>3. call'[b] \in {k, i, e}
      BY <1>6 DEF TokenFails
    <3> HIDE DEF i
    <3>4. e.token = NoToken
      BY <3>2, EndFacts
    <3> QED BY <3>2, <3>3, <3>4
  <2>2. cache'.token = cache.token
    BY <1>2, <1>6 DEF TokenFails, Caches
  <2> QED BY <2>1, <2>2, NoNewToken, TokenIsKept
<1>7. CASE TokenAges
  <2>1. UNCHANGED call
    BY <1>7 DEF TokenAges
  <2> QED BY <1>7, <2>1 DEF GivenTokens, KeptToken
<1>8. CASE Dispatch
  <2>1. CASE UNCHANGED <<call, cache>>
    BY <2>1, TokenIsKept DEF GivenTokens
  <2>2. CASE /\ channel # << >> /\ Head(channel).id \in router.routes
             /\ \E code : Route(Head(channel).id, call[Head(channel).id], router,
                                << Head(channel).type >>, code)
    <3> DEFINE c == Head(channel).id
               k == call[c]
               types == << Head(channel).type >>
    <3>1. c \in Calls /\ Head(channel).type \in EventTypes
      BY <2>2, HeadComes
    <3>2. k \in CallRecords /\ Alive(k) /\ types \in Seq(EventTypes)
      BY <1>1, <2>2, <3>1 DEF Ind, Books, Counts, Routed
    <3>3. k.token = call[c].token
      OBVIOUS
    <3>4. \E code : Route(c, k, router, types, code)
      BY <2>2
    <3> HIDE DEF c, k, types
    <3> QED BY <3>1, <3>2, <3>3, <3>4, TokensOfRoute
  <2> QED BY <1>8, <2>1, <2>2 DEF Dispatch
<1>9. CASE Disconnect
  BY <1>9, TokensOfAbandon DEF Disconnect
<1>10. CASE \E S \in session.closing : SendDisconnect(S)
  <2>1. UNCHANGED <<call, cache>>
    BY <1>10 DEF SendDisconnect
  <2> QED BY <2>1, TokenIsKept DEF GivenTokens
<1> QED BY <1>3, <1>4, <1>5, <1>6, <1>7, <1>8, <1>9, <1>10, <1>11 DEF ExtStep

(* A run token that Writ Cloud refused is given to no call after; and the  *)
(* cache forgets a token only when that one was refused, or is too old     *)
(* (run-token.ts refused).                                                 *)
THEOREM RefusedTokenIsForgottenHolds == Spec => RefusedTokenIsForgotten
<1> DEFINE P == /\ \A c \in Calls : call'[c].token # call[c].token => call'[c].token \notin refused
                /\ (cache.token # NoToken /\ cache.token # cache'.token)
                     => (cache.token \in refused' \/ TokenAges)
<1>1. Ind /\ [Next]_vars => [P]_vars
  <2> SUFFICES ASSUME Ind, Next PROVE GivenTokens /\ KeptToken
    BY DEF GivenTokens, KeptToken
  <2>1. CASE \E c \in Calls : PageStep(c)
    BY <2>1, TokensOfPageStep
  <2>2. CASE (\E c \in Calls : ExtStep(c)) \/ (\E kept \in BOOLEAN : TokenArrives(kept)) \/ TokenFails
             \/ TokenAges \/ Dispatch \/ Disconnect \/ \E S \in session.closing : SendDisconnect(S)
    BY <2>2, TokensOfOtherSteps
  <2> QED BY <2>1, <2>2 DEF Next
<1>2. Spec => []Ind
  BY IndHolds
<1>3. Spec => [][P]_vars
  BY <1>1, <1>2, PTL DEF Spec
<1> QED BY <1>3 DEF RefusedTokenIsForgotten

-----------------------------------------------------------------------------
(* The last message of a session                                           *)

LEMMA ClosesWhenStopped ==
  ASSUME Ind, Next, NEW S \in session.closing \ session'.closing, NEW c \in S, call[c].id
  PROVE  ext[c].run = "over" \/ call[c].ack = "refused"
<1>1. session \in Sessions /\ c \in Calls /\ call[c].status \in Final
  BY DEF Ind, SessionFine, Given
<1>2. ASSUME NEW I PROVE [session EXCEPT !.inFlight = I].closing = session.closing
  BY <1>1 DEF Sessions
<1>3. ASSUME NEW b \in Calls, PageStep(b) PROVE FALSE
  <2>1. session' = session \/ \E I : session' = [session EXCEPT !.inFlight = I]
    BY <1>3 DEF PageStep, CallFails, CallDirect, CallWithCachedToken, CallAsksForToken, Cancel,
                GuardTimeout, OnAnswer, OnRequestError, Route
  <2> QED BY <1>2, <2>1
<1>4. ASSUME NEW b \in Calls, ExtStep(b) PROVE FALSE
  BY <1>4 DEF ExtStep, Accept, Stop, RefuseCancel, Emit
<1>5. ASSUME NEW kept \in BOOLEAN, TokenArrives(kept) PROVE FALSE
  BY <1>5 DEF TokenArrives
<1>6. CASE TokenFails \/ TokenAges
  BY <1>2, <1>6 DEF TokenFails, TokenAges
<1>7. CASE Dispatch
  <2>1. session' = session \/ \E I : session' = [session EXCEPT !.inFlight = I]
    BY <1>7 DEF Dispatch, Route
  <2> QED BY <1>2, <2>1
<1>8. CASE Disconnect
  BY <1>8 DEF Disconnect
<1>9. ASSUME NEW T \in session.closing, SendDisconnect(T)
      PROVE  ext[c].run = "over" \/ call[c].ack = "refused"
  <2>1. session' = [session EXCEPT !.closing = @ \ {T}] /\ \A b \in T : Acknowledged(b)
    BY <1>9 DEF SendDisconnect
  <2>2. session'.closing = session.closing \ {T}
    BY <1>1, <2>1 DEF Sessions
  <2>3. Acknowledged(c)
    BY <2>1, <2>2
  <2>4. Stopped(call[c], ext[c])
    BY <1>1, OfCall DEF Fine
  <2> QED BY <1>1, <2>3, <2>4 DEF Acknowledged, Stopped
<1> QED BY <1>3, <1>4, <1>5, <1>6, <1>7, <1>8, <1>9 DEF Next

(* Whenever a disconnect() sends its writ_disconnect, the runs of the calls*)
(* that it found in flight are over, but for those whose writ_cancel the   *)
(* extension refused, and those the page never had the id of (client.ts    *)
(* disconnect).                                                            *)
THEOREM DisconnectComesLastHolds == Spec => DisconnectComesLast
<1> DEFINE P == \A S \in session.closing \ session'.closing : \A c \in S :
                  call[c].id => ext[c].run = "over" \/ call[c].ack = "refused"
<1>1. Ind /\ [Next]_vars => [P]_vars
  <2> SUFFICES ASSUME Ind, Next PROVE P
    OBVIOUS
  <2> QED BY ClosesWhenStopped
<1>2. Spec => []Ind
  BY IndHolds
<1>3. Spec => [][P]_vars
  BY <1>1, <1>2, PTL DEF Spec
<1> QED BY <1>3 DEF DisconnectComesLast
=============================================================================
