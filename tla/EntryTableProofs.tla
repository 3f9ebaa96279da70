------------------------- MODULE EntryTableProofs -------------------------
(***************************************************************************)
(* What holds of the slot vector for any numbers, offsets, generations and *)
(* tables: its types, that the cached count and end are exact, and that it *)
(* implements the map.                                                     *)
(***************************************************************************)
EXTENDS EntryTable, FiniteSetTheorems, SequenceTheorems, WellFoundedInduction, TLAPS

Slot == Entry \union {None}

Vector == [slots : Seq(Slot), occupied : Nat, end : Nat]

\* k is the largest number in use in s, or zero.
IsEnd(s, k) ==
    /\ \A i \in InUse(s) : i <= k
    /\ k = 0 \/ k \in InUse(s)

\* A vector whose counters are exact.
Good(t) ==
    /\ t \in Vector
    /\ t.occupied = Cardinality(InUse(t.slots))
    /\ IsEnd(t.slots, t.end)

----------------------------------------------------------------------------
(* The end of a vector. *)

LEMMA InUseFacts ==
    ASSUME NEW s \in Seq(Slot)
    PROVE  /\ InUse(s) \subseteq 1..Len(s)
           /\ InUse(s) \subseteq Nat \ {0}
           /\ IsFiniteSet(InUse(s))
           /\ \A i \in InUse(s) : s[i] \in Entry
<1>1. Len(s) \in Nat /\ DOMAIN s = 1..Len(s)
  BY LenProperties
<1>2. InUse(s) \subseteq 1..Len(s)
  BY <1>1 DEF InUse
<1>3. IsFiniteSet(InUse(s))
  <2>1. IsFiniteSet(1..Len(s))
    BY <1>1, FS_Interval
  <2> QED
    BY <1>2, <2>1, FS_Subset
<1>4. \A i \in InUse(s) : s[i] \in Entry
  BY <1>1, <1>2, ElementOfSeq DEF InUse, Slot
<1> QED
  BY <1>1, <1>2, <1>3, <1>4

LEMMA EndUnique ==
    ASSUME NEW s \in Seq(Slot), NEW k \in Nat, IsEnd(s, k)
    PROVE  LastInUse(s) = k
<1>1. InUse(s) \subseteq Nat \ {0}
  BY InUseFacts
<1>2. CASE InUse(s) = {}
  BY <1>2 DEF LastInUse, IsEnd
<1>3. CASE InUse(s) # {}
  <2>1. k \in InUse(s)
    BY <1>1, <1>3 DEF IsEnd
  <2>2. \A i \in InUse(s) : (\A j \in InUse(s) : j <= i) => i = k
    BY <1>1, <2>1 DEF IsEnd
  <2> QED
    BY <1>3, <2>1, <2>2 DEF LastInUse, IsEnd
<1> QED
  BY <1>2, <1>3

\* A bounded set of numbers has a least bound.
LEMMA LeastBound ==
    ASSUME NEW S \in SUBSET Nat, NEW m \in Nat, \A i \in S : i <= m
    PROVE  \E k \in Nat : /\ \A i \in S : i <= k
                          /\ \A l \in Nat : (\A i \in S : i <= l) => k <= l
<1> DEFINE Bounds == {k \in Nat : \A i \in S : i <= k}
           R == OpToRel(<, Nat)
<1>1. Bounds \subseteq Nat /\ Bounds # {}
  OBVIOUS
<1>2. IsWellFoundedOn(R, Nat)
  BY NatLessThanWellFounded
<1> HIDE DEF R
<1>3. \E k \in Bounds : \A l \in Bounds : <<l, k>> \notin R
  BY <1>1, <1>2, WFMin
<1>4. \A k, l \in Nat : <<l, k>> \notin R => k <= l
  <2>1. \A k, l \in Nat : l < k => <<l, k>> \in R
    BY DEF R, OpToRel
  <2> QED
    BY <2>1
<1> QED
  BY <1>3, <1>4

LEMMA EndExists ==
    ASSUME NEW s \in Seq(Slot)
    PROVE  LastInUse(s) \in Nat /\ IsEnd(s, LastInUse(s))
<1>1. /\ InUse(s) \subseteq Nat \ {0}
      /\ Len(s) \in Nat
      /\ \A i \in InUse(s) : i <= Len(s)
  BY InUseFacts, LenProperties
<1>2. PICK k \in Nat : /\ \A i \in InUse(s) : i <= k
                       /\ \A l \in Nat : (\A i \in InUse(s) : i <= l) => k <= l
  BY <1>1, LeastBound
<1>3. k = 0 \/ k \in InUse(s)
  <2>1. SUFFICES ASSUME k # 0, k \notin InUse(s)
                 PROVE  FALSE
    OBVIOUS
  <2>2. k - 1 \in Nat /\ \A i \in InUse(s) : i <= k - 1
    BY <1>1, <1>2, <2>1
  <2> QED
    BY <1>2, <2>2
<1>4. IsEnd(s, k)
  BY <1>2, <1>3 DEF IsEnd
<1> QED
  BY <1>4, EndUnique

----------------------------------------------------------------------------
(* The operations keep a vector good. *)

LEMMA EntryFacts ==
    /\ \A e \in Entry : e # None
    /\ \A g \in Generations : Free(g) \in Entry
    /\ \A p \in Offsets, g \in Generations, f \in BOOLEAN : At(p, g, f) \in Entry
    /\ \A a \in Numbers, i \in Indexes : Packed(a, i) \in Entry
    /\ \A e \in Entry : [e EXCEPT !.flag = TRUE] \in Entry
<1>1. \A e \in Entry : e # None
  BY TableAssumption
<1>2. 0 \in Offsets /\ 0 \in Generations /\ 0 \in Indexes /\ 0 \in Numbers
  BY RulesAssumption DEF Numbers
<1>3. \A g \in Generations : Free(g) \in Entry
  BY <1>2 DEF Entry, Free
<1>4. \A p \in Offsets, g \in Generations, f \in BOOLEAN : At(p, g, f) \in Entry
  BY <1>2 DEF Entry, At
<1>5. \A a \in Numbers, i \in Indexes : Packed(a, i) \in Entry
  BY <1>2 DEF Entry, Packed
<1>6. \A e \in Entry : [e EXCEPT !.flag = TRUE] \in Entry
  BY DEF Entry
<1> QED
  BY <1>1, <1>3, <1>4, <1>5, <1>6

LEMMA GrownFacts ==
    ASSUME NEW s \in Seq(Slot), NEW n \in Nat
    PROVE  /\ Grown(s, n) \in Seq(Slot)
           /\ n + 1 \in 1..Len(Grown(s, n))
           /\ InUse(Grown(s, n)) = InUse(s)
           /\ Len(s) <= Len(Grown(s, n))
           /\ \A i \in 1..Len(Grown(s, n)) :
                 Grown(s, n)[i] = IF i <= Len(s) THEN s[i] ELSE None
<1>1. Len(s) \in Nat /\ DOMAIN s = 1..Len(s) /\ \A i \in 1..Len(s) : s[i] \in Slot
  BY LenProperties, ElementOfSeq
<1>2. CASE n < Len(s)
  BY <1>1, <1>2 DEF Grown
<1>3. CASE ~(n < Len(s))
  <2> DEFINE g == [i \in 1..(n + 1) |-> IF i <= Len(s) THEN s[i] ELSE None]
  <2>1. g \in Seq(Slot)
    <3>1. \A i \in 1..(n + 1) : g[i] \in Slot
      BY <1>1 DEF Slot
    <3> QED
      BY <3>1, IsASeq
  <2>2. Len(g) = n + 1 /\ DOMAIN g = 1..(n + 1)
    BY <2>1, LenProperties
  <2>3. Grown(s, n) = g
    BY <1>3 DEF Grown
  <2>4. InUse(g) = InUse(s)
    BY <1>1, <1>3, <2>2 DEF InUse
  <2> QED
    BY <1>1, <1>3, <2>1, <2>2, <2>3, <2>4
<1> QED
  BY <1>2, <1>3

LEMMA PutGood ==
    ASSUME NEW t, Good(t), NEW n \in Nat, NEW e \in Entry
    PROVE  /\ Good(PutEntry(t, n, e))
           /\ InUse(PutEntry(t, n, e).slots) = InUse(t.slots) \union {n + 1}
           /\ \A i \in InUse(t.slots) \union {n + 1} :
                 PutEntry(t, n, e).slots[i] = IF i = n + 1 THEN e ELSE t.slots[i]
           /\ Lookup(PutEntry(t, n, e), n) = e
<1> DEFINE s == t.slots
           g == Grown(s, n)
           p == [g EXCEPT ![n + 1] = e]
           u == PutEntry(t, n, e)
<1>1. /\ s \in Seq(Slot) /\ t.occupied \in Nat /\ t.end \in Nat
      /\ Len(s) \in Nat /\ DOMAIN s = 1..Len(s)
      /\ InUse(s) \subseteq 1..Len(s) /\ IsFiniteSet(InUse(s))
  BY LenProperties, InUseFacts DEF Good, Vector
<1>2. /\ g \in Seq(Slot) /\ n + 1 \in 1..Len(g) /\ InUse(g) = InUse(s)
      /\ Len(g) \in Nat /\ DOMAIN g = 1..Len(g) /\ Len(s) <= Len(g)
      /\ \A i \in 1..Len(g) : g[i] = IF i <= Len(s) THEN s[i] ELSE None
  BY <1>1, GrownFacts, LenProperties
<1>3. e \in Slot /\ e # None
  BY EntryFacts DEF Slot
<1> HIDE DEF g
<1>4. /\ p \in Seq(Slot) /\ Len(p) = Len(g) /\ DOMAIN p = 1..Len(g)
      /\ \A i \in 1..Len(g) : p[i] = IF i = n + 1 THEN e ELSE g[i]
  BY <1>2, <1>3, ExceptSeq, LenProperties
<1> HIDE DEF p
<1>5. InUse(p) = InUse(s) \union {n + 1}
  <2>1. InUse(p) = InUse(g) \union {n + 1}
    BY <1>2, <1>3, <1>4 DEF InUse
  <2> QED
    BY <1>2, <2>1
<1>6. /\ u.slots = p
      /\ u.occupied = IF Lookup(t, n) = None THEN t.occupied + 1 ELSE t.occupied
      /\ u.end = IF t.end > n THEN t.end ELSE n + 1
      /\ u \in Vector
  <2>1. u = [slots    |-> p,
             occupied |-> IF Lookup(t, n) = None THEN t.occupied + 1 ELSE t.occupied,
             end      |-> IF t.end > n THEN t.end ELSE n + 1]
    BY DEF PutEntry, p, g
  <2> QED
    BY <1>1, <1>4, <2>1 DEF Vector
<1>7. Lookup(t, n) = None <=> n + 1 \notin InUse(s)
  BY <1>1 DEF Lookup, InUse
<1>8. u.occupied = Cardinality(InUse(p))
  <2>1. t.occupied = Cardinality(InUse(s))
    BY DEF Good
  <2>2. Cardinality(InUse(s) \union {n + 1})
          = IF n + 1 \in InUse(s) THEN Cardinality(InUse(s)) ELSE Cardinality(InUse(s)) + 1
    BY <1>1, FS_AddElement
  <2> QED
    BY <1>5, <1>6, <1>7, <2>1, <2>2, Zenon
<1>9. IsEnd(p, u.end)
  BY <1>1, <1>5, <1>6 DEF Good, IsEnd
<1>10. \A i \in InUse(s) \union {n + 1} : p[i] = IF i = n + 1 THEN e ELSE s[i]
  BY <1>1, <1>2, <1>4
<1>11. Lookup(u, n) = e
  BY <1>2, <1>4, <1>6 DEF Lookup
<1> QED
  BY <1>5, <1>6, <1>8, <1>9, <1>10, <1>11 DEF Good

LEMMA LookupFacts ==
    ASSUME NEW t, Good(t), NEW n \in Nat
    PROVE  /\ Lookup(t, n) = None <=> n + 1 \notin InUse(t.slots)
           /\ Lookup(t, n) # None => /\ Lookup(t, n) = t.slots[n + 1]
                                     /\ Lookup(t, n) \in Entry
<1>1. /\ t.slots \in Seq(Slot) /\ Len(t.slots) \in Nat
      /\ DOMAIN t.slots = 1..Len(t.slots)
      /\ \A i \in InUse(t.slots) : t.slots[i] \in Entry
  BY LenProperties, InUseFacts DEF Good, Vector
<1> QED
  BY <1>1 DEF Lookup, InUse

\* An entry with its flag set.
Flagged(e) == [e EXCEPT !.flag = TRUE]

LEMMA FlagGood ==
    ASSUME NEW t, Good(t), NEW n \in Nat, n + 1 \in InUse(t.slots)
    PROVE  /\ Good([t EXCEPT !.slots[n + 1].flag = TRUE])
           /\ InUse([t EXCEPT !.slots[n + 1].flag = TRUE].slots) = InUse(t.slots)
           /\ \A i \in InUse(t.slots) :
                 [t EXCEPT !.slots[n + 1].flag = TRUE].slots[i]
                   = IF i = n + 1 THEN Flagged(t.slots[i]) ELSE t.slots[i]
<1> DEFINE s == t.slots
           e == [s[n + 1] EXCEPT !.flag = TRUE]
           p == [s EXCEPT ![n + 1] = e]
           u == [t EXCEPT !.slots[n + 1].flag = TRUE]
<1>1. /\ s \in Seq(Slot) /\ DOMAIN s = 1..Len(s) /\ InUse(s) \subseteq 1..Len(s)
      /\ s[n + 1] \in Entry
  BY LenProperties, InUseFacts DEF Good, Vector
<1>2. e \in Entry /\ e \in Slot /\ e # None
  BY <1>1, EntryFacts DEF Slot
<1> HIDE DEF e
<1>3. /\ p \in Seq(Slot) /\ DOMAIN p = 1..Len(s)
      /\ \A i \in 1..Len(s) : p[i] = IF i = n + 1 THEN e ELSE s[i]
  BY <1>1, <1>2, ExceptSeq, LenProperties
<1>4. InUse(p) = InUse(s)
  BY <1>1, <1>2, <1>3 DEF InUse
<1>5. u \in Vector /\ u.slots = p /\ u.occupied = t.occupied /\ u.end = t.end
  BY <1>3 DEF Good, Vector, e
<1>6. e = Flagged(s[n + 1])
  BY DEF e, Flagged
<1>7. \A i \in InUse(s) : p[i] = IF i = n + 1 THEN Flagged(s[i]) ELSE s[i]
  BY <1>1, <1>3, <1>6
<1> QED
  BY <1>4, <1>5, <1>7 DEF Good, IsEnd

LEMMA TruncateGood ==
    ASSUME NEW t, Good(t), NEW size \in Nat
    PROVE  /\ Good(TruncateEntries(t, size))
           /\ InUse(TruncateEntries(t, size).slots) = {i \in InUse(t.slots) : i <= size}
           /\ \A i \in InUse(t.slots) :
                 i <= size => TruncateEntries(t, size).slots[i] = t.slots[i]
<1> DEFINE s == t.slots
           kept == SubSeq(s, 1, size)
           u == TruncateEntries(t, size)
           dropped == {i \in InUse(s) : i > size}
<1>1. /\ s \in Seq(Slot) /\ t.occupied \in Nat
      /\ Len(s) \in Nat /\ DOMAIN s = 1..Len(s)
      /\ \A i \in 1..Len(s) : s[i] \in Slot
      /\ InUse(s) \subseteq 1..Len(s) /\ IsFiniteSet(InUse(s))
  BY LenProperties, ElementOfSeq, InUseFacts DEF Good, Vector
<1>2. CASE size > Len(s)
  <2>1. u = t
    BY <1>2 DEF TruncateEntries
  <2>2. \A i \in InUse(s) : i <= size
    BY <1>1, <1>2
  <2> QED
    BY <2>1, <2>2
<1>3. CASE ~(size > Len(s))
  <2>1. /\ kept \in Seq(Slot) /\ Len(kept) = size
        /\ DOMAIN kept = 1..size
        /\ \A i \in 1..size : kept[i] = s[i]
    <3>1. \A i \in 1..size : s[i] \in Slot
      BY <1>1, <1>3
    <3>2. /\ kept \in Seq(Slot)
          /\ Len(kept) = IF 1 <= size THEN size - 1 + 1 ELSE 0
          /\ \A i \in 1..(size - 1 + 1) : kept[i] = s[1 + i - 1]
      BY <3>1, SubSeqProperties
    <3> QED
      BY <3>2, LenProperties
  <2>2. InUse(kept) = {i \in InUse(s) : i <= size}
    BY <1>1, <1>3, <2>1 DEF InUse
  <2>3. /\ InUse(kept) \intersect dropped = {}
        /\ InUse(kept) \union dropped = InUse(s)
        /\ IsFiniteSet(InUse(kept)) /\ IsFiniteSet(dropped)
    BY <1>1, <2>2, FS_Subset
  <2>4. /\ Cardinality(InUse(s)) = Cardinality(InUse(kept)) + Cardinality(dropped)
        /\ Cardinality(InUse(kept)) \in Nat /\ Cardinality(dropped) \in Nat
    <3>1. /\ Cardinality(InUse(kept)) \in Nat /\ Cardinality(dropped) \in Nat
          /\ Cardinality({}) = 0
      BY <2>3, FS_EmptySet, FS_CardinalityType
    <3> HIDE DEF kept, dropped
    <3>2. Cardinality(InUse(kept) \union dropped)
            = Cardinality(InUse(kept)) + Cardinality(dropped)
                - Cardinality(InUse(kept) \intersect dropped)
      BY <2>3, FS_Union
    <3>3. /\ Cardinality(InUse(kept) \union dropped) = Cardinality(InUse(s))
          /\ Cardinality(InUse(kept) \intersect dropped) = 0
      BY <2>3, <3>1, Zenon
    <3> QED
      BY <3>1, <3>2, <3>3
  <2>5. u = [slots    |-> kept,
             occupied |-> t.occupied - Cardinality(dropped),
             end      |-> LastInUse(kept)]
    BY <1>3 DEF TruncateEntries
  <2>6. LastInUse(kept) \in Nat /\ IsEnd(kept, LastInUse(kept))
    BY <2>1, EndExists
  <2>7. t.occupied - Cardinality(dropped) = Cardinality(InUse(kept))
    BY <1>1, <2>4 DEF Good
  <2>8. Good(u) /\ u.slots = kept
    BY <2>1, <2>4, <2>5, <2>6, <2>7 DEF Good, Vector
  <2> QED
    BY <1>1, <2>1, <2>2, <2>8
<1> QED
  BY <1>2, <1>3

----------------------------------------------------------------------------
(* The table after any operations. *)

Inv == Good(Table) /\ todo \in Tables

LEMMA TablesFacts ==
    ASSUME NEW m \in Tables
    PROVE  /\ DOMAIN m \subseteq Numbers
           /\ DOMAIN m \subseteq Nat
           /\ \A n \in DOMAIN m : m[n] \in Entry
           /\ \A D : [k \in DOMAIN m \ D |-> m[k]] \in Tables
<1>1. PICK N \in SUBSET Numbers : m \in [N -> Entry]
  BY DEF Tables
<1>2. DOMAIN m = N /\ \A n \in N : m[n] \in Entry
  BY <1>1
<1>3. Numbers \subseteq Nat
  BY RulesAssumption DEF Numbers
<1>4. ASSUME NEW D
      PROVE  [k \in DOMAIN m \ D |-> m[k]] \in Tables
  <2>1. N \ D \in SUBSET Numbers
    BY <1>1
  <2>2. [k \in N \ D |-> m[k]] \in [N \ D -> Entry]
    BY <1>2
  <2> QED
    BY <1>2, <2>1, <2>2, Zenon DEF Tables
<1> QED
  BY <1>2, <1>3, <1>4

\* Every operation but the merge leaves a vector that was good before.
LEMMA BecomesGood ==
    ASSUME NEW t, Good(t), Becomes(t), todo' \in Tables
    PROVE  Inv'
<1>1. Table' = t
  BY DEF Table, Becomes, Good, Vector
<1> QED
  BY <1>1 DEF Inv, Good, Vector, IsEnd, InUse

LEMMA MaterializedGood ==
    ASSUME NEW t, Good(t), NEW n \in Nat
    PROVE  /\ Good(Materialized(t, n))
           /\ InUse(Materialized(t, n).slots) = InUse(t.slots) \union {n + 1}
           /\ \A i \in InUse(t.slots) : Materialized(t, n).slots[i] = t.slots[i]
           /\ n + 1 \notin InUse(t.slots) => Materialized(t, n).slots[n + 1] = Free(0)
<1>1. Free(0) \in Entry
  BY EntryFacts, RulesAssumption
<1>2. Lookup(t, n) = None <=> n + 1 \notin InUse(t.slots)
  BY LookupFacts
<1>3. CASE Lookup(t, n) = None
  <2> DEFINE u == PutEntry(t, n, Free(0))
  <2>1. /\ Good(u)
        /\ InUse(u.slots) = InUse(t.slots) \union {n + 1}
        /\ \A i \in InUse(t.slots) \union {n + 1} :
              u.slots[i] = IF i = n + 1 THEN Free(0) ELSE t.slots[i]
    BY <1>1, PutGood
  <2>2. Materialized(t, n) = u
    BY <1>3 DEF Materialized
  <2> HIDE DEF u
  <2>3. n + 1 \notin InUse(t.slots)
    BY <1>2, <1>3
  <2>4. \A i \in InUse(t.slots) : u.slots[i] = t.slots[i]
    BY <2>1, <2>3
  <2>5. u.slots[n + 1] = Free(0)
    BY <2>1
  <2> QED
    BY <2>1, <2>2, <2>4, <2>5, Zenon
<1>4. CASE Lookup(t, n) # None
  BY <1>2, <1>4 DEF Materialized
<1> QED
  BY <1>3, <1>4

LEMMA OverFacts ==
    ASSUME NEW old \in Entry
    PROVE  /\ \A g \in Generations, is \in BOOLEAN, p \in Offsets :
                 NormalOver(old, g, is, p) \in Entry
           /\ \A e \in Entry : TopOver(old, e) \in Entry
<1>1. old.flag \in BOOLEAN
  BY DEF Entry
<1>2. ASSUME NEW g \in Generations, NEW is \in BOOLEAN, NEW p \in Offsets
      PROVE  NormalOver(old, g, is, p) \in Entry
  <2>1. old.flag \/ is \in BOOLEAN
    BY <1>1
  <2> QED
    BY <2>1, EntryFacts DEF NormalOver
<1>3. ASSUME NEW e \in Entry
      PROVE  TopOver(old, e) \in Entry
  BY EntryFacts DEF TopOver
<1> QED
  BY <1>2, <1>3

LEMMA InvInit == Init => Inv
<1> SUFFICES ASSUME Init PROVE Inv
  OBVIOUS
<1>1. slots = <<>> /\ occupied = 0 /\ end = 0 /\ todo = NoEntries
  BY DEF Init
<1>2. <<>> \in Seq(Slot) /\ InUse(<<>>) = {}
  BY EmptySeq DEF InUse
<1>3. Table \in Vector /\ Table.slots = <<>> /\ Table.occupied = 0 /\ Table.end = 0
  BY <1>1, <1>2 DEF Table, Vector
<1>4. Good(Table)
  BY <1>2, <1>3, FS_EmptySet DEF Good, IsEnd
<1>5. NoEntries \in Tables
  <2>1. NoEntries \in [{} -> Entry]
    BY DEF NoEntries
  <2> QED
    BY <2>1 DEF Tables
<1> QED
  BY <1>1, <1>4, <1>5 DEF Inv

LEMMA InvNext == Inv /\ [Next]_vars => Inv'
<1> SUFFICES ASSUME Inv, [Next]_vars PROVE Inv'
  OBVIOUS
<1> USE DEF Inv
<1>n. MaxNumber \in Nat /\ Numbers \subseteq Nat /\ Called \subseteq Nat
  BY RulesAssumption DEF Numbers, Called
<1>1. ASSUME NEW n \in Called, NEW g \in Generations, NEW is \in BOOLEAN, NEW p \in Offsets,
             DoAddNormal(n, g, is, p)
      PROVE  Inv'
  <2> DEFINE old == Lookup(Table, n)
             e == IF old = None THEN At(p, g, is) ELSE NormalOver(old, g, is, p)
  <2>1. e \in Entry
    BY <1>n, LookupFacts, EntryFacts, OverFacts
  <2>2. Good(IF n > MaxNumber THEN Table ELSE PutEntry(Table, n, e))
    BY <1>n, <2>1, PutGood
  <2> QED
    BY <1>1, <2>2, BecomesGood DEF DoAddNormal, Idle
<1>2. ASSUME NEW n \in Called, NEW a \in Called, NEW i \in Indexes, DoAddCompressed(n, a, i)
      PROVE  Inv'
  <2> DEFINE put == Materialized(PutEntry(Table, n, Packed(a, i)), a)
  <2>1. CASE n > MaxNumber \/ a > MaxNumber
    BY <1>2, <2>1, BecomesGood DEF DoAddCompressed, Idle
  <2>2. CASE ~(n > MaxNumber \/ a > MaxNumber)
    <3>1. a \in Numbers
      BY <1>n, <2>2 DEF Called, Numbers
    <3>2. Good(PutEntry(Table, n, Packed(a, i)))
      BY <1>n, <3>1, EntryFacts, PutGood
    <3>3. Good(put) /\ a + 1 \in InUse(put.slots)
      <4>1. a \in Nat
        BY <1>n
      <4>2. /\ Good(put)
            /\ InUse(put.slots)
                 = InUse(PutEntry(Table, n, Packed(a, i)).slots) \union {a + 1}
        BY <3>2, <4>1, MaterializedGood
      <4> QED
        BY <4>2
    <3>4. Good([put EXCEPT !.slots[a + 1].flag = TRUE])
      BY <1>n, <3>3, FlagGood
    <3> QED
      BY <1>2, <2>2, <3>4, BecomesGood DEF DoAddCompressed, Idle
  <2> QED
    BY <2>1, <2>2
<1>3. ASSUME NEW n \in Numbers, NEW g \in Generations, DoSetFree(n, g)
      PROVE  Inv'
  <2>1. Good(PutEntry(Table, n, Free(g)))
    BY <1>n, EntryFacts, PutGood
  <2> QED
    BY <1>3, <2>1, BecomesGood DEF DoSetFree, Idle
<1>4. ASSUME NEW size \in 0..(MaxNumber + 1), DoSetSize(size)
      PROVE  Inv'
  <2>1. CASE size = 0
    <3>1. <<>> \in Seq(Slot) /\ InUse(<<>>) = {}
      BY EmptySeq DEF InUse
    <3>2. Good(Cleared)
      BY <3>1, FS_EmptySet DEF Cleared, Good, Vector, IsEnd
    <3> QED
      BY <1>4, <2>1, <3>2, BecomesGood DEF DoSetSize, Idle
  <2>2. CASE size # 0
    <3>1. size \in Nat /\ size - 1 \in Nat
      BY <1>n, <2>2
    <3>2. Good(Materialized(TruncateEntries(Table, size), size - 1))
      BY <3>1, TruncateGood, MaterializedGood
    <3> QED
      BY <1>4, <2>2, <3>2, BecomesGood DEF DoSetSize, Idle
  <2> QED
    BY <2>1, <2>2
<1>5. ASSUME NEW top \in Tops, StartMerge(top)
      PROVE  Inv'
  <2>1. top \in Tables /\ Table' = Table
    BY <1>5, TableAssumption DEF StartMerge, Table
  <2> QED
    BY <1>5, <2>1 DEF StartMerge
<1>6. CASE MergeTurn
  <2>1. PICK n \in DOMAIN todo :
           LET old == Lookup(Table, n) IN
           /\ Becomes(PutEntry(Table, n, IF old = None THEN todo[n] ELSE TopOver(old, todo[n])))
           /\ todo' = [k \in DOMAIN todo \ {n} |-> todo[k]]
    BY <1>6 DEF MergeTurn
  <2> DEFINE old == Lookup(Table, n)
             e == IF old = None THEN todo[n] ELSE TopOver(old, todo[n])
  <2>2. n \in Nat /\ todo[n] \in Entry /\ todo' \in Tables
    BY <2>1, TablesFacts
  <2>3. e \in Entry
    BY <2>2, LookupFacts, OverFacts
  <2>4. Good(PutEntry(Table, n, e))
    BY <2>2, <2>3, PutGood
  <2> QED
    BY <2>1, <2>2, <2>4, BecomesGood
<1>7. CASE UNCHANGED vars
  <2>1. Table' = Table /\ todo' = todo
    BY <1>7 DEF vars, Table
  <2> QED
    BY <2>1
<1> QED
  BY <1>1, <1>2, <1>3, <1>4, <1>5, <1>6, <1>7 DEF Next

LEMMA InvAlways == Spec => []Inv
  BY InvInit, InvNext, PTL DEF Spec

\* The vector, its count, its end and the merge under way keep their types
\* (xref/mod.rs, EntryTable).
THEOREM TableTypeCorrect == Spec => []TypeOK
<1>1. Inv => TypeOK
  BY DEF Inv, Good, Vector, Table, TypeOK, Slot
<1> QED
  BY <1>1, InvAlways, PTL

\* The cached count and end are what a scan of the slots would find, whatever
\* was added, freed, cut or merged before (xref/mod.rs, EntryTable::put and
\* truncate).
THEOREM CachesCorrect == Spec => []CachesExact
<1>1. Inv => CachesExact
  <2>1. SUFFICES ASSUME Inv PROVE CachesExact
    OBVIOUS
  <2>2. /\ slots \in Seq(Slot) /\ end \in Nat /\ IsEnd(slots, end)
        /\ occupied = Cardinality(InUse(slots))
    BY <2>1 DEF Inv, Good, Vector, Table
  <2> QED
    BY <2>2, EndUnique DEF CachesExact
<1> QED
  BY <1>1, InvAlways, PTL

----------------------------------------------------------------------------
(* The vector and the map it holds. *)

\* The map that a vector holds.
As(t) == [n \in {i - 1 : i \in InUse(t.slots)} |-> t.slots[n + 1]]

LEMMA AsFacts ==
    ASSUME NEW t, Good(t)
    PROVE  /\ DOMAIN As(t) \subseteq Nat
           /\ \A n \in Nat : n \in DOMAIN As(t) <=> n + 1 \in InUse(t.slots)
           /\ \A n \in DOMAIN As(t) : As(t)[n] = t.slots[n + 1] /\ As(t)[n] \in Entry
           /\ As(t) = [n \in DOMAIN As(t) |-> As(t)[n]]
<1>1. InUse(t.slots) \subseteq Nat \ {0} /\ \A i \in InUse(t.slots) : t.slots[i] \in Entry
  BY InUseFacts DEF Good, Vector
<1>2. DOMAIN As(t) = {i - 1 : i \in InUse(t.slots)}
  BY DEF As
<1>3. \A n \in DOMAIN As(t) : As(t)[n] = t.slots[n + 1]
  BY <1>2 DEF As
<1>4. \A n \in DOMAIN As(t) : n \in Nat /\ n + 1 \in InUse(t.slots)
  BY <1>1, <1>2
<1>5. \A n \in Nat : n + 1 \in InUse(t.slots) => n \in DOMAIN As(t)
  <2>1. SUFFICES ASSUME NEW n \in Nat, n + 1 \in InUse(t.slots)
                 PROVE  n \in {i - 1 : i \in InUse(t.slots)}
    BY <1>2
  <2>2. n = (n + 1) - 1
    OBVIOUS
  <2> QED
    BY <2>1, <2>2
<1>6. As(t) = [n \in DOMAIN As(t) |-> As(t)[n]]
  BY DEF As
<1> QED
  BY <1>1, <1>3, <1>4, <1>5, <1>6

\* The only map that agrees with a vector is the one it holds.
LEMMA AsUnique ==
    ASSUME NEW t, Good(t), NEW m, m = [n \in DOMAIN m |-> m[n]],
           DOMAIN m \subseteq Nat,
           \A n \in Nat : n \in DOMAIN m <=> n + 1 \in InUse(t.slots),
           \A n \in DOMAIN m : m[n] = t.slots[n + 1]
    PROVE  As(t) = m
<1>1. DOMAIN m = DOMAIN As(t)
  BY AsFacts
<1>2. \A n \in DOMAIN m : m[n] = As(t)[n]
  BY <1>1, AsFacts
<1> QED
  BY <1>1, <1>2, AsFacts

LEMMA AsLookup ==
    ASSUME NEW t, Good(t), NEW n \in Nat
    PROVE  /\ Lookup(t, n) # None <=> Knows(As(t), n)
           /\ Knows(As(t), n) => Lookup(t, n) = As(t)[n]
  BY AsFacts, LookupFacts DEF Knows

LEMMA AsPut ==
    ASSUME NEW t, Good(t), NEW n \in Nat, NEW e \in Entry
    PROVE  As(PutEntry(t, n, e)) = Put(As(t), n, e)
<1> DEFINE u == PutEntry(t, n, e)
           m == Put(As(t), n, e)
<1>1. /\ Good(u)
      /\ InUse(u.slots) = InUse(t.slots) \union {n + 1}
      /\ \A i \in InUse(t.slots) \union {n + 1} :
            u.slots[i] = IF i = n + 1 THEN e ELSE t.slots[i]
  BY PutGood
<1>2. /\ m = [k \in DOMAIN m |-> m[k]]
      /\ DOMAIN m = DOMAIN As(t) \union {n}
      /\ \A k \in DOMAIN m : m[k] = IF k = n THEN e ELSE As(t)[k]
  BY DEF Put
<1> HIDE DEF u, m
<1>3. DOMAIN m \subseteq Nat /\ \A k \in Nat : k \in DOMAIN m <=> k + 1 \in InUse(u.slots)
  BY <1>1, <1>2, AsFacts
<1>4. \A k \in DOMAIN m : m[k] = u.slots[k + 1]
  BY <1>1, <1>2, <1>3, AsFacts
<1>5. As(u) = m
  BY <1>1, <1>2, <1>3, <1>4, AsUnique
<1> QED
  BY <1>5 DEF u, m

LEMMA AsMaterialized ==
    ASSUME NEW t, Good(t), NEW n \in Nat
    PROVE  As(Materialized(t, n)) = OrDefault(As(t), n)
<1>1. Free(0) \in Entry
  BY EntryFacts, RulesAssumption
<1> QED
  BY <1>1, AsLookup, AsPut DEF Materialized, OrDefault

LEMMA AsTruncated ==
    ASSUME NEW t, Good(t), NEW size \in Nat
    PROVE  As(TruncateEntries(t, size))
             = [k \in {n \in DOMAIN As(t) : n < size} |-> As(t)[k]]
<1> DEFINE u == TruncateEntries(t, size)
           m == [k \in {n \in DOMAIN As(t) : n < size} |-> As(t)[k]]
<1>1. /\ Good(u)
      /\ InUse(u.slots) = {i \in InUse(t.slots) : i <= size}
      /\ \A i \in InUse(t.slots) : i <= size => u.slots[i] = t.slots[i]
  BY TruncateGood
<1>2. /\ m = [k \in DOMAIN m |-> m[k]]
      /\ DOMAIN m = {n \in DOMAIN As(t) : n < size}
      /\ \A k \in DOMAIN m : m[k] = As(t)[k]
  OBVIOUS
<1> HIDE DEF u, m
<1>3. DOMAIN m \subseteq Nat /\ \A k \in Nat : k \in DOMAIN m <=> k + 1 \in InUse(u.slots)
  BY <1>1, <1>2, AsFacts
<1>4. \A k \in DOMAIN m : m[k] = u.slots[k + 1]
  BY <1>1, <1>2, <1>3, AsFacts
<1>5. As(u) = m
  BY <1>1, <1>2, <1>3, <1>4, AsUnique
<1> QED
  BY <1>5 DEF u, m

LEMMA AsFlagged ==
    ASSUME NEW t, Good(t), NEW n \in Nat, n + 1 \in InUse(t.slots)
    PROVE  As([t EXCEPT !.slots[n + 1].flag = TRUE]) = [As(t) EXCEPT ![n].flag = TRUE]
<1> DEFINE u == [t EXCEPT !.slots[n + 1].flag = TRUE]
           e == Flagged(t.slots[n + 1])
           m == [As(t) EXCEPT ![n] = e]
<1>1. /\ Good(u)
      /\ InUse(u.slots) = InUse(t.slots)
      /\ \A i \in InUse(t.slots) :
            u.slots[i] = IF i = n + 1 THEN Flagged(t.slots[i]) ELSE t.slots[i]
  BY FlagGood
<1> HIDE DEF u
<1>2. /\ \A i \in InUse(t.slots) : u.slots[i] = IF i = n + 1 THEN e ELSE t.slots[i]
      /\ n \in DOMAIN As(t) /\ As(t)[n] = t.slots[n + 1]
  BY <1>1, AsFacts
<1>3. [As(t) EXCEPT ![n].flag = TRUE] = m
  BY <1>2, Zenon DEF Flagged
<1> HIDE DEF e
<1>4. /\ m = [k \in DOMAIN m |-> m[k]]
      /\ DOMAIN m = DOMAIN As(t)
      /\ \A k \in DOMAIN m : m[k] = IF k = n THEN e ELSE As(t)[k]
  BY <1>2
<1> HIDE DEF m
<1>5. DOMAIN m \subseteq Nat /\ \A k \in Nat : k \in DOMAIN m <=> k + 1 \in InUse(u.slots)
  BY <1>1, <1>4, AsFacts
<1>6. \A k \in DOMAIN m : m[k] = u.slots[k + 1]
  BY <1>2, <1>4, <1>5, AsFacts
<1>7. As(u) = m
  BY <1>1, <1>4, <1>5, <1>6, AsUnique
<1> QED
  BY <1>3, <1>7 DEF u

----------------------------------------------------------------------------
(* merge_up's loop. *)

\* With nothing left to put, the merge is over.
LEMMA MergeNothing ==
    ASSUME NEW t, Good(t), NEW m, DOMAIN m = {}
    PROVE  MergeUp(As(t), m) = As(t)
<1>1. MergeUp(As(t), m) = [n \in DOMAIN As(t) |-> As(t)[n]]
  BY DEF MergeUp, Knows
<1> QED
  BY <1>1, AsFacts

\* A turn of the loop does not change what the merge comes to.
LEMMA MergeOne ==
    ASSUME NEW b, NEW m, NEW n \in DOMAIN m
    PROVE  MergeUp(b, m)
             = MergeUp(Put(b, n, IF Knows(b, n) THEN TopOver(b[n], m[n]) ELSE m[n]),
                       [k \in DOMAIN m \ {n} |-> m[k]])
<1> DEFINE e == IF Knows(b, n) THEN TopOver(b[n], m[n]) ELSE m[n]
           c == Put(b, n, e)
           r == [k \in DOMAIN m \ {n} |-> m[k]]
           D == DOMAIN b \union DOMAIN m
           F(k) == IF k \notin DOMAIN m THEN b[k]
                   ELSE IF k \in DOMAIN b THEN TopOver(b[k], m[k]) ELSE m[k]
           G(k) == IF k \notin DOMAIN r THEN c[k]
                   ELSE IF k \in DOMAIN c THEN TopOver(c[k], r[k]) ELSE r[k]
<1>1. e = F(n)
  BY DEF Knows
<1> HIDE DEF e
<1>2. /\ DOMAIN c = DOMAIN b \union {n}
      /\ \A k \in DOMAIN c : c[k] = IF k = n THEN e ELSE b[k]
  BY DEF Put
<1>3. DOMAIN r = DOMAIN m \ {n} /\ \A k \in DOMAIN r : r[k] = m[k]
  OBVIOUS
<1> HIDE DEF c, r
<1>4. DOMAIN c \union DOMAIN r = D
  BY <1>2, <1>3
<1>5. \A k \in D : F(k) = G(k)
  BY <1>1, <1>2, <1>3
<1>6. MergeUp(b, m) = [k \in D |-> F(k)]
  BY DEF MergeUp, Knows
<1>7. MergeUp(c, r) = [k \in D |-> G(k)]
  BY <1>4 DEF MergeUp, Knows
<1> HIDE DEF D, F, G
<1>8. [k \in D |-> F(k)] = [k \in D |-> G(k)]
  BY <1>5
<1> QED
  BY <1>6, <1>7, <1>8 DEF c, r, e

----------------------------------------------------------------------------
(* Every step of the vector is a step of the map, or none. *)

LEMMA DescribedIs == Described = MergeUp(As(Table), todo)
  BY DEF Described, As, Table

\* After an operation there is no merge under way, and the map is the vector's.
LEMMA DescribedIdle ==
    ASSUME Inv, Idle, NEW t, Good(t), Becomes(t)
    PROVE  Described = As(Table) /\ Described' = As(t)
<1>1. Described = As(Table)
  BY DescribedIs, MergeNothing DEF Inv, Idle
<1>2. Table' = t
  BY DEF Table, Becomes, Good, Vector
<1>3. Described' = MergeUp(As(t), todo)
  BY <1>2 DEF Described, As, Table, Idle
<1> QED
  BY <1>1, <1>3, MergeNothing DEF Idle

\* The map follows the rules the vector does.
LEMMA SameRules ==
    /\ Map!NoEntries = NoEntries
    /\ Map!Numbers = Numbers
    /\ Map!Called = Called
    /\ \A m, n, g, is, p : Map!AddNormal(m, n, g, is, p) = AddNormal(m, n, g, is, p)
    /\ \A m, n, a, i : Map!AddCompressed(m, n, a, i) = AddCompressed(m, n, a, i)
    /\ \A m, n, g : Map!SetFree(m, n, g) = SetFree(m, n, g)
    /\ \A m, size : Map!SetSize(m, size) = SetSize(m, size)
    /\ \A m, top : Map!MergeUp(m, top) = MergeUp(m, top)
<1>1. \A g : Map!Free(g) = Free(g)
  BY Zenon DEF Map!Free, Free
<1>2. \A p, g, f : Map!At(p, g, f) = At(p, g, f)
  BY Zenon DEF Map!At, At
<1>3. \A a, i : Map!Packed(a, i) = Packed(a, i)
  BY Zenon DEF Map!Packed, Packed
<1>4. \A m, n : Map!Knows(m, n) <=> Knows(m, n)
  BY Zenon DEF Map!Knows, Knows
<1>5. \A m, n, e : Map!Put(m, n, e) = Put(m, n, e)
  BY Zenon DEF Map!Put, Put
<1>6. \A m, n : Map!OrDefault(m, n) = OrDefault(m, n)
  BY <1>1, <1>4, <1>5, Zenon DEF Map!OrDefault, OrDefault
<1>7. \A old, g, is, p : Map!NormalOver(old, g, is, p) = NormalOver(old, g, is, p)
  BY <1>2, Zenon DEF Map!NormalOver, NormalOver
<1>8. \A old : Map!Declines(old) <=> Declines(old)
  BY Zenon DEF Map!Declines, Declines
<1>9. \A old, e : Map!TopOver(old, e) = TopOver(old, e)
  BY Zenon DEF Map!TopOver, TopOver
<1>10. Map!Numbers = Numbers
  BY Zenon DEF Map!Numbers, Numbers
<1>11. Map!Called = Called
  BY Zenon DEF Map!Called, Called
<1>12. Map!NoEntries = NoEntries
  BY <1>1 DEF Map!NoEntries, NoEntries
<1>13. \A m, n, g, is, p : Map!AddNormal(m, n, g, is, p) = AddNormal(m, n, g, is, p)
  <2>1. TAKE m, n, g, is, p
  <2> DEFINE e == IF Knows(m, n) THEN NormalOver(m[n], g, is, p) ELSE At(p, g, is)
             d == IF Map!Knows(m, n) THEN Map!NormalOver(m[n], g, is, p) ELSE Map!At(p, g, is)
  <2>2. d = e
    BY <1>2, <1>4, <1>7
  <2>3. AddNormal(m, n, g, is, p) = IF n \notin Numbers THEN m ELSE Put(m, n, e)
    BY Zenon DEF AddNormal
  <2>4. Map!AddNormal(m, n, g, is, p) = IF n \notin Numbers THEN m ELSE Put(m, n, e)
    <3>1. Map!AddNormal(m, n, g, is, p)
            = IF n \notin Map!Numbers THEN m ELSE Map!Put(m, n, d)
      BY Zenon DEF Map!AddNormal
    <3> HIDE DEF d, e
    <3> QED
      BY <1>5, <1>10, <2>2, <3>1
  <2> HIDE DEF d, e
  <2> QED
    BY <2>3, <2>4
<1>14. \A m, n, a, i : Map!AddCompressed(m, n, a, i) = AddCompressed(m, n, a, i)
  <2>1. TAKE m, n, a, i
  <2> DEFINE packed == OrDefault(Put(m, n, Packed(a, i)), a)
             flagged == [packed EXCEPT ![a].flag = TRUE]
             declined == Knows(m, n) /\ Declines(m[n])
  <2>2. Map!OrDefault(Map!Put(m, n, Map!Packed(a, i)), a) = packed
    BY <1>3, <1>5, <1>6
  <2>3. Map!Knows(m, n) /\ Map!Declines(m[n]) <=> declined
    BY <1>4, <1>8, Zenon
  <2>4. AddCompressed(m, n, a, i)
          = IF n \notin Numbers \/ a \notin Numbers THEN m ELSE IF declined THEN m ELSE flagged
    BY Zenon DEF AddCompressed
  <2>5. Map!AddCompressed(m, n, a, i)
          = IF n \notin Numbers \/ a \notin Numbers THEN m ELSE IF declined THEN m ELSE flagged
    <3> HIDE DEF packed, declined
    <3> QED
      BY <1>10, <2>2, <2>3, Zenon DEF Map!AddCompressed
  <2> HIDE DEF packed, flagged, declined
  <2> QED
    BY <2>4, <2>5
<1>15. \A m, n, g : Map!SetFree(m, n, g) = SetFree(m, n, g)
  BY <1>1, <1>5, Zenon DEF Map!SetFree, SetFree
<1>16. \A m, size : Map!SetSize(m, size) = SetSize(m, size)
  BY <1>6, <1>12, Zenon DEF Map!SetSize, SetSize
<1>17. \A m, top : Map!MergeUp(m, top) = MergeUp(m, top)
  BY <1>4, <1>9, Zenon DEF Map!MergeUp, MergeUp
<1> QED
  BY <1>10, <1>11, <1>12, <1>13, <1>14, <1>15, <1>16, <1>17

LEMMA StepRefines == Inv /\ [Next]_vars => [Map!Next]_Described
<1> SUFFICES ASSUME Inv, [Next]_vars PROVE [Map!Next]_Described
  OBVIOUS
<1>i. Good(Table) /\ todo \in Tables
  BY DEF Inv
<1>n. /\ MaxNumber \in Nat /\ Numbers \subseteq Nat /\ Called \subseteq Nat
      /\ \A n \in Called : n \in Numbers <=> ~(n > MaxNumber)
  BY RulesAssumption DEF Numbers, Called
<1>1. ASSUME NEW n \in Called, NEW g \in Generations, NEW is \in BOOLEAN, NEW p \in Offsets,
             DoAddNormal(n, g, is, p)
      PROVE  Map!Next
  <2> DEFINE old == Lookup(Table, n)
             e == IF old = None THEN At(p, g, is) ELSE NormalOver(old, g, is, p)
             t == IF n > MaxNumber THEN Table ELSE PutEntry(Table, n, e)
  <2>1. n \in Nat /\ e \in Entry
    BY <1>i, <1>n, LookupFacts, EntryFacts, OverFacts
  <2>2. Good(t)
    BY <1>i, <2>1, PutGood
  <2>3. Idle /\ Becomes(t)
    BY <1>1 DEF DoAddNormal
  <2>4. Described = As(Table) /\ Described' = As(t)
    BY <2>2, <2>3, DescribedIdle
  <2>5. As(t) = AddNormal(As(Table), n, g, is, p)
    <3>1. e = IF Knows(As(Table), n) THEN NormalOver(As(Table)[n], g, is, p) ELSE At(p, g, is)
      BY <1>i, <2>1, AsLookup
    <3> HIDE DEF e
    <3>2. CASE n > MaxNumber
      BY <1>n, <3>2 DEF AddNormal
    <3>3. CASE ~(n > MaxNumber)
      <4>1. As(t) = Put(As(Table), n, e)
        BY <1>i, <2>1, <3>3, AsPut
      <4> QED
        BY <1>n, <3>1, <3>3, <4>1 DEF AddNormal
    <3> QED
      BY <3>2, <3>3
  <2> QED
    BY <2>4, <2>5, SameRules DEF Map!Next
<1>2. ASSUME NEW n \in Called, NEW a \in Called, NEW i \in Indexes, DoAddCompressed(n, a, i)
      PROVE  Map!Next
  <2> DEFINE old == Lookup(Table, n)
             put == PutEntry(Table, n, Packed(a, i))
             mat == Materialized(put, a)
             t == IF n > MaxNumber \/ a > MaxNumber THEN Table
                  ELSE IF old # None /\ Declines(old) THEN Table
                  ELSE [mat EXCEPT !.slots[a + 1].flag = TRUE]
  <2>1. n \in Nat /\ a \in Nat
    BY <1>n
  <2>2. Idle /\ Becomes(t)
    BY <1>2 DEF DoAddCompressed
  <2>3. ASSUME ~(n > MaxNumber \/ a > MaxNumber)
        PROVE  /\ Good([mat EXCEPT !.slots[a + 1].flag = TRUE])
               /\ As([mat EXCEPT !.slots[a + 1].flag = TRUE])
                    = [OrDefault(Put(As(Table), n, Packed(a, i)), a) EXCEPT ![a].flag = TRUE]
    <3>1. Packed(a, i) \in Entry
      BY <1>n, <2>3, EntryFacts
    <3>2. Good(put) /\ As(put) = Put(As(Table), n, Packed(a, i))
      BY <1>i, <2>1, <3>1, PutGood, AsPut
    <3> HIDE DEF put
    <3>3. /\ Good(mat) /\ a + 1 \in InUse(mat.slots)
          /\ As(mat) = OrDefault(As(put), a)
      BY <2>1, <3>2, MaterializedGood, AsMaterialized
    <3> HIDE DEF mat
    <3>4. Good([mat EXCEPT !.slots[a + 1].flag = TRUE])
      BY <2>1, <3>3, FlagGood
    <3>5. As([mat EXCEPT !.slots[a + 1].flag = TRUE]) = [As(mat) EXCEPT ![a].flag = TRUE]
      BY <2>1, <3>3, AsFlagged
    <3>6. As(mat) = OrDefault(Put(As(Table), n, Packed(a, i)), a)
      BY <3>2, <3>3, Zenon
    <3> QED
      BY <3>4, <3>5, <3>6, Zenon
  <2>4. old # None /\ Declines(old) <=> Knows(As(Table), n) /\ Declines(As(Table)[n])
    BY <1>i, <2>1, AsLookup
  <2>5. Good(t)
    BY <1>i, <2>3
  <2>6. Described = As(Table) /\ Described' = As(t)
    BY <2>2, <2>5, DescribedIdle
  <2>7. As(t) = AddCompressed(As(Table), n, a, i)
    <3>1. CASE n > MaxNumber \/ a > MaxNumber
      BY <1>n, <3>1 DEF AddCompressed
    <3>2. CASE ~(n > MaxNumber \/ a > MaxNumber) /\ old # None /\ Declines(old)
      BY <1>n, <2>4, <3>2 DEF AddCompressed
    <3>3. CASE ~(n > MaxNumber \/ a > MaxNumber) /\ ~(old # None /\ Declines(old))
      <4>1. As(t) = As([mat EXCEPT !.slots[a + 1].flag = TRUE])
        BY <3>3
      <4> QED
        BY <1>n, <2>3, <2>4, <3>3, <4>1 DEF AddCompressed
    <3> QED
      BY <3>1, <3>2, <3>3
  <2> QED
    BY <2>6, <2>7, SameRules DEF Map!Next
<1>3. ASSUME NEW n \in Numbers, NEW g \in Generations, DoSetFree(n, g)
      PROVE  Map!Next
  <2> DEFINE t == PutEntry(Table, n, Free(g))
  <2>1. n \in Nat /\ Free(g) \in Entry
    BY <1>n, EntryFacts
  <2>2. Good(t) /\ As(t) = SetFree(As(Table), n, g)
    BY <1>i, <2>1, PutGood, AsPut DEF SetFree
  <2>3. Idle /\ Becomes(t)
    BY <1>3 DEF DoSetFree
  <2>4. Described = As(Table) /\ Described' = As(t)
    BY <2>2, <2>3, DescribedIdle
  <2> QED
    BY <2>2, <2>4, SameRules DEF Map!Next
<1>4. ASSUME NEW size \in 0..(MaxNumber + 1), DoSetSize(size)
      PROVE  Map!Next
  <2> DEFINE t == IF size = 0 THEN Cleared
                  ELSE Materialized(TruncateEntries(Table, size), size - 1)
  <2>1. Good(t) /\ As(t) = SetSize(As(Table), size)
    <3>1. CASE size = 0
      <4>1. <<>> \in Seq(Slot) /\ InUse(<<>>) = {}
        BY EmptySeq DEF InUse
      <4>2. Good(Cleared)
        BY <4>1, FS_EmptySet DEF Cleared, Good, Vector, IsEnd
      <4>3. DOMAIN As(Cleared) = {} /\ As(Cleared) = [n \in DOMAIN As(Cleared) |-> As(Cleared)[n]]
        BY <4>1 DEF As, Cleared
      <4>4. As(Cleared) = NoEntries
        BY <4>3 DEF NoEntries
      <4> QED
        BY <3>1, <4>2, <4>4 DEF SetSize
    <3>2. CASE size # 0
      <4>1. size \in Nat /\ size - 1 \in Nat
        BY <1>n, <3>2
      <4>2. /\ Good(TruncateEntries(Table, size))
            /\ As(TruncateEntries(Table, size))
                 = [k \in {n \in DOMAIN As(Table) : n < size} |-> As(Table)[k]]
        BY <1>i, <4>1, TruncateGood, AsTruncated
      <4>3. /\ Good(Materialized(TruncateEntries(Table, size), size - 1))
            /\ As(Materialized(TruncateEntries(Table, size), size - 1))
                 = OrDefault(As(TruncateEntries(Table, size)), size - 1)
        BY <4>1, <4>2, MaterializedGood, AsMaterialized
      <4> QED
        BY <3>2, <4>2, <4>3 DEF SetSize
    <3> QED
      BY <3>1, <3>2
  <2>2. Idle /\ Becomes(t)
    BY <1>4 DEF DoSetSize
  <2>3. Described = As(Table) /\ Described' = As(t)
    BY <2>1, <2>2, DescribedIdle
  <2> QED
    BY <2>1, <2>3, SameRules DEF Map!Next
<1>5. ASSUME NEW top \in Tops, StartMerge(top)
      PROVE  Map!Next
  <2>1. Table' = Table /\ DOMAIN todo = {} /\ todo' = top
    BY <1>5 DEF StartMerge, Table
  <2>2. Described = As(Table)
    BY <1>i, <2>1, DescribedIs, MergeNothing
  <2>3. Described' = MergeUp(As(Table), top)
    BY <2>1 DEF Described, As, Table
  <2> QED
    BY <2>2, <2>3, SameRules DEF Map!Next
<1>6. CASE MergeTurn
  <2>1. PICK n \in DOMAIN todo :
           LET old == Lookup(Table, n) IN
           /\ Becomes(PutEntry(Table, n, IF old = None THEN todo[n] ELSE TopOver(old, todo[n])))
           /\ todo' = [k \in DOMAIN todo \ {n} |-> todo[k]]
    BY <1>6 DEF MergeTurn
  <2> DEFINE old == Lookup(Table, n)
             e == IF old = None THEN todo[n] ELSE TopOver(old, todo[n])
             t == PutEntry(Table, n, e)
  <2>2. n \in Nat /\ todo[n] \in Entry
    BY <1>i, TablesFacts
  <2>3. e \in Entry
    BY <1>i, <2>2, LookupFacts, OverFacts
  <2>4. e = IF Knows(As(Table), n) THEN TopOver(As(Table)[n], todo[n]) ELSE todo[n]
    BY <1>i, <2>2, AsLookup
  <2>5. Becomes(PutEntry(Table, n, e))
    BY <2>1
  <2> HIDE DEF e
  <2>6. Good(t) /\ As(t) = Put(As(Table), n, e)
    BY <1>i, <2>2, <2>3, PutGood, AsPut
  <2>7. Table' = t
    BY <2>5, <2>6 DEF Table, Becomes, Good, Vector
  <2> HIDE DEF t
  <2>8. Described' = MergeUp(As(t), [k \in DOMAIN todo \ {n} |-> todo[k]])
    BY <2>1, <2>7 DEF Described, As, Table
  <2> QED
    BY <2>4, <2>6, <2>8, MergeOne, DescribedIs
<1>7. CASE UNCHANGED vars
  BY <1>7 DEF vars, Described
<1> QED
  BY <1>1, <1>2, <1>3, <1>4, <1>5, <1>6, <1>7 DEF Next

\* "What it keeps is every rule about which entry wins, unchanged and applied
\* in the same order" (xref/mod.rs, EntryTable): the vector implements the map
\* for any numbers, offsets, generations and tables, and a whole merge_up is
\* one step of the map.
THEOREM VectorImplementsMap == Spec => ImplementsMap
<1>1. Init => Map!Init
  <2>1. SUFFICES ASSUME Init PROVE Described = NoEntries
    BY SameRules DEF Map!Init
  <2>2. slots = <<>> /\ todo = NoEntries
    BY <2>1 DEF Init
  <2>3. InUse(slots) = {} /\ DOMAIN todo = {}
    BY <2>2 DEF InUse, NoEntries
  <2>4. DOMAIN Described = {} /\ Described = [n \in DOMAIN Described |-> Described[n]]
    BY <2>3 DEF Described, MergeUp
  <2> QED
    BY <2>4 DEF NoEntries
<1> QED
  BY <1>1, InvAlways, StepRefines, PTL DEF Spec, ImplementsMap, Map!Spec
============================================================================
