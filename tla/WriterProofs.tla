---------------------------- MODULE WriterProofs ----------------------------
(***************************************************************************)
(* What the overlay and a saved file hold, for any documents and edits:    *)
(* the numbers an edit takes are fresh, every entry that a save writes     *)
(* names its object, and a saved document answers what the session did, by *)
(* its table or by a scan.  At the end, the composition with the pages.    *)
(***************************************************************************)
EXTENDS MCEditing, FiniteSetTheorems, SequenceTheorems, FoldProofs, TLAPS

----------------------------------------------------------------------------
(* Writing objects.                                                        *)

OffsetTables == UNION {[D -> Nat] : D \in SUBSET Numbers}
Outs == [file : Seq(Item), offsets : OffsetTables]

ItemFor(n, obj, key) == [num |-> n, gen |-> 0, obj |-> obj, key |-> key]

LEMMA OffsetTablesAre ==
    /\ \A m \in OffsetTables : DOMAIN m \subseteq Numbers /\ \A n \in DOMAIN m : m[n] \in Nat
    /\ \A D \in SUBSET Numbers : \A m \in [D -> Nat] : m \in OffsetTables
BY DEF OffsetTables

\* An object is put at the end of the file, and its offset kept.
LEMMA WrittenIs ==
    ASSUME NEW out \in Outs, NEW n \in Numbers, NEW obj \in Objects, NEW key \in Keys,
           NEW res, res = Written(out, n, obj, key)
    PROVE  /\ res \in Outs
           /\ Len(res.file) = Len(out.file) + 1 /\ Len(out.file) \in Nat
           /\ \A p \in 1..Len(out.file) : res.file[p] = out.file[p]
           /\ res.file[Len(out.file) + 1] = ItemFor(n, obj, key)
           /\ DOMAIN res.offsets = DOMAIN out.offsets \union {n}
           /\ res.offsets[n] = Len(out.file) + 1
           /\ \A k \in DOMAIN out.offsets \ {n} : res.offsets[k] = out.offsets[k]
<1>1. /\ out.file \in Seq(Item) /\ out.offsets \in OffsetTables
      /\ Len(out.file) \in Nat
  BY DEF Outs
<1>2. PICK i : i = ItemFor(n, obj, key)
  OBVIOUS
<1>3. i \in Item
  BY <1>2 DEF ItemFor, Item
<1>4. PICK f : f = Append(out.file, i)
  OBVIOUS
<1>5. /\ f \in Seq(Item) /\ Len(f) = Len(out.file) + 1
      /\ \A p \in 1..Len(out.file) : f[p] = out.file[p]
      /\ f[Len(out.file) + 1] = i
  BY <1>1, <1>3, <1>4
<1>6. PICK m : m = [k \in DOMAIN out.offsets \union {n} |->
                       IF k = n THEN Len(out.file) + 1 ELSE out.offsets[k]]
  OBVIOUS
<1>7. DOMAIN out.offsets \subseteq Numbers /\ \A k \in DOMAIN out.offsets : out.offsets[k] \in Nat
  BY <1>1, OffsetTablesAre
<1>8. m \in [DOMAIN out.offsets \union {n} -> Nat]
  BY <1>1, <1>6, <1>7
<1>9. m \in OffsetTables
  BY <1>7, <1>8, OffsetTablesAre
<1>10. res = [file |-> f, offsets |-> m]
  BY <1>2, <1>4, <1>6 DEF Written, ItemFor
<1>11. res \in Outs /\ res.file = f /\ res.offsets = m
  BY <1>5, <1>9, <1>10 DEF Outs
<1> QED
  BY <1>1, <1>2, <1>5, <1>6, <1>11

\* res is out with the objects of W written, each once.
Wrote(out, res, W, key) ==
    /\ Len(out.file) <= Len(res.file)
    /\ \A p \in 1..Len(out.file) : res.file[p] = out.file[p]
    /\ DOMAIN res.offsets = DOMAIN out.offsets \union W
    /\ \A k \in DOMAIN out.offsets \ W : res.offsets[k] = out.offsets[k]
    /\ \A k \in W : /\ res.offsets[k] \in (Len(out.file) + 1)..Len(res.file)
                    /\ res.file[res.offsets[k]] = ItemFor(k, Fetch(k), key)
    /\ \A p \in (Len(out.file) + 1)..Len(res.file) :
          res.file[p].num \in W /\ p = res.offsets[res.file[p].num]

LEMMA WroteNothing == ASSUME NEW out \in Outs, NEW key PROVE Wrote(out, out, {}, key)
<1>1. Len(out.file) \in Nat
  BY DEF Outs
<1> QED
  BY <1>1 DEF Wrote

LEMMA WroteOne ==
    ASSUME NEW out \in Outs, NEW res \in Outs, NEW W \in SUBSET Numbers, NEW key \in Keys,
           Wrote(out, res, W, key), NEW n \in Numbers \ W, Fetch(n) \in Objects
    PROVE  /\ Written(res, n, Fetch(n), key) \in Outs
           /\ Wrote(out, Written(res, n, Fetch(n), key), W \union {n}, key)
<1>1. PICK more : more = Written(res, n, Fetch(n), key)
  OBVIOUS
<1>2. /\ more \in Outs
      /\ Len(more.file) = Len(res.file) + 1 /\ Len(res.file) \in Nat
      /\ \A p \in 1..Len(res.file) : more.file[p] = res.file[p]
      /\ more.file[Len(res.file) + 1] = ItemFor(n, Fetch(n), key)
      /\ DOMAIN more.offsets = DOMAIN res.offsets \union {n}
      /\ more.offsets[n] = Len(res.file) + 1
      /\ \A k \in DOMAIN res.offsets \ {n} : more.offsets[k] = res.offsets[k]
  BY <1>1, WrittenIs
<1>3. Len(out.file) \in Nat
  BY DEF Outs
<1>4. ItemFor(n, Fetch(n), key).num = n
  BY DEF ItemFor
<1>5. Len(out.file) <= Len(more.file) /\ \A p \in 1..Len(out.file) : more.file[p] = out.file[p]
  <2>1. /\ Len(out.file) <= Len(res.file)
        /\ \A p \in 1..Len(out.file) : res.file[p] = out.file[p]
    BY DEF Wrote
  <2>2. 1..Len(out.file) \subseteq 1..Len(res.file) /\ Len(out.file) <= Len(more.file)
    BY <1>2, <1>3, <2>1
  <2>3. \A p \in 1..Len(out.file) : more.file[p] = res.file[p]
    BY <1>2, <2>2
  <2> QED
    BY <2>1, <2>2, <2>3
<1>6. ASSUME NEW k \in W \union {n}
      PROVE  /\ more.offsets[k] \in (Len(out.file) + 1)..Len(more.file)
             /\ more.file[more.offsets[k]] = ItemFor(k, Fetch(k), key)
  <2>1. CASE k = n
    BY <1>2, <1>3, <2>1 DEF Wrote
  <2>2. CASE k # n
    <3>1. more.offsets[k] = res.offsets[k]
      BY <1>2, <1>6, <2>2 DEF Wrote
    <3>2. /\ res.offsets[k] \in (Len(out.file) + 1)..Len(res.file)
          /\ res.file[res.offsets[k]] = ItemFor(k, Fetch(k), key)
      BY <1>6, <2>2 DEF Wrote
    <3> QED
      BY <1>2, <1>3, <3>1, <3>2
  <2> QED
    BY <2>1, <2>2
<1>7. ASSUME NEW p \in (Len(out.file) + 1)..Len(more.file)
      PROVE  more.file[p].num \in W \union {n} /\ p = more.offsets[more.file[p].num]
  <2>1. CASE p = Len(res.file) + 1
    BY <1>2, <1>4, <2>1
  <2>2. CASE p # Len(res.file) + 1
    <3>1. p \in (Len(out.file) + 1)..Len(res.file) /\ more.file[p] = res.file[p]
      BY <1>2, <1>3, <1>7, <2>2
    <3>2. res.file[p].num \in W /\ p = res.offsets[res.file[p].num]
      BY <3>1 DEF Wrote
    <3>3. res.file[p].num \in DOMAIN res.offsets \ {n}
      BY <3>2 DEF Wrote
    <3> QED
      BY <1>2, <3>1, <3>2, <3>3
  <2> QED
    BY <2>1, <2>2
<1>8. /\ DOMAIN more.offsets = DOMAIN out.offsets \union (W \union {n})
      /\ \A k \in DOMAIN out.offsets \ (W \union {n}) : more.offsets[k] = out.offsets[k]
  BY <1>2 DEF Wrote
<1> QED
  BY <1>1, <1>2, <1>5, <1>6, <1>7, <1>8 DEF Wrote

LEMMA WroteTwice ==
    ASSUME NEW a \in Outs, NEW b \in Outs, NEW c \in Outs,
           NEW V, NEW W, V \intersect W = {}, NEW key,
           Wrote(a, b, V, key), Wrote(b, c, W, key)
    PROVE  Wrote(a, c, V \union W, key)
<1>1. Len(a.file) \in Nat /\ Len(b.file) \in Nat /\ Len(c.file) \in Nat
  BY DEF Outs
<1>2. Len(a.file) <= Len(c.file) /\ \A p \in 1..Len(a.file) : c.file[p] = a.file[p]
  BY <1>1 DEF Wrote
<1>3. /\ DOMAIN c.offsets = DOMAIN a.offsets \union (V \union W)
      /\ \A k \in DOMAIN a.offsets \ (V \union W) : c.offsets[k] = a.offsets[k]
      /\ \A k \in V : c.offsets[k] = b.offsets[k]
  BY DEF Wrote
<1>4. ASSUME NEW k \in V \union W
      PROVE  /\ c.offsets[k] \in (Len(a.file) + 1)..Len(c.file)
             /\ c.file[c.offsets[k]] = ItemFor(k, Fetch(k), key)
  <2>1. CASE k \in W
    BY <1>1, <2>1 DEF Wrote
  <2>2. CASE k \in V
    <3>1. /\ b.offsets[k] \in (Len(a.file) + 1)..Len(b.file)
          /\ b.file[b.offsets[k]] = ItemFor(k, Fetch(k), key)
      BY <2>2 DEF Wrote
    <3>2. b.offsets[k] \in 1..Len(b.file) /\ Len(b.file) <= Len(c.file)
      BY <1>1, <3>1 DEF Wrote
    <3>3. c.file[b.offsets[k]] = b.file[b.offsets[k]]
      BY <3>2 DEF Wrote
    <3> QED
      BY <1>1, <1>3, <2>2, <3>1, <3>2, <3>3
  <2> QED
    BY <2>1, <2>2
<1>5. ASSUME NEW p \in (Len(a.file) + 1)..Len(c.file)
      PROVE  c.file[p].num \in V \union W /\ p = c.offsets[c.file[p].num]
  <2>1. CASE p > Len(b.file)
    BY <1>1, <1>5, <2>1 DEF Wrote
  <2>2. CASE p <= Len(b.file)
    <3>1. p \in (Len(a.file) + 1)..Len(b.file) /\ p \in 1..Len(b.file)
      BY <1>1, <1>5, <2>2
    <3>2. b.file[p].num \in V /\ p = b.offsets[b.file[p].num] /\ c.file[p] = b.file[p]
      BY <3>1 DEF Wrote
    <3> QED
      BY <1>3, <3>2
  <2> QED
    BY <1>1, <2>1, <2>2
<1> QED
  BY <1>2, <1>3, <1>4, <1>5 DEF Wrote

Shown(S) == {n \in S : Fetch(n) # Null}

\* The recursion of WriteAll, and the function it chooses.
Upto(u, out, S, key) ==
    u = [n \in 0..MaxNumber |->
            IF n = 0 THEN out
            ELSE LET before == u[n - 1] IN
                 IF n \in S THEN WriteOne(before, n, key) ELSE before]

LEMMA WriteAllChooses ==
    ASSUME NEW out, NEW S, NEW key
    PROVE  WriteAll(out, S, key) = (CHOOSE u : Upto(u, out, S, key))[MaxNumber]
BY DEF WriteAll, Upto

LEMMA WriteOneOuts ==
    ASSUME NEW out \in Outs, NEW n \in Numbers, NEW key \in Keys, Fetch(n) \in Objects
    PROVE  WriteOne(out, n, key) \in Outs
BY WrittenIs DEF WriteOne

LEMMA WriteAllWrites ==
    ASSUME NEW out \in Outs, NEW S \in SUBSET Numbers, NEW key \in Keys,
           \A n \in Numbers : Fetch(n) \in Objects
    PROVE  /\ WriteAll(out, S, key) \in Outs
           /\ Wrote(out, WriteAll(out, S, key), Shown(S), key)
<1>0. MaxNumber \in Nat /\ Numbers = 1..MaxNumber
  BY DocumentsAssumption DEF Numbers
<1> DEFINE one(n, o) == IF n \in S THEN WriteOne(o, n, key) ELSE o
           step == [p \in (1..MaxNumber) \X Outs |-> one(p[1], p[2])]
<1>1. \A n \in 1..MaxNumber, o \in Outs : one(n, o) \in Outs
  BY <1>0, WriteOneOuts
<1>2. step \in [(1..MaxNumber) \X Outs -> Outs]
  <2> HIDE DEF one
  <2> QED
    BY <1>1
<1>3. \A n \in 1..MaxNumber, o \in Outs : step[<<n, o>>] = one(n, o)
  <2> HIDE DEF one
  <2> QED
    OBVIOUS
<1> HIDE DEF step
<1>4. PICK f \in [0..MaxNumber -> Outs] : Stepped(f, MaxNumber, out, step)
  <2>1. MaxNumber \in Nat /\ out \in Outs
    BY <1>0
  <2> HIDE DEF Outs
  <2> QED
    BY <1>2, <2>1, StepsExist
<1>5. \A k \in 1..MaxNumber : k - 1 \in 0..MaxNumber /\ f[k - 1] \in Outs /\ f[k] = one(k, f[k - 1])
  <2> HIDE DEF one
  <2>1. \A k \in 1..MaxNumber : k - 1 \in 0..MaxNumber
    BY <1>0
  <2> QED
    BY <1>3, <1>4, <2>1 DEF Stepped
<1>6. Upto(f, out, S, key)
  <2>1. f = [n \in 0..MaxNumber |-> f[n]]
    BY <1>4
  <2>2. \A n \in 0..MaxNumber : n # 0 => n \in 1..MaxNumber
    BY <1>0
  <2>3. \A n \in 0..MaxNumber : f[n] = IF n = 0 THEN out ELSE one(n, f[n - 1])
    <3> HIDE DEF one
    <3> QED
      BY <1>4, <1>5, <2>2 DEF Stepped
  <2> QED
    BY <2>1, <2>3 DEF Upto
<1>7. PICK u : u = CHOOSE v : Upto(v, out, S, key)
  OBVIOUS
<1>8. Upto(u, out, S, key)
  BY <1>6, <1>7
<1>9. u[0] = out /\ \A n \in 1..MaxNumber : u[n] = one(n, u[n - 1])
  <2>1. 0 \in 0..MaxNumber /\ \A n \in 1..MaxNumber : n \in 0..MaxNumber /\ n # 0
    BY <1>0
  <2>2. \A n \in 0..MaxNumber : u[n] = IF n = 0 THEN out ELSE one(n, u[n - 1])
    BY <1>8 DEF Upto
  <2> HIDE DEF one
  <2> QED
    BY <2>1, <2>2
<1> DEFINE Good(n) == u[n] \in Outs /\ Wrote(out, u[n], Shown(S \intersect (1..n)), key)
           Bad == {n \in 0..MaxNumber : ~ Good(n)}
<1>10. Good(0)
  <2>1. Shown(S \intersect (1..0)) = {}
    BY DEF Shown
  <2> QED
    BY <1>9, <2>1, WroteNothing
<1>11. ASSUME NEW n \in 1..MaxNumber, Good(n - 1) PROVE Good(n)
  <2>1. u[n] = one(n, u[n - 1])
    BY <1>9
  <2>2. /\ S \intersect (1..n) = IF n \in S THEN (S \intersect (1..(n - 1))) \union {n}
                                           ELSE S \intersect (1..(n - 1))
    BY <1>0
  <2>3. n \notin S \intersect (1..(n - 1))
    BY <1>0
  <2> DEFINE W == Shown(S \intersect (1..(n - 1)))
  <2>4. CASE n \in S /\ Fetch(n) # Null
    <3>1. Shown(S \intersect (1..n)) = W \union {n}
      BY <2>2, <2>4 DEF Shown
    <3>2. n \in Numbers \ W /\ W \in SUBSET Numbers /\ Fetch(n) \in Objects
      BY <1>0, <2>3 DEF Shown
    <3>3. u[n] = Written(u[n - 1], n, Fetch(n), key)
      BY <2>1, <2>4 DEF WriteOne
    <3>4. u[n - 1] \in Outs /\ Wrote(out, u[n - 1], W, key)
      BY <1>11
    <3> HIDE DEF W
    <3>5. u[n] \in Outs /\ Wrote(out, u[n], W \union {n}, key)
      BY <3>2, <3>3, <3>4, WroteOne
    <3> QED
      BY <3>1, <3>5
  <2>5. CASE ~ (n \in S /\ Fetch(n) # Null)
    <3>1. Shown(S \intersect (1..n)) = W
      BY <2>2, <2>5 DEF Shown
    <3>2. u[n] = u[n - 1]
      BY <2>1, <2>5 DEF WriteOne
    <3> QED
      BY <1>11, <3>1, <3>2
  <2> QED
    BY <2>4, <2>5
<1> HIDE DEF Good, one
<1>12. Good(MaxNumber)
  <2> SUFFICES ASSUME Bad # {} PROVE FALSE
    BY <1>0
  <2>1. PICK m \in Bad : \A n \in Bad : m <= n
    <3>1. Bad \in SUBSET Nat
      OBVIOUS
    <3> HIDE DEF Bad
    <3> QED
      BY <3>1, LeastNatural
  <2>2. m \in 0..MaxNumber /\ ~ Good(m)
    BY <2>1
  <2>3. m \in 1..MaxNumber
    BY <1>0, <1>10, <2>2
  <2>4. m - 1 \in 0..MaxNumber /\ ~ (m <= m - 1)
    BY <1>0, <2>3
  <2>5. Good(m - 1)
    BY <2>1, <2>4
  <2> QED
    BY <1>11, <2>2, <2>3, <2>5
<1>13. S \intersect (1..MaxNumber) = S
  BY <1>0
<1> QED
  BY <1>7, <1>12, <1>13, WriteAllChooses DEF Good

----------------------------------------------------------------------------
(* The session.                                                            *)

Modes      == {"full", "incremental"}
Securities == {"keep", "remove", "fresh"}

\* What was saved is a document: a session may be opened into it.
SessionInv ==
    /\ SessionTypeOK /\ IsDocument(base)
    /\ saves \in 0..MaxSaves
    /\ base.last < next /\ \A n \in DOMAIN overlay : n < next
    /\ saved # NoFile => IsDocument(saved)
    /\ EntriesKeepTheirPromise

LEMMA Bounds ==
    /\ MaxNumber \in Nat /\ MaxEdits \in Nat /\ Numbers = 1..MaxNumber
    /\ Drafts \subseteq Objects /\ Bodies \subseteq Objects
    /\ Null \in Objects /\ Garbled \in Objects /\ EncryptDict \in Objects /\ XrefStream \in Objects
    /\ Plain \in Keys
BY DocumentsAssumption DEF Numbers, Objects, Plain, Keys

LEMMA ContentObjects ==
    ASSUME NEW d, IsDocument(d), NEW n
    PROVE  Content(d, n) \in Objects
<1>1. d.file \in Seq(Item)
  BY DEF IsDocument
<1>2. \A p \in DOMAIN d.file : d.file[p] \in Item
  BY <1>1, ElementOfSeq
<1>3. \A p \in DOMAIN d.file : d.file[p].obj \in Objects
  BY <1>2 DEF Item
<1> QED
  BY <1>3, Bounds DEF Content

LEMMA FetchObjects ==
    ASSUME SessionTypeOK, IsDocument(base), NEW n
    PROVE  Fetch(n) \in Objects
BY ContentObjects, Bounds DEF Fetch, SessionTypeOK

LEMMA LastInPlayIs ==
    ASSUME SessionTypeOK, IsDocument(base)
    PROVE  /\ LastInPlay \in 0..MaxNumber /\ base.last \in 0..LastInPlay
           /\ \A n \in DOMAIN overlay : n <= LastInPlay
           /\ LastInPlay = base.last \/ LastInPlay \in DOMAIN overlay
<1>1. DOMAIN overlay \subseteq 1..MaxNumber /\ base.last \in 0..MaxNumber /\ MaxNumber \in Nat
  BY Bounds DEF SessionTypeOK, IsDocument
<1> DEFINE S == DOMAIN overlay \union {base.last}
<1>2. S \in SUBSET (0..MaxNumber) /\ S # {}
  BY <1>1
<1>3. LastInPlay = CHOOSE x \in S : \A y \in S : x >= y
  BY DEF LastInPlay, Max
<1>4. base.last \in S /\ \A n \in DOMAIN overlay : n \in S
  OBVIOUS
<1> HIDE DEF S
<1>5. LastInPlay \in S /\ \A y \in S : LastInPlay >= y
  BY <1>1, <1>2, <1>3, LargestNatural
<1>6. LastInPlay \in 0..MaxNumber /\ \A y \in S : y <= LastInPlay
  BY <1>1, <1>2, <1>5
<1> QED
  BY <1>1, <1>4, <1>5, <1>6 DEF S

----------------------------------------------------------------------------
(* The stages of a save.                                                   *)

KeyOf(security) ==
    CASE security = "fresh" -> [dict |-> "fresh", id |-> "any"]
      [] Declared /\ security = "keep" -> base.key
      [] OTHER -> Plain

FrontOf(mode, security) ==
    [file |-> IF Appends(mode, security) THEN base.file ELSE <<>>, offsets |-> <<>>]

OldOf(mode, security) == IF Appends(mode, security) THEN {} ELSE Old \intersect Reached
NewOf(mode, security) == IF Appends(mode, security) THEN DOMAIN overlay ELSE New

BodyOf(mode, security) ==
    WriteAll(WriteAll(FrontOf(mode, security), OldOf(mode, security) \ {Slot(security)},
                      KeyOf(security)),
             NewOf(mode, security) \ {Slot(security)}, KeyOf(security))

OutOf(mode, security) ==
    IF Slot(security) = None THEN BodyOf(mode, security)
    ELSE Written(BodyOf(mode, security), Slot(security), EncryptDict, Plain)

Streams(mode, security) == Appends(mode, security) /\ base.form = "stream"

TableOf(mode, security) ==
    IF Appends(mode, security) THEN Updated(OutOf(mode, security).offsets)
                               ELSE OutOf(mode, security).offsets

SizeOf(mode, security) ==
    Max(DOMAIN OutOf(mode, security).offsets \union {0})
      + (IF Streams(mode, security) THEN 2 ELSE 1)

IdNow == IF base.id = "none" THEN "fresh" ELSE base.id

LEMMA SavedIs ==
    ASSUME NEW mode, NEW security
    PROVE  Saved(mode, security) =
             [file     |-> IF Streams(mode, security)
                           THEN Written(OutOf(mode, security), LastInPlay + 1, XrefStream, Plain).file
                           ELSE OutOf(mode, security).file,
              table    |-> TableOf(mode, security),
              last     |-> Max(DOMAIN TableOf(mode, security) \union {SizeOf(mode, security) - 1}),
              form     |-> IF Streams(mode, security) THEN "stream" ELSE "table",
              number   |-> IF Streams(mode, security) THEN LastInPlay + 1 ELSE None,
              info     |-> InfoNow,
              encrypt  |-> IF Slot(security) = None THEN "none" ELSE "indirect",
              encNum   |-> Slot(security),
              id       |-> IdNow,
              key      |-> Derived(Slot(security), security, IdNow),
              usesId   |-> security = "keep" /\ base.usesId,
              appended |-> Appends(mode, security)]
BY DEF Saved, KeyOf, FrontOf, OldOf, NewOf, BodyOf, OutOf, Streams, TableOf, SizeOf, IdNow

LEMMA SlotIs ==
    ASSUME SessionTypeOK, IsDocument(base), NEW security \in Securities
    PROVE  /\ Slot(security) \in 0..(LastInPlay + 1)
           /\ Slot(security) = None <=> ~ (security = "fresh" \/ (Declared /\ security = "keep"))
<1>1. /\ LastInPlay \in Nat /\ base.encNum \in 0..LastInPlay
      /\ Declared => base.encrypt = "inline" \/ (base.encrypt = "indirect" /\ base.encNum # 0)
  BY LastInPlayIs DEF IsDocument, Declared, None
<1> QED
  BY <1>1 DEF Slot, None

LEMMA KeyOfIs ==
    ASSUME SessionTypeOK, IsDocument(base), NEW security
    PROVE  KeyOf(security) \in Keys
<1>1. base.key \in Keys /\ Plain \in Keys /\ [dict |-> "fresh", id |-> "any"] \in Keys
  BY Bounds DEF IsDocument, Keys
<1> QED
  BY <1>1 DEF KeyOf

\* out is front with the objects of W written, and the /Encrypt after them.
Put(front, out, W, slot, key) ==
    /\ Len(front.file) <= Len(out.file)
    /\ \A p \in 1..Len(front.file) : out.file[p] = front.file[p]
    /\ DOMAIN out.offsets = W \union ({slot} \ {None})
    /\ slot \notin W
    /\ \A k \in DOMAIN out.offsets :
          /\ out.offsets[k] \in (Len(front.file) + 1)..Len(out.file)
          /\ out.file[out.offsets[k]].num = k
          /\ k \in W => out.file[out.offsets[k]] = ItemFor(k, Fetch(k), key)
    /\ \A p \in (Len(front.file) + 1)..Len(out.file) :
          /\ out.file[p].num \in DOMAIN out.offsets
          /\ p = out.offsets[out.file[p].num]
          /\ out.file[p].gen = 0

PutSet(mode, security) ==
    Shown((OldOf(mode, security) \union NewOf(mode, security)) \ {Slot(security)})

LEMMA FrontIs ==
    ASSUME IsDocument(base), NEW mode, NEW security
    PROVE  /\ FrontOf(mode, security) \in Outs
           /\ DOMAIN FrontOf(mode, security).offsets = {}
           /\ FrontOf(mode, security).file = IF Appends(mode, security) THEN base.file ELSE <<>>
<1>1. <<>> \in [{} -> Nat]
  OBVIOUS
<1>2. <<>> \in OffsetTables /\ DOMAIN <<>> = {}
  <2>1. {} \in SUBSET Numbers
    OBVIOUS
  <2> QED
    BY <1>1, <2>1, OffsetTablesAre
<1>3. base.file \in Seq(Item) /\ <<>> \in Seq(Item)
  BY DEF IsDocument
<1> QED
  BY <1>2, <1>3 DEF FrontOf, Outs

LEMMA OutIs ==
    ASSUME SessionTypeOK, IsDocument(base), LastInPlay + 2 <= MaxNumber,
           NEW mode \in Modes, NEW security \in Securities
    PROVE  /\ OutOf(mode, security) \in Outs
           /\ Put(FrontOf(mode, security), OutOf(mode, security), PutSet(mode, security),
                  Slot(security), KeyOf(security))
<1> DEFINE slot == Slot(security)
           key == KeyOf(security)
           V == Shown(OldOf(mode, security) \ {slot})
           W == Shown(NewOf(mode, security) \ {slot})
<1>0. PICK front : front = FrontOf(mode, security)
  OBVIOUS
<1>1. front \in Outs /\ DOMAIN front.offsets = {} /\ Len(front.file) \in Nat
  <2>1. front \in Outs /\ DOMAIN front.offsets = {}
    BY <1>0, FrontIs
  <2> QED
    BY <2>1 DEF Outs
<1>2. /\ DOMAIN overlay \subseteq Numbers /\ 1..base.last \subseteq Numbers
      /\ OldOf(mode, security) \in SUBSET Numbers /\ NewOf(mode, security) \in SUBSET Numbers
      /\ OldOf(mode, security) \intersect NewOf(mode, security) = {}
  <2>1. DOMAIN overlay \subseteq Numbers /\ base.last \in 0..MaxNumber
    BY DEF SessionTypeOK, IsDocument
  <2>2. 1..base.last \subseteq Numbers
    BY <2>1, Bounds
  <2> QED
    BY <2>1, <2>2 DEF OldOf, NewOf, Old, New
<1>3. key \in Keys /\ \A n \in Numbers : Fetch(n) \in Objects
  BY KeyOfIs, FetchObjects
<1>4. PICK first : first = WriteAll(front, OldOf(mode, security) \ {slot}, key)
  OBVIOUS
<1>5. first \in Outs /\ Wrote(front, first, V, key)
  <2>1. OldOf(mode, security) \ {slot} \in SUBSET Numbers
    BY <1>2
  <2> QED
    BY <1>1, <1>3, <1>4, <2>1, WriteAllWrites
<1>6. PICK body : body = BodyOf(mode, security)
  OBVIOUS
<1>7. body \in Outs /\ Wrote(first, body, W, key)
  <2>1. NewOf(mode, security) \ {slot} \in SUBSET Numbers
    BY <1>2
  <2>2. body = WriteAll(first, NewOf(mode, security) \ {slot}, key)
    BY <1>0, <1>4, <1>6 DEF BodyOf
  <2> QED
    BY <1>3, <1>5, <2>1, <2>2, WriteAllWrites
<1>8. /\ V \union W = PutSet(mode, security) /\ V \intersect W = {}
      /\ PutSet(mode, security) \subseteq Numbers /\ slot \notin PutSet(mode, security)
  BY <1>2 DEF PutSet, Shown
<1>9. Wrote(front, body, PutSet(mode, security), key)
  <2>1. Wrote(front, body, V \union W, key)
    <3> HIDE DEF V, W
    <3> QED
      BY <1>1, <1>5, <1>7, <1>8, WroteTwice
  <2> QED
    BY <1>8, <2>1
<1>10. \A n \in Numbers : \A obj, k : ItemFor(n, obj, k).num = n /\ ItemFor(n, obj, k).gen = 0
  BY DEF ItemFor
<1> HIDE DEF V, W
<1>11. Len(body.file) \in Nat /\ Len(first.file) \in Nat
  BY <1>5, <1>7 DEF Outs
<1>12. ASSUME NEW p \in (Len(front.file) + 1)..Len(body.file)
       PROVE  /\ body.file[p].num \in PutSet(mode, security) /\ p = body.offsets[body.file[p].num]
              /\ body.file[p].gen = 0
  <2>1. body.file[p].num \in PutSet(mode, security) /\ p = body.offsets[body.file[p].num]
    BY <1>9 DEF Wrote
  <2>2. body.file[p] = ItemFor(body.file[p].num, Fetch(body.file[p].num), key)
    BY <1>9, <2>1 DEF Wrote
  <2> QED
    BY <1>8, <1>10, <2>1, <2>2
<1>13. CASE slot = None
  <2>1. OutOf(mode, security) = body
    BY <1>6, <1>13 DEF OutOf
  <2>2. ASSUME NEW k \in PutSet(mode, security)
        PROVE  /\ body.offsets[k] \in (Len(front.file) + 1)..Len(body.file)
               /\ body.file[body.offsets[k]].num = k
               /\ body.file[body.offsets[k]] = ItemFor(k, Fetch(k), key)
    <3>1. /\ body.offsets[k] \in (Len(front.file) + 1)..Len(body.file)
          /\ body.file[body.offsets[k]] = ItemFor(k, Fetch(k), key)
      BY <1>9 DEF Wrote
    <3> QED
      BY <1>8, <1>10, <3>1
  <2>3. DOMAIN body.offsets = PutSet(mode, security)
    BY <1>1, <1>9 DEF Wrote
  <2>4. Put(front, body, PutSet(mode, security), slot, key)
    BY <1>8, <1>9, <1>12, <1>13, <2>2, <2>3 DEF Put, Wrote
  <2> QED
    BY <1>0, <1>7, <2>1, <2>4
<1>14. CASE slot # None
  <2>1. slot \in Numbers /\ EncryptDict \in Objects /\ Plain \in Keys
    BY <1>14, SlotIs, LastInPlayIs, Bounds DEF None
  <2>2. PICK out : out = OutOf(mode, security)
    OBVIOUS
  <2>3. out = Written(body, slot, EncryptDict, Plain)
    BY <1>6, <1>14, <2>2 DEF OutOf
  <2>4. /\ out \in Outs
        /\ Len(out.file) = Len(body.file) + 1
        /\ \A p \in 1..Len(body.file) : out.file[p] = body.file[p]
        /\ out.file[Len(body.file) + 1] = ItemFor(slot, EncryptDict, Plain)
        /\ DOMAIN out.offsets = DOMAIN body.offsets \union {slot}
        /\ out.offsets[slot] = Len(body.file) + 1
        /\ \A k \in DOMAIN body.offsets \ {slot} : out.offsets[k] = body.offsets[k]
    BY <1>7, <2>1, <2>3, WrittenIs
  <2>5. DOMAIN body.offsets = PutSet(mode, security)
    BY <1>1, <1>9 DEF Wrote
  <2>6. /\ Len(front.file) <= Len(body.file)
        /\ \A p \in 1..Len(front.file) : body.file[p] = front.file[p]
    BY <1>9 DEF Wrote
  <2>7. ASSUME NEW k \in PutSet(mode, security)
        PROVE  /\ out.offsets[k] \in (Len(front.file) + 1)..Len(out.file)
               /\ out.file[out.offsets[k]].num = k
               /\ out.file[out.offsets[k]] = ItemFor(k, Fetch(k), key)
    <3>1. /\ body.offsets[k] \in (Len(front.file) + 1)..Len(body.file)
          /\ body.file[body.offsets[k]] = ItemFor(k, Fetch(k), key)
      BY <1>9 DEF Wrote
    <3>2. out.offsets[k] = body.offsets[k]
      BY <1>8, <2>4, <2>5
    <3>3. out.file[body.offsets[k]] = body.file[body.offsets[k]]
      BY <1>1, <1>11, <2>4, <3>1
    <3>4. ItemFor(k, Fetch(k), key).num = k
      BY <1>8, <1>10
    <3> QED
      BY <1>1, <1>11, <2>4, <3>1, <3>2, <3>3, <3>4
  <2>8. ASSUME NEW p \in (Len(front.file) + 1)..Len(out.file)
        PROVE  /\ out.file[p].num \in DOMAIN out.offsets
               /\ p = out.offsets[out.file[p].num]
               /\ out.file[p].gen = 0
    <3>1. CASE p = Len(body.file) + 1
      BY <1>10, <2>1, <2>4, <3>1
    <3>2. CASE p # Len(body.file) + 1
      <4>1. p \in (Len(front.file) + 1)..Len(body.file) /\ p \in 1..Len(body.file)
        BY <1>1, <1>11, <2>4, <2>8, <3>2
      <4>2. /\ body.file[p].num \in PutSet(mode, security)
            /\ p = body.offsets[body.file[p].num] /\ body.file[p].gen = 0
        BY <1>12, <4>1
      <4>3. out.file[p] = body.file[p]
        BY <2>4, <4>1
      <4>4. out.offsets[body.file[p].num] = body.offsets[body.file[p].num]
        BY <1>8, <2>4, <2>5, <4>2
      <4> QED
        BY <2>4, <2>5, <4>2, <4>3, <4>4
    <3> QED
      BY <3>1, <3>2
  <2>9. Put(front, out, PutSet(mode, security), slot, key)
    <3>1. Len(front.file) <= Len(out.file) /\ \A p \in 1..Len(front.file) : out.file[p] = front.file[p]
      BY <1>1, <1>11, <2>4, <2>6
    <3>2. /\ out.offsets[slot] \in (Len(front.file) + 1)..Len(out.file)
          /\ out.file[out.offsets[slot]].num = slot
      BY <1>1, <1>10, <1>11, <2>1, <2>4, <2>6
    <3>3. DOMAIN out.offsets = PutSet(mode, security) \union ({slot} \ {None})
      BY <1>14, <2>4, <2>5
    <3>4. ASSUME NEW k \in DOMAIN out.offsets
          PROVE  /\ out.offsets[k] \in (Len(front.file) + 1)..Len(out.file)
                 /\ out.file[out.offsets[k]].num = k
                 /\ k \in PutSet(mode, security) =>
                       out.file[out.offsets[k]] = ItemFor(k, Fetch(k), key)
      BY <1>8, <2>7, <3>2, <3>3, <3>4
    <3> QED
      BY <1>8, <2>8, <3>1, <3>3, <3>4 DEF Put
  <2> QED
    BY <1>0, <2>2, <2>4, <2>9
<1> QED
  BY <1>13, <1>14

----------------------------------------------------------------------------
(* What a save writes is a document.                                       *)

LEMMA LargestOf ==
    ASSUME NEW N \in Nat, NEW S \in SUBSET (0..N), S # {}
    PROVE  Max(S) \in S /\ Max(S) \in 0..N /\ \A y \in S : y <= Max(S)
<1>1. Max(S) = CHOOSE x \in S : \A y \in S : x >= y
  BY DEF Max
<1>2. Max(S) \in S /\ \A y \in S : Max(S) >= y
  BY <1>1, LargestNatural
<1> QED
  BY <1>2

LEMMA OffsetsInPlay ==
    ASSUME SessionTypeOK, IsDocument(base), LastInPlay + 2 <= MaxNumber,
           NEW mode \in Modes, NEW security \in Securities
    PROVE  DOMAIN OutOf(mode, security).offsets \subseteq 1..(LastInPlay + 1)
<1>1. DOMAIN OutOf(mode, security).offsets
         = PutSet(mode, security) \union ({Slot(security)} \ {None})
  BY OutIs DEF Put
<1>2. PutSet(mode, security) \subseteq 1..LastInPlay
  <2>1. /\ LastInPlay \in Nat /\ base.last \in 0..LastInPlay
        /\ \A n \in DOMAIN overlay : n <= LastInPlay
        /\ DOMAIN overlay \subseteq 1..MaxNumber
    BY LastInPlayIs, Bounds DEF SessionTypeOK
  <2>2. DOMAIN overlay \subseteq 1..LastInPlay
    BY <2>1, Bounds
  <2>3. 1..base.last \subseteq 1..LastInPlay
    BY <2>1
  <2> QED
    BY <2>2, <2>3 DEF PutSet, Shown, OldOf, NewOf, Old, New
<1>3. Slot(security) \in 0..(LastInPlay + 1) /\ LastInPlay \in Nat
  BY SlotIs, LastInPlayIs
<1> QED
  BY <1>1, <1>2, <1>3 DEF None

\* The table of the file keeps the base's entries, and has those written.
KeepsAndHas(table, offsets, appends) ==
    /\ DOMAIN offsets \subseteq DOMAIN table
    /\ DOMAIN table \subseteq 1..MaxNumber
    /\ \A n \in DOMAIN table : table[n] \in Nat
    /\ appends => DOMAIN table = DOMAIN base.table \union DOMAIN offsets
    /\ ~ appends => table = offsets
    /\ \A n \in DOMAIN table :
          \/ n \in DOMAIN offsets /\ table[n] = offsets[n]
          \/ appends /\ n \in DOMAIN base.table /\ table[n] = base.table[n]

LEMMA TableIs ==
    ASSUME SessionTypeOK, IsDocument(base), LastInPlay + 2 <= MaxNumber,
           NEW mode \in Modes, NEW security \in Securities
    PROVE  KeepsAndHas(TableOf(mode, security), OutOf(mode, security).offsets,
                       Appends(mode, security))
<1>a. PICK table : table = TableOf(mode, security)
  OBVIOUS
<1>b. PICK offsets : offsets = OutOf(mode, security).offsets
  OBVIOUS
<1>1. /\ offsets \in OffsetTables
      /\ DOMAIN base.table \subseteq 1..base.last /\ base.last \in 0..MaxNumber
      /\ \A n \in DOMAIN base.table : base.table[n] \in Nat
      /\ MaxNumber \in Nat
  BY <1>b, OutIs, Bounds DEF Outs, IsDocument
<1>2. DOMAIN offsets \subseteq 1..MaxNumber /\ \A n \in DOMAIN offsets : offsets[n] \in Nat
  BY <1>1, OffsetTablesAre, Bounds
<1>3. DOMAIN base.table \subseteq 1..MaxNumber
  BY <1>1
<1>4. CASE Appends(mode, security)
  <2>1. table = Updated(offsets)
    BY <1>4, <1>a, <1>b DEF TableOf
  <2>2. DOMAIN table = DOMAIN base.table \union DOMAIN offsets
    BY <2>1 DEF Updated
  <2>3. \A n \in DOMAIN table : \/ n \in DOMAIN offsets /\ table[n] = offsets[n]
                                \/ n \in DOMAIN base.table /\ table[n] = base.table[n]
    BY <2>1, <2>2 DEF Updated
  <2>4. KeepsAndHas(table, offsets, TRUE)
    BY <1>1, <1>2, <1>3, <2>2, <2>3 DEF KeepsAndHas
  <2> QED
    BY <1>4, <1>a, <1>b, <2>4 DEF KeepsAndHas
<1>5. CASE ~ Appends(mode, security)
  <2>1. table = offsets
    BY <1>5, <1>a, <1>b DEF TableOf
  <2>2. KeepsAndHas(table, offsets, FALSE)
    BY <1>2, <2>1 DEF KeepsAndHas
  <2> QED
    BY <1>5, <1>a, <1>b, <2>2 DEF KeepsAndHas
<1> QED
  BY <1>4, <1>5

LEMMA FileIs ==
    ASSUME SessionTypeOK, IsDocument(base), LastInPlay + 2 <= MaxNumber,
           NEW mode \in Modes, NEW security \in Securities
    PROVE  LET saving == Saved(mode, security)
               out    == OutOf(mode, security) IN
           /\ saving.file \in Seq(Item) /\ Len(saving.file) \in Nat /\ Len(out.file) \in Nat
           /\ Len(out.file) <= Len(saving.file)
           /\ \A p \in 1..Len(out.file) : saving.file[p] = out.file[p]
           /\ ~ Streams(mode, security) => saving.file = out.file
           /\ \A p \in (Len(out.file) + 1)..Len(saving.file) :
                 saving.file[p] = ItemFor(LastInPlay + 1, XrefStream, Plain)
<1>1. PICK out : out = OutOf(mode, security)
  OBVIOUS
<1>2. out \in Outs /\ out.file \in Seq(Item) /\ Len(out.file) \in Nat
  BY <1>1, OutIs DEF Outs
<1>3. PICK more : more = Written(out, LastInPlay + 1, XrefStream, Plain)
  OBVIOUS
<1>4. LastInPlay + 1 \in Numbers
  BY LastInPlayIs, Bounds
<1>5. /\ more \in Outs /\ Len(more.file) = Len(out.file) + 1
      /\ \A p \in 1..Len(out.file) : more.file[p] = out.file[p]
      /\ more.file[Len(out.file) + 1] = ItemFor(LastInPlay + 1, XrefStream, Plain)
  <2>1. XrefStream \in Objects /\ Plain \in Keys
    BY Bounds
  <2> QED
    BY <1>2, <1>3, <1>4, <2>1, WrittenIs
<1>6. more.file \in Seq(Item) /\ Len(more.file) \in Nat
  BY <1>5 DEF Outs
<1>7. PICK saving : saving = Saved(mode, security)
  OBVIOUS
<1>8. saving.file = IF Streams(mode, security) THEN more.file ELSE out.file
  BY <1>1, <1>3, <1>7, SavedIs
<1>9. CASE Streams(mode, security)
  <2>1. saving.file = more.file
    BY <1>8, <1>9
  <2>2. \A p \in (Len(out.file) + 1)..Len(more.file) : p = Len(out.file) + 1
    BY <1>2, <1>5
  <2> QED
    BY <1>1, <1>2, <1>5, <1>6, <1>7, <1>9, <2>1, <2>2
<1>10. CASE ~ Streams(mode, security)
  <2>1. saving.file = out.file
    BY <1>8, <1>10
  <2>2. (Len(out.file) + 1)..Len(out.file) = {}
    BY <1>2
  <2> QED
    BY <1>1, <1>2, <1>7, <2>1, <2>2
<1> QED
  BY <1>9, <1>10

LEMMA DerivedIs ==
    ASSUME SessionTypeOK, IsDocument(base), NEW security \in Securities
    PROVE  LET key == Derived(Slot(security), security, IdNow) IN
           /\ key \in Keys
           /\ IF Slot(security) = None THEN key = Plain ELSE key.dict # "none"
<1>1. /\ base.key \in Keys /\ base.id \in {"none", "own", "fresh"}
      /\ Declared => base.key.dict # "none"
  BY DEF IsDocument, Declared
<1>2. IdNow \in {"own", "fresh"}
  BY <1>1 DEF IdNow
<1>3. \A i \in {"own", "fresh", "any"} :
         /\ [dict |-> base.key.dict, id |-> i] \in Keys
         /\ [dict |-> "fresh", id |-> i] \in Keys
  BY <1>1 DEF Keys
<1>4. CASE Slot(security) = None
  BY <1>4, Bounds DEF Derived
<1>5. CASE Slot(security) # None
  <2>1. security = "fresh" \/ Declared
    BY <1>5, SlotIs
  <2> QED
    BY <1>1, <1>2, <1>3, <1>5, <2>1 DEF Derived
<1> QED
  BY <1>4, <1>5

LEMMA SavedDocument ==
    ASSUME SessionTypeOK, IsDocument(base), LastInPlay + 2 <= MaxNumber,
           NEW mode \in Modes, NEW security \in Securities
    PROVE  IsDocument(Saved(mode, security))
<1> DEFINE slot == Slot(security)
<1>1. PICK saving : saving = Saved(mode, security)
  OBVIOUS
<1>2. PICK table : table = TableOf(mode, security)
  OBVIOUS
<1>3. PICK offsets : offsets = OutOf(mode, security).offsets
  OBVIOUS
<1>4. PICK size : size = SizeOf(mode, security)
  OBVIOUS
<1>5. /\ saving.table = table /\ saving.last = Max(DOMAIN table \union {size - 1})
      /\ saving.form = IF Streams(mode, security) THEN "stream" ELSE "table"
      /\ saving.number = IF Streams(mode, security) THEN LastInPlay + 1 ELSE None
      /\ saving.info = InfoNow
      /\ saving.encrypt = IF slot = None THEN "none" ELSE "indirect"
      /\ saving.encNum = slot
      /\ saving.id = IdNow
      /\ saving.key = Derived(slot, security, IdNow)
      /\ saving.usesId = (security = "keep" /\ base.usesId)
      /\ saving.appended = Appends(mode, security)
      /\ DOMAIN saving = Fields
  BY <1>1, <1>2, <1>4, SavedIs DEF Fields
<1>6. saving.file \in Seq(Item)
  BY <1>1, FileIs
<1>7. LastInPlay \in 0..MaxNumber /\ MaxNumber \in Nat /\ LastInPlay + 2 <= MaxNumber
  BY LastInPlayIs, Bounds
<1>8. /\ DOMAIN offsets \subseteq DOMAIN table /\ DOMAIN table \subseteq 1..MaxNumber
      /\ \A n \in DOMAIN table : table[n] \in Nat
  BY <1>2, <1>3, TableIs DEF KeepsAndHas
<1>9. size - 1 \in 0..MaxNumber
  <2> DEFINE S == DOMAIN offsets \union {0}
  <2>1. DOMAIN offsets \subseteq 1..(LastInPlay + 1)
    BY <1>3, OffsetsInPlay
  <2>2. S \in SUBSET (0..(LastInPlay + 1)) /\ S # {} /\ LastInPlay + 1 \in Nat
    BY <1>7, <2>1
  <2>3. size = Max(S) + (IF Streams(mode, security) THEN 2 ELSE 1)
    BY <1>3, <1>4 DEF SizeOf
  <2> HIDE DEF S
  <2>4. Max(S) \in 0..(LastInPlay + 1)
    BY <2>2, LargestOf
  <2> QED
    BY <1>7, <2>3, <2>4
<1>10. saving.last \in 0..MaxNumber /\ DOMAIN table \subseteq 1..saving.last
  <2> DEFINE S == DOMAIN table \union {size - 1}
  <2>1. S \in SUBSET (0..MaxNumber) /\ S # {}
    BY <1>7, <1>8, <1>9
  <2>2. saving.last = Max(S) /\ \A n \in DOMAIN table : n \in S
    BY <1>5
  <2> HIDE DEF S
  <2>3. Max(S) \in 0..MaxNumber /\ \A y \in S : y <= Max(S)
    BY <1>7, <2>1, LargestOf
  <2> QED
    BY <1>8, <2>2, <2>3
<1>11. saving.encNum \in 0..saving.last
  <2>1. CASE slot = None
    BY <1>5, <1>7, <1>10, <2>1 DEF None
  <2>2. CASE slot # None
    <3>1. slot \in DOMAIN offsets
      BY <1>3, <2>2, OutIs DEF Put
    <3> QED
      BY <1>5, <1>8, <1>10, <3>1
  <2> QED
    BY <2>1, <2>2
<1>12. /\ saving.number \in 0..MaxNumber /\ saving.info \in 0..MaxNumber
       /\ saving.form \in {"table", "stream", "rebuilt"}
       /\ saving.encrypt \in {"none", "inline", "indirect"}
       /\ saving.id \in {"none", "own", "fresh"}
       /\ saving.usesId \in BOOLEAN /\ saving.appended \in BOOLEAN
       /\ saving.encrypt = "indirect" <=> saving.encNum # None
  <2>1. base.id \in {"none", "own", "fresh"} /\ InfoNow \in 0..MaxNumber
    BY DEF IsDocument, SessionTypeOK, InfoNow
  <2>2. Appends(mode, security) \in BOOLEAN
    BY DEF Appends
  <2>3. LastInPlay + 1 \in 0..MaxNumber /\ None \in 0..MaxNumber
    BY <1>7 DEF None
  <2> QED
    BY <1>5, <2>1, <2>2, <2>3 DEF IdNow
<1>13. /\ saving.key \in Keys
       /\ IF saving.encrypt = "none" THEN saving.key = Plain ELSE saving.key.dict # "none"
  BY <1>5, DerivedIs
<1> QED
  BY <1>1, <1>5, <1>6, <1>8, <1>10, <1>11, <1>12, <1>13 DEF IsDocument

\* The entries that a save wrote: those it did not keep of the base.
LEMMA PromiseMade ==
    ASSUME SessionTypeOK, IsDocument(base), LastInPlay + 2 <= MaxNumber,
           NEW mode \in Modes, NEW security \in Securities,
           NEW n \in DOMAIN Saved(mode, security).table,
           ~ (/\ Saved(mode, security).appended /\ n \in DOMAIN base.table
              /\ Saved(mode, security).table[n] = base.table[n])
    PROVE  /\ Saved(mode, security).table[n] \in DOMAIN Saved(mode, security).file
           /\ Saved(mode, security).file[Saved(mode, security).table[n]].num = n
<1>1. PICK saving : saving = Saved(mode, security)
  OBVIOUS
<1>2. PICK out : out = OutOf(mode, security)
  OBVIOUS
<1>3. PICK offsets : offsets = out.offsets
  OBVIOUS
<1>4. PICK front : front = FrontOf(mode, security)
  OBVIOUS
<1>5. saving.table = TableOf(mode, security) /\ saving.appended = Appends(mode, security)
  BY <1>1, SavedIs
<1>6. n \in DOMAIN offsets /\ saving.table[n] = offsets[n]
  <2>1. KeepsAndHas(saving.table, offsets, saving.appended)
    BY <1>2, <1>3, <1>5, TableIs
  <2> QED
    BY <1>1, <2>1 DEF KeepsAndHas
<1>7. /\ offsets[n] \in (Len(front.file) + 1)..Len(out.file)
      /\ out.file[offsets[n]].num = n
  BY <1>2, <1>3, <1>4, <1>6, OutIs DEF Put
<1>8. Len(front.file) \in Nat
  BY <1>4, FrontIs DEF Outs
<1>9. /\ Len(out.file) \in Nat /\ Len(out.file) <= Len(saving.file) /\ Len(saving.file) \in Nat
      /\ \A p \in 1..Len(out.file) : saving.file[p] = out.file[p]
      /\ saving.file \in Seq(Item)
  BY <1>1, <1>2, FileIs
<1>10. offsets[n] \in 1..Len(out.file) /\ offsets[n] \in 1..Len(saving.file)
  BY <1>7, <1>8, <1>9
<1> QED
  BY <1>1, <1>6, <1>7, <1>9, <1>10

----------------------------------------------------------------------------
(* The invariant is kept.                                                  *)

LEMMA NoFileIsNone == \A d : IsDocument(d) => d # NoFile
<1>1. DOMAIN NoFile = {} /\ "file" \in Fields
  BY DEF NoFile, Fields
<1> QED
  BY <1>1 DEF IsDocument

LEMMA SessionInit == Init => SessionInv
<1> SUFFICES ASSUME Init PROVE SessionInv
  OBVIOUS
<1>1. IsDocument(base) /\ overlay = <<>> /\ removed = {} /\ next = base.last + 1 /\ info = None
      /\ edits = 0
  BY DocumentsAssumption DEF Init, Fresh
<1>2. base.last \in 0..MaxNumber /\ MaxNumber \in Nat /\ DOMAIN overlay = {}
  BY <1>1, Bounds DEF IsDocument
<1>3. SessionTypeOK
  BY <1>1, <1>2, Bounds DEF SessionTypeOK, None
<1> QED
  BY <1>1, <1>2, <1>3, WriterAssumption DEF SessionInv, Init, EntriesKeepTheirPromise

\* An edit.
LEMMA SessionChange == SessionInv /\ Change => SessionInv'
<1> SUFFICES ASSUME SessionInv, Change PROVE SessionInv'
  OBVIOUS
<1>1. base' = base /\ saves' = saves /\ saved' = NoFile /\ edits' \in 0..MaxEdits
  <2>1. edits \in 0..MaxEdits /\ MaxEdits \in Nat
    BY Bounds DEF SessionInv, SessionTypeOK
  <2>2. base' = base /\ Edit
    BY DEF Change, Edits, Add, AddInfo, Replace, RemoveObject
  <2> QED
    BY <2>1, <2>2 DEF Change, Edit
<1>2. /\ DOMAIN overlay \subseteq Numbers /\ \A n \in DOMAIN overlay : overlay[n] \in Drafts
      /\ removed \subseteq Numbers \ DOMAIN overlay
      /\ next \in 1..(MaxNumber + 1) /\ info \in 0..MaxNumber
      /\ base.last \in 0..MaxNumber
      /\ base.last < next /\ \A n \in DOMAIN overlay : n < next
      /\ MaxNumber \in Nat /\ Numbers = 1..MaxNumber
  BY Bounds DEF SessionInv, SessionTypeOK, IsDocument
<1> DEFINE Kept ==
       /\ DOMAIN overlay' \subseteq Numbers /\ \A n \in DOMAIN overlay' : overlay'[n] \in Drafts
       /\ removed' \subseteq Numbers \ DOMAIN overlay'
       /\ next' \in 1..(MaxNumber + 1) /\ info' \in 0..MaxNumber
       /\ base.last < next' /\ \A n \in DOMAIN overlay' : n < next'
<1>3. ASSUME NEW n \in Numbers, NEW b \in Drafts
      PROVE  /\ DOMAIN With(n, b) = DOMAIN overlay \union {n}
             /\ \A k \in DOMAIN With(n, b) : With(n, b)[k] \in Drafts
  BY <1>2 DEF With
<1>4. ASSUME NEW b \in Drafts, Add(b) \/ AddInfo(b) PROVE Kept
  <2>1. /\ next \in Numbers
        /\ overlay' = With(next, b) /\ removed' = removed \ {next} /\ next' = next + 1
        /\ info' = info \/ info' = next
    BY <1>2, <1>4 DEF Add, AddInfo
  <2>2. /\ DOMAIN overlay' = DOMAIN overlay \union {next}
        /\ \A k \in DOMAIN overlay' : overlay'[k] \in Drafts
    BY <1>3, <2>1
  <2> QED
    BY <1>2, <2>1, <2>2
<1>5. ASSUME NEW b \in Drafts, NEW n \in Numbers, Replace(n, b) PROVE Kept
  <2>1. /\ overlay' = With(n, b) /\ removed' = removed \ {n} /\ info' = info
        /\ next' = IF next > n THEN next ELSE n + 1
    BY <1>5 DEF Replace
  <2>2. /\ DOMAIN overlay' = DOMAIN overlay \union {n}
        /\ \A k \in DOMAIN overlay' : overlay'[k] \in Drafts
    BY <1>3, <1>5, <2>1
  <2>3. removed' \subseteq Numbers \ DOMAIN overlay' /\ DOMAIN overlay' \subseteq Numbers
    BY <1>2, <2>1, <2>2
  <2>4. /\ next' \in 1..(MaxNumber + 1) /\ base.last < next'
        /\ next <= next' /\ n < next'
    BY <1>2, <2>1
  <2>5. \A k \in DOMAIN overlay' : k < next'
    BY <1>2, <2>2, <2>4
  <2> QED
    BY <1>2, <2>1, <2>2, <2>3, <2>4, <2>5
<1>6. ASSUME NEW n \in Numbers, RemoveObject(n) PROVE Kept
  <2>1. /\ overlay' = [k \in DOMAIN overlay \ {n} |-> overlay[k]]
        /\ removed' = removed \union {n} /\ info' = info /\ next' = next
    <3>1. \A S : Restrict(overlay, S) = [k \in S |-> overlay[k]]
      BY DEF Restrict
    <3> QED
      BY <1>6, <3>1 DEF RemoveObject
  <2> QED
    BY <1>2, <1>6, <2>1
<1>7. Kept
  BY <1>4, <1>5, <1>6 DEF Change, Edits
<1> QED
  BY <1>1, <1>7 DEF SessionInv, SessionTypeOK, EntriesKeepTheirPromise

LEMMA SessionSave ==
    ASSUME SessionInv, NEW mode \in Modes, NEW security \in Securities, Save(mode, security)
    PROVE  SessionInv'
<1>1. /\ UNCHANGED session /\ saved' = Saved(mode, security) /\ saves' \in 0..MaxSaves
      /\ LastInPlay + 2 <= MaxNumber /\ ~ (Declared /\ security = "fresh")
  BY WriterAssumption DEF Save, SessionInv
<1>2. /\ base' = base /\ overlay' = overlay /\ removed' = removed
      /\ next' = next /\ info' = info /\ edits' = edits
  BY <1>1 DEF session
<1>3. IsDocument(Saved(mode, security)) /\ MaxNumber \in Nat
  BY <1>1, SavedDocument, Bounds DEF SessionInv
<1>4. IsDocument(saved)'
  BY <1>1, <1>3 DEF IsDocument, Item, Keys
<1>5. EntriesKeepTheirPromise'
  <2> SUFFICES ASSUME NEW n \in DOMAIN saved'.table,
                      ~ (/\ saved'.appended /\ n \in DOMAIN base.table
                         /\ saved'.table[n] = base.table[n])
               PROVE  /\ saved'.table[n] \in DOMAIN saved'.file
                      /\ saved'.file[saved'.table[n]].num = n
    BY <1>2 DEF EntriesKeepTheirPromise
  <2>1. PICK saving : saving = Saved(mode, security)
    OBVIOUS
  <2>2. \A k \in DOMAIN saving.table :
           ~ (/\ saving.appended /\ k \in DOMAIN base.table /\ saving.table[k] = base.table[k])
              => saving.table[k] \in DOMAIN saving.file /\ saving.file[saving.table[k]].num = k
    BY <1>1, <2>1, PromiseMade DEF SessionInv
  <2>3. saved' = saving
    BY <1>1, <2>1
  <2> QED
    BY <2>2, <2>3
<1> QED
  BY <1>1, <1>2, <1>4, <1>5 DEF SessionInv, SessionTypeOK, IsDocument

LEMMA SessionReopen == SessionInv /\ Reopen => SessionInv'
<1> SUFFICES ASSUME SessionInv, Reopen PROVE SessionInv'
  OBVIOUS
<1>1. /\ saved # NoFile /\ base' = saved /\ overlay' = <<>> /\ removed' = {}
      /\ next' = saved.last + 1 /\ info' = None /\ edits' = edits
      /\ saved' = NoFile /\ saves' = saves
  BY DEF Reopen, Begin
<1>2. IsDocument(saved)
  BY <1>1 DEF SessionInv
<1>3. saved.last \in 0..MaxNumber /\ MaxNumber \in Nat /\ DOMAIN overlay' = {}
  BY <1>1, <1>2, Bounds DEF IsDocument
<1>4. IsDocument(base)'
  BY <1>1, <1>2 DEF IsDocument, Item, Keys
<1> QED
  BY <1>1, <1>3, <1>4 DEF SessionInv, SessionTypeOK, EntriesKeepTheirPromise, None

LEMMA SessionStays == SessionInv /\ UNCHANGED vars => SessionInv'
<1> SUFFICES ASSUME SessionInv, UNCHANGED vars PROVE SessionInv'
  OBVIOUS
<1>1. /\ base' = base /\ overlay' = overlay /\ removed' = removed /\ next' = next
      /\ info' = info /\ edits' = edits /\ saved' = saved /\ saves' = saves
  BY DEF vars
<1>2. SessionTypeOK' /\ IsDocument(base)'
  BY <1>1 DEF SessionInv, SessionTypeOK, IsDocument
<1>3. (saved # NoFile => IsDocument(saved))'
  BY <1>1 DEF SessionInv, IsDocument
<1>4. EntriesKeepTheirPromise'
  BY <1>1 DEF SessionInv, EntriesKeepTheirPromise
<1> QED
  BY <1>1, <1>2, <1>3, <1>4 DEF SessionInv

LEMMA SessionInvariant == Spec => []SessionInv
<1>1. SessionInv /\ [Next]_vars => SessionInv'
  BY SessionStays, SessionChange, SessionSave, SessionReopen DEF Next, Modes, Securities
<1> QED
  BY SessionInit, <1>1, PTL DEF Spec

----------------------------------------------------------------------------
(* What follows for any documents.                                         *)

\* The session keeps its shape, and what was saved has a document's.
THEOREM WriterTypeCorrect == Spec => []TypeOK
<1>1. SessionInv => TypeOK
  <2> SUFFICES ASSUME SessionInv PROVE TypeOK
    OBVIOUS
  <2>1. saved # NoFile => IsDocument(saved)
    BY DEF SessionInv
  <2>2. MaxNumber \in Nat
    BY Bounds
  <2> QED
    BY <2>1, <2>2 DEF SessionInv, TypeOK, IsDocument
<1> QED
  BY <1>1, SessionInvariant, PTL

\* The number that the next object added gets, and all after it, are free in
\* the document and in the overlay, however objects were replaced and removed
\* and the document saved and reopened before (EditDoc::add).
THEOREM FreshCorrect == Spec => []FreshNumbers
<1>1. SessionInv => FreshNumbers
  <2> SUFFICES ASSUME SessionInv, NEW n \in next..MaxNumber
               PROVE  Fetch(n) = Null /\ n \notin DOMAIN overlay
    BY DEF FreshNumbers
  <2>1. /\ base.last \in 0..MaxNumber /\ DOMAIN base.table \subseteq 1..base.last
        /\ next \in 1..(MaxNumber + 1) /\ base.last < next
        /\ \A k \in DOMAIN overlay : k < next /\ k \in 1..MaxNumber
    BY Bounds DEF SessionInv, SessionTypeOK, IsDocument
  <2>2. n \notin DOMAIN base.table /\ n \notin DOMAIN overlay
    BY <2>1, Bounds
  <2> QED
    BY <2>2 DEF Fetch, Content
<1> QED
  BY <1>1, SessionInvariant, PTL

\* Every entry that a save itself wrote names an object of its number in the
\* file, whatever the objects hold and however they fail (ObjectOffsets).
THEOREM PromiseCorrect == Spec => []EntriesKeepTheirPromise
<1>1. SessionInv => EntriesKeepTheirPromise
  BY DEF SessionInv
<1> QED
  BY <1>1, SessionInvariant, PTL

----------------------------------------------------------------------------
(* What the trailer reaches.                                               *)

Read(S)   == {n \in S : Fetch(n) # Null}
Nearer(S) == S \union Read(UNION {RefsOf(m) : m \in S})

\* f has what is reached at each distance up to h.
Hops(f, h) == f[0] = Read(TrailerRefs) /\ \A k \in 1..h : f[k] = Nearer(f[k - 1])

WithinByHops == \A h \in Nat : \A f : Hops(f, h) => Within(h) = f[h]

LEMMA WithinIs == WithinByHops
<1> SUFFICES ASSUME NEW h \in Nat, NEW f, Hops(f, h) PROVE Within(h) = f[h]
  BY DEF WithinByHops
<1> DEFINE Near(u) == u = [k \in 0..h |-> IF k = 0 THEN Read(TrailerRefs)
                                          ELSE LET nearer == u[k - 1] IN
                                               nearer \union Read(UNION {RefsOf(m) : m \in nearer})]
<1>1. Within(h) = (CHOOSE u : Near(u))[h]
  BY DEF Within, Read
<1>2. \E u : Near(u)
  <2> DEFINE u == [k \in 0..h |-> f[k]]
  <2>1. \A k \in 0..h : k = 0 \/ (k \in 1..h /\ k - 1 \in 0..h)
    OBVIOUS
  <2>2. \A k \in 0..h : u[k] = IF k = 0 THEN Read(TrailerRefs) ELSE Nearer(u[k - 1])
    BY <2>1 DEF Hops
  <2>3. Near(u)
    <3>1. u = [k \in 0..h |-> IF k = 0 THEN Read(TrailerRefs) ELSE Nearer(u[k - 1])]
      BY <2>2
    <3> HIDE DEF u
    <3> QED
      BY <3>1 DEF Nearer
  <2> QED
    BY <2>3
<1>3. PICK u : u = CHOOSE v : Near(v)
  OBVIOUS
<1>4. Near(u)
  BY <1>2, <1>3
<1>5. u[0] = f[0] /\ \A k \in 1..h : u[k] = Nearer(u[k - 1])
  <2>1. 0 \in 0..h /\ \A k \in 1..h : k \in 0..h /\ k # 0
    OBVIOUS
  <2> QED
    BY <1>4, <2>1 DEF Hops, Nearer
<1> HIDE DEF Near
<1> DEFINE Bad == {k \in 0..h : u[k] # f[k]}
<1>6. Bad = {}
  <2> SUFFICES ASSUME Bad # {} PROVE FALSE
    OBVIOUS
  <2>1. PICK m \in Bad : \A k \in Bad : m <= k
    <3>1. Bad \in SUBSET Nat
      OBVIOUS
    <3> HIDE DEF Bad
    <3> QED
      BY <3>1, LeastNatural
  <2>2. m \in 0..h /\ u[m] # f[m]
    BY <2>1
  <2>3. m # 0 /\ m \in 1..h /\ m - 1 \in 0..h /\ ~ (m <= m - 1)
    BY <1>5, <2>2
  <2>4. u[m - 1] = f[m - 1]
    BY <2>1, <2>3
  <2> QED
    BY <1>5, <2>2, <2>3, <2>4 DEF Hops
<1>7. h \in 0..h
  OBVIOUS
<1> QED
  BY <1>1, <1>3, <1>6, <1>7

LEMMA RefsAre ==
    ASSUME SessionTypeOK, IsDocument(base)
    PROVE  TrailerRefs \in SUBSET Nat /\ \A n : RefsOf(n) \in SUBSET Nat
<1>1. /\ info \in 0..MaxNumber /\ base.info \in 0..MaxNumber
      /\ base.encNum \in 0..base.last /\ base.last \in 0..MaxNumber /\ base.number \in 0..MaxNumber
      /\ MaxNumber \in Nat
  BY Bounds DEF SessionTypeOK, IsDocument
<1>2. TrailerRefs \in SUBSET Nat
  BY <1>1 DEF TrailerRefs, InfoNow, None, Root
<1>3. \A b \in Bodies : b.refs \in SUBSET Nat
  BY <1>1, Bounds, DocumentsAssumption
<1> QED
  BY <1>2, <1>3 DEF RefsOf

LEMMA HopsExist ==
    ASSUME SessionTypeOK, IsDocument(base), NEW h \in Nat
    PROVE  \E f : Hops(f, h)
<1> DEFINE step == [p \in (1..h) \X SUBSET Nat |-> Nearer(p[2])]
<1>1. \A S \in SUBSET Nat : Nearer(S) \in SUBSET Nat
  <2>1. \A n : RefsOf(n) \in SUBSET Nat
    BY RefsAre
  <2> QED
    BY <2>1 DEF Nearer, Read
<1>2. step \in [(1..h) \X SUBSET Nat -> SUBSET Nat]
  BY <1>1
<1>3. \A k \in 1..h, S \in SUBSET Nat : step[<<k, S>>] = Nearer(S)
  OBVIOUS
<1>4. Read(TrailerRefs) \in SUBSET Nat
  BY RefsAre DEF Read
<1> HIDE DEF step
<1>5. PICK f \in [0..h -> SUBSET Nat] : Stepped(f, h, Read(TrailerRefs), step)
  BY <1>2, <1>4, StepsExist
<1>6. \A k \in 1..h : k - 1 \in 0..h
  OBVIOUS
<1> QED
  BY <1>3, <1>5, <1>6 DEF Stepped, Hops

\* What is reached is there, and what it names is there or reached, within
\* more references than there are numbers.
LEMMA LiveIsReached ==
    ASSUME SessionTypeOK, IsDocument(base), MaxInlineDepth \div 2 > MaxNumber
    PROVE  /\ \A n \in Live : Fetch(n) # Null
           /\ \A n \in Mentioned : Fetch(n) # Null => n \in Reached
<1> DEFINE M == MaxNumber
           D == MaxInlineDepth \div 2
<1>1. M \in Nat /\ D \in Nat /\ M < D
  BY Bounds, WriterAssumption
<1> HIDE DEF M, D
<1>2. PICK f : Hops(f, D)
  BY <1>1, HopsExist
<1>3. Hops(f, M)
  BY <1>1, <1>2 DEF Hops
<1>4. Live = f[M] /\ Within(D) = f[D]
  BY <1>1, <1>2, <1>3, WithinIs DEF Live, M, WithinByHops
<1>5. f[0] = Read(TrailerRefs) /\ \A k \in 1..D : f[k] = Nearer(f[k - 1])
  BY <1>2 DEF Hops
<1>6. \A k \in 1..D : f[k - 1] \subseteq f[k]
  BY <1>5 DEF Nearer
<1> DEFINE Good(k) == f[0] \subseteq f[k] /\ (\A n \in f[k] : Fetch(n) # Null)
                      /\ (k > M => f[M + 1] \subseteq f[k])
           Bad == {k \in 0..D : ~ Good(k)}
<1>7. Good(0)
  BY <1>1, <1>5 DEF Read
<1>8. ASSUME NEW k \in 1..D, Good(k - 1) PROVE Good(k)
  <2>1. f[0] \subseteq f[k]
    BY <1>6, <1>8
  <2>2. \A n \in f[k] : Fetch(n) # Null
    BY <1>5, <1>8 DEF Nearer, Read
  <2>3. k > M => f[M + 1] \subseteq f[k]
    <3>1. CASE k = M + 1
      BY <3>1
    <3>2. CASE k > M /\ k # M + 1
      <4>1. k - 1 > M
        BY <1>1, <3>2
      <4> QED
        BY <1>6, <1>8, <4>1
    <3> QED
      BY <3>1, <3>2
  <2> QED
    BY <2>1, <2>2, <2>3
<1> HIDE DEF Good
<1>9. Bad = {}
  <2> SUFFICES ASSUME Bad # {} PROVE FALSE
    OBVIOUS
  <2>1. PICK m \in Bad : \A k \in Bad : m <= k
    <3>1. Bad \in SUBSET Nat
      BY <1>1
    <3> HIDE DEF Bad
    <3> QED
      BY <3>1, LeastNatural
  <2>2. m \in 0..D /\ ~ Good(m)
    BY <2>1
  <2>3. m \in 1..D /\ m - 1 \in 0..D /\ ~ (m <= m - 1)
    BY <1>1, <1>7, <2>2
  <2>4. Good(m - 1)
    BY <2>1, <2>3
  <2> QED
    BY <1>8, <2>2, <2>3, <2>4
<1>10. Good(M) /\ Good(D)
  BY <1>1, <1>9
<1>11. f[M + 1] = Nearer(f[M])
  <2>1. M + 1 \in 1..D /\ (M + 1) - 1 = M
    BY <1>1
  <2> QED
    BY <1>5, <2>1
<1>12. f[M + 1] \subseteq f[D]
  BY <1>1, <1>10 DEF Good
<1>13. ASSUME NEW n \in Mentioned, Fetch(n) # Null PROVE n \in f[M + 1]
  <2>1. n \in Live \/ n \in Read(UNION {RefsOf(m) : m \in Live}) \/ n \in Read(TrailerRefs)
    BY <1>13 DEF Mentioned, Read
  <2>2. Read(TrailerRefs) \subseteq f[M]
    BY <1>5, <1>10 DEF Good
  <2> QED
    BY <1>4, <1>11, <2>1, <2>2 DEF Nearer
<1>14. f[D] \subseteq Reached
  BY <1>4 DEF Reached, D
<1> QED
  BY <1>4, <1>10, <1>12, <1>13, <1>14 DEF Good

\* The view of a session depends on the session alone.
LEMMA SameView ==
    ASSUME SessionTypeOK, IsDocument(base), UNCHANGED <<base, overlay, removed, info>>
    PROVE  /\ \A n : Fetch(n)' = Fetch(n)
           /\ Live' = Live /\ Mentioned' = Mentioned /\ New' = New
<1>1. base' = base /\ overlay' = overlay /\ removed' = removed /\ info' = info
  OBVIOUS
<1>2. \A n : Fetch(n)' = Fetch(n)
  BY <1>1 DEF Fetch, Content
<1>3. \A n : RefsOf(n)' = RefsOf(n)
  BY <1>2 DEF RefsOf
<1>4. TrailerRefs' = TrailerRefs
  BY <1>1 DEF TrailerRefs, InfoNow
<1>5. PICK f : Hops(f, MaxNumber)
  BY Bounds, HopsExist
<1>6. \A S : Read(S)' = Read(S)
  BY <1>2 DEF Read
<1>7. \A S : Nearer(S)' = Nearer(S)
  BY <1>3, <1>6 DEF Nearer
<1>8. Hops(f, MaxNumber)'
  BY <1>4, <1>5, <1>6, <1>7 DEF Hops
<1>9. WithinByHops'
  BY WithinIs, PTL
<1>10. Live' = Live
  BY <1>5, <1>8, <1>9, Bounds, WithinIs DEF Live, WithinByHops
<1> QED
  BY <1>1, <1>2, <1>3, <1>4, <1>10 DEF Mentioned, New

----------------------------------------------------------------------------
(* What a saved document answers.                                          *)

LEMMA KeyIs ==
    ASSUME SessionTypeOK, IsDocument(base), Keyed(base),
           NEW mode \in Modes, NEW security \in Securities
    PROVE  /\ KeyOf(security) = Derived(Slot(security), security, IdNow)
           /\ Appends(mode, security) => KeyOf(security) = base.key
<1>1. /\ base.key \in Keys
      /\ ~ Declared => base.key = Plain
      /\ Declared => base.key.id = IF base.usesId THEN IdNow ELSE "any"
  BY DEF IsDocument, Declared, Keyed, IdNow
<1>2. base.key = [dict |-> base.key.dict, id |-> base.key.id]
  BY <1>1 DEF Keys
<1>3. Slot(security) = None <=> ~ (security = "fresh" \/ (Declared /\ security = "keep"))
  BY SlotIs
<1>5. CASE security = "fresh"
  BY <1>3, <1>5 DEF KeyOf, Derived, Appends
<1>6. CASE security # "fresh" /\ Declared /\ security = "keep"
  BY <1>1, <1>2, <1>3, <1>6 DEF KeyOf, Derived
<1>7. CASE security # "fresh" /\ ~ (Declared /\ security = "keep")
  <2>1. KeyOf(security) = Plain /\ Derived(Slot(security), security, IdNow) = Plain
    BY <1>3, <1>7 DEF KeyOf, Derived
  <2>2. Appends(mode, security) => ~ Declared
    BY <1>7 DEF Appends, Securities, Declared
  <2> QED
    BY <1>1, <2>1, <2>2
<1> QED
  BY <1>5, <1>6, <1>7

LEMMA KeyedSaved ==
    ASSUME SessionTypeOK, IsDocument(base), NEW mode \in Modes, NEW security \in Securities,
           Keyed(base)
    PROVE  Keyed(Saved(mode, security))
<1>1. PICK saving : saving = Saved(mode, security)
  OBVIOUS
<1>2. /\ saving.encrypt = IF Slot(security) = None THEN "none" ELSE "indirect"
      /\ saving.id = IdNow /\ saving.key = Derived(Slot(security), security, IdNow)
      /\ saving.usesId = (security = "keep" /\ base.usesId)
  BY <1>1, SavedIs
<1>3. IdNow # "none"
  BY DEF IdNow
<1>4. Slot(security) # None => security = "fresh" \/ (Declared /\ security = "keep")
  BY SlotIs
<1>5. CASE Slot(security) = None
  BY <1>1, <1>2, <1>5 DEF Keyed
<1>6. CASE Slot(security) # None
  <2>1. CASE security = "fresh"
    <3>1. saving.key.id = "any"
      BY <1>2, <1>6, <2>1 DEF Derived
    <3>2. security # "keep"
      BY <2>1
    <3>3. ~ saving.usesId
      BY <1>2, <3>2, Zenon
    <3> QED
      BY <1>1, <3>1, <3>3 DEF Keyed
  <2>2. CASE security # "fresh"
    <3>1. security = "keep" /\ base.usesId \in BOOLEAN
      BY <1>4, <1>6, <2>2 DEF IsDocument
    <3>2. saving.key.id = IF base.usesId THEN IdNow ELSE "any"
      BY <1>2, <1>6, <2>2 DEF Derived
    <3>3. CASE base.usesId = TRUE
      BY <1>1, <1>2, <1>3, <3>1, <3>2, <3>3 DEF Keyed
    <3>4. CASE base.usesId = FALSE
      BY <1>1, <1>2, <3>1, <3>2, <3>4 DEF Keyed
    <3> QED
      BY <3>1, <3>3, <3>4
  <2> QED
    BY <2>1, <2>2
<1> QED
  BY <1>5, <1>6

\* The base's table and an entry that is written over.
LEMMA EntryWritten ==
    ASSUME IsDocument(base), FirstGeneration(base), NEW mode, NEW security,
           NEW n \in DOMAIN OutOf(mode, security).offsets
    PROVE  TableOf(mode, security)[n] = OutOf(mode, security).offsets[n]
<1>1. PICK offsets : offsets = OutOf(mode, security).offsets
  OBVIOUS
<1>2. \A k : ~ (Generation(base, k) > 0)
  BY DEF Generation, FirstGeneration
<1>3. Updated(offsets)[n] = offsets[n]
  BY <1>1, <1>2 DEF Updated
<1> QED
  BY <1>1, <1>3 DEF TableOf

\* An object that was written, one that was not and one that is the base's.
LEMMA SavedAnswersFor ==
    ASSUME SessionTypeOK, IsDocument(base), LastInPlay + 2 <= MaxNumber,
           Keyed(base), FirstGeneration(base),
           NEW mode \in Modes, NEW security \in Securities, NEW n, n # Slot(security)
    PROVE  LET saving == Saved(mode, security) IN
           /\ n \in PutSet(mode, security) =>
                 /\ Content(saving, n) = Fetch(n)
                 /\ saving.table[n] = OutOf(mode, security).offsets[n]
           /\ n \notin PutSet(mode, security) /\ ~ (Appends(mode, security) /\ n \in DOMAIN base.table)
                 => n \notin DOMAIN saving.table /\ Content(saving, n) = Null
           /\ n \notin PutSet(mode, security) /\ Appends(mode, security) /\ n \in DOMAIN base.table
                 => /\ n \in DOMAIN saving.table /\ saving.table[n] = base.table[n]
                    /\ Content(base, n) # Null => Content(saving, n) = Content(base, n)
<1>1. PICK saving : saving = Saved(mode, security)
  OBVIOUS
<1>2. PICK out : out = OutOf(mode, security)
  OBVIOUS
<1>3. PICK offsets : offsets = out.offsets
  OBVIOUS
<1>4. PICK front : front = FrontOf(mode, security)
  OBVIOUS
<1>5. PICK W : W = PutSet(mode, security)
  OBVIOUS
<1>6. /\ saving.table = TableOf(mode, security) /\ saving.appended = Appends(mode, security)
      /\ saving.key = Derived(Slot(security), security, IdNow)
  BY <1>1, SavedIs
<1>7. KeepsAndHas(saving.table, offsets, Appends(mode, security))
  BY <1>2, <1>3, <1>6, TableIs
<1>8. Put(front, out, W, Slot(security), KeyOf(security))
  BY <1>2, <1>4, <1>5, OutIs
<1>9. DOMAIN offsets = W \union ({Slot(security)} \ {None}) /\ (n \in W <=> n \in DOMAIN offsets)
  BY <1>3, <1>8 DEF Put
<1>10. KeyOf(security) = saving.key /\ (Appends(mode, security) => saving.key = base.key)
  BY <1>6, KeyIs
<1>11. /\ Len(out.file) \in Nat /\ Len(saving.file) \in Nat /\ Len(out.file) <= Len(saving.file)
       /\ \A p \in 1..Len(out.file) : saving.file[p] = out.file[p]
       /\ DOMAIN saving.file = 1..Len(saving.file)
  <2>1. saving.file \in Seq(Item)
    BY <1>1, FileIs
  <2> QED
    BY <1>1, <1>2, <2>1, FileIs
<1>12. /\ Len(front.file) \in Nat /\ Len(front.file) <= Len(out.file)
       /\ \A p \in 1..Len(front.file) : out.file[p] = front.file[p]
       /\ front.file = IF Appends(mode, security) THEN base.file ELSE <<>>
  <2>1. Len(front.file) \in Nat
    BY <1>4, FrontIs DEF Outs
  <2> QED
    BY <1>4, <1>8, <2>1, FrontIs DEF Put
<1>13. ASSUME n \in W
       PROVE  Content(saving, n) = Fetch(n) /\ saving.table[n] = offsets[n]
  <2>1. n \in DOMAIN saving.table /\ saving.table[n] = offsets[n]
    BY <1>2, <1>3, <1>6, <1>7, <1>9, <1>13, EntryWritten DEF KeepsAndHas
  <2>2. /\ offsets[n] \in (Len(front.file) + 1)..Len(out.file)
        /\ out.file[offsets[n]] = ItemFor(n, Fetch(n), KeyOf(security))
    BY <1>3, <1>8, <1>9, <1>13 DEF Put
  <2>3. offsets[n] \in 1..Len(out.file) /\ offsets[n] \in 1..Len(saving.file)
    BY <1>11, <1>12, <2>2
  <2>4. saving.file[offsets[n]] = ItemFor(n, Fetch(n), saving.key)
    BY <1>10, <1>11, <2>2, <2>3
  <2>5. PICK i : i = ItemFor(n, Fetch(n), saving.key)
    OBVIOUS
  <2>6. i.num = n /\ i.obj = Fetch(n) /\ i.key = saving.key
    BY <2>5 DEF ItemFor
  <2> QED
    BY <1>11, <2>1, <2>3, <2>4, <2>5, <2>6 DEF Content
<1>14. ASSUME n \notin W, ~ (Appends(mode, security) /\ n \in DOMAIN base.table)
       PROVE  n \notin DOMAIN saving.table /\ Content(saving, n) = Null
  <2>1. n \notin DOMAIN saving.table
    BY <1>7, <1>9, <1>14 DEF KeepsAndHas
  <2> QED
    BY <2>1 DEF Content
<1>15. ASSUME n \notin W, Appends(mode, security), n \in DOMAIN base.table
       PROVE  /\ n \in DOMAIN saving.table /\ saving.table[n] = base.table[n]
              /\ Content(base, n) # Null => Content(saving, n) = Content(base, n)
  <2>1. n \in DOMAIN saving.table /\ saving.table[n] = base.table[n]
    BY <1>7, <1>9, <1>15 DEF KeepsAndHas
  <2>2. ASSUME Content(base, n) # Null PROVE Content(saving, n) = Content(base, n)
    <3>1. base.table[n] \in DOMAIN base.file
      BY <2>2 DEF Content
    <3>2. DOMAIN base.file = 1..Len(base.file) /\ base.file = front.file
      BY <1>12, <1>15 DEF IsDocument
    <3>3. base.table[n] \in 1..Len(front.file) /\ base.table[n] \in 1..Len(out.file)
          /\ base.table[n] \in DOMAIN saving.file
      BY <1>11, <1>12, <3>1, <3>2
    <3>4. saving.file[base.table[n]] = base.file[base.table[n]]
      BY <1>11, <1>12, <3>2, <3>3
    <3> QED
      BY <1>10, <1>15, <2>1, <3>1, <3>3, <3>4 DEF Content
  <2> QED
    BY <2>1, <2>2
<1> QED
  BY <1>1, <1>2, <1>3, <1>5, <1>13, <1>14, <1>15

\* What is not written of what the session answers.
LEMMA NotPut ==
    ASSUME SessionTypeOK, IsDocument(base), NEW mode \in Modes, NEW security \in Securities,
           NEW n, n # Slot(security), n \notin PutSet(mode, security), Fetch(n) # Null
    PROVE  /\ n \notin New
           /\ n \notin Reached \/ Appends(mode, security)
           /\ Appends(mode, security) =>
                 n \in DOMAIN base.table /\ n \notin DOMAIN overlay /\ Fetch(n) = Content(base, n)
<1>1. n \notin OldOf(mode, security) /\ n \notin NewOf(mode, security)
  BY DEF PutSet, Shown
<1>2. n \notin removed
  BY DEF Fetch
<1>3. n \in DOMAIN overlay \/ (n \in DOMAIN base.table /\ Fetch(n) = Content(base, n))
  BY <1>2 DEF Fetch, Content
<1>4. CASE Appends(mode, security)
  BY <1>1, <1>3, <1>4 DEF NewOf, New
<1>5. CASE ~ Appends(mode, security)
  <2>1. n \notin New /\ n \notin Old \intersect Reached
    BY <1>1, <1>5 DEF NewOf, OldOf
  <2>2. n \in DOMAIN base.table /\ DOMAIN base.table \subseteq 1..base.last
    BY <1>3, <2>1 DEF New, IsDocument
  <2>3. n \in Old
    BY <1>2, <2>2 DEF Old
  <2> QED
    BY <1>5, <2>1, <2>3
<1> QED
  BY <1>4, <1>5

LEMMA SavedAnswers ==
    ASSUME SessionTypeOK, IsDocument(base), LastInPlay + 2 <= MaxNumber,
           Keyed(base), FirstGeneration(base), MaxInlineDepth \div 2 > MaxNumber,
           NEW mode \in Modes, NEW security \in Securities,
           NEW n \in (Mentioned \union New) \ {Slot(security)},
           Appends(mode, security) /\ Fetch(n) = Null => n \notin DOMAIN base.table
    PROVE  Content(Saved(mode, security), n) = Fetch(n)
<1>1. n # Slot(security)
  OBVIOUS
<1>2. CASE n \in PutSet(mode, security)
  BY <1>1, <1>2, SavedAnswersFor
<1>3. CASE n \notin PutSet(mode, security) /\ Fetch(n) = Null
  BY <1>1, <1>3, SavedAnswersFor
<1>4. CASE n \notin PutSet(mode, security) /\ Fetch(n) # Null
  <2>1. Appends(mode, security)
    <3>1. n \in New \/ n \in Reached
      BY <1>4, LiveIsReached
    <3> QED
      BY <1>1, <1>4, <3>1, NotPut
  <2>2. n \in DOMAIN base.table /\ Fetch(n) = Content(base, n)
    BY <1>1, <1>4, <2>1, NotPut
  <2> QED
    BY <1>1, <1>4, <2>1, <2>2, SavedAnswersFor
<1> QED
  BY <1>2, <1>3, <1>4

----------------------------------------------------------------------------
(* What is saved can be saved again, and scanned.                          *)

\* Where the objects of a saved file come from.
LEMMA SavedFrom ==
    ASSUME SessionTypeOK, IsDocument(base), LastInPlay + 2 <= MaxNumber,
           NEW mode \in Modes, NEW security \in Securities,
           NEW p \in DOMAIN Saved(mode, security).file
    PROVE  LET item == Saved(mode, security).file[p] IN
           \/ p \in DOMAIN base.file /\ item = base.file[p] /\ Appends(mode, security)
              /\ (\A k \in PutSet(mode, security) : p <= OutOf(mode, security).offsets[k])
           \/ /\ item.num \in PutSet(mode, security) \union {Slot(security)}
              /\ p = OutOf(mode, security).offsets[item.num] /\ item.gen = 0
           \/ item.num = LastInPlay + 1 /\ item.gen = 0
<1>1. PICK saving : saving = Saved(mode, security)
  OBVIOUS
<1>2. PICK out : out = OutOf(mode, security)
  OBVIOUS
<1>3. PICK front : front = FrontOf(mode, security)
  OBVIOUS
<1>4. PICK W : W = PutSet(mode, security)
  OBVIOUS
<1>5. Put(front, out, W, Slot(security), KeyOf(security))
  BY <1>2, <1>3, <1>4, OutIs
<1>6. /\ Len(out.file) \in Nat /\ Len(saving.file) \in Nat /\ Len(out.file) <= Len(saving.file)
      /\ \A k \in 1..Len(out.file) : saving.file[k] = out.file[k]
      /\ \A k \in (Len(out.file) + 1)..Len(saving.file) :
            saving.file[k] = ItemFor(LastInPlay + 1, XrefStream, Plain)
      /\ DOMAIN saving.file = 1..Len(saving.file)
  <2>1. saving.file \in Seq(Item)
    BY <1>1, FileIs
  <2> QED
    BY <1>1, <1>2, <2>1, FileIs
<1>7. /\ Len(front.file) \in Nat /\ Len(front.file) <= Len(out.file)
      /\ \A k \in 1..Len(front.file) : out.file[k] = front.file[k]
      /\ front.file = IF Appends(mode, security) THEN base.file ELSE <<>>
  <2>1. Len(front.file) \in Nat
    BY <1>3, FrontIs DEF Outs
  <2> QED
    BY <1>3, <1>5, <2>1, FrontIs DEF Put
<1>8. p \in 1..Len(saving.file)
  BY <1>1, <1>6
<1>9. CASE p <= Len(front.file)
  <2>1. front.file # <<>> /\ Appends(mode, security) /\ front.file = base.file
    BY <1>7, <1>8, <1>9
  <2>2. DOMAIN base.file = 1..Len(base.file)
    BY DEF IsDocument
  <2>3. saving.file[p] = base.file[p] /\ p \in DOMAIN base.file
    BY <1>6, <1>7, <1>8, <1>9, <2>1, <2>2
  <2>4. \A k \in W : out.offsets[k] \in (Len(front.file) + 1)..Len(out.file)
    BY <1>5 DEF Put
  <2>5. \A k \in W : p <= out.offsets[k]
    BY <1>6, <1>7, <1>8, <1>9, <2>4
  <2> QED
    BY <1>1, <1>2, <1>4, <2>1, <2>3, <2>5
<1>10. CASE p > Len(front.file) /\ p <= Len(out.file)
  <2>1. p \in (Len(front.file) + 1)..Len(out.file) /\ saving.file[p] = out.file[p]
    BY <1>6, <1>7, <1>8, <1>10
  <2>2. /\ out.file[p].num \in DOMAIN out.offsets
        /\ p = out.offsets[out.file[p].num] /\ out.file[p].gen = 0
    BY <1>5, <2>1 DEF Put
  <2>3. DOMAIN out.offsets \subseteq W \union {Slot(security)}
    BY <1>5 DEF Put
  <2> QED
    BY <1>1, <1>2, <1>4, <2>1, <2>2, <2>3
<1>11. CASE p > Len(out.file)
  <2>1. saving.file[p] = ItemFor(LastInPlay + 1, XrefStream, Plain)
    BY <1>6, <1>8, <1>11
  <2>2. saving.file[p].num = LastInPlay + 1 /\ saving.file[p].gen = 0
    BY <2>1 DEF ItemFor
  <2> QED
    BY <1>1, <2>2
<1> QED
  BY <1>6, <1>7, <1>8, <1>9, <1>10, <1>11

LEMMA FirstGenerationSaved ==
    ASSUME SessionTypeOK, IsDocument(base), LastInPlay + 2 <= MaxNumber, FirstGeneration(base),
           NEW mode \in Modes, NEW security \in Securities
    PROVE  FirstGeneration(Saved(mode, security))
<1>1. PICK saving : saving = Saved(mode, security)
  OBVIOUS
<1>2. ASSUME NEW p \in DOMAIN saving.file PROVE saving.file[p].gen = 0
  BY <1>1, SavedFrom DEF FirstGeneration
<1> QED
  BY <1>1, <1>2 DEF FirstGeneration

LEMMA NamesLastSaved ==
    ASSUME SessionTypeOK, IsDocument(base), LastInPlay + 2 <= MaxNumber,
           Keyed(base), FirstGeneration(base), NamesLast(base),
           NEW mode \in Modes, NEW security \in Securities
    PROVE  NamesLast(Saved(mode, security))
<1>1. PICK saving : saving = Saved(mode, security)
  OBVIOUS
<1>2. PICK offsets : offsets = OutOf(mode, security).offsets
  OBVIOUS
<1>3. PICK W : W = PutSet(mode, security)
  OBVIOUS
<1>4. saving.encNum = Slot(security)
  BY <1>1, SavedIs
<1>5. /\ LastInPlay \in Nat /\ base.last \in 0..LastInPlay
      /\ DOMAIN base.table \subseteq 1..base.last /\ W \subseteq 1..LastInPlay
  <2>1. /\ LastInPlay \in Nat /\ base.last \in 0..LastInPlay
        /\ \A n \in DOMAIN overlay : n <= LastInPlay /\ n \in 1..MaxNumber
        /\ DOMAIN base.table \subseteq 1..base.last
    BY LastInPlayIs, Bounds DEF SessionTypeOK, IsDocument
  <2>2. /\ \A n \in DOMAIN overlay : n \in 1..LastInPlay
        /\ \A n \in 1..base.last : n \in 1..LastInPlay
    BY <2>1, Bounds
  <2> QED
    BY <1>3, <2>1, <2>2 DEF PutSet, Shown, OldOf, NewOf, Old, New
<1>6. Appends(mode, security) => base.encNum \in {None, Slot(security)}
  BY DEF Appends, Slot, Declared, IsDocument, Securities
<1> SUFFICES ASSUME NEW n \in DOMAIN saving.table, n # Slot(security),
                    saving.table[n] \in DOMAIN saving.file,
                    saving.file[saving.table[n]].num = n,
                    NEW p \in DOMAIN saving.file, saving.file[p].num = n
             PROVE  p <= saving.table[n]
  BY <1>1, <1>4 DEF NamesLast
<1>7. saving.file \in Seq(Item) /\ DOMAIN saving.file = 1..Len(saving.file) /\ Len(saving.file) \in Nat
  <2>1. saving.file \in Seq(Item)
    BY <1>1, FileIs
  <2> QED
    BY <2>1
<1>8. CASE n \in W
  <2>1. saving.table[n] = offsets[n]
    BY <1>1, <1>2, <1>3, <1>8, SavedAnswersFor
  <2>2. n # LastInPlay + 1
    BY <1>5, <1>8
  <2>3. p <= offsets[n] \/ p = offsets[n]
    BY <1>1, <1>2, <1>3, <1>8, <2>2, SavedFrom
  <2> QED
    BY <1>7, <2>1, <2>3
<1>9. CASE n \notin W
  <2>1. Appends(mode, security) /\ n \in DOMAIN base.table /\ saving.table[n] = base.table[n]
    BY <1>1, <1>3, <1>9, SavedAnswersFor
  <2>2. n # LastInPlay + 1 /\ n # None
    BY <1>5, <2>1 DEF None
  <2>3. \A q \in DOMAIN saving.file : saving.file[q].num = n =>
            q \in DOMAIN base.file /\ saving.file[q] = base.file[q]
    BY <1>1, <1>3, <1>9, <2>2, SavedFrom
  <2>4. n # base.encNum
    BY <1>6, <2>1, <2>2
  <2> QED
    BY <2>1, <2>3, <2>4 DEF NamesLast
<1> QED
  BY <1>8, <1>9

\* A scan finds what such a table finds.
LEMMA ScanFinds ==
    ASSUME NEW d, IsDocument(d), FirstGeneration(d), NamesLast(d),
           NEW n, n # d.encNum, Content(d, n) # Null
    PROVE  Content([d EXCEPT !.table = LastCopies(d.file)], n) = Content(d, n)
<1>1. PICK q : q = d.table[n]
  OBVIOUS
<1>2. n \in DOMAIN d.table /\ q \in DOMAIN d.file /\ d.file[q].num = n
  BY <1>1 DEF Content
<1>3. \A p \in DOMAIN d.file : d.file[p].num = n => p <= q
  BY <1>1, <1>2 DEF NamesLast
<1> DEFINE copies == {p \in DOMAIN d.file : d.file[p].num = n}
           newest == {p \in copies : \A k \in copies : d.file[k].gen <= d.file[p].gen}
<1>4. d.file \in Seq(Item) /\ DOMAIN d.file = 1..Len(d.file) /\ Len(d.file) \in Nat
  BY DEF IsDocument
<1>5. newest = copies
  BY DEF FirstGeneration
<1>6. newest \in SUBSET (0..Len(d.file)) /\ q \in newest /\ \A p \in newest : p <= q
  <2>1. copies \subseteq 1..Len(d.file) /\ q \in copies /\ \A p \in copies : p <= q
    BY <1>2, <1>3, <1>4
  <2> QED
    BY <1>4, <1>5, <2>1
<1>7. LastCopies(d.file)[n] = Max(newest) /\ n \in DOMAIN LastCopies(d.file)
  BY <1>2 DEF LastCopies
<1>8. Max(newest) = q
  <2> HIDE DEF newest
  <2>1. newest # {}
    BY <1>6
  <2>2. Max(newest) \in newest /\ Max(newest) \in 0..Len(d.file) /\ \A y \in newest : y <= Max(newest)
    BY <1>4, <1>6, <2>1, LargestOf
  <2>3. q <= Max(newest) /\ Max(newest) <= q /\ q \in 0..Len(d.file)
    BY <1>6, <2>2
  <2> QED
    BY <1>4, <2>2, <2>3
<1>9. PICK found : found = [d EXCEPT !.table = LastCopies(d.file)]
  OBVIOUS
<1>10. /\ n \in DOMAIN found.table /\ found.table[n] = q /\ found.file = d.file /\ found.key = d.key
  BY <1>7, <1>8, <1>9 DEF IsDocument, Fields
<1> QED
  BY <1>1, <1>2, <1>9, <1>10 DEF Content

----------------------------------------------------------------------------
(* Sessions, one after another, over what the one before saved.            *)

ViewInv ==
    /\ SessionInv
    /\ Firm(base) /\ (saved # NoFile => Firm(saved))
    /\ ReopenSeesSession

LEMMA ViewInit == ASSUME RoomyDocuments PROVE Init => ViewInv
<1> SUFFICES ASSUME Init PROVE ViewInv
  OBVIOUS
<1>1. SessionInv
  BY SessionInit
<1>2. Firm(base) /\ saved = NoFile
  BY DEF Init, Fresh, RoomyDocuments
<1> QED
  BY <1>1, <1>2 DEF ViewInv, ReopenSeesSession

LEMMA ViewSave ==
    ASSUME RoomyDocuments, ViewInv, NEW mode \in Modes, NEW security \in Securities,
           Save(mode, security)
    PROVE  ViewInv'
<1>1. /\ base' = base /\ overlay' = overlay /\ removed' = removed /\ info' = info
      /\ saved' = Saved(mode, security) /\ LastInPlay + 2 <= MaxNumber
  BY DEF Save, session
<1>2. SessionTypeOK /\ IsDocument(base) /\ Firm(base) /\ MaxInlineDepth \div 2 > MaxNumber
  BY DEF ViewInv, SessionInv, RoomyDocuments
<1>3. PICK saving : saving = Saved(mode, security)
  OBVIOUS
<1>4. Firm(saving)
  BY <1>1, <1>2, <1>3, KeyedSaved, FirstGenerationSaved, NamesLastSaved DEF Firm
<1>5. Firm(base)' /\ Firm(saved)'
  BY <1>1, <1>2, <1>3, <1>4 DEF Firm, Keyed, FirstGeneration, NamesLast
<1>6. saving.encNum = Slot(security) /\ saving.appended = Appends(mode, security)
  BY <1>3, SavedIs
<1>7. \A n \in (Mentioned \union New) \ {saving.encNum} :
         (saving.appended /\ Fetch(n) = Null => n \notin DOMAIN base.table)
            => Content(saving, n) = Fetch(n)
  BY <1>1, <1>2, <1>3, <1>6, SavedAnswers DEF Firm
<1>8. (\A n : Fetch(n)' = Fetch(n)) /\ Mentioned' = Mentioned /\ New' = New
  BY <1>1, <1>2, SameView
<1>9. saved' = saving /\ \A n : Content(saved, n)' = Content(saving, n)
  BY <1>1, <1>3 DEF Content
<1>10. ReopenSeesSession'
  BY <1>1, <1>7, <1>8, <1>9 DEF ReopenSeesSession
<1>11. SessionInv'
  BY SessionSave DEF ViewInv
<1> QED
  BY <1>5, <1>10, <1>11 DEF ViewInv

LEMMA ViewInvariant == ASSUME RoomyDocuments PROVE Spec => []ViewInv
<1>1. ViewInv /\ [Next]_vars => ViewInv'
  <2> SUFFICES ASSUME ViewInv, [Next]_vars PROVE ViewInv'
    OBVIOUS
  <2>1. CASE UNCHANGED vars
    <3>1. /\ base' = base /\ overlay' = overlay /\ removed' = removed /\ next' = next
          /\ info' = info /\ edits' = edits /\ saved' = saved /\ saves' = saves
      BY <2>1 DEF vars
    <3>2. SessionInv'
      BY <2>1, SessionStays DEF ViewInv
    <3>3. Firm(base)' /\ (saved # NoFile => Firm(saved))'
      BY <3>1 DEF ViewInv, Firm, Keyed, FirstGeneration, NamesLast
    <3>4. (\A n : Fetch(n)' = Fetch(n)) /\ Mentioned' = Mentioned /\ New' = New
      BY <3>1, SameView DEF ViewInv, SessionInv
    <3>5. \A n : Content(saved, n)' = Content(saved, n)
      BY <3>1 DEF Content
    <3>6. ReopenSeesSession'
      BY <3>1, <3>4, <3>5 DEF ViewInv, ReopenSeesSession
    <3> QED
      BY <3>2, <3>3, <3>6 DEF ViewInv
  <2>2. CASE Change
    <3>1. base' = base /\ saved' = NoFile
      BY <2>2 DEF Change, Edits, Add, AddInfo, Replace, RemoveObject
    <3>2. Firm(base)'
      BY <3>1 DEF ViewInv, Firm, Keyed, FirstGeneration, NamesLast
    <3>3. SessionInv'
      BY <2>2, SessionChange DEF ViewInv
    <3> QED
      BY <3>1, <3>2, <3>3 DEF ViewInv, ReopenSeesSession
  <2>3. CASE Reopen
    <3>1. base' = saved /\ saved' = NoFile /\ saved # NoFile
      BY <2>3 DEF Reopen, Begin
    <3>2. Firm(base)'
      BY <3>1 DEF ViewInv, Firm, Keyed, FirstGeneration, NamesLast
    <3>3. SessionInv'
      BY <2>3, SessionReopen DEF ViewInv
    <3> QED
      BY <3>1, <3>2, <3>3 DEF ViewInv, ReopenSeesSession
  <2> QED
    BY <2>1, <2>2, <2>3, ViewSave DEF Next, Modes, Securities
<1> QED
  BY ViewInit, <1>1, PTL DEF Spec

\* A saved document, opened again, answers what the session answered, through
\* any number of saves, full and incremental, and of sessions over what was
\* saved.  The numbers are fewer than half of MAX_INLINE_DEPTH; the documents
\* at the beginning have their keys from what they hold, only generation 0,
\* and tables that find last copies.
THEOREM ReopenCorrect == ASSUME RoomyDocuments PROVE Spec => []ReopenSeesSession
<1>1. ViewInv => ReopenSeesSession
  BY DEF ViewInv
<1> QED
  BY <1>1, ViewInvariant, PTL

\* What was saved gives the same objects by a scan, though the file may hold
\* earlier copies of them (ObjectTable::rebuild).
THEOREM ScanCorrect == ASSUME RoomyDocuments PROVE Spec => []ScanSeesSession
<1>1. ViewInv => ScanSeesSession
  <2> SUFFICES ASSUME ViewInv, saved # NoFile, NEW n \in Live \ {saved.encNum}
               PROVE  Content([saved EXCEPT !.table = LastCopies(saved.file)], n) = Fetch(n)
    BY DEF ScanSeesSession
  <2>1. SessionTypeOK /\ IsDocument(base) /\ IsDocument(saved) /\ Firm(saved)
    BY DEF ViewInv, SessionInv
  <2>2. Fetch(n) # Null
    BY <2>1, LiveIsReached DEF RoomyDocuments
  <2>3. n \in Mentioned
    BY DEF Mentioned
  <2>4. Content(saved, n) = Fetch(n)
    BY <2>2, <2>3 DEF ViewInv, ReopenSeesSession
  <2> QED
    BY <2>1, <2>2, <2>4, ScanFinds DEF Firm
<1> QED
  BY <1>1, ViewInvariant, PTL

----------------------------------------------------------------------------
(* The session beside the pages: PageEdits' theorems, of the pages the     *)
(* composition moves.  Moved and Moving are one instance under two names.  *)

Moved == INSTANCE PageEditsProofs WITH
             base <- pageBase, Numbers <- PageNumbers, Root <- PageRoot, Bases <- PageBases

LEMMA SameFiles == Moved!PageTreeFiles <=> Moving!PageTreeFiles
BY DEF Moved!PageTreeFiles, Moving!PageTreeFiles, Moved!PageTreeOf, Moving!PageTreeOf,
       Moved!Node, Moving!Node, Moved!ToSet, Moving!ToSet, Moved!InUse, Moving!InUse,
       Moved!Cardinality, Moving!Cardinality, Moved!IsFiniteSet, Moving!IsFiniteSet

LEMMA SameType == Moved!TypeOK <=> Moving!TypeOK
BY DEF Moved!TypeOK, Moving!TypeOK, Moved!Node, Moving!Node, Moved!ToSet, Moving!ToSet,
       Moved!Leaves, Moving!Leaves, Moved!FlattenSeq, Moving!FlattenSeq

LEMMA SameInit == Moved!Init <=> Moving!Init
BY DEF Moved!Init, Moving!Init, Moved!InUse, Moving!InUse, Moved!Cardinality, Moving!Cardinality

LEMMA SameAdd ==
    ASSUME NEW count, NEW v, NEW i
    PROVE  Moved!AddPages(count, v, i) <=> Moving!AddPages(count, v, i)
BY DEF Moved!AddPages, Moving!AddPages, Moved!Inserted, Moving!Inserted,
       Moved!Inherited, Moving!Inherited, Moved!InUse, Moving!InUse,
       Moved!Called, Moving!Called, Moved!ToSet, Moving!ToSet

LEMMA SameDelete == Moved!DeletePages <=> Moving!DeletePages
BY DEF Moved!DeletePages, Moving!DeletePages, Moved!Called, Moving!Called,
       Moved!Leaves, Moving!Leaves, Moved!FlattenSeq, Moving!FlattenSeq, Moved!ToSet, Moving!ToSet,
       Moved!FoldSet, Moving!FoldSet, Moved!MapThenFoldSet, Moving!MapThenFoldSet,
       Moved!Unlink, Moving!Unlink, Moved!Without, Moving!Without, Moved!InUse, Moving!InUse,
       Moved!DecrementCounts, Moving!DecrementCounts, Moved!Lineage, Moving!Lineage

LEMMA SameTurn == Moved!SetPageRotation <=> Moving!SetPageRotation
BY DEF Moved!SetPageRotation, Moving!SetPageRotation, Moved!Called, Moving!Called,
       Moved!Leaves, Moving!Leaves, Moved!FlattenSeq, Moving!FlattenSeq, Moved!ToSet, Moving!ToSet

LEMMA SameReorder == Moved!ReorderPages <=> Moving!ReorderPages
BY DEF Moved!ReorderPages, Moving!ReorderPages, Moved!Called, Moving!Called,
       Moved!Reordered, Moving!Reordered, Moved!Inherited, Moving!Inherited,
       Moved!Leaves, Moving!Leaves, Moved!FlattenSeq, Moving!FlattenSeq, Moved!ToSet, Moving!ToSet,
       Moved!InUse, Moving!InUse, Moved!IsInjective, Moving!IsInjective

LEMMA SameNext == Moved!Next <=> Moving!Next
BY SameAdd, SameDelete, SameTurn, SameReorder
DEF Moved!Next, Moving!Next, Moved!AddBlankPage, Moving!AddBlankPage,
    Moved!ImportPages, Moving!ImportPages, Moved!Places, Moving!Places

LEMMA SameListing == \A t : Moved!Listing(t) = Moving!Listing(t)
BY DEF Moved!Listing, Moving!Listing, Moved!Leaves, Moving!Leaves,
       Moved!FlattenSeq, Moving!FlattenSeq, Moved!Inherited, Moving!Inherited,
       Moved!InUse, Moving!InUse

LEMMA SameList ==
    /\ Moved!List!Init <=> Moving!List!Init
    /\ [Moved!List!Next]_(Moved!List!vars) <=> [Moving!List!Next]_(Moving!List!vars)
<1>1. /\ Moved!Listing(pageBase) = Moving!Listing(pageBase)
      /\ Moved!Listing(tree) = Moving!Listing(tree)
  BY SameListing
<1>2. /\ Moved!Listing(pageBase') = Moving!Listing(pageBase')
      /\ Moved!Listing(tree') = Moving!Listing(tree')
  BY SameListing
<1>3. Moved!List!Init <=> Moving!List!Init
  BY <1>1 DEF Moved!List!Init, Moving!List!Init
<1>4. Moved!List!Next <=> Moving!List!Next
  BY <1>1, <1>2
  DEF Moved!List!Next, Moving!List!Next, Moved!List!Add, Moving!List!Add,
      Moved!List!Delete, Moving!List!Delete, Moved!List!FlattenSeq, Moving!List!FlattenSeq,
      Moved!List!Turn, Moving!List!Turn, Moved!List!Reorder, Moving!List!Reorder
<1>5. Moved!List!vars = Moving!List!vars /\ (Moved!List!vars)' = (Moving!List!vars)'
  BY <1>1, <1>2 DEF Moved!List!vars, Moving!List!vars
<1> QED
  BY <1>3, <1>4, <1>5

\* Each part of the composition behaves as it does by itself.
LEMMA PartsAlone == MCSpec => Spec /\ Moved!Spec
<1>1. MCInit => Init /\ Moved!Init
  BY SameInit DEF MCInit
<1>2. [MCNext]_allVars => [Next]_vars
  BY DEF MCNext, allVars, vars
<1>3. [MCNext]_allVars => [Moved!Next]_(Moved!vars)
  BY SameNext DEF MCNext, allVars, pageVars, Moved!vars
<1> QED
  BY <1>1, <1>2, <1>3, PTL DEF MCSpec, Spec, Moved!Spec

\* The overlay and what a save writes keep their shape, and beside them the
\* page tree, in which every page is listed by the node it names as its parent.
THEOREM EditingTypeCorrect == ASSUME MaxCalls \in Nat PROVE MCSpec => []EditingTypeOK
<1>1. Spec => []TypeOK
  BY WriterTypeCorrect
<1>2. Moved!Spec => []Moved!TypeOK
  BY FilesHavePageTrees, SameFiles, Moved!TreeKeepsShape
<1>3. TypeOK /\ Moved!TypeOK => EditingTypeOK
  BY SameType DEF EditingTypeOK
<1> QED
  BY <1>1, <1>2, <1>3, PartsAlone, PTL

\* Each call of pages.rs does to the list of pages what it says, beside any
\* changes and saves of other objects.
THEOREM PageListBeside == ASSUME MaxCalls \in Nat PROVE MCSpec => ImplementsPageList
<1>1. Moved!Spec => Moved!ImplementsPageList
  BY FilesHavePageTrees, SameFiles, Moved!EditsImplementPageList
<1>2. Moved!List!Init => Moving!List!Init
  BY SameList
<1>3. [Moved!List!Next]_(Moved!List!vars) => [Moving!List!Next]_(Moving!List!vars)
  BY SameList
<1>4. Moved!ImplementsPageList => ImplementsPageList
  BY <1>2, <1>3, PTL
  DEF Moved!ImplementsPageList, ImplementsPageList, Moving!ImplementsPageList,
      Moved!List!Spec, Moving!List!Spec
<1> QED
  BY <1>1, <1>4, PartsAlone

=============================================================================
