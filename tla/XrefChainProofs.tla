------------------------- MODULE XrefChainProofs -------------------------
(***************************************************************************)
(* What an opened document was opened from: its whole chain of sections,   *)
(* or a scan of the file; that its trailer is the newest of either; and    *)
(* that its table leads to the newest copies that either knows of.         *)
(***************************************************************************)
EXTENDS XrefChain, FiniteSetTheorems, SequenceTheorems, FoldProofs, TLAPS

(***************************************************************************)
(* What the model reads off file, as functions of a file: no step changes  *)
(* the file, and these have the same value before and after it.            *)
(***************************************************************************)
ItemOf(f, p)   == IF p \in DOMAIN f THEN f[p] ELSE Junk
TableIn(f, p)  == ItemOf(f, p).what = "table"
StreamIn(f, p) == ItemOf(f, p).what = "stream" /\ ~ItemOf(f, p).bad
PrevIn(f, p)   == Key(ItemOf(f, p).dict, "Prev")
HybridIn(f, p) == Key(ItemOf(f, p).dict, "XRefStm")
StartIn(f) ==
    LET S == {p \in DOMAIN f : f[p].what = "startxref"}
        last == CHOOSE p \in S : \A q \in S : q <= p IN
    IF S = {} \/ f[last].names \notin DOMAIN f THEN 0 ELSE f[last].names

LEMMA ReadsFile ==
    /\ StartXref = StartIn(file)
    /\ \A p : /\ ItemAt(p) = ItemOf(file, p)
              /\ IsTable(p) <=> TableIn(file, p)
              /\ IsStream(p) <=> StreamIn(file, p)
BY DEF StartXref, StartIn, ItemAt, ItemOf, IsTable, TableIn, IsStream, StreamIn

LEMMA JunkIsNoSection ==
    /\ Junk.what = "junk" /\ Key(Junk.dict, "Prev") = 0
    /\ \A f, p : TableIn(f, p) \/ StreamIn(f, p) => p \in DOMAIN f /\ ItemOf(f, p) = f[p]
BY DEF Junk, Key, TableIn, StreamIn, ItemOf

LEMMA FileFacts ==
    ASSUME NEW f \in Files
    PROVE  /\ Len(f) \in Nat /\ DOMAIN f = 1..Len(f)
           /\ \A p : PrevIn(f, p) \in Nat /\ HybridIn(f, p) \in Nat
<1>1. Len(f) \in Nat /\ DOMAIN f = 1..Len(f)
  BY FilesAssumption
<1>2. \A p \in DOMAIN f : \A k : Key(f[p].dict, k) \in Nat
  BY FilesAssumption DEF IsItem, Key
<1>3. \A k : Key(Junk.dict, k) \in Nat
  BY DEF Junk, Key
<1> QED
  BY <1>1, <1>2, <1>3 DEF PrevIn, HybridIn, ItemOf

----------------------------------------------------------------------------
(* The chain, as the walk lists it.                                        *)

Where(s) == IF s.table = 0 THEN s.stream ELSE s.table

Section == [table : Nat, stream : Nat]

\* A section of the list: a table with its hybrid stream, or a stream.
Listed(f, s) ==
    \/ s.table # 0 /\ TableIn(f, s.table) /\ s.stream = HybridIn(f, s.table)
    \/ s.table = 0 /\ s.stream # 0 /\ StreamIn(f, s.stream)

\* The list is the chain from its start down to what nxt is next of.
Walked(f, list, nxt, been) ==
    /\ list \in Seq(Section) /\ Len(list) >= 1
    /\ Where(list[Len(list)]) = StartIn(f)
    /\ \A i \in 1..Len(list) : i # Len(list) => Where(list[i]) = PrevIn(f, Where(list[i + 1]))
    /\ nxt = PrevIn(f, Where(list[1]))
    /\ \A i \in 1..Len(list) : Listed(f, list[i]) /\ Where(list[i]) \in been
    /\ \A i, j \in 1..Len(list) : Where(list[i]) = Where(list[j]) => i = j

\* What WalkEnds records of the list.
Noted(list, notes) ==
    /\ Len(notes) = Len(list)
    /\ \A i \in 1..Len(list) :
         notes[i].offset = IF list[i].stream > 0 THEN list[i].stream ELSE list[i].table

\* The i-th section of the list has been read.
Loaded(f, list, i) ==
    /\ list[i].table # 0 => ~f[list[i].table].bad
    /\ i # 1 /\ list[i].stream # 0 => StreamIn(f, list[i].stream)

WalkInv ==
    /\ file \in Files
    /\ pc \in Ended \union {"start", "walk", "oldest", "newer", "scan",
                            "catalog", "rescan", "again"}
    /\ pc = "start" => ~rebuilt
    /\ pc = "walk" => ~rebuilt /\ Walked(file, sections, next, seen)
    /\ pc \in {"oldest", "newer"} => /\ ~rebuilt
                                     /\ Walked(file, sections, 0, seen)
                                     /\ Noted(sections, recorded)
    /\ pc = "newer" => /\ cursor \in Nat /\ cursor >= 2
                       /\ \A i \in 1..Len(sections) : i < cursor => Loaded(file, sections, i)
    /\ pc = "again" => rebuilt
    /\ pc \in {"catalog", "open"} /\ ~rebuilt =>
         /\ Walked(file, sections, 0, seen)
         /\ Noted(sections, recorded)
         /\ \A i \in 1..Len(sections) : Loaded(file, sections, i)

LEMMA WalkInit == Init => WalkInv
BY DEF Init, WalkInv

\* The newest section is a list of one.
LEMMA WalkStart == WalkInv /\ Start => WalkInv'
<1> SUFFICES ASSUME WalkInv, Start PROVE WalkInv'
  OBVIOUS
<1> DEFINE p == StartIn(file)
<1>0. file \in Files /\ file' = file /\ rebuilt' = rebuilt /\ ~rebuilt
  BY DEF WalkInv, Start
<1>1. CASE p # 0 /\ TableIn(file, p) /\ sections' = <<[table |-> p, stream |-> HybridIn(file, p)]>>
           /\ seen' = {p} /\ next' = PrevIn(file, p) /\ pc' = "walk"
  <2>1. Walked(file, sections', next', seen')
    BY <1>0, <1>1, FileFacts, JunkIsNoSection DEF Walked, Where, Listed, Section
  <2> QED
    BY <1>0, <1>1, <2>1 DEF WalkInv, Ended
<1>2. CASE p # 0 /\ StreamIn(file, p) /\ sections' = <<[table |-> 0, stream |-> p]>>
           /\ seen' = {p} /\ next' = PrevIn(file, p) /\ pc' = "walk"
  <2>1. Walked(file, sections', next', seen')
    BY <1>0, <1>2, FileFacts, JunkIsNoSection DEF Walked, Where, Listed, Section
  <2> QED
    BY <1>0, <1>2, <2>1 DEF WalkInv, Ended
<1>3. CASE pc' = "scan"
  BY <1>0, <1>3 DEF WalkInv, Ended
<1> QED
  <2>1. TableIn(file, p) \/ StreamIn(file, p) => ItemOf(file, p) = file[p]
    BY JunkIsNoSection
  <2> QED
    BY <1>1, <1>2, <1>3, <2>1, ReadsFile DEF Start, Abandon, PrevIn, HybridIn

LEMMA PutInFront ==
    ASSUME NEW S, NEW s \in S, NEW list \in Seq(S)
    PROVE  /\ <<s>> \o list \in Seq(S) /\ Len(<<s>> \o list) = Len(list) + 1
           /\ (<<s>> \o list)[1] = s
           /\ \A i \in 1..Len(list) : (<<s>> \o list)[i + 1] = list[i]
OBVIOUS

\* An older section is put in front of a list that does not have it.
LEMMA Prepended ==
    ASSUME NEW f \in Files, NEW list, NEW nxt, NEW been, NEW s,
           Walked(f, list, nxt, been), nxt \notin been, nxt # 0,
           s \in Section, Where(s) = nxt, Listed(f, s)
    PROVE  Walked(f, <<s>> \o list, PrevIn(f, nxt), been \union {nxt})
<1>0. PICK m : m = Len(list)
  OBVIOUS
<1>9. PICK l : l = <<s>> \o list
  OBVIOUS
<1>1. /\ list \in Seq(Section) /\ m \in Nat /\ m >= 1
      /\ Where(list[m]) = StartIn(f)
      /\ \A i \in 1..m : i # m => Where(list[i]) = PrevIn(f, Where(list[i + 1]))
      /\ nxt = PrevIn(f, Where(list[1]))
      /\ \A i \in 1..m : Listed(f, list[i]) /\ Where(list[i]) \in been
      /\ \A i, j \in 1..m : Where(list[i]) = Where(list[j]) => i = j
  BY <1>0 DEF Walked
<1>2. l \in Seq(Section) /\ Len(l) = m + 1
  BY <1>0, <1>1, <1>9, PutInFront
<1>3. l[1] = s /\ \A i \in 1..m : l[i + 1] = list[i]
  BY <1>0, <1>1, <1>9, PutInFront
<1>4. \A i \in 1..m + 1 : i = 1 \/ (i - 1 \in 1..m /\ l[i] = list[i - 1])
  BY <1>1, <1>3
<1>5. Where(l[m + 1]) = StartIn(f)
  BY <1>1, <1>3
<1>6. \A i \in 1..m + 1 : i # m + 1 => Where(l[i]) = PrevIn(f, Where(l[i + 1]))
  <2> TAKE i \in 1..m + 1
  <2> HAVE i # m + 1
  <2>1. CASE i = 1
    BY <1>1, <1>3, <2>1
  <2>2. CASE i # 1
    BY <1>1, <1>3, <1>4, <2>2
  <2> QED
    BY <2>1, <2>2
<1>7. \A i \in 1..m + 1 : Listed(f, l[i]) /\ Where(l[i]) \in been \union {nxt}
  BY <1>1, <1>3, <1>4
<1>8. \A i, j \in 1..m + 1 : Where(l[i]) = Where(l[j]) => i = j
  BY <1>1, <1>3, <1>4
<1>10. PrevIn(f, nxt) = PrevIn(f, Where(l[1]))
  BY <1>3
<1>11. Walked(f, l, PrevIn(f, nxt), been \union {nxt})
  BY <1>1, <1>2, <1>5, <1>6, <1>7, <1>8, <1>10 DEF Walked
<1> QED
  BY <1>9, <1>11

LEMMA WalkVisit == WalkInv /\ Visit => WalkInv'
<1> SUFFICES ASSUME WalkInv, Visit PROVE WalkInv'
  OBVIOUS
<1>0. /\ file \in Files /\ file' = file /\ rebuilt' = rebuilt /\ ~rebuilt
      /\ Walked(file, sections, next, seen) /\ next # 0
  BY DEF WalkInv, Visit
<1>1. CASE /\ next \notin seen /\ StreamIn(file, next)
           /\ sections' = <<[table |-> 0, stream |-> next]>> \o sections
           /\ seen' = seen \union {next} /\ next' = PrevIn(file, next) /\ pc' = pc
  <2>1. Walked(file, sections', next', seen')
    <3> DEFINE s == [table |-> 0, stream |-> next]
    <3>1. s \in Section /\ Where(s) = next /\ Listed(file, s)
      BY <1>0, <1>1, FileFacts, JunkIsNoSection DEF Where, Listed, Section
    <3> QED
      BY <1>0, <1>1, <3>1, Prepended
  <2> QED
    BY <1>0, <1>1, <2>1 DEF WalkInv, Ended, Visit
<1>2. CASE /\ next \notin seen /\ TableIn(file, next)
           /\ sections' = <<[table |-> next, stream |-> HybridIn(file, next)]>> \o sections
           /\ seen' = seen \union {next} /\ next' = PrevIn(file, next) /\ pc' = pc
  <2>1. Walked(file, sections', next', seen')
    <3> DEFINE s == [table |-> next, stream |-> HybridIn(file, next)]
    <3>1. s \in Section /\ Where(s) = next /\ Listed(file, s)
      BY <1>0, <1>2, FileFacts, JunkIsNoSection DEF Where, Listed, Section
    <3> QED
      BY <1>0, <1>2, <3>1, Prepended
  <2> QED
    BY <1>0, <1>2, <2>1 DEF WalkInv, Ended, Visit
<1>3. CASE pc' = "scan"
  BY <1>0, <1>3 DEF WalkInv, Ended
<1> QED
  <2>1. TableIn(file, next) \/ StreamIn(file, next) => ItemOf(file, next) = file[next]
    BY JunkIsNoSection
  <2> QED
    BY <1>1, <1>2, <1>3, <2>1, ReadsFile DEF Visit, Abandon, PrevIn, HybridIn

LEMMA WalkWalkEnds == WalkInv /\ WalkEnds => WalkInv'
<1> SUFFICES ASSUME WalkInv, WalkEnds PROVE WalkInv'
  OBVIOUS
<1>1. /\ file \in Files /\ file' = file /\ rebuilt' = rebuilt /\ ~rebuilt
      /\ sections' = sections /\ seen' = seen /\ pc' = "oldest"
      /\ Walked(file, sections, 0, seen)
  BY DEF WalkInv, WalkEnds
<1>2. DOMAIN sections = 1..Len(sections) /\ Len(sections) \in Nat
  BY <1>1 DEF Walked
<1>3. Noted(sections, recorded')
  <2> DEFINE note(i) == [offset |-> IF sections[i].stream > 0 THEN sections[i].stream
                                                              ELSE sections[i].table,
                         is_stream |-> sections[i].stream > 0]
  <2>1. recorded' = [i \in 1..Len(sections) |-> note(i)]
    BY <1>2 DEF WalkEnds
  <2>2. Len(recorded') = Len(sections)
    BY <1>2, <2>1
  <2>3. \A i \in 1..Len(sections) : recorded'[i] = note(i)
    BY <2>1
  <2>4. \A i \in 1..Len(sections) :
           note(i).offset = IF sections[i].stream > 0 THEN sections[i].stream
                                                      ELSE sections[i].table
    OBVIOUS
  <2> HIDE DEF note
  <2> QED
    BY <2>2, <2>3, <2>4 DEF Noted
<1> QED
  BY <1>1, <1>3 DEF WalkInv, Ended

LEMMA WalkOldest == WalkInv /\ ReadOldest => WalkInv'
<1> SUFFICES ASSUME WalkInv, ReadOldest PROVE WalkInv'
  OBVIOUS
<1>1. /\ file \in Files /\ file' = file /\ rebuilt' = rebuilt /\ ~rebuilt
      /\ sections' = sections /\ seen' = seen /\ recorded' = recorded
      /\ Walked(file, sections, 0, seen) /\ Noted(sections, recorded)
  BY DEF WalkInv, ReadOldest
<1>2. CASE pc' = "newer" /\ cursor' = 2 /\ (sections[1].table # 0 => ~file[sections[1].table].bad)
  <2>1. \A i \in 1..Len(sections) : i < 2 => Loaded(file, sections, i)
    BY <1>1, <1>2 DEF Walked, Loaded
  <2> QED
    BY <1>1, <1>2, <2>1 DEF WalkInv, Ended
<1>3. CASE pc' = "scan"
  BY <1>1, <1>3 DEF WalkInv, Ended
<1>4. \/ pc' = "newer" /\ cursor' = 2 /\ (sections[1].table # 0 => ~file[sections[1].table].bad)
      \/ pc' = "scan"
  BY DEF ReadOldest, Abandon
<1> QED
  BY <1>2, <1>3, <1>4

LEMMA WalkNewer == WalkInv /\ ReadNewer => WalkInv'
<1> SUFFICES ASSUME WalkInv, ReadNewer PROVE WalkInv'
  OBVIOUS
<1>1. /\ file \in Files /\ file' = file /\ rebuilt' = rebuilt /\ ~rebuilt
      /\ sections' = sections /\ seen' = seen /\ recorded' = recorded
      /\ Walked(file, sections, 0, seen) /\ Noted(sections, recorded)
      /\ cursor \in Nat /\ cursor >= 2
      /\ \A i \in 1..Len(sections) : i < cursor => Loaded(file, sections, i)
  BY DEF WalkInv, ReadNewer
<1>2. CASE /\ pc' = "newer" /\ cursor' = cursor + 1
           /\ sections[cursor].table # 0 => ~file[sections[cursor].table].bad
           /\ sections[cursor].stream # 0 => StreamIn(file, sections[cursor].stream)
  <2>1. \A i \in 1..Len(sections) : i < cursor + 1 => Loaded(file, sections, i)
    <3>1. \A i \in 1..Len(sections) : i < cursor + 1 => i < cursor \/ i = cursor
      BY <1>1
    <3>2. Loaded(file, sections, cursor)
      BY <1>2 DEF Loaded
    <3> QED
      BY <1>1, <3>1, <3>2
  <2> QED
    BY <1>1, <1>2, <2>1 DEF WalkInv, Ended
<1>3. CASE pc' = "scan"
  BY <1>1, <1>3 DEF WalkInv, Ended
<1> QED
  BY <1>2, <1>3, ReadsFile DEF ReadNewer, Abandon

LEMMA WalkRest == WalkInv /\ (ChainEnds \/ ScanItem \/ ScanEnds \/ CatalogCheck \/ TimeOut) => WalkInv'
<1> SUFFICES ASSUME WalkInv, ChainEnds \/ ScanItem \/ ScanEnds \/ CatalogCheck \/ TimeOut
             PROVE  WalkInv'
  OBVIOUS
<1>1. file \in Files /\ file' = file
  BY DEF WalkInv, ChainEnds, ScanItem, ScanEnds, CatalogCheck, TimeOut
<1>2. CASE ChainEnds
  <2>1. /\ ~rebuilt /\ rebuilt' = rebuilt
        /\ sections' = sections /\ seen' = seen /\ recorded' = recorded
        /\ Walked(file, sections, 0, seen) /\ Noted(sections, recorded)
        /\ cursor \in Nat /\ cursor > Len(sections)
        /\ \A i \in 1..Len(sections) : i < cursor => Loaded(file, sections, i)
        /\ (pc' = "catalog" \/ pc' = "scan")
    BY <1>2 DEF WalkInv, ChainEnds, Abandon
  <2>2. \A i \in 1..Len(sections) : i < cursor
    BY <2>1 DEF Walked
  <2>3. \A i \in 1..Len(sections) : Loaded(file, sections, i)
    BY <2>1, <2>2
  <2> QED
    BY <1>1, <2>1, <2>3 DEF WalkInv, Ended
<1>3. CASE ScanItem
  BY <1>1, <1>3 DEF WalkInv, ScanItem, Scanning, Ended
<1>4. CASE ScanEnds
  BY <1>1, <1>4 DEF WalkInv, ScanEnds, Ended
<1>5. CASE CatalogCheck
  BY <1>1, <1>5 DEF WalkInv, CatalogCheck, Ended
<1>6. CASE TimeOut
  BY <1>1, <1>6 DEF WalkInv, TimeOut, Ended
<1> QED
  BY <1>2, <1>3, <1>4, <1>5, <1>6

LEMMA WalkStep == WalkInv /\ [Next]_vars => WalkInv'
<1>1. WalkInv /\ UNCHANGED vars => WalkInv'
  BY DEF vars, WalkInv
<1> QED
  BY <1>1, WalkStart, WalkVisit, WalkWalkEnds, WalkOldest, WalkNewer, WalkRest DEF Next

----------------------------------------------------------------------------
(* The chain that a list of its sections determines.                       *)

\* at is read off the file one position after another.
Follows(f, at) ==
    at = [k \in 1..Len(f) + 1 |-> IF k = 1 THEN StartIn(f) ELSE PrevIn(f, at[k - 1])]

LEMMA ChainFollows ==
    ASSUME NEW at, Follows(file, at)
    PROVE  Follows(file, Chain)
<1>1. Chain = CHOOSE c : Follows(file, c)
  BY ReadsFile DEF Chain, Follows, PrevIn
<1> QED
  BY <1>1

LEMMA FollowsOnce ==
    ASSUME NEW f \in Files, NEW g, NEW h, Follows(f, g), Follows(f, h)
    PROVE  \A k \in 1..Len(f) + 1 : g[k] = h[k]
<1> DEFINE N == {k \in Nat : k \in 1..Len(f) + 1 /\ g[k] # h[k]}
<1>1. Len(f) \in Nat
  BY FileFacts
<1>2. \A k \in 1..Len(f) + 1 :
        /\ g[k] = IF k = 1 THEN StartIn(f) ELSE PrevIn(f, g[k - 1])
        /\ h[k] = IF k = 1 THEN StartIn(f) ELSE PrevIn(f, h[k - 1])
  BY DEF Follows
<1>3. ASSUME N # {} PROVE FALSE
  <2>1. PICK m \in N : \A n \in N : m <= n
    BY <1>3, LeastNatural
  <2>2. m # 1
    BY <1>2, <2>1
  <2>3. m - 1 \in 1..Len(f) + 1 /\ m - 1 \notin N
    BY <1>1, <2>1, <2>2
  <2>4. g[m - 1] = h[m - 1]
    BY <2>3
  <2> QED
    BY <1>2, <2>1, <2>2, <2>4
<1> QED
  BY <1>1, <1>3

\* There are no more sections than positions in the file.
LEMMA WalkedFits ==
    ASSUME NEW f \in Files, NEW list, NEW nxt, NEW been, Walked(f, list, nxt, been)
    PROVE  Len(list) \in Nat /\ Len(list) <= Len(f)
<1>0. PICK m : m = Len(list)
  OBVIOUS
<1>1. m \in Nat /\ Len(f) \in Nat /\ DOMAIN f = 1..Len(f)
  BY <1>0, FileFacts DEF Walked
<1>2. \A i \in 1..m : Where(list[i]) \in 1..Len(f)
  <2>1. \A i \in 1..m : Listed(f, list[i])
    BY <1>0 DEF Walked
  <2> QED
    BY <1>1, <2>1, JunkIsNoSection DEF Listed, Where
<1> DEFINE g == [i \in 1..m |-> Where(list[i])]
<1>3. g \in Injection(1..m, 1..Len(f))
  <2>1. g \in [1..m -> 1..Len(f)]
    BY <1>2
  <2>2. \A i, j \in 1..m : g[i] = g[j] => i = j
    BY <1>0 DEF Walked
  <2> QED
    BY <2>1, <2>2 DEF Injection, IsInjective
<1> HIDE DEF g
<1>4. \A q \in Nat : IsFiniteSet(1..q) /\ Cardinality(1..q) = q
  <2> TAKE q \in Nat
  <2>1. Cardinality(1..q) = IF 1 > q THEN 0 ELSE q - 1 + 1
    BY FS_Interval
  <2> QED
    BY <2>1, FS_Interval
<1>5. Cardinality(1..m) <= Cardinality(1..Len(f))
  BY <1>3, <1>4, FS_Injection
<1> QED
  BY <1>0, <1>1, <1>4, <1>5

LEMMA ChainIsWalked ==
    ASSUME file \in Files, Walked(file, sections, 0, seen)
    PROVE  /\ ChainLength = Len(sections)
           /\ \A k \in 1..Len(sections) : Chain[k] = Where(sections[Len(sections) + 1 - k])
<1>0. PICK m, n : m = Len(sections) /\ n = Len(file)
  OBVIOUS
<1>1. m \in Nat /\ m >= 1 /\ m <= n /\ n \in Nat
  BY <1>0, WalkedFits, FileFacts DEF Walked
<1>2. /\ Where(sections[m]) = StartIn(file)
      /\ \A i \in 1..m : i # m => Where(sections[i]) = PrevIn(file, Where(sections[i + 1]))
      /\ 0 = PrevIn(file, Where(sections[1]))
      /\ \A i \in 1..m : Where(sections[i]) \in 1..n
  <2>1. DOMAIN file = 1..n /\ \A i \in 1..m : Listed(file, sections[i])
    BY <1>0, FileFacts DEF Walked
  <2>2. \A i \in 1..m : Where(sections[i]) \in 1..n
    BY <2>1, JunkIsNoSection DEF Listed, Where
  <2> QED
    BY <1>0, <2>2 DEF Walked
<1>3. PrevIn(file, 0) = 0
  <2>1. 0 \notin DOMAIN file
    BY <1>1, FileFacts
  <2> QED
    BY <2>1, JunkIsNoSection DEF PrevIn, ItemOf
<1> DEFINE g == [k \in 1..n + 1 |-> IF k <= m THEN Where(sections[m + 1 - k]) ELSE 0]
<1>4. Follows(file, g)
  <2>1. \A k \in 1..n + 1 : g[k] = IF k <= m THEN Where(sections[m + 1 - k]) ELSE 0
    OBVIOUS
  <2>2. \A k \in 1..n + 1 : g[k] = IF k = 1 THEN StartIn(file) ELSE PrevIn(file, g[k - 1])
    <3> HIDE DEF g
    <3> TAKE k \in 1..n + 1
    <3>1. CASE k = 1
      BY <1>1, <1>2, <2>1, <3>1
    <3>2. CASE k # 1 /\ k <= m
      <4>1. g[k] = Where(sections[m + 1 - k]) /\ g[k - 1] = Where(sections[m + 1 - (k - 1)])
        BY <1>1, <2>1, <3>2
      <4>2. m + 1 - k \in 1..m /\ m + 1 - k # m /\ m + 1 - (k - 1) = (m + 1 - k) + 1
        BY <1>1, <3>2
      <4> QED
        BY <1>2, <3>2, <4>1, <4>2
    <3>3. CASE k = m + 1
      <4>1. g[k] = 0 /\ g[k - 1] = Where(sections[1])
        BY <1>1, <2>1, <3>3
      <4> QED
        BY <1>1, <1>2, <3>3, <4>1
    <3>4. CASE k > m + 1
      <4>1. g[k] = 0 /\ g[k - 1] = 0
        BY <1>1, <2>1, <3>4
      <4> QED
        BY <1>1, <1>3, <3>4, <4>1
    <3> QED
      BY <1>1, <3>1, <3>2, <3>3, <3>4
  <2> QED
    BY <1>0, <2>2 DEF Follows
<1>5. Follows(file, Chain)
  BY <1>4, ChainFollows
<1>6. DOMAIN Chain = 1..n + 1
  BY <1>0, <1>5 DEF Follows
<1>7. \A k \in 1..n + 1 : Chain[k] = IF k <= m THEN Where(sections[m + 1 - k]) ELSE 0
  BY <1>0, <1>4, <1>5, FollowsOnce
<1> HIDE DEF g
<1>8. \A k \in 1..n + 1 : Chain[k] = 0 <=> k > m
  BY <1>1, <1>2, <1>7
<1>9. ChainLength = m
  <2> DEFINE S == {k \in DOMAIN Chain : Chain[k] = 0}
             least == CHOOSE k \in S : \A j \in S : k <= j
  <2>1. m + 1 \in S /\ \A j \in S : m + 1 <= j
    BY <1>1, <1>6, <1>8
  <2>2. least \in S /\ \A j \in S : least <= j
    BY <2>1
  <2>3. least \in Nat /\ least <= m + 1 /\ m + 1 <= least
    BY <1>1, <1>6, <2>1, <2>2
  <2>4. ChainLength = IF S = {} THEN 0 ELSE least - 1
    BY Zenon DEF ChainLength
  <2> HIDE DEF S, least
  <2> QED
    BY <1>1, <2>1, <2>3, <2>4
<1> QED
  BY <1>0, <1>1, <1>7, <1>9

----------------------------------------------------------------------------

\* A document that was opened from its chain was opened from all of it, every
\* section readable and listed, oldest first.
THEOREM WholeChainCorrect == Spec => []AcceptedChainIsWhole
<1>1. WalkInv => AcceptedChainIsWhole
  <2> SUFFICES ASSUME WalkInv, pc = "open", ~rebuilt PROVE AcceptedChainIsWhole
    BY DEF AcceptedChainIsWhole
  <2>1. /\ file \in Files /\ Walked(file, sections, 0, seen) /\ Noted(sections, recorded)
        /\ \A i \in 1..Len(sections) : Loaded(file, sections, i)
    BY DEF WalkInv
  <2>2. PICK m : m = Len(sections)
    OBVIOUS
  <2>3. /\ ChainLength = m /\ m \in Nat /\ m >= 1 /\ Len(recorded) = m
        /\ \A k \in 1..m : Chain[k] = Where(sections[m + 1 - k])
    BY <2>1, <2>2, ChainIsWalked, WalkedFits DEF Walked, Noted
  <2>4. ASSUME NEW k \in 1..m
        PROVE  /\ (IsTable(Chain[k]) /\ ~file[Chain[k]].bad) \/ IsStream(Chain[k])
               /\ (k < m /\ IsTable(Chain[k]) /\ HybridOf(k) # 0) => IsStream(HybridOf(k))
               /\ recorded[m + 1 - k].offset \in {Chain[k], HybridOf(k)}
    <3>0. PICK i : i = m + 1 - k
      OBVIOUS
    <3>1. i \in 1..m /\ (k < m => i # 1)
      BY <2>3, <2>4, <3>0
    <3>2. PICK s : s = sections[i]
      OBVIOUS
    <3>3. /\ Listed(file, s) /\ s.stream \in Nat /\ s.table \in Nat
          /\ s.table # 0 => ~file[s.table].bad
          /\ k < m /\ s.stream # 0 => StreamIn(file, s.stream)
          /\ recorded[i].offset = IF s.stream > 0 THEN s.stream ELSE s.table
      <4>1. Listed(file, s) /\ s \in Section
        BY <2>1, <2>2, <3>1, <3>2 DEF Walked
      <4>2. /\ s.table # 0 => ~file[s.table].bad
            /\ k < m /\ s.stream # 0 => StreamIn(file, s.stream)
        BY <2>1, <2>2, <3>1, <3>2 DEF Loaded
      <4>3. recorded[i].offset = IF s.stream > 0 THEN s.stream ELSE s.table
        BY <2>1, <2>2, <3>1, <3>2 DEF Noted
      <4> QED
        BY <4>1, <4>2, <4>3 DEF Section
    <3>4. Chain[k] = Where(s)
      BY <2>3, <3>0, <3>2
    <3>5. CASE s.table # 0
      <4>1. Chain[k] = s.table /\ TableIn(file, s.table) /\ s.stream = HybridIn(file, s.table)
        BY <3>3, <3>4, <3>5 DEF Listed, Where
      <4>2. HybridOf(k) = s.stream
        BY <4>1, JunkIsNoSection DEF HybridOf, HybridIn
      <4> QED
        BY <3>0, <3>3, <3>5, <4>1, <4>2, ReadsFile
    <3>6. CASE s.table = 0
      <4>1. Chain[k] = s.stream /\ s.stream # 0 /\ StreamIn(file, s.stream)
        BY <3>3, <3>4, <3>6 DEF Listed, Where
      <4>2. ~IsTable(Chain[k]) /\ IsStream(Chain[k])
        BY <4>1, ReadsFile DEF StreamIn, TableIn
      <4> QED
        BY <3>0, <3>3, <4>1, <4>2
    <3> QED
      BY <3>5, <3>6
  <2> QED
    BY <2>3, <2>4 DEF AcceptedChainIsWhole
<1> QED
  BY <1>1, WalkInit, WalkStep, PTL DEF Spec

----------------------------------------------------------------------------
(* Trailers.                                                               *)

RootIn(f, p) == f[p].dict["Root"]
Trailers(f, n) == {p \in DOMAIN f : p < n /\ f[p].what \in {"table", "stream"}}

\* A trailer that names this catalog.
Names(t, r) == "Root" \in DOMAIN t.dict /\ t.dict["Root"] = r

LEMMA WinnerNames ==
    ASSUME NEW base, NEW winner, NEW r, Names(winner, r)
    PROVE  Names(MergeTrailers(base, winner), r)
BY DEF Names, MergeTrailers, Pointers

LEMMA WalkNames ==
    ASSUME NEW acc, NEW section, NEW r, Names(acc, r)
    PROVE  Names(MergeIntoWalk(acc, section), r)
<1>1. acc # NoTrailer
  BY DEF Names, NoTrailer
<1>2. PICK m : m = MergeTrailers(section, acc)
  OBVIOUS
<1>3. Names(m, r)
  BY <1>2, WinnerNames
<1>4. MergeIntoWalk(acc, section) = [m EXCEPT !.number = acc.number]
  BY <1>1, <1>2 DEF MergeIntoWalk
<1>5. [m EXCEPT !.number = acc.number].dict = m.dict
  OBVIOUS
<1> QED
  BY <1>3, <1>4, <1>5 DEF Names

\* What a scan has of trailers when it is at n.
ScannedTo(f, n, s) ==
    /\ n \in Nat /\ n >= 1 /\ DOMAIN s = {"xref", "trailer", "has"}
    /\ IF s.has THEN /\ Trailers(f, n) # {}
                     /\ \E p \in Trailers(f, n) : /\ \A q \in Trailers(f, n) : q <= p
                                                  /\ Names(s.trailer, RootIn(f, p))
                ELSE Trailers(f, n) = {}

TrailerInv ==
    /\ WalkInv
    /\ pc \in {"scan", "rescan"} => ~rebuilt /\ ScannedTo(file, cursor, scanned)
    /\ pc \in {"walk", "oldest", "newer"} => Names(trailer, RootIn(file, StartIn(file)))
    /\ pc \in {"catalog", "open"} /\ ~rebuilt => Names(trailer, RootIn(file, StartIn(file)))
    /\ pc \in {"catalog", "again", "open"} /\ rebuilt =>
         \E p \in Trailers(file, Len(file) + 1) :
             /\ \A q \in Trailers(file, Len(file) + 1) : q <= p
             /\ Names(trailer, RootIn(file, p))

LEMMA ScanBegins ==
    ASSUME NEW f \in Files
    PROVE  ScannedTo(f, 1, Nothing)
<1>1. Trailers(f, 1) = {}
  BY FileFacts DEF Trailers
<1> QED
  BY <1>1 DEF ScannedTo, Nothing

LEMMA TrailerStart == RootsNamed /\ TrailerInv /\ Start => TrailerInv'
<1> SUFFICES ASSUME RootsNamed, TrailerInv, Start PROVE TrailerInv'
  OBVIOUS
<1>1. WalkInv /\ WalkInv' /\ file \in Files /\ file' = file /\ rebuilt' = rebuilt /\ ~rebuilt
  BY WalkStart DEF TrailerInv, WalkInv, Start
<1>2. CASE pc' = "scan" /\ cursor' = 1 /\ scanned' = Nothing
  BY <1>1, <1>2, ScanBegins DEF TrailerInv
<1>3. CASE /\ pc' = "walk"
           /\ TableIn(file, StartIn(file)) \/ StreamIn(file, StartIn(file))
           /\ trailer'.dict = file[StartIn(file)].dict
  <2>1. StartIn(file) \in DOMAIN file /\ file[StartIn(file)].what \in {"table", "stream"}
    BY <1>3, JunkIsNoSection DEF TableIn, StreamIn
  <2>2. Names(trailer', RootIn(file, StartIn(file)))
    BY <1>1, <1>3, <2>1 DEF Names, RootIn, RootsNamed
  <2> QED
    BY <1>1, <1>3, <2>2 DEF TrailerInv
<1> QED
  BY <1>2, <1>3, ReadsFile DEF Start, Abandon, TableTrailer, StreamTrailer

LEMMA TrailerChain ==
    RootsNamed /\ TrailerInv /\ (Visit \/ WalkEnds \/ ReadOldest \/ ReadNewer \/ ChainEnds)
        => TrailerInv'
<1> SUFFICES ASSUME TrailerInv, Visit \/ WalkEnds \/ ReadOldest \/ ReadNewer \/ ChainEnds
             PROVE  TrailerInv'
  OBVIOUS
<1>1. /\ WalkInv /\ WalkInv' /\ file \in Files /\ file' = file /\ rebuilt' = rebuilt /\ ~rebuilt
      /\ Names(trailer, RootIn(file, StartIn(file)))
  BY WalkVisit, WalkWalkEnds, WalkOldest, WalkNewer, WalkRest
     DEF TrailerInv, WalkInv, Visit, WalkEnds, ReadOldest, ReadNewer, ChainEnds
<1>2. CASE pc' = "scan" /\ cursor' = 1 /\ scanned' = Nothing
  BY <1>1, <1>2, ScanBegins DEF TrailerInv
<1>3. CASE /\ pc' \in {"walk", "oldest", "newer", "catalog"}
           /\ Names(trailer', RootIn(file, StartIn(file)))
  BY <1>1, <1>3 DEF TrailerInv
<1>4. CASE Visit
  BY <1>1, <1>2, <1>3, <1>4, WalkNames DEF Visit, Abandon, TrailerInv
<1>5. CASE WalkEnds \/ ReadOldest \/ ReadNewer \/ ChainEnds
  BY <1>1, <1>2, <1>3, <1>5 DEF WalkEnds, ReadOldest, ReadNewer, ChainEnds, Abandon
<1> QED
  BY <1>4, <1>5

\* One more item, a section or not.
LEMMA TrailerScanItem == RootsNamed /\ TrailerInv /\ ScanItem => TrailerInv'
<1> SUFFICES ASSUME RootsNamed, TrailerInv, ScanItem PROVE TrailerInv'
  OBVIOUS
<1>1. /\ WalkInv' /\ file \in Files /\ file' = file /\ rebuilt' = rebuilt /\ pc' = pc /\ ~rebuilt
      /\ pc \in {"scan", "rescan"} /\ cursor \in Nat /\ cursor >= 1 /\ cursor <= Len(file)
      /\ ScannedTo(file, cursor, scanned) /\ cursor' = cursor + 1
      /\ DOMAIN file = 1..Len(file) /\ Len(file) \in Nat
  BY WalkRest, FileFacts DEF TrailerInv, WalkInv, ScanItem, Scanning, ScannedTo
<1>2. CASE file[cursor].what \in {"table", "stream"}
  <2>1. scanned'.has
        /\ \E t : t.dict = file[cursor].dict /\ scanned'.trailer = MergeTrailers(scanned.trailer, t)
    BY <1>1, <1>2 DEF ScannedTo, ScanItem, StreamTrailer, TableTrailer
  <2>2. PICK t : t.dict = file[cursor].dict /\ scanned'.trailer = MergeTrailers(scanned.trailer, t)
    BY <2>1
  <2>3. Names(t, RootIn(file, cursor))
    BY <1>1, <1>2, <2>2 DEF Names, RootIn, RootsNamed
  <2>4. Names(scanned'.trailer, RootIn(file, cursor))
    BY <2>2, <2>3, WinnerNames
  <2>5. cursor \in Trailers(file, cursor + 1) /\ \A q \in Trailers(file, cursor + 1) : q <= cursor
    BY <1>1, <1>2 DEF Trailers
  <2>7. DOMAIN scanned' = {"xref", "trailer", "has"}
    BY <1>1, <1>2 DEF ScanItem, ScannedTo
  <2>6. ScannedTo(file, cursor + 1, scanned')
    BY <1>1, <2>1, <2>4, <2>5, <2>7 DEF ScannedTo
  <2> QED
    BY <1>1, <2>6 DEF TrailerInv
<1>3. CASE file[cursor].what \notin {"table", "stream"}
  <2>1. scanned'.has = scanned.has /\ scanned'.trailer = scanned.trailer
    BY <1>1, <1>3 DEF ScanItem, ScannedTo
  <2>2. Trailers(file, cursor + 1) = Trailers(file, cursor)
    BY <1>1, <1>3 DEF Trailers
  <2>4. DOMAIN scanned' = {"xref", "trailer", "has"}
    BY <1>1, <1>3 DEF ScanItem, ScannedTo
  <2>3. ScannedTo(file, cursor + 1, scanned')
    BY <1>1, <2>1, <2>2, <2>4 DEF ScannedTo
  <2> QED
    BY <1>1, <2>3 DEF TrailerInv
<1> QED
  BY <1>2, <1>3

LEMMA TrailerScanEnds == TrailerInv /\ ScanEnds => TrailerInv'
<1> SUFFICES ASSUME TrailerInv, ScanEnds PROVE TrailerInv'
  OBVIOUS
<1>1. /\ WalkInv' /\ file \in Files /\ file' = file
      /\ cursor \in Nat /\ cursor > Len(file)
      /\ ScannedTo(file, cursor, scanned)
      /\ DOMAIN file = 1..Len(file) /\ Len(file) \in Nat
  BY WalkRest, FileFacts DEF TrailerInv, WalkInv, ScanEnds, ScannedTo
<1>2. CASE pc' = "broken"
  BY <1>1, <1>2 DEF TrailerInv
<1>3. CASE /\ scanned.has /\ rebuilt' = TRUE /\ pc' \in {"catalog", "again"}
           /\ trailer' = MergeTrailers(trailer, scanned.trailer)
  <2>1. Trailers(file, Len(file) + 1) = Trailers(file, cursor)
    BY <1>1 DEF Trailers
  <2>2. PICK p \in Trailers(file, cursor) : /\ \A q \in Trailers(file, cursor) : q <= p
                                            /\ Names(scanned.trailer, RootIn(file, p))
    BY <1>1, <1>3 DEF ScannedTo
  <2>3. Names(trailer', RootIn(file, p))
    BY <1>3, <2>2, WinnerNames
  <2> QED
    BY <1>1, <1>3, <2>1, <2>2, <2>3 DEF TrailerInv
<1> QED
  BY <1>2, <1>3 DEF ScanEnds

LEMMA TrailerRest == TrailerInv /\ (CatalogCheck \/ TimeOut) => TrailerInv'
<1> SUFFICES ASSUME TrailerInv, CatalogCheck \/ TimeOut PROVE TrailerInv'
  OBVIOUS
<1>1. WalkInv /\ WalkInv' /\ file \in Files /\ file' = file /\ rebuilt' = rebuilt /\ trailer' = trailer
  BY WalkRest DEF TrailerInv, WalkInv, CatalogCheck, TimeOut
<1>2. CASE TimeOut
  BY <1>1, <1>2 DEF TrailerInv, TimeOut
<1>3. CASE CatalogCheck /\ pc' = "rescan"
  <2>1. cursor' = 1 /\ scanned' = Nothing /\ ~rebuilt
    BY <1>3 DEF CatalogCheck
  <2> QED
    BY <1>1, <1>3, <2>1, ScanBegins DEF TrailerInv
<1>4. CASE CatalogCheck /\ pc' # "rescan"
  BY <1>1, <1>4 DEF TrailerInv, CatalogCheck, WalkInv
<1> QED
  BY <1>2, <1>3, <1>4

\* A document's trailer names the catalog that its newest trailer names: the
\* first of the chain, or the last of the file when it was scanned.
THEOREM TrailerCorrect ==
    ASSUME RootsNamed
    PROVE  Spec => []TrailerIsNewest
<1>1. Init => TrailerInv
  BY WalkInit DEF Init, TrailerInv
<1>2. TrailerInv /\ [Next]_vars => TrailerInv'
  <2> SUFFICES ASSUME TrailerInv, [Next]_vars PROVE TrailerInv'
    OBVIOUS
  <2>1. CASE UNCHANGED vars
    BY <2>1, WalkStep DEF vars, TrailerInv
  <2> QED
    BY <2>1, TrailerStart, TrailerChain, TrailerScanItem, TrailerScanEnds, TrailerRest DEF Next
<1>3. TrailerInv => TrailerIsNewest
  <2> SUFFICES ASSUME TrailerInv, pc = "open"
               PROVE  Key(trailer.dict, "Root") =
                        Key(file[IF rebuilt THEN LastTrailer ELSE Chain[1]].dict, "Root")
    BY DEF TrailerIsNewest
  <2>0. file \in Files
    BY DEF TrailerInv, WalkInv
  <2>1. CASE rebuilt
    <3>1. PICK p \in Trailers(file, Len(file) + 1) :
                 /\ \A q \in Trailers(file, Len(file) + 1) : q <= p
                 /\ Names(trailer, RootIn(file, p))
      BY <2>1 DEF TrailerInv
    <3>2. Trailers(file, Len(file) + 1) = {q \in DOMAIN file : file[q].what \in {"table", "stream"}}
      BY <2>0, FileFacts DEF Trailers
    <3>3. LastTrailer = p
      <4> DEFINE S == {q \in DOMAIN file : file[q].what \in {"table", "stream"}}
      <4>1. p \in S /\ (\A q \in S : q <= p) /\ S \subseteq Nat
        BY <2>0, <3>1, <3>2, FileFacts
      <4>2. \A q \in S : (\A o \in S : o <= q) => q = p
        BY <4>1
      <4>3. (CHOOSE q \in S : \A o \in S : o <= q) = p
        BY <4>1, <4>2
      <4> QED
        BY <4>3 DEF LastTrailer
    <3>4. "Root" \in DOMAIN file[p].dict
      BY <2>0, <3>1 DEF Trailers, RootsNamed
    <3> QED
      BY <2>1, <3>1, <3>3, <3>4 DEF Names, RootIn, Key
  <2>2. CASE ~rebuilt
    <3>1. /\ Names(trailer, RootIn(file, StartIn(file)))
          /\ Walked(file, sections, 0, seen)
      BY <2>2 DEF TrailerInv, WalkInv
    <3>2. PICK m : m = Len(sections)
      OBVIOUS
    <3>3. m \in Nat /\ m >= 1 /\ Where(sections[m]) = StartIn(file) /\ Listed(file, sections[m])
      BY <3>1, <3>2 DEF Walked
    <3>4. Chain[1] = Where(sections[m + 1 - 1])
      BY <2>0, <3>1, <3>2, <3>3, ChainIsWalked
    <3>5. Chain[1] = StartIn(file)
      BY <3>3, <3>4
    <3>6. "Root" \in DOMAIN file[StartIn(file)].dict
      <4>1. TableIn(file, StartIn(file)) \/ StreamIn(file, StartIn(file))
        BY <3>3 DEF Listed, Where
      <4> QED
        BY <2>0, <4>1, JunkIsNoSection DEF RootsNamed, TableIn, StreamIn
    <3> QED
      BY <2>2, <3>1, <3>5, <3>6 DEF Names, RootIn, Key
  <2> QED
    BY <2>1, <2>2
<1> QED
  BY <1>1, <1>2, <1>3, PTL DEF Spec

----------------------------------------------------------------------------
(* The table keeps its shape, whatever is applied to it.                   *)

LEMMA IsTables ==
    /\ \A m \in Tables : DOMAIN m \subseteq Numbers /\ \A n \in DOMAIN m : m[n] \in Entry
    /\ \A D \in SUBSET Numbers : \A m \in [D -> Entry] : m \in Tables
    /\ \A m \in Tables : IsXref(m)
BY DEF Tables, IsXref

LEMMA Entries ==
    /\ \A g \in Generations : Free(g) \in Entry
    /\ \A p \in Offsets \union Indexes, g \in Generations, f \in BOOLEAN : At(p, g, f) \in Entry
    /\ \A a \in Numbers, i \in Offsets \union Indexes : Packed(a, i) \in Entry
    /\ \A e \in Entry : [e EXCEPT !.flag = TRUE] \in Entry
<1>1. 0 \in Offsets /\ 0 \in Indexes /\ 0 \in Generations /\ 0 \in Numbers
  BY RulesAssumption DEF Numbers
<1> QED
  BY <1>1 DEF Free, At, Packed, Entry

LEMMA PutTables ==
    ASSUME NEW m \in Tables, NEW n \in Numbers, NEW e \in Entry
    PROVE  Put(m, n, e) \in Tables
<1>1. Put(m, n, e) \in [DOMAIN m \union {n} -> Entry]
  BY IsTables DEF Put
<1> QED
  BY <1>1, IsTables

LEMMA NormalTables ==
    ASSUME NEW m \in Tables, NEW n, NEW g \in Generations, NEW p \in Offsets \union Indexes
    PROVE  AddNormal(m, n, g, FALSE, p) \in Tables
<1>1. CASE n \notin Numbers
  BY <1>1 DEF AddNormal
<1>2. CASE n \in Numbers
  <2>1. Knows(m, n) => NormalOver(m[n], g, FALSE, p) \in Entry
    <3>1. ASSUME Knows(m, n) PROVE m[n] \in Entry /\ (m[n].flag \/ FALSE) \in BOOLEAN
      BY <3>1, IsTables DEF Knows, Entry
    <3> QED
      BY <3>1, Entries DEF NormalOver
  <2>2. At(p, g, FALSE) \in Entry
    BY Entries
  <2> QED
    BY <1>2, <2>1, <2>2, PutTables DEF AddNormal
<1> QED
  BY <1>1, <1>2

LEMMA DefaultTables ==
    ASSUME NEW m \in Tables, NEW n \in Numbers
    PROVE  OrDefault(m, n) \in Tables /\ n \in DOMAIN OrDefault(m, n)
<1>1. Free(0) \in Entry
  BY Entries, RulesAssumption
<1>2. n \in DOMAIN Put(m, n, Free(0))
  BY DEF Put
<1> QED
  BY <1>1, <1>2, PutTables DEF OrDefault, Knows

LEMMA CompressedTables ==
    ASSUME NEW m \in Tables, NEW n, NEW a, NEW i \in Offsets \union Indexes
    PROVE  AddCompressed(m, n, a, i) \in Tables
<1>1. CASE n \notin Numbers \/ a \notin Numbers \/ (Knows(m, n) /\ Declines(m[n]))
  BY <1>1 DEF AddCompressed
<1>2. CASE n \in Numbers /\ a \in Numbers /\ ~(Knows(m, n) /\ Declines(m[n]))
  <2>1. PICK q : q = OrDefault(Put(m, n, Packed(a, i)), a)
    OBVIOUS
  <2>2. q \in Tables /\ a \in DOMAIN q
    BY <1>2, <2>1, Entries, PutTables, DefaultTables
  <2>3. AddCompressed(m, n, a, i) = [q EXCEPT ![a].flag = TRUE]
    BY <1>2, <2>1 DEF AddCompressed
  <2>4. [q EXCEPT ![a].flag = TRUE] \in [DOMAIN q -> Entry]
    <3>1. q \in [DOMAIN q -> Entry] /\ q[a] \in Entry
      BY <2>2, IsTables DEF Tables
    <3>2. [q[a] EXCEPT !.flag = TRUE] \in Entry
      BY <3>1, Entries
    <3> QED
      BY <3>1, <3>2
  <2> QED
    BY <2>2, <2>3, <2>4, IsTables
<1> QED
  BY <1>1, <1>2

LEMMA FreeTables ==
    ASSUME NEW m \in Tables, NEW n \in Numbers, NEW g \in Generations
    PROVE  SetFree(m, n, g) \in Tables
BY Entries, PutTables DEF SetFree

LEMMA SizeTables ==
    ASSUME NEW m \in Tables, NEW size \in Nat, size <= MaxNumber + 1
    PROVE  SetSize(m, size) \in Tables
<1>1. NoEntries \in Tables
  <2>1. NoEntries \in [{} -> Entry]
    BY DEF NoEntries
  <2> QED
    BY <2>1, IsTables
<1>2. CASE size = 0
  BY <1>1, <1>2 DEF SetSize
<1>3. CASE size # 0
  <2>1. [k \in {n \in DOMAIN m : n < size} |-> m[k]] \in [{n \in DOMAIN m : n < size} -> Entry]
    BY IsTables
  <2>2. [k \in {n \in DOMAIN m : n < size} |-> m[k]] \in Tables
    BY <2>1, IsTables
  <2>3. size - 1 \in Numbers
    BY <1>3, RulesAssumption DEF Numbers
  <2> QED
    BY <1>3, <2>2, <2>3, DefaultTables DEF SetSize
<1> QED
  BY <1>2, <1>3

LEMMA SizedTables ==
    ASSUME NEW m \in Tables, NEW size \in Nat
    PROVE  Sized(m, size) \in Tables
BY SizeTables DEF Sized

LEMMA MergedTables ==
    ASSUME NEW m \in Tables, NEW top \in Tables
    PROVE  MergeUp(m, top) \in Tables
<1>1. \A n \in DOMAIN m : m[n] \in Entry
  BY IsTables
<1>2. \A n \in DOMAIN top : top[n] \in Entry /\ [top[n] EXCEPT !.flag = TRUE] \in Entry
  BY IsTables, Entries
<1>3. MergeUp(m, top) \in [DOMAIN m \union DOMAIN top -> Entry]
  BY <1>1, <1>2 DEF MergeUp, TopOver, Knows
<1> QED
  BY <1>3, IsTables

LEMMA StreamEntryTables ==
    ASSUME NEW m \in Tables, NEW n \in Numbers, NEW e \in Entry
    PROVE  WithStreamEntry(m, n, e) \in Tables
<1>1. PICK grown : grown = IF n > LastNumber(m) THEN SetSize(m, n + 1) ELSE m
  OBVIOUS
<1>2. grown \in Tables
  <2>1. n + 1 \in Nat /\ n + 1 <= MaxNumber + 1
    BY RulesAssumption DEF Numbers
  <2> QED
    BY <1>1, <2>1, SizeTables
<1>3. e.at \in {"free", "offset", "packed"} /\ e.archive \in Numbers /\ e.gen \in Generations /\ e.pos \in Offsets \union Indexes
  BY DEF Entry
<1>4. WithStreamEntry(m, n, e) =
        CASE e.at = "free"   -> SetFree(grown, n, e.gen)
          [] e.at = "offset" -> AddNormal(grown, n, e.gen, FALSE, e.pos)
          [] e.at = "packed" -> IF e.archive <= LastNumber(grown)
                                THEN AddCompressed(grown, n, e.archive, e.pos)
                                ELSE grown
  BY <1>1 DEF WithStreamEntry
<1>5. /\ SetFree(grown, n, e.gen) \in Tables
      /\ AddNormal(grown, n, e.gen, FALSE, e.pos) \in Tables
      /\ AddCompressed(grown, n, e.archive, e.pos) \in Tables
  <2>1. SetFree(grown, n, e.gen) \in Tables
    BY <1>2, <1>3, FreeTables
  <2>2. AddNormal(grown, n, e.gen, FALSE, e.pos) \in Tables
    BY <1>2, <1>3, NormalTables
  <2>3. AddCompressed(grown, n, e.archive, e.pos) \in Tables
    BY <1>2, <1>3, CompressedTables
  <2> QED
    BY <2>1, <2>2, <2>3
<1> QED
  BY <1>2, <1>3, <1>4, <1>5

----------------------------------------------------------------------------
(* Folds of the numbers of a set, the largest last.                        *)

\* g[S] folds the numbers of S into base, each by a step.
Folded(g, S, base, step) ==
    \A s \in SUBSET S :
        g[s] = IF s = {} THEN base ELSE step[<<Max(s), g[s \ {Max(s)}]>>]

LEMMA FiniteNumbers ==
    ASSUME NEW N \in Nat, NEW S \in SUBSET (0..N)
    PROVE  /\ IsFiniteSet(S)
           /\ \A s \in SUBSET S : s # {} => Max(s) \in s /\ Max(s) \in S
<1>1. IsFiniteSet(0..N)
  BY FS_Interval
<1>2. \A s \in SUBSET S : s # {} => Max(s) \in s
  BY LargestNatural DEF Max
<1> QED
  BY <1>1, <1>2, FS_Subset

LEMMA FoldedExists ==
    ASSUME NEW N \in Nat, NEW S \in SUBSET (0..N), NEW base \in Tables,
           NEW step, step \in [S \X Tables -> Tables]
    PROVE  \E g \in [SUBSET S -> Tables] : Folded(g, S, base, step)
<1> DEFINE pick == [s \in SUBSET S |-> Max(s)]
<1>1. \A s \in SUBSET S : pick[s] = Max(s)
  OBVIOUS
<1> HIDE DEF pick
<1>2. \A s \in SUBSET S : s # {} => pick[s] \in s
  BY <1>1, FiniteNumbers
<1>3. IsFiniteSet(S)
  BY FiniteNumbers
<1>4. \E g \in [SUBSET S -> Tables] : Folds(g, S, base, pick, step)
  BY <1>2, <1>3, FoldExists
<1> QED
  BY <1>1, <1>4 DEF Folds, Folded

\* Whatever folds by these steps as long as it has a table ends with one.
LEMMA FoldedTables ==
    ASSUME NEW N \in Nat, NEW S \in SUBSET (0..N), NEW iter, iter[{}] \in Tables,
           \A s \in SUBSET S : s # {} /\ iter[s \ {Max(s)}] \in Tables => iter[s] \in Tables
    PROVE  iter[S] \in Tables
<1> DEFINE G == {s \in SUBSET S : iter[s] \in Tables}
<1>1. {} \in G
  OBVIOUS
<1>2. \A s \in SUBSET S : s # {} => \E n \in s : s \ {n} \in G => s \in G
  <2> TAKE s \in SUBSET S
  <2> HAVE s # {}
  <2>1. Max(s) \in s /\ s \ {Max(s)} \in SUBSET S
    BY FiniteNumbers
  <2>2. s \ {Max(s)} \in G => s \in G
    BY <2>1
  <2> HIDE DEF G
  <2> QED
    BY <2>1, <2>2
<1> HIDE DEF G
<1>3. SUBSET S \subseteq G
  BY <1>1, <1>2, FiniteNumbers, SetInduction
<1> QED
  BY <1>3 DEF G

\* read_subsection.
TableOp(es, n, t) == CHOOSE r \in {AddNormal(v, n, es[n].gen, FALSE, es[n].pos) : v \in {t}} : TRUE

TableFold(g, m, es, S) ==
    g = [s \in SUBSET S |-> IF s = {} THEN m ELSE TableOp(es, Max(s), g[s \ {Max(s)}])]

\* r is what a fold leaves of base: an entry in use added in each of its turns.
TableAdds(es, S, base, r) ==
    \E iter :
        /\ r = iter[S] /\ iter[{}] = base
        /\ \A s \in SUBSET S : s # {} =>
             iter[s] = AddNormal(iter[s \ {Max(s)}], Max(s), es[Max(s)].gen, FALSE, es[Max(s)].pos)

LEMMA TableFolds ==
    ASSUME NEW m \in Tables, NEW es, DOMAIN es \subseteq Numbers,
           \A n \in DOMAIN es : es[n] \in Entry
    PROVE  TableAdds(es, {n \in DOMAIN es : es[n].at # "free"}, m, WithTable(m, es))
<1>0. PICK S, base : S = {n \in DOMAIN es : es[n].at # "free"} /\ base = m
  OBVIOUS
<1>1. PICK iter : iter = CHOOSE g : TableFold(g, base, es, S)
  OBVIOUS
<1>2. WithTable(m, es) = iter[S]
  BY <1>0, <1>1 DEF WithTable, InOrder, MapThenFoldSet, Apply, TableFold, TableOp
<1>3. PICK N \in Nat : S \in SUBSET (0..N)
  BY <1>0, RulesAssumption DEF Numbers
<1>4. \A n \in S : \A t \in Tables : TableOp(es, n, t) \in Tables
  <2>1. \A n, t : TableOp(es, n, t) = AddNormal(t, n, es[n].gen, FALSE, es[n].pos)
    BY DEF TableOp
  <2>2. \A n \in S : \A t \in Tables : AddNormal(t, n, es[n].gen, FALSE, es[n].pos) \in Tables
    <3>1. \A n \in S : es[n].gen \in Generations /\ es[n].pos \in Offsets \union Indexes
      BY <1>0 DEF Entry
    <3> QED
      BY <3>1, NormalTables
  <2> QED
    BY <2>1, <2>2
<1>5. base \in Tables
  BY <1>0
<1> DEFINE step == [q \in S \X Tables |-> TableOp(es, q[1], q[2])]
<1>6. /\ step \in [S \X Tables -> Tables]
      /\ \A n \in S : \A t \in Tables : step[<<n, t>>] = TableOp(es, n, t)
  BY <1>4
<1> HIDE DEF step
<1>7. PICK h \in [SUBSET S -> Tables] : Folded(h, S, base, step)
  BY <1>3, <1>5, <1>6, FoldedExists
<1>8. \A s \in SUBSET S : s # {} => Max(s) \in S /\ s \ {Max(s)} \in SUBSET S
  BY <1>3, FiniteNumbers
<1>9. TableFold(h, base, es, S)
  <2>1. \A s \in SUBSET S :
          h[s] = IF s = {} THEN base ELSE TableOp(es, Max(s), h[s \ {Max(s)}])
    BY <1>6, <1>7, <1>8 DEF Folded
  <2> QED
    BY <1>7, <2>1 DEF TableFold
<1>10. TableFold(iter, base, es, S)
  BY <1>1, <1>9
<1>11. /\ iter[{}] = base
       /\ \A s \in SUBSET S : s # {} => iter[s] = TableOp(es, Max(s), iter[s \ {Max(s)}])
  BY <1>10 DEF TableFold
<1>12. \A n, t : TableOp(es, n, t) = AddNormal(t, n, es[n].gen, FALSE, es[n].pos)
  BY DEF TableOp
<1>13. \A s \in SUBSET S : s # {} =>
             iter[s] = AddNormal(iter[s \ {Max(s)}], Max(s), es[Max(s)].gen, FALSE, es[Max(s)].pos)
  BY <1>11, <1>12
<1> QED
  BY <1>0, <1>2, <1>11, <1>13 DEF TableAdds

LEMMA TableTables ==
    ASSUME NEW m \in Tables, NEW es, DOMAIN es \subseteq Numbers,
           \A n \in DOMAIN es : es[n] \in Entry
    PROVE  WithTable(m, es) \in Tables
<1>0. PICK S : S = {n \in DOMAIN es : es[n].at # "free"}
  OBVIOUS
<1>6. TableAdds(es, S, m, WithTable(m, es))
  BY <1>0, TableFolds
<1>1. PICK iter :
        /\ WithTable(m, es) = iter[S] /\ iter[{}] = m
        /\ \A s \in SUBSET S : s # {} =>
             iter[s] = AddNormal(iter[s \ {Max(s)}], Max(s), es[Max(s)].gen, FALSE, es[Max(s)].pos)
  BY <1>6 DEF TableAdds
<1>2. PICK N \in Nat : S \in SUBSET (0..N)
  BY <1>0, RulesAssumption DEF Numbers
<1>3. \A n \in S : \A t \in Tables : AddNormal(t, n, es[n].gen, FALSE, es[n].pos) \in Tables
  <2>1. \A n \in S : es[n].gen \in Generations /\ es[n].pos \in Offsets \union Indexes
    BY <1>0 DEF Entry
  <2> QED
    BY <2>1, NormalTables
<1>4. \A s \in SUBSET S : s # {} /\ iter[s \ {Max(s)}] \in Tables => iter[s] \in Tables
  <2> TAKE s \in SUBSET S
  <2>1. CASE s # {} /\ iter[s \ {Max(s)}] \in Tables
    <3>1. Max(s) \in S
      BY <1>2, <2>1, FiniteNumbers
    <3> QED
      BY <1>1, <1>3, <2>1, <3>1
  <2> QED
    BY <2>1
<1>5. iter[S] \in Tables
  BY <1>1, <1>2, <1>4, FoldedTables
<1> QED
  BY <1>1, <1>5

\* read_entries.
StreamOp(es, n, t) == CHOOSE r \in {WithStreamEntry(v, n, es[n]) : v \in {t}} : TRUE

StreamFold(g, m, es, S) ==
    g = [s \in SUBSET S |-> IF s = {} THEN m ELSE StreamOp(es, Max(s), g[s \ {Max(s)}])]

\* The same of a stream's entries.
StreamAdds(es, S, base, r) ==
    \E iter :
        /\ r = iter[S] /\ iter[{}] = base
        /\ \A s \in SUBSET S : s # {} =>
             iter[s] = WithStreamEntry(iter[s \ {Max(s)}], Max(s), es[Max(s)])

LEMMA StreamFolds ==
    ASSUME NEW m \in Tables, NEW es, DOMAIN es \subseteq Numbers,
           \A n \in DOMAIN es : es[n] \in Entry
    PROVE  StreamAdds(es, DOMAIN es, m, WithStream(m, es))
<1>0. PICK S, base : S = DOMAIN es /\ base = m
  OBVIOUS
<1>1. PICK iter : iter = CHOOSE g : StreamFold(g, base, es, S)
  OBVIOUS
<1>2. WithStream(m, es) = iter[S]
  BY <1>0, <1>1 DEF WithStream, InOrder, MapThenFoldSet, Apply, StreamFold, StreamOp
<1>3. PICK N \in Nat : S \in SUBSET (0..N)
  BY <1>0, RulesAssumption DEF Numbers
<1>4. \A n \in S : \A t \in Tables : StreamOp(es, n, t) \in Tables
  <2>1. \A n, t : StreamOp(es, n, t) = WithStreamEntry(t, n, es[n])
    BY DEF StreamOp
  <2>2. \A n \in S : \A t \in Tables : WithStreamEntry(t, n, es[n]) \in Tables
    BY <1>0, StreamEntryTables
  <2> QED
    BY <2>1, <2>2
<1>5. base \in Tables
  BY <1>0
<1> DEFINE step == [q \in S \X Tables |-> StreamOp(es, q[1], q[2])]
<1>6. /\ step \in [S \X Tables -> Tables]
      /\ \A n \in S : \A t \in Tables : step[<<n, t>>] = StreamOp(es, n, t)
  BY <1>4
<1> HIDE DEF step
<1>7. PICK h \in [SUBSET S -> Tables] : Folded(h, S, base, step)
  BY <1>3, <1>5, <1>6, FoldedExists
<1>8. \A s \in SUBSET S : s # {} => Max(s) \in S /\ s \ {Max(s)} \in SUBSET S
  BY <1>3, FiniteNumbers
<1>9. StreamFold(h, base, es, S)
  <2>1. \A s \in SUBSET S :
          h[s] = IF s = {} THEN base ELSE StreamOp(es, Max(s), h[s \ {Max(s)}])
    BY <1>6, <1>7, <1>8 DEF Folded
  <2> QED
    BY <1>7, <2>1 DEF StreamFold
<1>10. StreamFold(iter, base, es, S)
  BY <1>1, <1>9
<1>11. /\ iter[{}] = base
       /\ \A s \in SUBSET S : s # {} => iter[s] = StreamOp(es, Max(s), iter[s \ {Max(s)}])
  BY <1>10 DEF StreamFold
<1>12. \A n, t : StreamOp(es, n, t) = WithStreamEntry(t, n, es[n])
  BY DEF StreamOp
<1>13. \A s \in SUBSET S : s # {} =>
             iter[s] = WithStreamEntry(iter[s \ {Max(s)}], Max(s), es[Max(s)])
  BY <1>11, <1>12
<1> QED
  BY <1>0, <1>2, <1>11, <1>13 DEF StreamAdds

LEMMA StreamTables ==
    ASSUME NEW m \in Tables, NEW es, DOMAIN es \subseteq Numbers,
           \A n \in DOMAIN es : es[n] \in Entry
    PROVE  WithStream(m, es) \in Tables
<1>0. PICK S : S = DOMAIN es
  OBVIOUS
<1>6. StreamAdds(es, S, m, WithStream(m, es))
  BY <1>0, StreamFolds
<1>1. PICK iter :
        /\ WithStream(m, es) = iter[S] /\ iter[{}] = m
        /\ \A s \in SUBSET S : s # {} =>
             iter[s] = WithStreamEntry(iter[s \ {Max(s)}], Max(s), es[Max(s)])
  BY <1>6 DEF StreamAdds
<1>2. PICK N \in Nat : S \in SUBSET (0..N)
  BY <1>0, RulesAssumption DEF Numbers
<1>3. \A n \in S : \A t \in Tables : WithStreamEntry(t, n, es[n]) \in Tables
  BY <1>0, StreamEntryTables
<1>4. \A s \in SUBSET S : s # {} /\ iter[s \ {Max(s)}] \in Tables => iter[s] \in Tables
  <2> TAKE s \in SUBSET S
  <2>1. CASE s # {} /\ iter[s \ {Max(s)}] \in Tables
    <3>1. Max(s) \in S
      BY <1>2, <2>1, FiniteNumbers
    <3> QED
      BY <1>1, <1>3, <2>1, <3>1
  <2> QED
    BY <2>1
<1>5. iter[S] \in Tables
  BY <1>1, <1>2, <1>4, FoldedTables
<1> QED
  BY <1>1, <1>5

\* record_object.
ObjectOp(o, n, t) == CHOOSE r \in {AddCompressed(v, o.members[n], o.num, n - 1) : v \in {t}} : TRUE

ObjectFold(g, m, o, S) ==
    g = [s \in SUBSET S |-> IF s = {} THEN m ELSE ObjectOp(o, Max(s), g[s \ {Max(s)}])]

\* r is what a fold leaves of base: a member added in each of its turns.
AddsMembers(o, base, r) ==
    \E iter :
        /\ r = iter[DOMAIN o.members] /\ iter[{}] = base
        /\ \A s \in SUBSET DOMAIN o.members : s # {} =>
             iter[s] = AddCompressed(iter[s \ {Max(s)}], o.members[Max(s)], o.num, Max(s) - 1)

LEMMA ObjectFolds ==
    ASSUME NEW m \in Tables, NEW p \in DOMAIN file, IsItem(file[p]), p \in Offsets
    PROVE  /\ AddNormal(m, file[p].num, file[p].gen, FALSE, p) \in Tables
           /\ \E N \in Nat : DOMAIN file[p].members \in SUBSET (0..N)
           /\ AddsMembers(file[p], AddNormal(m, file[p].num, file[p].gen, FALSE, p),
                          WithObject(m, p))
<1>0. PICK S, base : S = DOMAIN file[p].members /\ base = AddNormal(m, file[p].num, file[p].gen, FALSE, p)
  OBVIOUS
<1>1. PICK iter : iter = CHOOSE g : ObjectFold(g, base, file[p], S)
  OBVIOUS
<1>2. WithObject(m, p) = iter[S]
  BY <1>0, <1>1 DEF WithObject, InOrder, MapThenFoldSet, Apply, ObjectFold, ObjectOp
<1>3. PICK N \in Nat : S \in SUBSET (0..N)
  <2>1. Len(file[p].members) \in Nat /\ S = 1..Len(file[p].members)
    BY <1>0 DEF IsItem
  <2>2. S \in SUBSET (0..Len(file[p].members))
    BY <2>1
  <2> QED
    BY <2>1, <2>2
<1>4. \A n \in S : \A t \in Tables : ObjectOp(file[p], n, t) \in Tables
  <2>1. \A n, t : ObjectOp(file[p], n, t) = AddCompressed(t, file[p].members[n], file[p].num, n - 1)
    BY DEF ObjectOp
  <2>2. \A n \in S : \A t \in Tables : AddCompressed(t, file[p].members[n], file[p].num, n - 1) \in Tables
    BY <1>0, CompressedTables DEF IsItem
  <2> QED
    BY <2>1, <2>2
<1>5. base \in Tables
  BY <1>0, NormalTables DEF IsItem
<1> DEFINE step == [q \in S \X Tables |-> ObjectOp(file[p], q[1], q[2])]
<1>6. /\ step \in [S \X Tables -> Tables]
      /\ \A n \in S : \A t \in Tables : step[<<n, t>>] = ObjectOp(file[p], n, t)
  BY <1>4
<1> HIDE DEF step
<1>7. PICK h \in [SUBSET S -> Tables] : Folded(h, S, base, step)
  BY <1>3, <1>5, <1>6, FoldedExists
<1>8. \A s \in SUBSET S : s # {} => Max(s) \in S /\ s \ {Max(s)} \in SUBSET S
  BY <1>3, FiniteNumbers
<1>9. ObjectFold(h, base, file[p], S)
  <2>1. \A s \in SUBSET S :
          h[s] = IF s = {} THEN base ELSE ObjectOp(file[p], Max(s), h[s \ {Max(s)}])
    BY <1>6, <1>7, <1>8 DEF Folded
  <2> QED
    BY <1>7, <2>1 DEF ObjectFold
<1>10. ObjectFold(iter, base, file[p], S)
  BY <1>1, <1>9
<1>11. /\ iter[{}] = base
       /\ \A s \in SUBSET S : s # {} => iter[s] = ObjectOp(file[p], Max(s), iter[s \ {Max(s)}])
  BY <1>10 DEF ObjectFold
<1>12. \A n, t : ObjectOp(file[p], n, t) = AddCompressed(t, file[p].members[n], file[p].num, n - 1)
  BY DEF ObjectOp
<1>13. /\ WithObject(m, p) = iter[DOMAIN file[p].members] /\ iter[{}] = base
       /\ \A s \in SUBSET DOMAIN file[p].members : s # {} =>
            iter[s] = AddCompressed(iter[s \ {Max(s)}], file[p].members[Max(s)],
                                    file[p].num, Max(s) - 1)
  BY <1>0, <1>2, <1>11, <1>12
<1>14. AddsMembers(file[p], base, WithObject(m, p))
  BY <1>13 DEF AddsMembers
<1> QED
  BY <1>0, <1>3, <1>5, <1>14

LEMMA ObjectTables ==
    ASSUME NEW m \in Tables, NEW p \in DOMAIN file, IsItem(file[p]), p \in Offsets
    PROVE  WithObject(m, p) \in Tables
<1>0. PICK S : S = DOMAIN file[p].members
  OBVIOUS
<1>6. PICK base : base = AddNormal(m, file[p].num, file[p].gen, FALSE, p)
  OBVIOUS
<1>7. base \in Tables /\ AddsMembers(file[p], base, WithObject(m, p))
  BY <1>6, ObjectFolds
<1>1. PICK iter :
        /\ WithObject(m, p) = iter[S] /\ iter[{}] = base
        /\ \A s \in SUBSET S : s # {} =>
             iter[s] = AddCompressed(iter[s \ {Max(s)}], file[p].members[Max(s)],
                                     file[p].num, Max(s) - 1)
  BY <1>0, <1>7 DEF AddsMembers
<1>2. PICK N \in Nat : S \in SUBSET (0..N)
  BY <1>0, ObjectFolds
<1>3. \A n \in S : \A t \in Tables : AddCompressed(t, file[p].members[n], file[p].num, n - 1) \in Tables
  BY <1>0, CompressedTables DEF IsItem
<1>4. \A s \in SUBSET S : s # {} /\ iter[s \ {Max(s)}] \in Tables => iter[s] \in Tables
  <2> TAKE s \in SUBSET S
  <2>1. CASE s # {} /\ iter[s \ {Max(s)}] \in Tables
    <3>1. Max(s) \in S
      BY <1>2, <2>1, FiniteNumbers
    <3> QED
      BY <1>1, <1>3, <2>1, <3>1
  <2> QED
    BY <2>1
<1>5. iter[S] \in Tables
  BY <1>1, <1>2, <1>4, <1>7, FoldedTables
<1> QED
  BY <1>1, <1>5

----------------------------------------------------------------------------

\* Trailers keep to the keys there are, and to numbers.
IsTrailer(t) ==
    DOMAIN t = {"dict", "number"} /\ DOMAIN t.dict \subseteq Keys /\ t.number \in Numbers

IsFound(s) ==
    /\ DOMAIN s = {"xref", "trailer", "has"}
    /\ s.xref \in Tables /\ IsTrailer(s.trailer) /\ s.has \in BOOLEAN

\* TypeOK, with the table a set's element and the walk's facts beside it.
TypeInv ==
    /\ WalkInv
    /\ xref \in Tables /\ IsFound(scanned)
    /\ IsTrailer(trailer)
    /\ sections \in Seq(Section)
    /\ seen \subseteq Nat /\ next \in Nat /\ cursor \in Nat
    /\ rebuilt \in BOOLEAN
    /\ \A i \in DOMAIN recorded : recorded[i].offset \in Nat
    /\ pc \in {"scan", "rescan"} => cursor >= 1

LEMMA InSequence ==
    ASSUME NEW S, NEW q \in Seq(S)
    PROVE  \A i \in DOMAIN q : q[i] \in S
BY ElementOfSeq

LEMMA ItemFacts ==
    ASSUME NEW p \in DOMAIN file, file \in Files
    PROVE  IsItem(file[p]) /\ p \in Offsets /\ p \in Nat
BY FilesAssumption, RulesAssumption

LEMMA NothingTyped == NoEntries \in Tables /\ IsTrailer(NoTrailer) /\ IsFound(Nothing)
<1>1. NoEntries \in [{} -> Entry]
  BY DEF NoEntries
<1>2. NoEntries \in Tables
  BY <1>1, IsTables
<1>3. IsTrailer(NoTrailer)
  <2>1. 0 \in Numbers
    BY RulesAssumption DEF Numbers
  <2> QED
    BY <2>1 DEF NoTrailer, IsTrailer
<1> QED
  BY <1>2, <1>3 DEF Nothing, IsFound

LEMMA MergedTrailer ==
    ASSUME NEW base, NEW winner, IsTrailer(base), IsTrailer(winner)
    PROVE  IsTrailer(MergeTrailers(base, winner)) /\ IsTrailer(MergeIntoWalk(base, winner))
<1>1. \A b, w : IsTrailer(b) /\ IsTrailer(w) => IsTrailer(MergeTrailers(b, w))
  BY DEF MergeTrailers, IsTrailer
<1>2. PICK m : m = MergeTrailers(winner, base)
  OBVIOUS
<1>3. IsTrailer(m) /\ IsTrailer([m EXCEPT !.number = base.number])
  <2>1. IsTrailer(m)
    BY <1>1, <1>2
  <2> QED
    BY <2>1 DEF IsTrailer
<1> QED
  BY <1>1, <1>2, <1>3 DEF MergeIntoWalk

LEMMA SectionTrailers ==
    ASSUME file \in Files, NEW p \in DOMAIN file
    PROVE  IsTrailer(TableTrailer(p)) /\ IsTrailer(StreamTrailer(p))
<1>1. 0 \in Numbers
  BY RulesAssumption DEF Numbers
<1> QED
  BY <1>1, ItemFacts DEF IsTrailer, TableTrailer, StreamTrailer, IsItem

LEMMA SectionTables ==
    ASSUME file \in Files, NEW p \in DOMAIN file, NEW m \in Tables
    PROVE  /\ WithTable(m, file[p].entries) \in Tables
           /\ WithStream(m, file[p].entries) \in Tables
           /\ \A k : WithTable(m, Cut(file[p].entries, k)) \in Tables
<1>1. PICK es : es = file[p].entries
  OBVIOUS
<1>2. DOMAIN es \subseteq Numbers /\ \A n \in DOMAIN es : es[n] \in Entry
  BY <1>1, ItemFacts DEF IsItem
<1>3. WithTable(m, es) \in Tables /\ WithStream(m, es) \in Tables
  BY <1>2, TableTables, StreamTables
<1>4. ASSUME NEW k PROVE WithTable(m, Cut(es, k)) \in Tables
  <2>1. PICK cut : cut = Cut(es, k)
    OBVIOUS
  <2>2. DOMAIN cut \subseteq Numbers /\ \A n \in DOMAIN cut : cut[n] \in Entry
    BY <1>2, <2>1 DEF Cut
  <2> QED
    BY <2>1, <2>2, TableTables
<1> QED
  BY <1>1, <1>3, <1>4

LEMMA TypeInit == Init => TypeInv
<1> SUFFICES ASSUME Init PROVE TypeInv
  OBVIOUS
<1>1. sections \in Seq(Section) /\ \A i \in DOMAIN recorded : recorded[i].offset \in Nat
  BY DEF Init
<1> QED
  BY <1>1, WalkInit, NothingTyped DEF Init, TypeInv

LEMMA TypeStart == TypeInv /\ Start => TypeInv'
<1> SUFFICES ASSUME TypeInv, Start PROVE TypeInv'
  OBVIOUS
<1> DEFINE p == StartIn(file)
<1>1. /\ WalkInv' /\ file \in Files /\ rebuilt' = rebuilt /\ recorded' = recorded
      /\ xref \in Tables /\ IsFound(scanned) /\ IsTrailer(trailer)
      /\ sections \in Seq(Section) /\ seen \subseteq Nat /\ next \in Nat /\ cursor \in Nat
      /\ rebuilt \in BOOLEAN /\ \A i \in DOMAIN recorded : recorded[i].offset \in Nat
  BY WalkStart DEF TypeInv, WalkInv, Start
<1>2. CASE /\ Abandon /\ UNCHANGED <<xref, trailer, sections, seen, next>>
  BY <1>1, <1>2, NothingTyped DEF TypeInv, Abandon
<1>3. CASE p # 0 /\ (IsTable(p) \/ IsStream(p))
  <2>1. p \in DOMAIN file /\ p \in Nat /\ ItemOf(file, p) = file[p]
    BY <1>1, <1>3, ReadsFile, JunkIsNoSection, FileFacts
  <2>2. PrevIn(file, p) \in Nat /\ HybridIn(file, p) \in Nat /\ Key(file[p].dict, "Size") \in Nat
    BY <1>1, <2>1, FileFacts, ItemFacts DEF IsItem, Key
  <2>3. /\ Sized(xref, Key(file[p].dict, "Size")) \in Tables
        /\ Sized(NoEntries, Key(file[p].dict, "Size")) \in Tables
    BY <1>1, <2>2, SizedTables, NothingTyped
  <2>4. MergeUp(xref, WithStream(Sized(NoEntries, Key(file[p].dict, "Size")), file[p].entries)) \in Tables
    BY <1>1, <2>1, <2>3, SectionTables, MergedTables
  <2>5. IsTrailer(TableTrailer(p)) /\ IsTrailer(StreamTrailer(p))
    BY <1>1, <2>1, SectionTrailers
  <2>6. xref' \in Tables /\ IsTrailer(trailer')
    BY <1>3, <2>3, <2>4, <2>5, ReadsFile DEF Start
  <2>7. /\ sections' = <<[table |-> p, stream |-> HybridIn(file, p)]>>
           \/ sections' = <<[table |-> 0, stream |-> p]>>
        /\ seen' = {p} /\ next' = PrevIn(file, p) /\ scanned' = scanned /\ cursor' = cursor
    BY <1>3, <2>1, ReadsFile DEF Start, PrevIn, HybridIn
  <2>8. sections' \in Seq(Section)
    <3>1. [table |-> p, stream |-> HybridIn(file, p)] \in Section /\ [table |-> 0, stream |-> p] \in Section
      BY <2>1, <2>2 DEF Section
    <3>2. \A s \in Section : <<s>> \in Seq(Section)
      OBVIOUS
    <3> QED
      BY <2>7, <3>1, <3>2
  <2>9. pc' = "walk"
    BY <1>3, ReadsFile DEF Start
  <2> QED
    BY <1>1, <2>1, <2>2, <2>6, <2>7, <2>8, <2>9 DEF TypeInv
<1> QED
  BY <1>2, <1>3, ReadsFile DEF Start

LEMMA TypeVisit == TypeInv /\ Visit => TypeInv'
<1> SUFFICES ASSUME TypeInv, Visit PROVE TypeInv'
  OBVIOUS
<1>1. /\ WalkInv' /\ file \in Files /\ rebuilt' = rebuilt /\ recorded' = recorded
      /\ xref \in Tables /\ IsFound(scanned) /\ IsTrailer(trailer)
      /\ sections \in Seq(Section) /\ seen \subseteq Nat /\ next \in Nat /\ cursor \in Nat
      /\ rebuilt \in BOOLEAN /\ \A i \in DOMAIN recorded : recorded[i].offset \in Nat
  BY WalkVisit DEF TypeInv, WalkInv, Visit
<1>2. CASE /\ Abandon /\ UNCHANGED <<xref, trailer, sections, next>> /\ seen' \subseteq seen \union {next}
  BY <1>1, <1>2, NothingTyped DEF TypeInv, Abandon
<1>3. CASE next \notin seen /\ (IsTable(next) \/ IsStream(next))
  <2>1. next \in DOMAIN file /\ ItemOf(file, next) = file[next]
    BY <1>1, <1>3, ReadsFile, JunkIsNoSection
  <2>2. PrevIn(file, next) \in Nat /\ HybridIn(file, next) \in Nat
    BY <1>1, FileFacts
  <2>3. /\ WithStream(xref, file[next].entries) \in Tables
        /\ IsTrailer(MergeIntoWalk(trailer, TableTrailer(next)))
        /\ IsTrailer(MergeIntoWalk(trailer, StreamTrailer(next)))
    BY <1>1, <2>1, SectionTables, SectionTrailers, MergedTrailer
  <2>4. xref' \in Tables /\ IsTrailer(trailer')
    BY <1>1, <1>3, <2>3 DEF Visit
  <2>5. /\ \/ sections' = <<[table |-> next, stream |-> HybridIn(file, next)]>> \o sections
           \/ sections' = <<[table |-> 0, stream |-> next]>> \o sections
        /\ seen' = seen \union {next} /\ next' = PrevIn(file, next) /\ scanned' = scanned
        /\ cursor' = cursor
    BY <1>3, <2>1 DEF Visit, PrevIn, HybridIn
  <2>6. sections' \in Seq(Section)
    <3>1. /\ [table |-> next, stream |-> HybridIn(file, next)] \in Section
          /\ [table |-> 0, stream |-> next] \in Section
      BY <1>1, <2>2 DEF Section
    <3> QED
      BY <1>1, <2>5, <3>1, PutInFront
  <2>7. pc' = "walk"
    BY <1>3 DEF Visit
  <2> QED
    BY <1>1, <2>2, <2>4, <2>5, <2>6, <2>7 DEF TypeInv
<1> QED
  BY <1>2, <1>3 DEF Visit

LEMMA TypeWalkEnds == TypeInv /\ WalkEnds => TypeInv'
<1> SUFFICES ASSUME TypeInv, WalkEnds PROVE TypeInv'
  OBVIOUS
<1>1. \A i \in DOMAIN recorded' : recorded'[i].offset \in Nat
  <2>0. \A i \in DOMAIN sections : sections[i] \in Section
    BY InSequence DEF TypeInv
  <2>1. \A i \in DOMAIN sections : sections[i].stream \in Nat /\ sections[i].table \in Nat
    BY <2>0 DEF Section
  <2> DEFINE place(i) == IF sections[i].stream > 0 THEN sections[i].stream ELSE sections[i].table
             note(i) == [offset |-> place(i), is_stream |-> sections[i].stream > 0]
  <2>2. \A i \in DOMAIN sections : place(i) \in Nat
    BY <2>1
  <2>3. recorded' = [i \in DOMAIN sections |-> note(i)]
    BY DEF WalkEnds
  <2>4. \A i : note(i).offset = place(i)
    OBVIOUS
  <2> HIDE DEF place, note
  <2>5. \A i \in DOMAIN sections : recorded'[i] = note(i)
    BY <2>3
  <2>6. DOMAIN recorded' = DOMAIN sections
    BY <2>3
  <2> QED
    BY <2>2, <2>4, <2>5, <2>6
<1> QED
  BY <1>1, WalkWalkEnds DEF TypeInv, WalkEnds

LEMMA TypeOldest == TypeInv /\ ReadOldest => TypeInv'
<1> SUFFICES ASSUME TypeInv, ReadOldest PROVE TypeInv'
  OBVIOUS
<1> DEFINE p == sections[1].table
<1>1. /\ WalkInv' /\ file \in Files /\ xref \in Tables /\ IsFound(scanned) /\ cursor \in Nat
      /\ Walked(file, sections, 0, seen)
  BY WalkOldest DEF TypeInv, WalkInv, ReadOldest
<1>2. p # 0 => p \in DOMAIN file
  BY <1>1, JunkIsNoSection DEF Walked, Listed
<1>3. xref' \in Tables
  <2>1. CASE p = 0
    BY <1>1, <2>1 DEF ReadOldest
  <2>2. CASE p # 0
    <3>1. /\ WithTable(xref, file[p].entries) \in Tables
          /\ \A k : WithTable(xref, Cut(file[p].entries, k)) \in Tables
      BY <1>1, <1>2, <2>2, SectionTables
    <3> QED
      BY <2>2, <3>1 DEF ReadOldest
  <2> QED
    BY <2>1, <2>2
<1>4. IsFound(scanned') /\ cursor' \in Nat
  BY <1>1, NothingTyped DEF ReadOldest, Abandon
<1>5. pc' = "newer" \/ cursor' = 1
  BY DEF ReadOldest, Abandon
<1>6. pc' \in {"scan", "rescan"} => cursor' >= 1
  BY <1>5
<1> QED
  BY <1>1, <1>3, <1>4, <1>6 DEF TypeInv, ReadOldest

LEMMA TypeNewer == TypeInv /\ ReadNewer => TypeInv'
<1> SUFFICES ASSUME TypeInv, ReadNewer PROVE TypeInv'
  OBVIOUS
<1>0. PICK s : s = sections[cursor]
  OBVIOUS
<1>1. /\ WalkInv' /\ file \in Files /\ xref \in Tables /\ IsFound(scanned) /\ cursor \in Nat
      /\ Walked(file, sections, 0, seen) /\ cursor >= 2 /\ cursor <= Len(sections)
  BY WalkNewer DEF TypeInv, WalkInv, ReadNewer
<1>2. s.table # 0 => s.table \in DOMAIN file
  BY <1>0, <1>1, JunkIsNoSection DEF Walked, Listed
<1>3. PICK under : under = IF IsStream(s.stream) THEN WithStream(xref, file[s.stream].entries) ELSE xref
  OBVIOUS
<1>4. under \in Tables
  <2>1. IsStream(s.stream) => s.stream \in DOMAIN file
    BY ReadsFile, JunkIsNoSection
  <2>2. IsStream(s.stream) => WithStream(xref, file[s.stream].entries) \in Tables
    BY <1>1, <2>1, SectionTables
  <2> QED
    BY <1>1, <1>3, <2>2
<1>5. s.table # 0 => /\ WithTable(under, file[s.table].entries) \in Tables
                     /\ \A k : WithTable(under, Cut(file[s.table].entries, k)) \in Tables
  BY <1>1, <1>2, <1>4, SectionTables
<1>6. \/ xref' = xref \/ xref' = under
      \/ s.table # 0 /\ xref' = WithTable(under, file[s.table].entries)
      \/ s.table # 0 /\ \E k \in Numbers : xref' = WithTable(under, Cut(file[s.table].entries, k))
  BY <1>0, <1>3 DEF ReadNewer
<1>7. IsFound(scanned') /\ cursor' \in Nat
  BY <1>1, NothingTyped DEF ReadNewer, Abandon
<1>8. pc' \in {"scan", "rescan"} => cursor' >= 1
  BY DEF ReadNewer, Abandon
<1> QED
  BY <1>1, <1>4, <1>5, <1>6, <1>7, <1>8 DEF TypeInv, ReadNewer

LEMMA TypeScan == TypeInv /\ (ScanItem \/ ScanEnds) => TypeInv'
<1> SUFFICES ASSUME TypeInv, ScanItem \/ ScanEnds PROVE TypeInv'
  OBVIOUS
<1>1. /\ WalkInv' /\ file \in Files /\ xref \in Tables /\ IsFound(scanned) /\ cursor \in Nat
      /\ IsTrailer(trailer)
  BY WalkRest DEF TypeInv, WalkInv
<1>2. CASE ScanEnds
  <2>1. MergeUp(xref, scanned.xref) \in Tables /\ IsTrailer(MergeTrailers(trailer, scanned.trailer))
    BY <1>1, MergedTables, MergedTrailer DEF IsFound
  <2>2. xref' \in Tables /\ IsTrailer(trailer') /\ rebuilt' \in BOOLEAN
    BY <1>1, <1>2, <2>1 DEF ScanEnds, TypeInv
  <2> QED
    BY <1>1, <1>2, <2>2 DEF TypeInv, ScanEnds
<1>3. CASE ScanItem
  <2>1. IsFound(scanned')
    <3>0. PICK o : o = file[cursor]
      OBVIOUS
    <3>1. CASE cursor \in DOMAIN file
      <4>1. WithObject(scanned.xref, cursor) \in Tables
        BY <1>1, <3>1, ItemFacts, ObjectTables DEF IsFound
      <4>2. /\ IsTrailer(MergeTrailers(scanned.trailer, StreamTrailer(cursor)))
            /\ IsTrailer(MergeTrailers(scanned.trailer, TableTrailer(cursor)))
        BY <1>1, <3>1, SectionTrailers, MergedTrailer DEF IsFound
      <4>3. CASE o.what = "object"
        BY <1>1, <1>3, <3>0, <4>1, <4>3 DEF ScanItem, IsFound
      <4>4. CASE o.what = "stream"
        BY <1>1, <1>3, <3>0, <4>1, <4>2, <4>4 DEF ScanItem, IsFound
      <4>5. CASE o.what = "table"
        BY <1>1, <1>3, <3>0, <4>2, <4>5 DEF ScanItem, IsFound
      <4>6. CASE o.what \notin {"object", "stream", "table"}
        BY <1>1, <1>3, <3>0, <4>6 DEF ScanItem
      <4> QED
        BY <4>3, <4>4, <4>5, <4>6
    <3> QED
      <4>1. cursor \in DOMAIN file
        BY <1>1, <1>3, FileFacts DEF ScanItem, Scanning, TypeInv
      <4> QED
        BY <3>1, <4>1
  <2> QED
    BY <1>1, <1>3, <2>1 DEF TypeInv, ScanItem
<1> QED
  BY <1>2, <1>3

LEMMA TypeRest == TypeInv /\ (ChainEnds \/ CatalogCheck \/ TimeOut) => TypeInv'
<1> SUFFICES ASSUME TypeInv, ChainEnds \/ CatalogCheck \/ TimeOut PROVE TypeInv'
  OBVIOUS
<1>1. WalkInv' /\ IsFound(scanned') /\ cursor' \in Nat
  BY WalkRest, NothingTyped DEF TypeInv, ChainEnds, CatalogCheck, TimeOut, Abandon
<1>2. pc' \in {"scan", "rescan"} => cursor' >= 1
  BY DEF TypeInv, ChainEnds, CatalogCheck, TimeOut, Abandon
<1> QED
  BY <1>1, <1>2 DEF TypeInv, ChainEnds, CatalogCheck, TimeOut, Abandon

\* The state keeps its shape: whatever sections and scans say, the table has
\* entries and numbers, the trailer its keys.
THEOREM ChainTypeCorrect == Spec => []TypeOK
<1>1. TypeInv /\ [Next]_vars => TypeInv'
  <2> SUFFICES ASSUME TypeInv, [Next]_vars PROVE TypeInv'
    OBVIOUS
  <2>1. CASE UNCHANGED vars
    BY <2>1, WalkStep DEF vars, TypeInv
  <2> QED
    BY <2>1, TypeStart, TypeVisit, TypeWalkEnds, TypeOldest, TypeNewer, TypeScan, TypeRest DEF Next
<1>2. TypeInv => TypeOK
  <2> SUFFICES ASSUME TypeInv PROVE TypeOK
    OBVIOUS
  <2>1. DOMAIN file \subseteq Offsets
    BY ItemFacts DEF TypeInv, WalkInv
  <2>2. IsXref(xref) /\ IsXref(scanned.xref)
    BY IsTables DEF TypeInv, IsFound
  <2>0. \A i \in DOMAIN sections : sections[i] \in Section
    BY InSequence DEF TypeInv
  <2>3. \A i \in DOMAIN sections : sections[i] \in [table : Nat, stream : Nat]
    BY <2>0 DEF Section
  <2> QED
    BY <2>1, <2>2, <2>3 DEF TypeInv, WalkInv, TypeOK, IsFound, IsTrailer
<1> QED
  BY TypeInit, <1>1, <1>2, PTL DEF Spec

----------------------------------------------------------------------------
(* What a scan holds.                                                      *)

Packs(f, p, n) == \E i \in DOMAIN f[p].members : f[p].members[i] = n

\* The copies of n before k, and whether one of them is of an object stream.
Copies(f, n, k) == {p \in Bodies(f) : p < k /\ (f[p].num = n \/ Packs(f, p, n))}
Archived(f, n, k) == \E p \in Bodies(f) : p < k /\ f[p].num = n /\ DOMAIN f[p].members # {}

\* The entry e leads to the copy of n at p.
LeadsTo(f, n, p, e) ==
    \/ e.at = "offset" /\ e.pos = p /\ e.gen = f[p].gen /\ f[p].num = n
    \/ /\ e.at = "packed" /\ e.gen = 0 /\ e.archive = f[p].num
       /\ e.pos + 1 \in DOMAIN f[p].members /\ f[p].members[e.pos + 1] = n

\* A scan at k has the last copy of everything before it, and what is packed
\* can be overwritten because only an object stream's own number is marked.
Held(f, k, m) ==
    \A n \in Numbers :
        /\ n \in DOMAIN m <=> Copies(f, n, k) # {}
        /\ \A p \in Copies(f, n, k) :
             (\A q \in Copies(f, n, k) : q <= p) => LeadsTo(f, n, p, m[n])
        /\ n \in DOMAIN m => (m[n].flag <=> Archived(f, n, k))

\* The parts of CopiesInOrder.
LEMMA InOrderFacts ==
    ASSUME NEW f, CopiesInOrder(f)
    PROVE  /\ \A p \in DOMAIN f \ Bodies(f) : DOMAIN f[p].members = {}
           /\ \A p, q \in Bodies(f) :
                /\ p < q /\ f[p].num = f[q].num => f[p].gen <= f[q].gen
                /\ Packs(f, q, f[p].num) => /\ DOMAIN f[p].members = {}
                                            /\ p < q => f[p].gen = 0
                /\ DOMAIN f[p].members # {} /\ f[p].num = f[q].num => p = q
BY DEF CopiesInOrder, Bodies, Packs

\* One more member, of an object stream that the table knows.
LEMMA OnePacked ==
    ASSUME NEW t \in Tables, NEW n \in Numbers, NEW a \in DOMAIN t, n # a, NEW i,
           Knows(t, n) => ~Declines(t[n])
    PROVE  LET r == AddCompressed(t, n, a, i) IN
           /\ DOMAIN r = DOMAIN t \union {n}
           /\ r[n] = Packed(a, i)
           /\ r[a] = [t[a] EXCEPT !.flag = TRUE]
           /\ \A k \in DOMAIN t \ {n, a} : r[k] = t[k]
<1>1. a \in Numbers
  BY IsTables
<1>2. PICK w : w = Put(t, n, Packed(a, i))
  OBVIOUS
<1>3. /\ DOMAIN w = DOMAIN t \union {n} /\ w[n] = Packed(a, i)
      /\ \A k \in DOMAIN t : k # n => w[k] = t[k]
      /\ w = [k \in DOMAIN w |-> w[k]]
  BY <1>2 DEF Put
<1>4. AddCompressed(t, n, a, i) = [w EXCEPT ![a].flag = TRUE]
  BY <1>1, <1>2, <1>3 DEF AddCompressed, OrDefault, Knows
<1> QED
  BY <1>3, <1>4

\* What an object at p leaves of a table when the members of s are in.
PackedTo(o, s, base, t) ==
    /\ DOMAIN t = DOMAIN base \union {o.members[i] : i \in s}
    /\ t[o.num] = IF s = {} THEN base[o.num] ELSE [base[o.num] EXCEPT !.flag = TRUE]
    /\ \A i \in s : \E j \in s : /\ o.members[j] = o.members[i]
                                 /\ t[o.members[i]] = Packed(o.num, j - 1)
    /\ \A n \in DOMAIN base : n # o.num /\ (\A i \in s : o.members[i] # n) => t[n] = base[n]

\* A number that may be packed into it: not its own, and nothing that declines.
Packable(o, base) ==
    \A i \in DOMAIN o.members :
        /\ o.members[i] # o.num
        /\ o.members[i] \in DOMAIN base => ~Declines(base[o.members[i]])

LEMMA PackedOn ==
    ASSUME NEW o, NEW base \in Tables, o.num \in DOMAIN base, Packable(o, base),
           \A i \in DOMAIN o.members : o.members[i] \in Numbers,
           NEW s \in SUBSET DOMAIN o.members, NEW x \in s,
           NEW t \in Tables, PackedTo(o, s \ {x}, base, t)
    PROVE  PackedTo(o, s, base, AddCompressed(t, o.members[x], o.num, x - 1))
<1>1. PICK n, a : n = o.members[x] /\ a = o.num
  OBVIOUS
<1>2. /\ a \in DOMAIN base /\ n \in Numbers /\ n # a
      /\ n \in DOMAIN base => ~Declines(base[n])
  BY <1>1 DEF Packable
<1>3. /\ DOMAIN t = DOMAIN base \union {o.members[i] : i \in s \ {x}}
      /\ t[a] = IF s \ {x} = {} THEN base[a] ELSE [base[a] EXCEPT !.flag = TRUE]
      /\ \A i \in s \ {x} : \E j \in s \ {x} : /\ o.members[j] = o.members[i]
                                               /\ t[o.members[i]] = Packed(a, j - 1)
      /\ \A k \in DOMAIN base : k # a /\ (\A i \in s \ {x} : o.members[i] # k) => t[k] = base[k]
  BY <1>1 DEF PackedTo
<1>4. Knows(t, n) => ~Declines(t[n])
  <2>1. CASE \E i \in s \ {x} : o.members[i] = n
    <3>1. PICK j : t[n] = Packed(a, j)
      BY <1>3, <2>1
    <3> QED
      BY <3>1 DEF Packed, Declines
  <2>2. CASE ~\E i \in s \ {x} : o.members[i] = n
    <3>1. n \in DOMAIN t => n \in DOMAIN base /\ t[n] = base[n]
      BY <1>2, <1>3, <2>2
    <3> QED
      BY <1>2, <3>1 DEF Knows
  <2> QED
    BY <2>1, <2>2
<1>5. PICK r : r = AddCompressed(t, n, a, x - 1)
  OBVIOUS
<1>6. /\ DOMAIN r = DOMAIN t \union {n}
      /\ r[n] = Packed(a, x - 1)
      /\ r[a] = [t[a] EXCEPT !.flag = TRUE]
      /\ \A k \in DOMAIN t \ {n, a} : r[k] = t[k]
  <2>1. a \in DOMAIN t
    BY <1>2, <1>3
  <2> QED
    BY <1>2, <1>4, <1>5, <2>1, OnePacked
<1>7. DOMAIN r = DOMAIN base \union {o.members[i] : i \in s}
  BY <1>1, <1>3, <1>6
<1>8. r[a] = [base[a] EXCEPT !.flag = TRUE] /\ s # {}
  BY <1>3, <1>6
<1>9. \A i \in s : \E j \in s : o.members[j] = o.members[i] /\ r[o.members[i]] = Packed(a, j - 1)
  <2> TAKE i \in s
  <2>1. CASE o.members[i] = n
    BY <1>1, <1>6, <2>1
  <2>2. CASE o.members[i] # n
    <3>1. i \in s \ {x} /\ o.members[i] \in DOMAIN t /\ o.members[i] # a
      BY <1>1, <1>3, <2>2 DEF Packable
    <3>2. r[o.members[i]] = t[o.members[i]]
      BY <1>6, <2>2, <3>1
    <3> QED
      BY <1>3, <3>1, <3>2
  <2> QED
    BY <2>1, <2>2
<1>10. \A k \in DOMAIN base : k # a /\ (\A i \in s : o.members[i] # k) => r[k] = base[k]
  BY <1>1, <1>3, <1>6
<1>11. PackedTo(o, s, base, r)
  BY <1>1, <1>7, <1>8, <1>9, <1>10 DEF PackedTo
<1> QED
  BY <1>1, <1>5, <1>11

\* All of record_object.
LEMMA ObjectIs ==
    ASSUME NEW m \in Tables, NEW p \in DOMAIN file, IsItem(file[p]), p \in Offsets,
           Packable(file[p], AddNormal(m, file[p].num, file[p].gen, FALSE, p))
    PROVE  PackedTo(file[p], DOMAIN file[p].members,
                    AddNormal(m, file[p].num, file[p].gen, FALSE, p), WithObject(m, p))
<1>0. PICK S, o, base : /\ S = DOMAIN file[p].members /\ o = file[p]
                        /\ base = AddNormal(m, file[p].num, file[p].gen, FALSE, p)
  OBVIOUS
<1>11. AddsMembers(o, base, WithObject(m, p))
  BY <1>0, ObjectFolds
<1>1. PICK iter :
        /\ WithObject(m, p) = iter[S] /\ iter[{}] = base
        /\ \A s \in SUBSET S : s # {} =>
             iter[s] = AddCompressed(iter[s \ {Max(s)}], o.members[Max(s)], o.num, Max(s) - 1)
  BY <1>0, <1>11 DEF AddsMembers
<1>2. base \in Tables /\ \E N \in Nat : S \in SUBSET (0..N)
  BY <1>0, ObjectFolds
<1>3. PICK N \in Nat : S \in SUBSET (0..N)
  BY <1>2
<1>4. \A i \in S : o.members[i] \in Numbers /\ i - 1 \in Offsets \union Indexes
  BY <1>0 DEF IsItem
<1>5. o.num \in DOMAIN base
  <2>1. o.num \in Numbers
    BY <1>0 DEF IsItem
  <2> QED
    BY <1>0, <2>1 DEF AddNormal, Put
<1>6. Packable(o, base) /\ S = DOMAIN o.members
  BY <1>0
<1> DEFINE G == {s \in SUBSET S : iter[s] \in Tables /\ PackedTo(o, s, base, iter[s])}
<1>7. {} \in G
  BY <1>1, <1>2 DEF PackedTo
<1>8. ASSUME NEW s \in SUBSET S, s # {} PROVE \E x \in s : s \ {x} \in G => s \in G
  <2>1. Max(s) \in s /\ Max(s) \in S
    BY <1>3, <1>8, FiniteNumbers
  <2>2. PICK x : x = Max(s)
    OBVIOUS
  <2>3. iter[s] = AddCompressed(iter[s \ {x}], o.members[x], o.num, x - 1)
    BY <1>1, <1>8, <2>2
  <2>4. ASSUME s \ {x} \in G PROVE s \in G
    <3>1. iter[s \ {x}] \in Tables /\ PackedTo(o, s \ {x}, base, iter[s \ {x}])
      BY <2>4
    <3>2. iter[s] \in Tables
      BY <1>4, <2>1, <2>2, <2>3, <3>1, CompressedTables
    <3>3. PackedTo(o, s, base, iter[s])
      BY <1>2, <1>4, <1>5, <1>6, <2>1, <2>2, <2>3, <3>1, PackedOn
    <3> QED
      BY <3>2, <3>3
  <2> HIDE DEF G
  <2> QED
    BY <2>1, <2>2, <2>4
<1> HIDE DEF G
<1>9. IsFiniteSet(S)
  BY <1>3, FiniteNumbers
<1>10. SUBSET S \subseteq G
  BY <1>7, <1>8, <1>9, SetInduction
<1>12. PackedTo(o, S, base, iter[S])
  BY <1>10 DEF G
<1> QED
  BY <1>0, <1>1, <1>12

\* Of some copies one is the last, and that is what the table has.
LEMMA LastOfCopies ==
    ASSUME NEW f \in Files, NEW n, NEW k, Copies(f, n, k) # {}
    PROVE  \E p \in Copies(f, n, k) : \A q \in Copies(f, n, k) : q <= p
<1>1. Len(f) \in Nat /\ Copies(f, n, k) \in SUBSET (0..Len(f))
  BY FileFacts DEF Copies, Bodies
<1>2. PICK max : max = CHOOSE x \in Copies(f, n, k) : \A y \in Copies(f, n, k) : x >= y
  OBVIOUS
<1>3. max \in Copies(f, n, k) /\ \A y \in Copies(f, n, k) : max >= y
  BY <1>1, <1>2, LargestNatural
<1>4. max \in Nat /\ \A y \in Copies(f, n, k) : y \in Nat
  BY <1>1, <1>3
<1>5. \A y \in Copies(f, n, k) : y <= max
  BY <1>3, <1>4
<1> QED
  BY <1>3, <1>5

LEMMA KnownLeads ==
    ASSUME NEW f \in Files, NEW k, NEW m, Held(f, k, m), NEW n \in Numbers, n \in DOMAIN m
    PROVE  \E p \in Copies(f, n, k) : LeadsTo(f, n, p, m[n])
<1>1. Copies(f, n, k) # {}
  BY DEF Held
<1>2. PICK p \in Copies(f, n, k) : \A q \in Copies(f, n, k) : q <= p
  BY <1>1, LastOfCopies
<1>3. LeadsTo(f, n, p, m[n])
  BY <1>2 DEF Held
<1> QED
  BY <1>3

\* One position on.
LEMMA CopiesNext ==
    ASSUME NEW f \in Files, NEW p \in DOMAIN f
    PROVE  \A n :
             /\ Copies(f, n, p + 1) = Copies(f, n, p) \union
                  (IF p \in Bodies(f) /\ (f[p].num = n \/ Packs(f, p, n)) THEN {p} ELSE {})
             /\ Archived(f, n, p + 1) <=>
                  \/ Archived(f, n, p)
                  \/ p \in Bodies(f) /\ f[p].num = n /\ DOMAIN f[p].members # {}
             /\ \A q \in Copies(f, n, p) : q < p /\ q \in Bodies(f)
<1>1. \A q \in DOMAIN f : q \in Nat
  BY FileFacts
<1>2. \A q \in Bodies(f) : q \in Nat /\ (q < p + 1 <=> q < p \/ q = p)
  BY <1>1 DEF Bodies
<1>3. TAKE n
<1>4. Copies(f, n, p + 1) = Copies(f, n, p) \union
        (IF p \in Bodies(f) /\ (f[p].num = n \/ Packs(f, p, n)) THEN {p} ELSE {})
  BY <1>2 DEF Copies
<1>5. Archived(f, n, p + 1) <=>
        \/ Archived(f, n, p)
        \/ p \in Bodies(f) /\ f[p].num = n /\ DOMAIN f[p].members # {}
  BY <1>2 DEF Archived
<1> QED
  BY <1>4, <1>5 DEF Copies

\* The object's own number, over what was held.
OwnOver(f, p, m, base) ==
    /\ DOMAIN base = DOMAIN m \union {f[p].num}
    /\ base[f[p].num] = At(p, f[p].gen, FALSE)
    /\ \A n \in DOMAIN m : n # f[p].num => base[n] = m[n]
    /\ ~Archived(f, f[p].num, p)
    /\ Packable(f[p], base)

LEMMA OwnEntry ==
    ASSUME file \in Files, CopiesInOrder(file), NEW p \in Bodies(file), NEW m \in Tables,
           Held(file, p, m)
    PROVE  OwnOver(file, p, m, AddNormal(m, file[p].num, file[p].gen, FALSE, p))
<1>0. PICK base : base = AddNormal(m, file[p].num, file[p].gen, FALSE, p)
  OBVIOUS
<1>1. PICK a, g : a = file[p].num /\ g = file[p].gen
  OBVIOUS
<1>2. /\ p \in DOMAIN file /\ p \in Nat /\ a \in Numbers /\ g \in Nat
      /\ \A q \in Bodies(file) : q \in DOMAIN file /\ q \in Nat /\ file[q].gen \in Nat
  BY <1>1, ItemFacts, RulesAssumption DEF Bodies, IsItem
<1>3. \A n : ~Archived(file, n, p) \/ \E q \in Bodies(file) :
                 q < p /\ file[q].num = n /\ DOMAIN file[q].members # {}
  BY DEF Archived
<1>4. ~Archived(file, a, p)
  BY <1>1, <1>2, <1>3, InOrderFacts
<1>5. a \in DOMAIN m => m[a].gen \in Nat /\ m[a].gen <= g /\ ~m[a].flag
  <2> SUFFICES ASSUME a \in DOMAIN m PROVE m[a].gen \in Nat /\ m[a].gen <= g /\ ~m[a].flag
    OBVIOUS
  <2>1. PICK q \in Copies(file, a, p) : LeadsTo(file, a, q, m[a])
    BY <1>2, KnownLeads
  <2>2. q \in Bodies(file) /\ q < p
    BY DEF Copies
  <2>3. m[a].gen = 0 \/ (m[a].gen = file[q].gen /\ file[q].num = a)
    BY <2>1 DEF LeadsTo
  <2>4. file[q].num = a => file[q].gen <= g
    BY <1>1, <2>2, InOrderFacts
  <2>5. ~m[a].flag
    BY <1>2, <1>4 DEF Held
  <2> QED
    BY <1>2, <2>2, <2>3, <2>4, <2>5
<1>6. base[a] = At(p, g, FALSE) /\ DOMAIN base = DOMAIN m \union {a}
      /\ \A n \in DOMAIN m : n # a => base[n] = m[n]
  <2>1. base = Put(m, a, IF Knows(m, a) THEN NormalOver(m[a], g, FALSE, p) ELSE At(p, g, FALSE))
    BY <1>0, <1>1, <1>2 DEF AddNormal
  <2>2. Knows(m, a) => NormalOver(m[a], g, FALSE, p) = At(p, g, FALSE)
    <3> SUFFICES ASSUME a \in DOMAIN m PROVE NormalOver(m[a], g, FALSE, p) = At(p, g, FALSE)
      BY DEF Knows
    <3>1. ~(m[a].gen > g)
      BY <1>2, <1>5
    <3>2. (m[a].flag \/ FALSE) = FALSE
      BY <1>5
    <3>3. NormalOver(m[a], g, FALSE, p) = At(p, g, m[a].flag \/ FALSE)
      BY <3>1 DEF NormalOver
    <3> QED
      BY <3>2, <3>3
  <2>3. base = Put(m, a, At(p, g, FALSE))
    BY <2>1, <2>2
  <2> QED
    BY <2>3 DEF Put
<1>7. Packable(file[p], base)
  <2> SUFFICES ASSUME NEW i \in DOMAIN file[p].members
               PROVE  /\ file[p].members[i] # a
                      /\ file[p].members[i] \in DOMAIN base => ~Declines(base[file[p].members[i]])
    BY <1>1 DEF Packable
  <2>1. PICK n : n = file[p].members[i]
    OBVIOUS
  <2>2. Packs(file, p, n) /\ DOMAIN file[p].members # {}
    BY <2>1 DEF Packs
  <2>3. n # a
    BY <1>1, <2>2, InOrderFacts
  <2>4. n \in DOMAIN base => ~Declines(base[n])
    <3> SUFFICES ASSUME n \in DOMAIN base PROVE ~Declines(base[n])
      OBVIOUS
    <3>1. n \in DOMAIN m /\ base[n] = m[n] /\ n \in Numbers
      BY <1>6, <2>3, IsTables
    <3>2. PICK q \in Copies(file, n, p) : LeadsTo(file, n, q, m[n])
      BY <3>1, KnownLeads
    <3>3. q \in Bodies(file) /\ q < p
      BY DEF Copies
    <3>4. m[n].gen = 0 \/ (m[n].gen = file[q].gen /\ file[q].num = n)
      BY <3>2 DEF LeadsTo
    <3>5. m[n].gen = 0
      BY <2>2, <3>3, <3>4, InOrderFacts
    <3>6. ~Archived(file, n, p)
      BY <1>3, <2>2, InOrderFacts
    <3>7. ~m[n].flag
      BY <3>1, <3>6 DEF Held
    <3>8. ~(m[n].gen > 0)
      BY <3>5
    <3> QED
      BY <3>1, <3>7, <3>8, Zenon DEF Declines
  <2> QED
    BY <2>1, <2>3, <2>4
<1>8. OwnOver(file, p, m, base)
  BY <1>1, <1>4, <1>6, <1>7 DEF OwnOver
<1> QED
  BY <1>0, <1>8

\* An object, with what it packs, over what was held before it.
LEMMA HeldObject ==
    ASSUME file \in Files, CopiesInOrder(file), NEW p \in Bodies(file), NEW m \in Tables,
           Held(file, p, m)
    PROVE  Held(file, p + 1, WithObject(m, p))
<1>1. PICK o, a, S, base, r : /\ o = file[p] /\ a = file[p].num /\ S = DOMAIN file[p].members
                              /\ base = AddNormal(m, file[p].num, file[p].gen, FALSE, p)
                              /\ r = WithObject(m, p)
  OBVIOUS
<1>2. p \in DOMAIN file /\ IsItem(file[p]) /\ p \in Offsets /\ a \in Numbers
  BY <1>1, ItemFacts DEF Bodies, IsItem
<1>3. /\ DOMAIN base = DOMAIN m \union {a}
      /\ base[a] = At(p, o.gen, FALSE)
      /\ \A n \in DOMAIN m : n # a => base[n] = m[n]
      /\ ~Archived(file, a, p)
      /\ Packable(o, base)
  <2>1. OwnOver(file, p, m, base)
    BY <1>1, OwnEntry
  <2> QED
    BY <1>1, <2>1 DEF OwnOver
<1>4. PackedTo(o, S, base, r)
  BY <1>1, <1>2, <1>3, ObjectIs
<1>5. /\ DOMAIN r = DOMAIN base \union {o.members[i] : i \in S}
      /\ r[a] = IF S = {} THEN base[a] ELSE [base[a] EXCEPT !.flag = TRUE]
      /\ \A i \in S : \E j \in S : o.members[j] = o.members[i] /\ r[o.members[i]] = Packed(a, j - 1)
      /\ \A n \in DOMAIN base : n # a /\ (\A i \in S : o.members[i] # n) => r[n] = base[n]
  BY <1>1, <1>4 DEF PackedTo
<1>6. SUFFICES ASSUME NEW n \in Numbers
               PROVE  /\ n \in DOMAIN r <=> Copies(file, n, p + 1) # {}
                      /\ \A q \in Copies(file, n, p + 1) :
                           (\A x \in Copies(file, n, p + 1) : x <= q) => LeadsTo(file, n, q, r[n])
                      /\ n \in DOMAIN r => (r[n].flag <=> Archived(file, n, p + 1))
  BY <1>1 DEF Held
<1>7. /\ n \in DOMAIN m <=> Copies(file, n, p) # {}
      /\ \A q \in Copies(file, n, p) :
           (\A x \in Copies(file, n, p) : x <= q) => LeadsTo(file, n, q, m[n])
      /\ n \in DOMAIN m => (m[n].flag <=> Archived(file, n, p))
  BY DEF Held
<1>8. /\ Copies(file, n, p + 1) = Copies(file, n, p) \union
           (IF n = a \/ Packs(file, p, n) THEN {p} ELSE {})
      /\ Archived(file, n, p + 1) <=> Archived(file, n, p) \/ (n = a /\ S # {})
      /\ \A q \in Copies(file, n, p) : q < p /\ q \in Bodies(file)
  BY <1>1, <1>2, CopiesNext
<1>9. Packs(file, p, n) <=> n \in {o.members[i] : i \in S}
  BY <1>1 DEF Packs
<1>10. n \in DOMAIN r <=> Copies(file, n, p + 1) # {}
  BY <1>3, <1>5, <1>7, <1>8, <1>9
<1>11. p \in Nat /\ \A q \in Bodies(file) : q \in Nat
  BY ItemFacts DEF Bodies
<1>12. n = a \/ Packs(file, p, n) =>
         \A q \in Copies(file, n, p + 1) : (\A x \in Copies(file, n, p + 1) : x <= q) => q = p
  <2> SUFFICES ASSUME n = a \/ Packs(file, p, n), NEW q \in Copies(file, n, p + 1),
                      \A x \in Copies(file, n, p + 1) : x <= q
               PROVE  q = p
    OBVIOUS
  <2>1. p <= q
    BY <1>8
  <2>2. q = p \/ (q < p /\ q \in Bodies(file))
    BY <1>8
  <2>3. q \in Nat /\ p \in Nat
    <3>1. q \in Bodies(file)
      BY <2>2
    <3> QED
      BY <1>11, <3>1
  <2> QED
    BY <2>1, <2>2, <2>3
<1>13. CASE n = a
  <2>1. r[n].at = "offset" /\ r[n].pos = p /\ r[n].gen = o.gen
    BY <1>3, <1>5, <1>13 DEF At
  <2>2. LeadsTo(file, n, p, r[n])
    BY <1>1, <1>13, <2>1 DEF LeadsTo
  <2>3. r[n].flag <=> S # {}
    BY <1>3, <1>5, <1>13 DEF At
  <2> QED
    BY <1>3, <1>8, <1>10, <1>12, <1>13, <2>2, <2>3
<1>14. CASE n # a /\ Packs(file, p, n)
  <2>1. PICK i \in S : o.members[i] = n
    BY <1>9, <1>14
  <2>2. PICK j \in S : o.members[j] = n /\ r[n] = Packed(a, j - 1)
    BY <1>5, <2>1
  <2>3. j \in Nat /\ j - 1 + 1 = j
    BY <1>1, <1>2 DEF IsItem
  <2>4. LeadsTo(file, n, p, r[n])
    BY <1>1, <2>2, <2>3 DEF LeadsTo, Packed
  <2>5. ~r[n].flag
    BY <2>2 DEF Packed
  <2>6. ~Archived(file, n, p + 1)
    <3>1. ~\E q \in Bodies(file) : file[q].num = n /\ DOMAIN file[q].members # {}
      BY <1>14, InOrderFacts
    <3> QED
      BY <3>1 DEF Archived
  <2> QED
    BY <1>10, <1>12, <1>14, <2>4, <2>5, <2>6
<1>15. CASE n # a /\ ~Packs(file, p, n)
  <2>1. n \in DOMAIN r => n \in DOMAIN m /\ r[n] = m[n]
    BY <1>3, <1>5, <1>9, <1>15
  <2>2. Copies(file, n, p + 1) = Copies(file, n, p)
    BY <1>8, <1>15
  <2> QED
    BY <1>7, <1>8, <1>10, <1>15, <2>1, <2>2
<1> QED
  BY <1>13, <1>14, <1>15

\* Anything else holds no object.
LEMMA HeldOther ==
    ASSUME NEW f \in Files, NEW p \in DOMAIN f, p \notin Bodies(f), NEW m, Held(f, p, m)
    PROVE  Held(f, p + 1, m)
<1>1. \A n : /\ Copies(f, n, p + 1) = Copies(f, n, p)
             /\ Archived(f, n, p + 1) <=> Archived(f, n, p)
  BY CopiesNext
<1> QED
  BY <1>1 DEF Held

LEMMA HeldNothing ==
    ASSUME NEW f \in Files
    PROVE  Held(f, 1, NoEntries)
<1>1. \A n : Copies(f, n, 1) = {}
  BY FileFacts DEF Copies, Bodies
<1> QED
  BY <1>1 DEF Held, NoEntries

----------------------------------------------------------------------------
(* What the rebuilt table answers.                                         *)

\* LastCopy and Found, as functions of a file.
LastIn(f, n) ==
    LET S == {p \in DOMAIN f :
                \/ p \in Bodies(f) /\ f[p].num = n
                \/ n \in {f[p].members[i] : i \in DOMAIN f[p].members}} IN
    IF S = {} THEN 0 ELSE CHOOSE p \in S : \A q \in S : q <= p

FoundIn(f, m, n) ==
    LET a == m[n].archive
        c == m[a].pos IN
    IF n = 0 \/ ~Knows(m, n) THEN 0
    ELSE
    CASE m[n].at = "free"   -> 0
      [] m[n].at = "offset" -> IF m[n].pos \in Bodies(f) /\ f[m[n].pos].num = n
                               THEN m[n].pos ELSE 0
      [] m[n].at = "packed" ->
           IF /\ Knows(m, a) /\ m[a].flag /\ m[a].at = "offset"
              /\ c \in Bodies(f) /\ f[c].num = a
              /\ m[n].pos + 1 \in DOMAIN f[c].members
              /\ f[c].members[m[n].pos + 1] = n
           THEN c ELSE 0

LEMMA ReadsCopies ==
    /\ \A n : LastCopy(n) = LastIn(file, n)
    /\ \A m, n : Found(m, n) = FoundIn(file, m, n)
<1>1. \A p, x : IsObject(p, x) <=> p \in Bodies(file) /\ file[p].num = x
  BY DEF IsObject, ItemAt, Bodies, Junk
<1>2. ASSUME NEW n PROVE LastCopy(n) = LastIn(file, n)
  <2>1. \A p \in DOMAIN file : IsObject(p, n) <=> p \in Bodies(file) /\ file[p].num = n
    BY <1>1
  <2> DEFINE S == {p \in DOMAIN file :
                     \/ IsObject(p, n)
                     \/ n \in {file[p].members[i] : i \in DOMAIN file[p].members}}
             T == {p \in DOMAIN file :
                     \/ p \in Bodies(file) /\ file[p].num = n
                     \/ n \in {file[p].members[i] : i \in DOMAIN file[p].members}}
  <2>2. S = T
    BY <2>1, Zenon
  <2>3. LastCopy(n) = IF S = {} THEN 0 ELSE CHOOSE p \in S : \A q \in S : q <= p
    BY Zenon DEF LastCopy
  <2>4. LastIn(file, n) = IF T = {} THEN 0 ELSE CHOOSE p \in T : \A q \in T : q <= p
    BY Zenon DEF LastIn
  <2> HIDE DEF S, T
  <2> QED
    BY <2>2, <2>3, <2>4
<1>3. ASSUME NEW m, NEW n PROVE Found(m, n) = FoundIn(file, m, n)
  <2>1. PICK a, c, p : a = m[n].archive /\ c = m[a].pos /\ p = m[n].pos
    OBVIOUS
  <2>2. /\ IsObject(p, n) <=> p \in Bodies(file) /\ file[p].num = n
        /\ IsObject(c, a) <=> c \in Bodies(file) /\ file[c].num = a
    BY <1>1
  <2> QED
    BY <2>1, <2>2 DEF Found, FoundIn
<1> QED
  BY <1>2, <1>3

\* The table answers every number that has a copy with the last one.
AnswersLast(f, m) ==
    \A n \in Numbers \ {0} : LastIn(f, n) # 0 => FoundIn(f, m, n) = LastIn(f, n)

\* The scan's table on top of any other.
LEMMA Answers ==
    ASSUME file \in Files, CopiesInOrder(file), NEW k \in Nat, k > Len(file),
           NEW m \in Tables, NEW s \in Tables, Held(file, k, s)
    PROVE  AnswersLast(file, MergeUp(m, s))
<1> SUFFICES ASSUME NEW n \in Numbers, n # 0, LastIn(file, n) # 0
             PROVE  FoundIn(file, MergeUp(m, s), n) = LastIn(file, n)
  BY DEF AnswersLast
<1>1. PICK t : t = MergeUp(m, s)
  OBVIOUS
<1>2. /\ DOMAIN t = DOMAIN m \union DOMAIN s
      /\ \A j \in DOMAIN s : \/ t[j] = s[j]
                             \/ t[j] = [s[j] EXCEPT !.flag = TRUE]
  BY <1>1 DEF MergeUp, TopOver, Knows
<1>3. \A j \in DOMAIN s : /\ j \in DOMAIN t /\ t[j].at = s[j].at /\ t[j].pos = s[j].pos
                          /\ t[j].archive = s[j].archive
                          /\ s[j].flag => t[j].flag
  <2> SUFFICES ASSUME NEW j \in DOMAIN s
               PROVE  /\ j \in DOMAIN t /\ t[j].at = s[j].at /\ t[j].pos = s[j].pos
                      /\ t[j].archive = s[j].archive
                      /\ s[j].flag => t[j].flag
    OBVIOUS
  <2>1. s[j] \in Entry
    BY IsTables
  <2>2. CASE t[j] = s[j]
    BY <1>2, <2>2
  <2>3. CASE t[j] = [s[j] EXCEPT !.flag = TRUE]
    BY <1>2, <2>1, <2>3 DEF Entry
  <2> QED
    BY <1>2, <2>2, <2>3
<1>4. /\ Len(file) \in Nat /\ DOMAIN file = 1..Len(file)
      /\ \A p \in DOMAIN file : p \in Nat /\ p < k /\ IsItem(file[p])
  BY FileFacts, ItemFacts
<1>6. \A x : {p \in DOMAIN file :
                  \/ p \in Bodies(file) /\ file[p].num = x
                  \/ x \in {file[p].members[i] : i \in DOMAIN file[p].members}}
              = Copies(file, x, k)
  <2>1. \A x, p : x \in {file[p].members[i] : i \in DOMAIN file[p].members} <=> Packs(file, p, x)
    BY DEF Packs
  <2>2. \A x, p : p \in DOMAIN file /\ Packs(file, p, x) => p \in Bodies(file)
    BY InOrderFacts DEF Packs
  <2>3. \A p : p \in Bodies(file) => p \in DOMAIN file
    BY DEF Bodies
  <2> QED
    BY <1>4, <2>1, <2>2, <2>3 DEF Copies
<1>7. /\ Copies(file, n, k) # {}
      /\ LastIn(file, n) = CHOOSE p \in Copies(file, n, k) : \A q \in Copies(file, n, k) : q <= p
  BY <1>6 DEF LastIn
<1>8. PICK p : p = LastIn(file, n)
  OBVIOUS
<1>9. p \in Copies(file, n, k) /\ \A q \in Copies(file, n, k) : q <= p
  BY <1>7, <1>8, LastOfCopies
<1>10. p \in Bodies(file) /\ p \in DOMAIN file
  BY <1>9 DEF Copies, Bodies
<1>11. n \in DOMAIN s /\ LeadsTo(file, n, p, s[n])
  BY <1>7, <1>9 DEF Held
<1>12. CASE s[n].at = "offset" /\ s[n].pos = p /\ file[p].num = n
  <2>1. Knows(t, n) /\ t[n].at = "offset" /\ t[n].pos = p
    BY <1>3, <1>10, <1>11, <1>12 DEF Knows
  <2>2. FoundIn(file, t, n) = p
    BY <1>10, <1>12, <2>1 DEF FoundIn
  <2> QED
    BY <1>1, <1>8, <2>2
<1>13. CASE /\ s[n].at = "packed" /\ s[n].archive = file[p].num
            /\ s[n].pos + 1 \in DOMAIN file[p].members /\ file[p].members[s[n].pos + 1] = n
  <2>1. PICK a : a = file[p].num
    OBVIOUS
  <2>2. a \in Numbers /\ p \in Copies(file, a, k) /\ Archived(file, a, k)
    BY <1>4, <1>10, <1>13, <2>1 DEF Copies, Archived, IsItem
  <2>3. \A q \in Copies(file, a, k) : q = p
    <3>1. \A q \in Bodies(file) : ~Packs(file, q, a)
      BY <1>10, <1>13, <2>1, InOrderFacts
    <3>2. \A q \in Bodies(file) : file[q].num = a => q = p
      BY <1>10, <1>13, <2>1, InOrderFacts
    <3> QED
      BY <3>1, <3>2 DEF Copies
  <2>4. a \in DOMAIN s /\ LeadsTo(file, a, p, s[a]) /\ s[a].flag
    <3>1. \A q \in Copies(file, a, k) : q <= p
      BY <1>4, <1>10, <2>3
    <3>2. a \in DOMAIN s
      BY <2>2 DEF Held
    <3> QED
      BY <2>2, <3>1, <3>2 DEF Held
  <2>5. s[a].at = "offset" /\ s[a].pos = p
    <3>1. ~Packs(file, p, a)
      BY <1>10, <1>13, <2>1, InOrderFacts
    <3> QED
      BY <2>4, <3>1 DEF LeadsTo, Packs
  <2>6. /\ Knows(t, a) /\ t[a].flag /\ t[a].at = "offset" /\ t[a].pos = p
        /\ Knows(t, n) /\ t[n].at = "packed" /\ t[n].archive = a /\ t[n].pos = s[n].pos
    BY <1>3, <1>11, <1>13, <2>1, <2>4, <2>5 DEF Knows
  <2>8. FoundIn(file, t, n) = p
    BY <1>10, <1>13, <2>1, <2>6 DEF FoundIn
  <2> QED
    BY <1>1, <1>8, <2>8
<1> QED
  BY <1>11, <1>12, <1>13 DEF LeadsTo

RebuildInv ==
    /\ TypeInv
    /\ pc \in {"scan", "rescan"} => Held(file, cursor, scanned.xref)
    /\ pc \in {"catalog", "again", "open"} /\ rebuilt => AnswersLast(file, xref)

LEMMA RebuildBegins ==
    ASSUME TypeInv', file' = file, file \in Files, pc' = "scan" \/ pc' = "rescan",
           cursor' = 1, scanned' = Nothing
    PROVE  RebuildInv'
<1>1. Held(file', cursor', scanned'.xref)
  BY HeldNothing DEF Nothing
<1> QED
  BY <1>1 DEF RebuildInv

\* A chain that fails begins a scan; one that does not has not been rebuilt.
LEMMA RebuildChain ==
    RebuildInv /\ (Start \/ Visit \/ WalkEnds \/ ReadOldest \/ ReadNewer \/ ChainEnds)
        => RebuildInv'
<1> SUFFICES ASSUME RebuildInv,
                    Start \/ Visit \/ WalkEnds \/ ReadOldest \/ ReadNewer \/ ChainEnds
             PROVE  RebuildInv'
  OBVIOUS
<1>1. /\ TypeInv' /\ file \in Files /\ file' = file /\ rebuilt' = rebuilt /\ ~rebuilt
  <2>1. TypeInv'
    BY TypeStart, TypeVisit, TypeWalkEnds, TypeOldest, TypeNewer, TypeRest DEF RebuildInv
  <2> QED
    BY <2>1 DEF RebuildInv, TypeInv, WalkInv, Start, Visit, WalkEnds, ReadOldest, ReadNewer, ChainEnds
<1>2. \/ pc' = "scan" /\ cursor' = 1 /\ scanned' = Nothing
      \/ pc' \in {"walk", "oldest", "newer", "catalog"}
  BY DEF Start, Visit, WalkEnds, ReadOldest, ReadNewer, ChainEnds, Abandon
<1>3. CASE pc' = "scan" /\ cursor' = 1 /\ scanned' = Nothing
  BY <1>1, <1>3, RebuildBegins
<1>4. CASE pc' \in {"walk", "oldest", "newer", "catalog"}
  BY <1>1, <1>4 DEF RebuildInv
<1> QED
  BY <1>2, <1>3, <1>4

LEMMA RebuildScanItem ==
    ASSUME \A f \in Files : CopiesInOrder(f)
    PROVE  RebuildInv /\ ScanItem => RebuildInv'
<1> SUFFICES ASSUME RebuildInv, ScanItem PROVE RebuildInv'
  OBVIOUS
<1>1. /\ TypeInv' /\ file \in Files /\ file' = file /\ pc' = pc /\ pc \in {"scan", "rescan"}
      /\ scanned.xref \in Tables /\ IsFound(scanned) /\ Held(file, cursor, scanned.xref)
      /\ cursor' = cursor + 1
  BY TypeScan DEF RebuildInv, TypeInv, WalkInv, IsFound, ScanItem, Scanning
<1>2. cursor \in DOMAIN file
  BY <1>1, FileFacts DEF RebuildInv, TypeInv, ScanItem, Scanning
<1>3. CASE cursor \in Bodies(file)
  <2>1. scanned'.xref = WithObject(scanned.xref, cursor)
    <3>1. file[cursor].what = "object" \/ file[cursor].what = "stream"
      BY <1>3 DEF Bodies
    <3> QED
      BY <1>1, <3>1 DEF ScanItem, IsFound
  <2>2. Held(file, cursor + 1, scanned'.xref)
    BY <1>1, <1>3, <2>1, HeldObject
  <2> QED
    BY <1>1, <2>2 DEF RebuildInv
<1>4. CASE cursor \notin Bodies(file)
  <2>1. scanned'.xref = scanned.xref
    <3>1. file[cursor].what # "object" /\ file[cursor].what # "stream"
      BY <1>2, <1>4 DEF Bodies
    <3> QED
      BY <1>1, <3>1 DEF ScanItem, IsFound
  <2>2. Held(file, cursor + 1, scanned'.xref)
    BY <1>1, <1>2, <1>4, <2>1, HeldOther
  <2> QED
    BY <1>1, <2>2 DEF RebuildInv
<1> QED
  BY <1>3, <1>4

LEMMA RebuildScanEnds ==
    ASSUME \A f \in Files : CopiesInOrder(f)
    PROVE  RebuildInv /\ ScanEnds => RebuildInv'
<1> SUFFICES ASSUME RebuildInv, ScanEnds PROVE RebuildInv'
  OBVIOUS
<1>1. /\ TypeInv' /\ file \in Files /\ file' = file
      /\ xref \in Tables /\ scanned.xref \in Tables /\ Held(file, cursor, scanned.xref)
      /\ cursor \in Nat /\ cursor > Len(file)
  BY TypeScan DEF RebuildInv, TypeInv, WalkInv, IsFound, ScanEnds
<1>2. CASE pc' = "broken"
  BY <1>1, <1>2 DEF RebuildInv
<1>3. CASE pc' \in {"catalog", "again"} /\ xref' = MergeUp(xref, scanned.xref)
  <2>1. AnswersLast(file, xref')
    BY <1>1, <1>3, Answers
  <2> QED
    BY <1>1, <1>3, <2>1 DEF RebuildInv
<1> QED
  BY <1>2, <1>3 DEF ScanEnds

LEMMA RebuildRest == RebuildInv /\ (CatalogCheck \/ TimeOut) => RebuildInv'
<1> SUFFICES ASSUME RebuildInv, CatalogCheck \/ TimeOut PROVE RebuildInv'
  OBVIOUS
<1>1. TypeInv' /\ file \in Files /\ file' = file /\ xref' = xref /\ rebuilt' = rebuilt
  BY TypeRest DEF RebuildInv, TypeInv, WalkInv, CatalogCheck, TimeOut
<1>2. CASE TimeOut
  BY <1>1, <1>2 DEF RebuildInv, TimeOut
<1>3. CASE CatalogCheck /\ pc' = "rescan"
  <2>1. cursor' = 1 /\ scanned' = Nothing
    BY <1>3 DEF CatalogCheck
  <2> QED
    BY <1>1, <1>3, <2>1, RebuildBegins
<1>4. CASE CatalogCheck /\ pc' # "rescan"
  <2>1. pc \in {"catalog", "again"} /\ pc' \in {"open", "broken"}
    BY <1>4 DEF CatalogCheck
  <2> QED
    BY <1>1, <2>1 DEF RebuildInv
<1> QED
  BY <1>2, <1>3, <1>4

\* A document that was opened by a scan answers every object with its last
\* copy in the file, alone or packed, whatever a chain that failed, or that led
\* to no catalog, had left in the table: no entry of it wins over a scanned one.
THEOREM RebuildCorrect ==
    ASSUME \A f \in Files : CopiesInOrder(f)
    PROVE  Spec => []RebuildFindsLastCopies
<1>1. Init => RebuildInv
  BY TypeInit DEF Init, RebuildInv
<1>2. RebuildInv /\ [Next]_vars => RebuildInv'
  <2> SUFFICES ASSUME RebuildInv, [Next]_vars PROVE RebuildInv'
    OBVIOUS
  <2>1. CASE UNCHANGED vars
    <3>1. TypeInv'
      BY <2>1, WalkStep DEF vars, RebuildInv, TypeInv
    <3> QED
      BY <2>1, <3>1 DEF vars, RebuildInv
  <2> QED
    BY <2>1, RebuildChain, RebuildScanItem, RebuildScanEnds, RebuildRest DEF Next
<1>3. RebuildInv => RebuildFindsLastCopies
  BY ReadsCopies DEF RebuildInv, AnswersLast, RebuildFindsLastCopies
<1> QED
  BY <1>1, <1>2, <1>3, PTL DEF Spec

----------------------------------------------------------------------------
(* What a section's entries leave of a table.                              *)

\* An entry without its mark, and the generation it is compared by.
Bare(e) == CASE e.at = "free"   -> Free(e.gen)
             [] e.at = "offset" -> At(e.pos, e.gen, FALSE)
             [] e.at = "packed" -> Packed(e.archive, e.pos)

GenOf(e) == IF e.at = "packed" THEN 0 ELSE e.gen

\* One entry applied, whatever its section.
EntryOver(t, n, e) ==
    CASE e.at = "free"   -> SetFree(t, n, e.gen)
      [] e.at = "offset" -> AddNormal(t, n, e.gen, FALSE, e.pos)
      [] e.at = "packed" -> AddCompressed(t, n, e.archive, e.pos)

\* A table marks the numbers of A only, those of object streams.
Kept(A, t) ==
    /\ t \in Tables
    /\ \A n \in DOMAIN t : /\ t[n].flag => n \in A
                           /\ t[n].at = "packed" => t[n].gen = 0

\* Entries that put the numbers of A at an offset only.
WordsFit(A, w, s) ==
    \A n \in s : /\ n \in Numbers /\ w[n] \in Entry
                 /\ w[n].at = "packed" => w[n].archive \in A
                 /\ n \in A => w[n].at = "offset"

\* t is m with the entries w of the numbers s applied, in any order.
Laid(A, w, s, m, t) ==
    /\ Kept(A, t) /\ DOMAIN m \subseteq DOMAIN t /\ s \subseteq DOMAIN t
    /\ \A n \in DOMAIN t \ s : IF n \in DOMAIN m THEN Bare(t[n]) = Bare(m[n])
                                                 ELSE Bare(t[n]) = Free(0)
    /\ \A n \in s : \/ Bare(t[n]) = Bare(w[n])
                    \/ n \in DOMAIN m /\ GenOf(m[n]) > GenOf(w[n]) /\ Bare(t[n]) = Bare(m[n])
    /\ \A n \in DOMAIN m \intersect A : m[n].flag => t[n].flag
    /\ \A n \in s : w[n].at = "packed" /\ Bare(t[n]) = Bare(w[n]) =>
                      w[n].archive \in DOMAIN t /\ t[w[n].archive].flag

LEMMA EntryIs ==
    ASSUME NEW e \in Entry
    PROVE  /\ e.at \in {"free", "offset", "packed"} /\ e.gen \in Nat /\ e.flag \in BOOLEAN
           /\ e.archive \in Numbers /\ GenOf(e) \in Nat
BY RulesAssumption DEF Entry, GenOf

LEMMA BareEntries ==
    /\ \A g : Bare(Free(g)) = Free(g)
    /\ \A p, g, f : Bare(At(p, g, f)) = At(p, g, FALSE)
    /\ \A a, i : Bare(Packed(a, i)) = Packed(a, i)
    /\ \A e \in Entry : Bare([e EXCEPT !.flag = TRUE]) = Bare(e)
<1>1. ASSUME NEW e \in Entry PROVE Bare([e EXCEPT !.flag = TRUE]) = Bare(e)
  <2>1. PICK x : x = [e EXCEPT !.flag = TRUE]
    OBVIOUS
  <2>2. x.at = e.at /\ x.gen = e.gen /\ x.pos = e.pos /\ x.archive = e.archive
    BY <2>1 DEF Entry
  <2> QED
    BY <2>1, <2>2 DEF Bare
<1> QED
  BY <1>1 DEF Bare, Free, At, Packed

\* Entries that are alike lead to the same place.
LEMMA AlikeEntries ==
    ASSUME NEW e \in Entry, NEW d \in Entry, Bare(e) = Bare(d)
    PROVE  /\ e.at = d.at /\ GenOf(e) = GenOf(d)
           /\ e.at # "free" => e.pos = d.pos
           /\ e.at = "packed" => e.archive = d.archive
<1>1. \A x \in Entry : Bare(x).at = x.at
  BY EntryIs DEF Bare, Free, At, Packed
<1>2. e.at = d.at
  BY <1>1
<1>3. CASE e.at = "free"
  BY <1>2, <1>3 DEF Bare, Free, GenOf
<1>4. CASE e.at = "offset"
  BY <1>2, <1>4 DEF Bare, At, GenOf
<1>5. CASE e.at = "packed"
  BY <1>2, <1>5 DEF Bare, Packed, GenOf
<1> QED
  BY <1>2, <1>3, <1>4, <1>5, EntryIs

LEMMA AlikeFree ==
    ASSUME NEW e \in Entry, Bare(e) = Free(0)
    PROVE  e.at = "free" /\ GenOf(e) = 0
<1>1. e.at = "free"
  BY EntryIs DEF Bare, Free, At, Packed
<1>2. Bare(e) = Free(e.gen)
  BY <1>1 DEF Bare
<1> QED
  BY <1>1, <1>2 DEF Free, GenOf

\* Putting an entry that is no mark of its own.
LEMMA PutLaid ==
    ASSUME NEW A, NEW w, NEW n, WordsFit(A, w, {n}), NEW t, Kept(A, t), NEW e \in Entry,
           Bare(e) = Bare(w[n]), e.flag => n \in A, w[n].at # "packed",
           n \in DOMAIN t /\ n \in A /\ t[n].flag => e.flag
    PROVE  Laid(A, w, {n}, t, Put(t, n, e))
<1>1. PICK r : r = Put(t, n, e)
  OBVIOUS
<1>2. /\ DOMAIN r = DOMAIN t \union {n} /\ r[n] = e
      /\ \A k \in DOMAIN t : k # n => r[k] = t[k]
  BY <1>1 DEF Put
<1>3. n \in Numbers /\ w[n] \in Entry
  BY DEF WordsFit
<1>4. r \in Tables
  BY <1>1, <1>3, PutTables DEF Kept
<1>5. e.at # "packed"
  BY <1>3, AlikeEntries
<1>6. Kept(A, r)
  BY <1>2, <1>4, <1>5 DEF Kept
<1>7. Laid(A, w, {n}, t, r)
  BY <1>2, <1>6 DEF Laid
<1> QED
  BY <1>1, <1>7

\* A table that is left alone because what it has is newer.
LEMMA LeftLaid ==
    ASSUME NEW A, NEW w, NEW n, NEW t, Kept(A, t), n \in DOMAIN t,
           GenOf(t[n]) > GenOf(w[n]), WordsFit(A, w, {n})
    PROVE  Laid(A, w, {n}, t, t)
<1>1. w[n] \in Entry /\ t[n] \in Entry
  BY IsTables DEF WordsFit, Kept
<1>2. Bare(t[n]) # Bare(w[n])
  <2>1. GenOf(t[n]) \in Nat /\ GenOf(w[n]) \in Nat
    BY <1>1, EntryIs
  <2> QED
    BY <1>1, <2>1, AlikeEntries
<1> QED
  BY <1>2 DEF Laid

LEMMA KeptGen ==
    ASSUME NEW A, NEW t, Kept(A, t), NEW n \in DOMAIN t
    PROVE  GenOf(t[n]) = t[n].gen /\ t[n] \in Entry /\ t[n].gen \in Nat
BY IsTables, EntryIs DEF Kept, GenOf

LEMMA OffsetLaid ==
    ASSUME NEW A, NEW w, NEW n, WordsFit(A, w, {n}), w[n].at = "offset", NEW t, Kept(A, t)
    PROVE  Laid(A, w, {n}, t, AddNormal(t, n, w[n].gen, FALSE, w[n].pos))
<1>1. PICK p, g : p = w[n].pos /\ g = w[n].gen
  OBVIOUS
<1>2. n \in Numbers /\ w[n] \in Entry /\ p \in Offsets \union Indexes /\ g \in Generations
  BY <1>1 DEF WordsFit, Entry
<1>3. Bare(w[n]) = At(p, g, FALSE) /\ GenOf(w[n]) = g
  BY <1>1 DEF Bare, GenOf
<1>4. PICK r : r = AddNormal(t, n, g, FALSE, p)
  OBVIOUS
<1>5. CASE n \notin DOMAIN t
  <2>1. r = Put(t, n, At(p, g, FALSE))
    BY <1>2, <1>4, <1>5 DEF AddNormal, Knows
  <2>2. PICK e : e = At(p, g, FALSE)
    OBVIOUS
  <2>4. e \in Entry
    BY <1>2, <2>2, Entries
  <2>5. Bare(e) = Bare(w[n])
    BY <1>3, <2>2, BareEntries
  <2>6. ~e.flag
    BY <2>2 DEF At
  <2>3. Laid(A, w, {n}, t, r)
    BY <1>5, <2>1, <2>2, <2>4, <2>5, <2>6, PutLaid
  <2> QED
    BY <1>1, <1>4, <2>3
<1>6. CASE n \in DOMAIN t /\ t[n].gen > g
  <2>1. r = Put(t, n, t[n])
    BY <1>2, <1>4, <1>6 DEF AddNormal, Knows, NormalOver
  <2>2. Put(t, n, t[n]) = t
    <3>1. t = [k \in DOMAIN t |-> t[k]]
      BY DEF Kept, Tables
    <3> QED
      BY <1>6, <3>1 DEF Put
  <2>3. Laid(A, w, {n}, t, t)
    BY <1>3, <1>6, KeptGen, LeftLaid
  <2> QED
    BY <1>1, <1>4, <2>1, <2>2, <2>3
<1>7. CASE n \in DOMAIN t /\ ~(t[n].gen > g)
  <2>1. PICK e : e = At(p, g, t[n].flag \/ FALSE)
    OBVIOUS
  <2>2. r = Put(t, n, e)
    BY <1>2, <1>4, <1>7, <2>1 DEF AddNormal, Knows, NormalOver
  <2>3. (t[n].flag \/ FALSE) \in BOOLEAN
    OBVIOUS
  <2>4. e \in Entry
    BY <1>2, <2>1, <2>3, Entries
  <2>5. Bare(e) = Bare(w[n])
    BY <1>3, <2>1, BareEntries
  <2>6. e.flag = (t[n].flag \/ FALSE)
    BY <2>1 DEF At
  <2>7. t[n].flag => n \in A
    BY <1>7 DEF Kept
  <2>8. (e.flag => n \in A) /\ (t[n].flag => e.flag)
    BY <2>6, <2>7, Zenon
  <2>9. w[n].at # "packed"
    OBVIOUS
  <2>10. Laid(A, w, {n}, t, r)
    BY <1>2, <2>2, <2>4, <2>5, <2>8, <2>9, PutLaid
  <2> QED
    BY <1>1, <1>4, <2>10
<1> QED
  BY <1>5, <1>6, <1>7

LEMMA FreeLaid ==
    ASSUME NEW A, NEW w, NEW n, WordsFit(A, w, {n}), w[n].at = "free", NEW t, Kept(A, t)
    PROVE  Laid(A, w, {n}, t, SetFree(t, n, w[n].gen))
<1>1. PICK e : e = Free(w[n].gen)
  OBVIOUS
<1>2. w[n] \in Entry /\ n \notin A
  BY DEF WordsFit
<1>3. e \in Entry /\ Bare(e) = Bare(w[n]) /\ ~e.flag
  <2>1. w[n].gen \in Generations
    BY <1>2 DEF Entry
  <2> QED
    BY <1>1, <2>1, Entries, BareEntries DEF Bare, Free
<1>4. Laid(A, w, {n}, t, Put(t, n, e))
  BY <1>2, <1>3, PutLaid
<1> QED
  BY <1>1, <1>4 DEF SetFree

\* A member, with its object stream marked, were the stream unheard of.
LEMMA PackedLaid ==
    ASSUME NEW A, NEW w, NEW n, WordsFit(A, w, {n}), w[n].at = "packed", NEW t, Kept(A, t)
    PROVE  Laid(A, w, {n}, t, AddCompressed(t, n, w[n].archive, w[n].pos))
<1>1. PICK a, i : a = w[n].archive /\ i = w[n].pos
  OBVIOUS
<1>2. /\ n \in Numbers /\ w[n] \in Entry /\ a \in A /\ n \notin A /\ n # a
      /\ a \in Numbers /\ i \in Offsets \union Indexes
  BY <1>1 DEF WordsFit, Entry
<1>3. PICK r : r = AddCompressed(t, n, a, i)
  OBVIOUS
<1>4. GenOf(w[n]) = 0 /\ Bare(w[n]) = Packed(a, i)
  BY <1>1 DEF GenOf, Bare
<1>5. CASE n \in DOMAIN t /\ t[n].gen > 0
  <2>1. r = t
    BY <1>2, <1>3, <1>5 DEF AddCompressed, Knows, Declines
  <2>2. Laid(A, w, {n}, t, t)
    BY <1>4, <1>5, KeptGen, LeftLaid
  <2> QED
    BY <1>1, <1>3, <2>1, <2>2
<1>6. CASE ~(n \in DOMAIN t /\ t[n].gen > 0)
  <2>1. ~(Knows(t, n) /\ Declines(t[n]))
    <3>1. n \in DOMAIN t => ~t[n].flag
      BY <1>2 DEF Kept
    <3> QED
      BY <1>6, <3>1, Zenon DEF Knows, Declines
  <2>2. PICK q : q = OrDefault(Put(t, n, Packed(a, i)), a)
    OBVIOUS
  <2>3. r = [q EXCEPT ![a].flag = TRUE]
    BY <1>2, <1>3, <2>1, <2>2 DEF AddCompressed
  <2>4. /\ DOMAIN q = DOMAIN t \union {n, a} /\ q[n] = Packed(a, i)
        /\ \A k \in DOMAIN t : k # n => q[k] = t[k]
        /\ a \notin DOMAIN t => q[a] = Free(0)
        /\ q = [k \in DOMAIN q |-> q[k]]
    BY <1>2, <2>2 DEF OrDefault, Put, Knows
  <2>5. /\ DOMAIN r = DOMAIN t \union {n, a} /\ r[n] = Packed(a, i)
        /\ \A k \in DOMAIN t : k # n /\ k # a => r[k] = t[k]
        /\ r[a] = [q[a] EXCEPT !.flag = TRUE]
    BY <1>2, <2>3, <2>4
  <2>6. r \in Tables
    BY <1>2, <1>3, CompressedTables DEF Kept
  <2>7. q[a] \in Entry /\ (q[a].at = "packed" => q[a].gen = 0)
    <3>1. CASE a \in DOMAIN t
      BY <1>2, <2>4, <3>1, KeptGen DEF Kept
    <3>2. CASE a \notin DOMAIN t
      BY <2>4, <3>2, Entries, RulesAssumption DEF Free
    <3> QED
      BY <3>1, <3>2
  <2>8. /\ r[a].at = q[a].at /\ r[a].gen = q[a].gen /\ r[a].flag = TRUE
        /\ Bare(r[a]) = Bare(q[a])
    <3>1. r[a].at = q[a].at /\ r[a].gen = q[a].gen /\ r[a].flag = TRUE
      BY <2>5, <2>7 DEF Entry
    <3> QED
      BY <2>5, <2>7, <3>1, BareEntries
  <2>9. Kept(A, r)
    <3>1. r[n].flag = FALSE /\ r[n].gen = 0
      BY <2>5 DEF Packed
    <3> QED
      BY <1>2, <2>5, <2>6, <2>7, <2>8, <3>1 DEF Kept
  <2>10. Bare(r[n]) = Bare(w[n])
    BY <1>4, <2>5, BareEntries
  <2>11. \A k \in DOMAIN r \ {n} : IF k \in DOMAIN t THEN Bare(r[k]) = Bare(t[k])
                                                     ELSE Bare(r[k]) = Free(0)
    <3> TAKE k \in DOMAIN r \ {n}
    <3>1. CASE k # a
      BY <2>5, <3>1
    <3>2. CASE k = a
      BY <1>2, <2>4, <2>8, <3>2, BareEntries
    <3> QED
      BY <3>1, <3>2
  <2>12. \A k \in DOMAIN t \intersect A : t[k].flag => r[k].flag
    BY <1>2, <2>5, <2>8
  <2>13. w[n].archive \in DOMAIN r /\ r[w[n].archive].flag
    BY <1>1, <2>5, <2>8
  <2>14. Laid(A, w, {n}, t, r)
    BY <2>5, <2>9, <2>10, <2>11, <2>12, <2>13 DEF Laid
  <2> QED
    BY <1>1, <1>3, <2>14
<1> QED
  BY <1>5, <1>6

LEMMA OneLaid ==
    ASSUME NEW A, NEW w, NEW n, WordsFit(A, w, {n}), NEW t, Kept(A, t)
    PROVE  Laid(A, w, {n}, t, EntryOver(t, n, w[n]))
<1>1. w[n].at \in {"free", "offset", "packed"}
  BY EntryIs DEF WordsFit
<1>2. CASE w[n].at = "free"
  BY <1>2, FreeLaid DEF EntryOver
<1>3. CASE w[n].at = "offset"
  BY <1>3, OffsetLaid DEF EntryOver
<1>4. CASE w[n].at = "packed"
  BY <1>4, PackedLaid DEF EntryOver
<1> QED
  BY <1>1, <1>2, <1>3, <1>4

LEMMA NoneLaid ==
    ASSUME NEW A, NEW w, NEW m, Kept(A, m)
    PROVE  Laid(A, w, {}, m, m)
BY DEF Laid

\* One more entry.
LEMMA MoreLaid ==
    ASSUME NEW A, NEW w, NEW s, NEW x, x \notin s, NEW m, NEW t, NEW r,
           WordsFit(A, w, s \union {x}), Kept(A, m),
           Laid(A, w, s, m, t), Laid(A, w, {x}, t, r)
    PROVE  Laid(A, w, s \union {x}, m, r)
<1>1. /\ Kept(A, t) /\ DOMAIN m \subseteq DOMAIN t /\ s \subseteq DOMAIN t
      /\ \A n \in DOMAIN t \ s : IF n \in DOMAIN m THEN Bare(t[n]) = Bare(m[n])
                                                   ELSE Bare(t[n]) = Free(0)
      /\ \A n \in s : \/ Bare(t[n]) = Bare(w[n])
                      \/ n \in DOMAIN m /\ GenOf(m[n]) > GenOf(w[n]) /\ Bare(t[n]) = Bare(m[n])
      /\ \A n \in DOMAIN m \intersect A : m[n].flag => t[n].flag
      /\ \A n \in s : w[n].at = "packed" /\ Bare(t[n]) = Bare(w[n]) =>
                        w[n].archive \in DOMAIN t /\ t[w[n].archive].flag
  BY DEF Laid
<1>2. /\ Kept(A, r) /\ DOMAIN t \subseteq DOMAIN r /\ x \in DOMAIN r
      /\ \A n \in DOMAIN r \ {x} : IF n \in DOMAIN t THEN Bare(r[n]) = Bare(t[n])
                                                     ELSE Bare(r[n]) = Free(0)
      /\ \/ Bare(r[x]) = Bare(w[x])
         \/ x \in DOMAIN t /\ GenOf(t[x]) > GenOf(w[x]) /\ Bare(r[x]) = Bare(t[x])
      /\ \A n \in DOMAIN t \intersect A : t[n].flag => r[n].flag
      /\ w[x].at = "packed" /\ Bare(r[x]) = Bare(w[x]) =>
           w[x].archive \in DOMAIN r /\ r[w[x].archive].flag
  BY DEF Laid
<1>3. \A n \in DOMAIN r \ (s \union {x}) : IF n \in DOMAIN m THEN Bare(r[n]) = Bare(m[n])
                                                             ELSE Bare(r[n]) = Free(0)
  BY <1>1, <1>2
<1>4. \/ Bare(r[x]) = Bare(w[x])
      \/ x \in DOMAIN m /\ GenOf(m[x]) > GenOf(w[x]) /\ Bare(r[x]) = Bare(m[x])
  <2> SUFFICES ASSUME x \in DOMAIN t, GenOf(t[x]) > GenOf(w[x]), Bare(r[x]) = Bare(t[x])
               PROVE  x \in DOMAIN m /\ GenOf(m[x]) > GenOf(w[x]) /\ Bare(r[x]) = Bare(m[x])
    BY <1>2
  <2>1. t[x] \in Entry /\ w[x] \in Entry /\ GenOf(w[x]) \in Nat
    BY <1>1, KeptGen, EntryIs DEF WordsFit
  <2>2. x \in DOMAIN m
    <3>1. Bare(t[x]) = Free(0) => GenOf(t[x]) = 0
      BY <2>1, AlikeFree
    <3> QED
      BY <1>1, <2>1, <3>1
  <2>3. Bare(t[x]) = Bare(m[x]) /\ m[x] \in Entry
    BY <1>1, <2>2, KeptGen
  <2>4. GenOf(t[x]) = GenOf(m[x])
    BY <2>1, <2>3, AlikeEntries
  <2> QED
    BY <2>2, <2>3, <2>4
<1>5. \A n \in s : n # x /\ Bare(r[n]) = Bare(t[n])
  BY <1>1, <1>2
<1>6. \A n \in s \union {x} :
         \/ Bare(r[n]) = Bare(w[n])
         \/ n \in DOMAIN m /\ GenOf(m[n]) > GenOf(w[n]) /\ Bare(r[n]) = Bare(m[n])
  BY <1>1, <1>4, <1>5
<1>7. \A n \in s \union {x} : w[n].at = "packed" /\ Bare(r[n]) = Bare(w[n]) =>
                                w[n].archive \in DOMAIN r /\ r[w[n].archive].flag
  <2> SUFFICES ASSUME NEW n \in s, w[n].at = "packed", Bare(r[n]) = Bare(w[n])
               PROVE  w[n].archive \in DOMAIN r /\ r[w[n].archive].flag
    BY <1>2
  <2>1. w[n].archive \in A
    BY DEF WordsFit
  <2> QED
    BY <1>1, <1>2, <1>5, <2>1
<1>8. \A n \in DOMAIN m \intersect A : m[n].flag => r[n].flag
  BY <1>1, <1>2
<1> QED
  BY <1>1, <1>2, <1>3, <1>6, <1>7, <1>8 DEF Laid

\* All of them, whatever folds them in.
LEMMA AllLaid ==
    ASSUME NEW N \in Nat, NEW S \in SUBSET (0..N), NEW A, NEW w, WordsFit(A, w, S),
           NEW m, Kept(A, m), NEW iter, iter[{}] = m,
           \A s \in SUBSET S : s # {} /\ Laid(A, w, s \ {Max(s)}, m, iter[s \ {Max(s)}]) =>
             iter[s] = EntryOver(iter[s \ {Max(s)}], Max(s), w[Max(s)])
    PROVE  Laid(A, w, S, m, iter[S])
<1> DEFINE G == {s \in SUBSET S : Laid(A, w, s, m, iter[s])}
<1>1. {} \in G
  BY NoneLaid
<1>2. ASSUME NEW s \in SUBSET S, s # {} PROVE \E x \in s : s \ {x} \in G => s \in G
  <2>1. PICK x : x = Max(s)
    OBVIOUS
  <2>2. x \in s
    BY <1>2, <2>1, FiniteNumbers
  <2>3. ASSUME s \ {x} \in G PROVE s \in G
    <3>1. Laid(A, w, s \ {x}, m, iter[s \ {x}])
      BY <2>3
    <3>2. iter[s] = EntryOver(iter[s \ {x}], x, w[x])
      BY <1>2, <2>1, <3>1
    <3>3. Kept(A, iter[s \ {x}])
      BY <3>1 DEF Laid
    <3>4. WordsFit(A, w, {x}) /\ WordsFit(A, w, (s \ {x}) \union {x})
      BY <2>2 DEF WordsFit
    <3>5. Laid(A, w, {x}, iter[s \ {x}], iter[s])
      BY <3>2, <3>3, <3>4, OneLaid
    <3>6. x \notin s \ {x} /\ (s \ {x}) \union {x} = s
      BY <2>2
    <3>7. Laid(A, w, (s \ {x}) \union {x}, m, iter[s])
      BY <3>1, <3>4, <3>5, <3>6, MoreLaid
    <3> QED
      BY <3>6, <3>7
  <2> HIDE DEF G
  <2> QED
    BY <2>2, <2>3
<1> HIDE DEF G
<1>3. IsFiniteSet(S)
  BY FiniteNumbers
<1>4. SUBSET S \subseteq G
  BY <1>1, <1>2, <1>3, SetInduction
<1> QED
  BY <1>4 DEF G

\* read_subsection, of entries that are in use or free.
LEMMA TableLaid ==
    ASSUME NEW A, NEW es, DOMAIN es \subseteq Numbers, \A n \in DOMAIN es : es[n] \in Entry,
           NEW S, S = {n \in DOMAIN es : es[n].at # "free"}, WordsFit(A, es, S),
           \A n \in S : es[n].at = "offset", NEW m, Kept(A, m)
    PROVE  Laid(A, es, S, m, WithTable(m, es))
<1>1. TableAdds(es, S, m, WithTable(m, es))
  BY TableFolds DEF Kept
<1>2. PICK iter :
        /\ WithTable(m, es) = iter[S] /\ iter[{}] = m
        /\ \A s \in SUBSET S : s # {} =>
             iter[s] = AddNormal(iter[s \ {Max(s)}], Max(s), es[Max(s)].gen, FALSE, es[Max(s)].pos)
  BY <1>1 DEF TableAdds
<1>3. PICK N \in Nat : S \in SUBSET (0..N)
  BY RulesAssumption DEF Numbers
<1>4. ASSUME NEW s \in SUBSET S, s # {}
      PROVE  iter[s] = EntryOver(iter[s \ {Max(s)}], Max(s), es[Max(s)])
  <2>1. es[Max(s)].at = "offset"
    BY <1>3, <1>4, FiniteNumbers
  <2> QED
    BY <1>2, <1>4, <2>1 DEF EntryOver
<1>5. Laid(A, es, S, m, iter[S])
  BY <1>2, <1>3, <1>4, AllLaid
<1> QED
  BY <1>2, <1>5

\* A number below one that is described is no end of the table.
LEMMA NotPastEnd ==
    ASSUME NEW t \in Tables, NEW top \in DOMAIN t
    PROVE  top <= LastNumber(t) /\ LastNumber(t) \in Nat
<1>1. DOMAIN t \in SUBSET (0..MaxNumber) /\ MaxNumber \in Nat
  BY IsTables, RulesAssumption DEF Numbers
<1>2. PICK max : max = CHOOSE x \in DOMAIN t : \A y \in DOMAIN t : x >= y
  OBVIOUS
<1>3. max \in DOMAIN t /\ \A y \in DOMAIN t : max >= y
  BY <1>1, <1>2, LargestNatural
<1>4. \A y \in DOMAIN t : y \in Nat
  BY <1>1
<1>5. \A y \in DOMAIN t : y <= max
  BY <1>3, <1>4
<1>6. LastNumber(t) = CHOOSE n \in DOMAIN t : \A k \in DOMAIN t : k <= n
  BY DEF LastNumber
<1>7. LastNumber(t) \in DOMAIN t /\ \A k \in DOMAIN t : k <= LastNumber(t)
  BY <1>3, <1>5, <1>6
<1> QED
  BY <1>4, <1>7

\* read_entries, of a table that reaches every number they use.
LEMMA StreamLaid ==
    ASSUME NEW A, NEW es, DOMAIN es \subseteq Numbers, \A n \in DOMAIN es : es[n] \in Entry,
           WordsFit(A, es, DOMAIN es), NEW m, Kept(A, m), NEW top \in DOMAIN m,
           \A n \in DOMAIN es : n <= top /\ (es[n].at = "packed" => es[n].archive <= top)
    PROVE  Laid(A, es, DOMAIN es, m, WithStream(m, es))
<1>0. PICK S : S = DOMAIN es
  OBVIOUS
<1>1. StreamAdds(es, S, m, WithStream(m, es))
  BY <1>0, StreamFolds DEF Kept
<1>2. PICK iter :
        /\ WithStream(m, es) = iter[S] /\ iter[{}] = m
        /\ \A s \in SUBSET S : s # {} =>
             iter[s] = WithStreamEntry(iter[s \ {Max(s)}], Max(s), es[Max(s)])
  BY <1>1 DEF StreamAdds
<1>3. PICK N \in Nat : S \in SUBSET (0..N)
  BY <1>0, RulesAssumption DEF Numbers
<1>4. ASSUME NEW s \in SUBSET S, s # {}, Laid(A, es, s \ {Max(s)}, m, iter[s \ {Max(s)}])
      PROVE  iter[s] = EntryOver(iter[s \ {Max(s)}], Max(s), es[Max(s)])
  <2>1. PICK x, t : x = Max(s) /\ t = iter[s \ {Max(s)}]
    OBVIOUS
  <2>2. x \in DOMAIN es /\ es[x] \in Entry /\ x \in Nat /\ es[x].archive \in Nat /\ top \in Nat
    <3>1. x \in DOMAIN es
      BY <1>0, <1>3, <1>4, <2>1, FiniteNumbers
    <3>2. x \in Numbers /\ es[x].archive \in Numbers /\ top \in Numbers
      BY <3>1, EntryIs, IsTables DEF Kept
    <3> QED
      BY <3>1, <3>2 DEF Numbers
  <2>3. t \in Tables /\ top \in DOMAIN t
    BY <1>4, <2>1 DEF Laid, Kept
  <2>4. top <= LastNumber(t) /\ LastNumber(t) \in Nat
    BY <2>3, NotPastEnd
  <2>5. ~(x > LastNumber(t)) /\ (es[x].at = "packed" => es[x].archive <= LastNumber(t))
    <3>1. PICK last : last = LastNumber(t)
      OBVIOUS
    <3>2. x <= top /\ (es[x].at = "packed" => es[x].archive <= top)
      BY <2>2
    <3>3. top <= last /\ last \in Nat
      BY <2>4, <3>1
    <3>4. ~(x > last) /\ (es[x].at = "packed" => es[x].archive <= last)
      BY <2>2, <3>2, <3>3
    <3> QED
      BY <3>1, <3>4
  <2>6. WithStreamEntry(t, x, es[x]) = EntryOver(t, x, es[x])
    <3>1. (IF x > LastNumber(t) THEN SetSize(t, x + 1) ELSE t) = t
      BY <2>5
    <3>2. es[x].at \in {"free", "offset", "packed"}
      BY <2>2, EntryIs
    <3>3. CASE es[x].at = "free"
      BY <3>1, <3>3 DEF WithStreamEntry, EntryOver
    <3>4. CASE es[x].at = "offset"
      BY <3>1, <3>4 DEF WithStreamEntry, EntryOver
    <3>5. CASE es[x].at = "packed"
      BY <2>5, <3>1, <3>5 DEF WithStreamEntry, EntryOver
    <3> QED
      BY <3>2, <3>3, <3>4, <3>5
  <2> QED
    BY <1>2, <1>4, <2>1, <2>6
<1>5. Laid(A, es, S, m, iter[S])
  BY <1>0, <1>2, <1>3, <1>4, AllLaid
<1> QED
  BY <1>0, <1>2, <1>5

----------------------------------------------------------------------------
(* What the sections of a chain leave of a table.                          *)

\* The numbers of object streams, and the last number the newest section counts.
Archives(f) ==
    {a \in Numbers : \E p \in Sections(f) : \E n \in Says(f, p) :
                        f[p].entries[n].at = "packed" /\ f[p].entries[n].archive = a}
Top(f) == Key(f[StartIn(f)].dict, "Size") - 1

\* Every entry of m is what a section of C says, or nothing.
From(f, C, m) ==
    \A n \in DOMAIN m :
       \/ Bare(m[n]) = Free(0)
       \/ \E p \in C : n \in Says(f, p) /\ Bare(m[n]) = Bare(f[p].entries[n])

\* What a section of S says is in m, unless a newer one of C says otherwise.
Right(f, C, S, m) ==
    \A p \in S : \A n \in Says(f, p) :
       (\A q \in C : n \in Says(f, q) => q <= p) =>
          /\ n \in DOMAIN m /\ Bare(m[n]) = Bare(f[p].entries[n])
          /\ f[p].entries[n].at = "packed" =>
               /\ f[p].entries[n].archive \in DOMAIN m
               /\ m[f[p].entries[n].archive].flag

Good(f, C, S, m) ==
    Kept(Archives(f), m) /\ Top(f) \in DOMAIN m /\ From(f, C, m) /\ Right(f, C, S, m)

LEMMA SectionEntries ==
    ASSUME NEW f \in Files, NEW p \in Sections(f)
    PROVE  /\ p \in DOMAIN f /\ p \in Nat
           /\ f[p].what \in {"table", "stream"}
           /\ DOMAIN f[p].entries \subseteq Numbers
           /\ \A n \in DOMAIN f[p].entries : f[p].entries[n] \in Entry
           /\ Says(f, p) \subseteq DOMAIN f[p].entries
           /\ \A n \in Says(f, p) : /\ GenerationAt(f, p, n) = GenOf(f[p].entries[n])
                                    /\ GenOf(f[p].entries[n]) \in Nat
<1>1. p \in DOMAIN f /\ f[p].what \in {"table", "stream"}
  BY DEF Sections
<1>2. p \in Nat /\ IsItem(f[p])
  BY <1>1, FilesAssumption, RulesAssumption
<1>3. DOMAIN f[p].entries \subseteq Numbers /\ \A n \in DOMAIN f[p].entries : f[p].entries[n] \in Entry
  BY <1>2 DEF IsItem
<1>4. Says(f, p) \subseteq DOMAIN f[p].entries
  BY DEF Says
<1>5. \A n \in Says(f, p) : GenerationAt(f, p, n) = GenOf(f[p].entries[n])
  BY DEF GenerationAt, GenOf
<1> QED
  BY <1>1, <1>2, <1>3, <1>4, <1>5, EntryIs

\* What an incremental writer leaves, section by section.
LEMMA IncrementalWords ==
    ASSUME NEW f \in Files, Incremental(f), NEW p \in Sections(f), NEW n \in Says(f, p),
           NEW e, e = f[p].entries[n]
    PROVE  /\ e.at = "offset" => e.pos \in Bodies(f) /\ f[e.pos].num = n
           /\ e.at = "packed" =>
                /\ f[p].what = "stream" /\ e.archive \in Says(f, p)
                /\ \A q \in Sections(f) : e.archive \in Says(f, q) =>
                     f[q].entries[e.archive].at = "offset"
                /\ \A c \in Bodies(f) : f[c].num = e.archive =>
                     e.pos + 1 \in DOMAIN f[c].members /\ f[c].members[e.pos + 1] = n
BY DEF Incremental

LEMMA IncrementalGens ==
    ASSUME NEW f \in Files, Incremental(f), NEW p \in Sections(f), NEW q \in Sections(f), q <= p,
           NEW n \in Says(f, p), n \in Says(f, q)
    PROVE  GenOf(f[q].entries[n]) <= GenOf(f[p].entries[n])
<1>1. GenerationAt(f, q, n) <= GenerationAt(f, p, n)
  BY DEF Incremental
<1> QED
  BY <1>1, SectionEntries

LEMMA IncrementalSizes ==
    ASSUME NEW f \in Files, Incremental(f), StartIn(f) \in Sections(f)
    PROVE  /\ Top(f) \in Numbers
           /\ \A q \in Sections(f) : q <= StartIn(f) =>
                /\ \A n \in DOMAIN f[q].entries : n <= Top(f)
                /\ \A n \in Says(f, q) : f[q].entries[n].at = "packed" =>
                     f[q].entries[n].archive <= Top(f)
<1>1. PICK size : size = Key(f[StartIn(f)].dict, "Size")
  OBVIOUS
<1>2. /\ size \in 1..MaxNumber + 1
      /\ \A q \in Sections(f) : q <= StartIn(f) => \A n \in DOMAIN f[q].entries : n < size
  BY <1>1 DEF Incremental
<1>3. Top(f) = size - 1
  BY <1>1 DEF Top
<1>4. \A q \in Sections(f) : q <= StartIn(f) => \A n \in DOMAIN f[q].entries : n <= Top(f)
  <2> TAKE q \in Sections(f)
  <2> HAVE q <= StartIn(f)
  <2> TAKE n \in DOMAIN f[q].entries
  <2>1. n < size /\ n \in Nat
    BY <1>2, SectionEntries DEF Numbers
  <2> QED
    BY <1>2, <1>3, <2>1
<1>5. \A q \in Sections(f) : \A n \in Says(f, q) : f[q].entries[n].at = "packed" =>
         f[q].entries[n].archive \in DOMAIN f[q].entries
  BY IncrementalWords, SectionEntries
<1>6. Top(f) \in Numbers
  BY <1>2, <1>3, RulesAssumption DEF Numbers
<1> QED
  BY <1>4, <1>5, <1>6, SectionEntries

LEMMA SectionFits ==
    ASSUME NEW f \in Files, Incremental(f), NEW p \in Sections(f)
    PROVE  WordsFit(Archives(f), f[p].entries, Says(f, p))
<1> SUFFICES ASSUME NEW n \in Says(f, p)
             PROVE  /\ n \in Numbers /\ f[p].entries[n] \in Entry
                    /\ f[p].entries[n].at = "packed" => f[p].entries[n].archive \in Archives(f)
                    /\ n \in Archives(f) => f[p].entries[n].at = "offset"
  BY DEF WordsFit
<1>1. n \in Numbers /\ f[p].entries[n] \in Entry
  BY SectionEntries
<1>2. f[p].entries[n].at = "packed" => f[p].entries[n].archive \in Archives(f)
  BY <1>1, EntryIs DEF Archives
<1>3. n \in Archives(f) => f[p].entries[n].at = "offset"
  <2> SUFFICES ASSUME n \in Archives(f) PROVE f[p].entries[n].at = "offset"
    OBVIOUS
  <2>1. PICK q \in Sections(f) : \E k \in Says(f, q) :
          f[q].entries[k].at = "packed" /\ f[q].entries[k].archive = n
    BY DEF Archives
  <2>2. PICK k \in Says(f, q) : f[q].entries[k].at = "packed" /\ f[q].entries[k].archive = n
    BY <2>1
  <2> QED
    BY <2>2, IncrementalWords
<1> QED
  BY <1>1, <1>2, <1>3

LEMMA SectionLaid ==
    ASSUME NEW f \in Files, Incremental(f), StartIn(f) \in Sections(f),
           NEW p \in Sections(f), p <= StartIn(f),
           NEW m, Kept(Archives(f), m), Top(f) \in DOMAIN m
    PROVE  /\ f[p].what = "table" =>
                Laid(Archives(f), f[p].entries, Says(f, p), m, WithTable(m, f[p].entries))
           /\ f[p].what = "stream" =>
                Laid(Archives(f), f[p].entries, Says(f, p), m, WithStream(m, f[p].entries))
<1>1. PICK es, S, A : es = f[p].entries /\ S = Says(f, p) /\ A = Archives(f)
  OBVIOUS
<1>2. /\ DOMAIN es \subseteq Numbers /\ \A n \in DOMAIN es : es[n] \in Entry
      /\ WordsFit(A, es, S) /\ Kept(A, m)
  BY <1>1, SectionEntries, SectionFits
<1>3. ASSUME f[p].what = "table" PROVE Laid(A, es, S, m, WithTable(m, es))
  <2>1. S = {n \in DOMAIN es : es[n].at # "free"}
    BY <1>1, <1>3 DEF Says
  <2>2. \A n \in S : es[n].at = "offset"
    <3> TAKE n \in S
    <3>1. es[n].at \in {"free", "offset", "packed"}
      BY <1>2, <2>1, EntryIs
    <3>2. es[n].at # "packed"
      BY <1>1, <1>3, IncrementalWords
    <3> QED
      BY <2>1, <3>1, <3>2
  <2> QED
    BY <1>2, <2>1, <2>2, TableLaid
<1>4. ASSUME f[p].what = "stream" PROVE Laid(A, es, S, m, WithStream(m, es))
  <2>1. S = DOMAIN es
    BY <1>1, <1>4 DEF Says
  <2>2. \A n \in DOMAIN es : n <= Top(f) /\ (es[n].at = "packed" => es[n].archive <= Top(f))
    BY <1>1, <2>1, IncrementalSizes
  <2>3. Laid(A, es, DOMAIN es, m, WithStream(m, es))
    BY <1>2, <2>1, <2>2, StreamLaid
  <2> QED
    BY <2>1, <2>3
<1> QED
  BY <1>1, <1>3, <1>4

\* One more section, no older than those that have been applied for good.
LEMMA GoodSection ==
    ASSUME NEW f \in Files, Incremental(f), NEW C, C \subseteq Sections(f), NEW S, S \subseteq C,
           NEW p \in C, \A q \in S : q <= p, NEW m, Good(f, C, S, m),
           NEW r, Laid(Archives(f), f[p].entries, Says(f, p), m, r)
    PROVE  Good(f, C, S \union {p}, r)
<1>1. PICK A, w, s : A = Archives(f) /\ w = f[p].entries /\ s = Says(f, p)
  OBVIOUS
<1>2. /\ Kept(A, r) /\ DOMAIN m \subseteq DOMAIN r /\ s \subseteq DOMAIN r
      /\ \A n \in DOMAIN r \ s : IF n \in DOMAIN m THEN Bare(r[n]) = Bare(m[n])
                                                   ELSE Bare(r[n]) = Free(0)
      /\ \A n \in s : \/ Bare(r[n]) = Bare(w[n])
                      \/ n \in DOMAIN m /\ GenOf(m[n]) > GenOf(w[n]) /\ Bare(r[n]) = Bare(m[n])
      /\ \A n \in DOMAIN m \intersect A : m[n].flag => r[n].flag
      /\ \A n \in s : w[n].at = "packed" /\ Bare(r[n]) = Bare(w[n]) =>
                        w[n].archive \in DOMAIN r /\ r[w[n].archive].flag
  BY <1>1 DEF Laid
<1>3. From(f, C, m) /\ Right(f, C, S, m) /\ Kept(A, m) /\ Top(f) \in DOMAIN m
  BY <1>1 DEF Good
<1>4. From(f, C, r)
  BY <1>1, <1>2, <1>3 DEF From
<1>5. ASSUME NEW n \in s, \A q \in C : n \in Says(f, q) => q <= p
      PROVE  Bare(r[n]) = Bare(w[n])
  <2> SUFFICES ASSUME n \in DOMAIN m, GenOf(m[n]) > GenOf(w[n]) PROVE FALSE
    BY <1>2
  <2>1. m[n] \in Entry /\ GenOf(m[n]) \in Nat /\ GenOf(w[n]) \in Nat
    BY <1>1, <1>3, KeptGen, EntryIs, SectionEntries
  <2>2. CASE Bare(m[n]) = Free(0)
    BY <2>1, <2>2, AlikeFree
  <2>3. ASSUME NEW q \in C, n \in Says(f, q), Bare(m[n]) = Bare(f[q].entries[n]) PROVE FALSE
    <3>1. f[q].entries[n] \in Entry
      BY <2>3, SectionEntries
    <3>2. GenOf(m[n]) = GenOf(f[q].entries[n])
      BY <2>1, <2>3, <3>1, AlikeEntries
    <3>3. GenOf(f[q].entries[n]) <= GenOf(w[n])
      BY <1>1, <1>5, <2>3, IncrementalGens
    <3> QED
      BY <2>1, <3>2, <3>3
  <2> QED
    BY <1>3, <2>2, <2>3 DEF From
<1>6. ASSUME NEW q \in S \union {p}, NEW n \in Says(f, q),
             \A o \in C : n \in Says(f, o) => o <= q
      PROVE  /\ n \in DOMAIN r /\ Bare(r[n]) = Bare(f[q].entries[n])
             /\ f[q].entries[n].at = "packed" =>
                  /\ f[q].entries[n].archive \in DOMAIN r
                  /\ r[f[q].entries[n].archive].flag
  <2>1. CASE q = p
    BY <1>1, <1>2, <1>5, <1>6, <2>1
  <2>2. CASE q # p
    <3>1. q \in S /\ q <= p /\ q \in Nat /\ p \in Nat
      BY <2>2, SectionEntries
    <3>2. n \notin s
      BY <1>1, <1>6, <2>2, <3>1
    <3>3. /\ n \in DOMAIN m /\ Bare(m[n]) = Bare(f[q].entries[n])
          /\ f[q].entries[n].at = "packed" =>
               f[q].entries[n].archive \in DOMAIN m /\ m[f[q].entries[n].archive].flag
      BY <1>3, <1>6, <3>1 DEF Right
    <3>4. f[q].entries[n].at = "packed" => f[q].entries[n].archive \in A
      BY <1>1, <3>1, SectionFits DEF WordsFit
    <3> QED
      BY <1>2, <3>2, <3>3, <3>4
  <2> QED
    BY <2>1, <2>2
<1>7. Right(f, C, S \union {p}, r)
  BY <1>6 DEF Right
<1> QED
  BY <1>1, <1>2, <1>3, <1>4, <1>7 DEF Good

\* More sections to come, and none of them applied for good.
LEMMA GoodSoFar ==
    ASSUME NEW f, NEW C, NEW S, NEW D, C \subseteq D, NEW m, Good(f, C, S, m)
    PROVE  Good(f, D, {}, m)
BY DEF Good, From, Right

----------------------------------------------------------------------------
(* The order of a chain in the file.                                       *)

\* The hybrid stream that is read with the i-th section of a list: the oldest
\* section's is not.  Then what is read with it, and with those before k.
Hybrid(f, list, i) ==
    IF i # 1 /\ list[i].table # 0 /\ StreamIn(f, list[i].stream) THEN {list[i].stream} ELSE {}

Here(f, list, i) == {Where(list[i])} \union Hybrid(f, list, i)

Until(f, list, k) ==
    {p \in Sections(f) : \E i \in 1..Len(list) : i < k /\ p \in Here(f, list, i)}

\* What grows from each to the next grows all along.
LEMMA Ascending ==
    ASSUME NEW L \in Nat, NEW g, \A i \in 1..L : g[i] \in Nat,
           \A i \in 1..L : i # L => g[i] < g[i + 1]
    PROVE  \A i, j \in 1..L : i < j => g[i] < g[j]
<1> DEFINE S == {k \in 0..L : \A i \in 1..L : i < k => g[i] < g[k]}
<1>1. 0 \in S
  OBVIOUS
<1>2. ASSUME NEW k \in 1..L, k - 1 \in S PROVE k \in S
  <2> SUFFICES ASSUME NEW i \in 1..L, i < k PROVE g[i] < g[k]
    OBVIOUS
  <2>1. k - 1 \in 1..L /\ k - 1 # L /\ (k - 1) + 1 = k
    OBVIOUS
  <2>2. g[k - 1] < g[k] /\ g[k - 1] \in Nat /\ g[k] \in Nat /\ g[i] \in Nat
    BY <2>1
  <2>3. i = k - 1 \/ i < k - 1
    OBVIOUS
  <2>4. i < k - 1 => g[i] < g[k - 1]
    BY <1>2
  <2> QED
    BY <2>2, <2>3, <2>4
<1> HIDE DEF S
<1>3. 0..L \subseteq S
  BY <1>1, <1>2, CountInduction
<1> QED
  BY <1>3 DEF S

LEMMA ListOrder ==
    ASSUME NEW f \in Files, Incremental(f), NEW list, NEW nxt, NEW been,
           Walked(f, list, nxt, been), NEW L, L = Len(list)
    PROVE  /\ L \in Nat /\ L >= 1
           /\ \A i \in 1..L : Where(list[i]) \in Sections(f) /\ Where(list[i]) \in Nat
           /\ \A i, j \in 1..L : i < j => Where(list[i]) < Where(list[j])
           /\ \A i \in 1..L : \A h \in Hybrid(f, list, i) :
                /\ h \in Sections(f) /\ h \in Nat /\ h < Where(list[i]) /\ f[h].what = "stream"
                /\ \A j \in 1..L : j < i => Where(list[j]) < h
           /\ StartIn(f) = Where(list[L])
<1>1. L \in Nat /\ L >= 1 /\ StartIn(f) = Where(list[L])
  BY WalkedFits DEF Walked
<1>2. \A i \in 1..L : Listed(f, list[i])
  BY DEF Walked
<1>3. \A p : TableIn(f, p) \/ StreamIn(f, p) =>
         p \in Sections(f) /\ ItemOf(f, p) = f[p] /\ (StreamIn(f, p) => f[p].what = "stream")
  BY JunkIsNoSection DEF TableIn, StreamIn, Sections
<1>4. \A p \in Sections(f) : p \in Nat
  BY SectionEntries
<1>5. \A i \in 1..L : /\ Where(list[i]) \in Sections(f) /\ Where(list[i]) \in Nat
                      /\ ItemOf(f, Where(list[i])) = f[Where(list[i])]
  BY <1>2, <1>3, <1>4 DEF Listed, Where
<1>6. \A p \in Sections(f) : /\ Key(f[p].dict, "Prev") < p
                             /\ f[p].what = "table" /\ Key(f[p].dict, "XRefStm") # 0 =>
                                  /\ Key(f[p].dict, "Prev") < Key(f[p].dict, "XRefStm")
                                  /\ Key(f[p].dict, "XRefStm") < p
  BY DEF Incremental
<1>7. \A i \in 1..L : i # L => Where(list[i]) = Key(f[Where(list[i + 1])].dict, "Prev")
  <2> TAKE i \in 1..L
  <2> HAVE i # L
  <2>1. i + 1 \in 1..L
    BY <1>1
  <2>2. Where(list[i]) = PrevIn(f, Where(list[i + 1]))
    BY DEF Walked
  <2> QED
    BY <1>5, <2>1, <2>2 DEF PrevIn
<1>8. \A i, j \in 1..L : i < j => Where(list[i]) < Where(list[j])
  <2> DEFINE g == [i \in 1..L |-> Where(list[i])]
  <2>1. \A i \in 1..L : g[i] = Where(list[i])
    OBVIOUS
  <2> HIDE DEF g
  <2>2. \A i \in 1..L : g[i] \in Nat
    BY <1>5, <2>1
  <2>3. ASSUME NEW i \in 1..L, i # L PROVE g[i] < g[i + 1]
    <3>1. i + 1 \in 1..L
      BY <1>1, <2>3
    <3> QED
      BY <1>5, <1>6, <1>7, <2>1, <2>3, <3>1
  <2>4. \A i, j \in 1..L : i < j => g[i] < g[j]
    BY <1>1, <2>2, <2>3, Ascending
  <2> QED
    BY <2>1, <2>4
<1>9. ASSUME NEW i \in 1..L, NEW h \in Hybrid(f, list, i)
      PROVE  /\ h \in Sections(f) /\ h \in Nat /\ h < Where(list[i]) /\ f[h].what = "stream"
             /\ \A j \in 1..L : j < i => Where(list[j]) < h
  <2>1. i # 1 /\ list[i].table # 0 /\ h = list[i].stream /\ StreamIn(f, h)
    BY <1>9 DEF Hybrid
  <2>2. h \in Sections(f) /\ h \in Nat /\ f[h].what = "stream"
    BY <1>3, <1>4, <2>1
  <2>3. PICK p : p = Where(list[i])
    OBVIOUS
  <2>4. p = list[i].table /\ TableIn(f, p) /\ h = HybridIn(f, p) /\ ItemOf(f, p) = f[p] /\ p \in Sections(f)
    BY <1>2, <1>5, <2>1, <2>3 DEF Listed, Where
  <2>5. f[p].what = "table" /\ h = Key(f[p].dict, "XRefStm")
    BY <2>4 DEF TableIn, HybridIn
  <2>6. h # 0
    <3>1. h \in DOMAIN f /\ DOMAIN f = 1..Len(f)
      BY <2>2, FileFacts DEF Sections
    <3> QED
      BY <3>1, FileFacts
  <2>7. h < p /\ Key(f[p].dict, "Prev") < h
    BY <1>6, <2>4, <2>5, <2>6
  <2>8. i - 1 \in 1..L /\ i - 1 # L /\ (i - 1) + 1 = i
    BY <1>1, <2>1
  <2>9. Where(list[i - 1]) < h
    BY <1>7, <2>3, <2>7, <2>8
  <2>10. \A j \in 1..L : j < i => Where(list[j]) <= Where(list[i - 1])
    <3> TAKE j \in 1..L
    <3> HAVE j < i
    <3>1. j = i - 1 \/ j < i - 1
      BY <1>1
    <3> QED
      BY <1>5, <1>8, <2>8, <3>1
  <2>11. \A j \in 1..L : j < i => Where(list[j]) < h
    <3> TAKE j \in 1..L
    <3> HAVE j < i
    <3>1. PICK u, v : u = Where(list[j]) /\ v = Where(list[i - 1])
      OBVIOUS
    <3>2. u <= v /\ v < h /\ u \in Nat /\ v \in Nat
      BY <1>5, <2>8, <2>9, <2>10, <3>1
    <3>3. u < h
      BY <2>2, <3>2
    <3> QED
      BY <3>1, <3>3
  <2> QED
    BY <2>2, <2>3, <2>7, <2>11
<1> QED
  BY <1>1, <1>5, <1>8, <1>9

\* What is read with a section is newer than what is read before it.
LEMMA HereOrder ==
    ASSUME NEW f \in Files, Incremental(f), NEW list, NEW nxt, NEW been,
           Walked(f, list, nxt, been)
    PROVE  /\ \A k : Until(f, list, k) \subseteq Sections(f)
           /\ \A i \in 1..Len(list) : Here(f, list, i) \subseteq Sections(f)
           /\ \A i, j \in 1..Len(list) : i < j =>
                \A p \in Here(f, list, i), q \in Here(f, list, j) : p < q
           /\ \A i \in 1..Len(list) : \A p \in Here(f, list, i) :
                /\ p <= Where(list[i]) /\ p <= StartIn(f)
<1>1. PICK L : L = Len(list)
  OBVIOUS
<1>2. /\ L \in Nat /\ L >= 1
      /\ \A i \in 1..L : Where(list[i]) \in Sections(f) /\ Where(list[i]) \in Nat
      /\ \A i, j \in 1..L : i < j => Where(list[i]) < Where(list[j])
      /\ \A i \in 1..L : \A h \in Hybrid(f, list, i) :
           /\ h \in Sections(f) /\ h \in Nat /\ h < Where(list[i])
           /\ \A j \in 1..L : j < i => Where(list[j]) < h
      /\ StartIn(f) = Where(list[L])
  BY <1>1, ListOrder
<1>3. \A i \in 1..L : \A p \in Here(f, list, i) :
         p \in Sections(f) /\ p \in Nat /\ p <= Where(list[i])
  <2> TAKE i \in 1..L
  <2> TAKE p \in Here(f, list, i)
  <2>1. CASE p = Where(list[i])
    BY <1>2, <2>1
  <2>2. CASE p \in Hybrid(f, list, i)
    BY <1>2, <2>2
  <2> QED
    BY <2>1, <2>2 DEF Here
<1>4. ASSUME NEW i \in 1..L, NEW j \in 1..L, i < j,
             NEW p \in Here(f, list, i), NEW q \in Here(f, list, j)
      PROVE  p < q
  <2>1. PICK u : u = Where(list[i])
    OBVIOUS
  <2>2. p <= u /\ p \in Nat /\ u \in Nat
    BY <1>2, <1>3, <2>1
  <2>3. u < q /\ q \in Nat
    <3>1. CASE q = Where(list[j])
      BY <1>2, <1>4, <2>1, <3>1
    <3>2. CASE q \in Hybrid(f, list, j)
      BY <1>2, <1>4, <2>1, <3>2
    <3> QED
      BY <3>1, <3>2 DEF Here
  <2> QED
    BY <2>2, <2>3
<1>5. ASSUME NEW i \in 1..L, NEW p \in Here(f, list, i) PROVE p <= StartIn(f)
  <2>1. PICK u, v : u = Where(list[i]) /\ v = Where(list[L])
    OBVIOUS
  <2>2. u <= v /\ u \in Nat /\ v \in Nat
    <3>1. L \in 1..L /\ (i = L \/ i < L)
      BY <1>2
    <3> QED
      BY <1>2, <2>1, <3>1
  <2>3. p <= u /\ p \in Nat
    BY <1>3, <2>1
  <2>4. p <= v
    BY <2>2, <2>3
  <2> QED
    BY <1>2, <2>1, <2>4
<1>6. \A k : Until(f, list, k) \subseteq Sections(f)
  BY DEF Until
<1> QED
  BY <1>1, <1>3, <1>4, <1>5, <1>6

LEMMA UntilNext ==
    ASSUME NEW f \in Files, Incremental(f), NEW list, NEW nxt, NEW been,
           Walked(f, list, nxt, been)
    PROVE  /\ Until(f, list, 1) = {}
           /\ Until(f, list, 2) = {Where(list[1])}
           /\ \A k \in 1..Len(list) :
                Until(f, list, k + 1) = Until(f, list, k) \union Here(f, list, k)
<1>1. PICK L : L = Len(list)
  OBVIOUS
<1>2. L \in Nat /\ L >= 1
  BY <1>1, ListOrder
<1>3. \A i \in 1..L : Here(f, list, i) \subseteq Sections(f)
  BY <1>1, HereOrder
<1>4. Until(f, list, 1) = {}
  BY <1>1, <1>2 DEF Until
<1>5. ASSUME NEW k \in 1..L
      PROVE  Until(f, list, k + 1) = Until(f, list, k) \union Here(f, list, k)
  <2>1. \A i \in 1..L : i < k + 1 <=> i < k \/ i = k
    BY <1>2
  <2>2. \A p : p \in Until(f, list, k + 1) <=>
                 p \in Sections(f) /\ \E i \in 1..L : (i < k \/ i = k) /\ p \in Here(f, list, i)
    BY <1>1, <2>1 DEF Until
  <2>3. \A p : p \in Until(f, list, k) <=>
                 p \in Sections(f) /\ \E i \in 1..L : i < k /\ p \in Here(f, list, i)
    BY <1>1 DEF Until
  <2> QED
    BY <1>3, <2>2, <2>3
<1>6. Here(f, list, 1) = {Where(list[1])}
  BY DEF Here, Hybrid
<1>7. Until(f, list, 2) = {Where(list[1])}
  BY <1>2, <1>4, <1>5, <1>6
<1> QED
  BY <1>1, <1>4, <1>5, <1>7

\* A list that has grown at its old end has all it had.
LEMMA UntilGrows ==
    ASSUME NEW f, NEW list \in Seq(Section), NEW s \in Section
    PROVE  Until(f, list, Len(list) + 1) \subseteq
             Until(f, <<s>> \o list, Len(<<s>> \o list) + 1)
<1>1. PICK l, m : l = <<s>> \o list /\ m = Len(list)
  OBVIOUS
<1>2. m \in Nat /\ Len(l) = m + 1 /\ \A i \in 1..m : l[i + 1] = list[i]
  BY <1>1
<1>3. ASSUME NEW p \in Until(f, list, m + 1) PROVE p \in Until(f, l, (m + 1) + 1)
  <2>1. PICK i \in 1..m : p \in Here(f, list, i)
    BY <1>1 DEF Until
  <2>2. i + 1 \in 1..m + 1 /\ i + 1 < (m + 1) + 1 /\ i + 1 # 1
    BY <1>2
  <2>3. l[i + 1] = list[i]
    BY <1>2
  <2>4. p \in Here(f, l, i + 1)
    BY <2>1, <2>2, <2>3 DEF Here, Hybrid
  <2>5. p \in Sections(f)
    BY <1>3 DEF Until
  <2> QED
    BY <1>2, <2>2, <2>4, <2>5 DEF Until
<1> QED
  BY <1>1, <1>2, <1>3

----------------------------------------------------------------------------

Chained(f, list) == Until(f, list, Len(list) + 1)

\* The walk ends with the oldest section when that is a stream.
Ground(f, list) == IF list[1].table = 0 THEN Until(f, list, 2) ELSE {}

\* Where the load of a sound file has got to: the table holds nothing but what
\* the chain says, and what the sections applied for good say lasts.
NewestInv ==
    /\ TypeInv
    /\ file \in Sound =>
         /\ pc = "start" => xref = NoEntries
         /\ pc \in {"walk", "oldest"} =>
              Good(file, Chained(file, sections), Ground(file, sections), xref)
         /\ pc = "newer" =>
              Good(file, Chained(file, sections), Until(file, sections, cursor), xref)
         /\ pc \in {"catalog", "open"} /\ ~rebuilt =>
              Good(file, Chained(file, sections), Chained(file, sections), xref)

\* The table that the declared size makes of none.
LEMMA BeginsGood ==
    ASSUME NEW f \in Files, Incremental(f), StartIn(f) \in Sections(f), NEW C
    PROVE  Good(f, C, {}, Sized(NoEntries, Key(f[StartIn(f)].dict, "Size")))
<1>1. PICK size, top : size = Key(f[StartIn(f)].dict, "Size") /\ top = Top(f)
  OBVIOUS
<1>2. top \in Numbers /\ top = size - 1
  BY <1>1, IncrementalSizes DEF Top
<1>3. size \in 1..MaxNumber + 1
  BY <1>1 DEF Incremental
<1>4. PICK t : t = Sized(NoEntries, size)
  OBVIOUS
<1>5. t = [k \in {top} |-> Free(0)]
  <2>1. size >= 1 /\ size <= MaxNumber + 1 /\ size # 0
    BY <1>3, RulesAssumption
  <2>2. t = OrDefault([k \in {n \in DOMAIN NoEntries : n < size} |-> NoEntries[k]], top)
    BY <1>2, <1>4, <2>1 DEF Sized, SetSize
  <2>3. {n \in DOMAIN NoEntries : n < size} = {}
    BY DEF NoEntries
  <2>4. t = Put([k \in {} |-> NoEntries[k]], top, Free(0))
    BY <2>2, <2>3 DEF OrDefault, Knows
  <2> QED
    BY <2>4 DEF Put
<1>6. Free(0) \in Entry
  BY Entries, RulesAssumption
<1>7. t \in Tables
  <2>1. t \in [{top} -> Entry]
    BY <1>5, <1>6
  <2>2. {top} \in SUBSET Numbers
    BY <1>2
  <2> QED
    BY <2>1, <2>2, IsTables
<1>8. DOMAIN t = {top} /\ t[top] = Free(0)
  BY <1>5
<1>9. ~t[top].flag /\ t[top].gen = 0 /\ Bare(t[top]) = Free(0)
  BY <1>8, BareEntries DEF Free
<1>10. Good(f, C, {}, t)
  BY <1>1, <1>7, <1>8, <1>9 DEF Good, Kept, From, Right
<1> QED
  BY <1>1, <1>4, <1>10

LEMMA ChainSections ==
    ASSUME NEW f \in Files, Incremental(f), NEW list, NEW nxt, NEW been,
           Walked(f, list, nxt, been)
    PROVE  /\ Chained(f, list) \subseteq Sections(f) /\ StartIn(f) \in Sections(f)
           /\ \A i \in 1..Len(list) : Here(f, list, i) \subseteq Chained(f, list)
           /\ \A k : Until(f, list, k) \subseteq Chained(f, list)
           /\ \A p \in Chained(f, list) : p <= StartIn(f)
<1>1. PICK L : L = Len(list)
  OBVIOUS
<1>2. L \in Nat /\ L >= 1 /\ StartIn(f) \in Sections(f)
  BY <1>1, ListOrder
<1>3. \A i \in 1..L : i < L + 1
  BY <1>2
<1>4. \A i \in 1..L : Here(f, list, i) \subseteq Sections(f) /\ \A p \in Here(f, list, i) : p <= StartIn(f)
  BY <1>1, HereOrder
<1> QED
  BY <1>1, <1>2, <1>3, <1>4 DEF Chained, Until

\* One more section of the chain, applied after those of S.
LEMMA GoodMore ==
    ASSUME NEW f \in Files, Incremental(f), NEW list, NEW nxt, NEW been,
           Walked(f, list, nxt, been), NEW S, S \subseteq Chained(f, list),
           NEW p \in Chained(f, list), \A q \in S : q <= p,
           NEW m, Good(f, Chained(f, list), S, m)
    PROVE  /\ f[p].what = "table" =>
                Good(f, Chained(f, list), S \union {p}, WithTable(m, f[p].entries))
           /\ f[p].what = "stream" =>
                Good(f, Chained(f, list), S \union {p}, WithStream(m, f[p].entries))
<1>1. PICK C : C = Chained(f, list)
  OBVIOUS
<1>2. C \subseteq Sections(f) /\ StartIn(f) \in Sections(f) /\ p \in Sections(f) /\ p <= StartIn(f)
  BY <1>1, ChainSections
<1>3. Kept(Archives(f), m) /\ Top(f) \in DOMAIN m
  BY DEF Good
<1>4. ASSUME f[p].what = "table"
      PROVE  Good(f, C, S \union {p}, WithTable(m, f[p].entries))
  <2>1. Laid(Archives(f), f[p].entries, Says(f, p), m, WithTable(m, f[p].entries))
    BY <1>2, <1>3, <1>4, SectionLaid
  <2> QED
    BY <1>1, <1>2, <2>1, GoodSection
<1>5. ASSUME f[p].what = "stream"
      PROVE  Good(f, C, S \union {p}, WithStream(m, f[p].entries))
  <2>1. Laid(Archives(f), f[p].entries, Says(f, p), m, WithStream(m, f[p].entries))
    BY <1>2, <1>3, <1>5, SectionLaid
  <2> QED
    BY <1>1, <1>2, <2>1, GoodSection
<1> QED
  BY <1>1, <1>4, <1>5

LEMMA NewestStart ==
    ASSUME \A f \in Sound : Incremental(f)
    PROVE  NewestInv /\ Start => NewestInv'
<1> SUFFICES ASSUME NewestInv, Start PROVE NewestInv'
  OBVIOUS
<1> DEFINE p == StartIn(file)
<1>1. TypeInv' /\ file' = file /\ file \in Files /\ pc = "start" /\ (file \in Sound => xref = NoEntries)
  BY TypeStart DEF NewestInv, TypeInv, WalkInv, Start
<1>2. CASE Abandon
  BY <1>1, <1>2 DEF NewestInv, Abandon
<1>3. CASE file \notin Sound
  BY <1>1, <1>3 DEF NewestInv
<1>4. CASE file \in Sound /\ p # 0 /\ (IsTable(p) \/ IsStream(p))
  <2>1. p \in DOMAIN file /\ ItemOf(file, p) = file[p] /\ Incremental(file) /\ xref = NoEntries
    BY <1>1, <1>4, ReadsFile, JunkIsNoSection
  <2>2. pc' = "walk"
    BY <1>4, ReadsFile DEF Start
  <2>3. Walked(file, sections', next', seen')
    BY <1>1, <2>2 DEF TypeInv, WalkInv
  <2>4. PICK list, C, size : /\ list = sections' /\ C = Chained(file, sections')
                             /\ size = Key(file[p].dict, "Size")
    OBVIOUS
  <2>5. Walked(file, list, next', seen')
    BY <2>3, <2>4
  <2>6. C \subseteq Sections(file) /\ StartIn(file) \in Sections(file)
    BY <1>1, <2>1, <2>4, <2>5, ChainSections
  <2>7. Good(file, C, {}, Sized(NoEntries, size))
    BY <1>1, <2>1, <2>4, <2>6, BeginsGood
  <2>8. CASE IsTable(p)
    <3>1. xref' = Sized(NoEntries, size) /\ list = <<[table |-> p, stream |-> HybridIn(file, p)]>>
      <4>1. ~IsStream(p)
        BY <2>8 DEF IsTable, IsStream
      <4> QED
        BY <1>4, <2>1, <2>4, <2>8, <4>1, ReadsFile DEF Start, HybridIn
    <3>2. Ground(file, list) = {}
      BY <1>4, <3>1 DEF Ground
    <3>3. Good(file, C, Ground(file, list), xref')
      BY <2>7, <3>1, <3>2
    <3> QED
      BY <1>1, <2>2, <2>4, <3>3 DEF NewestInv
  <2>9. CASE IsStream(p)
    <3>1. PICK r : r = WithStream(Sized(NoEntries, size), file[p].entries)
      OBVIOUS
    <3>2. xref' = MergeUp(NoEntries, r) /\ list = <<[table |-> 0, stream |-> p]>>
      <4>1. ~IsTable(p)
        BY <2>9 DEF IsTable, IsStream
      <4> QED
        BY <1>4, <2>1, <2>4, <2>9, <3>1, <4>1, ReadsFile DEF Start
    <3>3. Len(list) = 1 /\ list[1] = [table |-> 0, stream |-> p] /\ Where(list[1]) = p
      BY <3>2 DEF Where
    <3>4. p \in C /\ Ground(file, list) = {p}
      <4>1. Until(file, list, 2) = {p}
        BY <1>1, <2>1, <2>5, <3>3, UntilNext
      <4> QED
        BY <2>4, <3>3, <4>1 DEF Ground, Chained
    <3>5. file[p].what = "stream"
      BY <2>1, <2>9 DEF IsStream, ItemAt
    <3>6. Good(file, C, {} \union {p}, r)
      BY <1>1, <2>1, <2>4, <2>5, <2>7, <3>1, <3>4, <3>5, GoodMore
    <3>7. MergeUp(NoEntries, r) = r
      <4>1. r = [n \in DOMAIN r |-> r[n]]
        BY <3>6 DEF Good, Kept, Tables
      <4>2. DOMAIN NoEntries = {}
        BY DEF NoEntries
      <4> QED
        BY <4>1, <4>2 DEF MergeUp, Knows
    <3>8. Good(file, C, Ground(file, list), xref')
      BY <3>2, <3>4, <3>6, <3>7
    <3> QED
      BY <1>1, <2>2, <2>4, <3>8 DEF NewestInv
  <2> QED
    BY <1>4, <2>8, <2>9
<1> QED
  BY <1>2, <1>3, <1>4, ReadsFile DEF Start

LEMMA NewestVisit ==
    ASSUME \A f \in Sound : Incremental(f)
    PROVE  NewestInv /\ Visit => NewestInv'
<1> SUFFICES ASSUME NewestInv, Visit PROVE NewestInv'
  OBVIOUS
<1>1. /\ TypeInv' /\ file' = file /\ file \in Files /\ pc = "walk" /\ sections \in Seq(Section)
      /\ next # 0 /\ next \in Nat
  BY TypeVisit DEF NewestInv, TypeInv, WalkInv, Visit
<1>2. CASE Abandon
  BY <1>1, <1>2 DEF NewestInv, Abandon
<1>3. CASE file \notin Sound
  BY <1>1, <1>3 DEF NewestInv
<1>4. CASE file \in Sound /\ pc' = "walk" /\ (IsTable(next) \/ IsStream(next))
  <2>1. /\ next \in DOMAIN file /\ ItemOf(file, next) = file[next] /\ Incremental(file)
        /\ HybridIn(file, next) \in Nat
    BY <1>1, <1>4, ReadsFile, JunkIsNoSection, FileFacts
  <2>2. Good(file, Chained(file, sections), Ground(file, sections), xref)
    BY <1>1, <1>4 DEF NewestInv
  <2>3. Walked(file, sections', next', seen')
    BY <1>1, <1>4 DEF TypeInv, WalkInv
  <2>4. PICK list, C, s : /\ list = sections' /\ C = Chained(file, sections')
                          /\ s = IF IsTable(next)
                                 THEN [table |-> next, stream |-> HybridIn(file, next)]
                                 ELSE [table |-> 0, stream |-> next]
    OBVIOUS
  <2>5. Walked(file, list, next', seen')
    BY <2>3, <2>4
  <2>6. s \in Section
    BY <1>1, <2>1, <2>4 DEF Section
  <2>7. list = <<s>> \o sections
    <3>1. CASE IsTable(next)
      <4>1. ~IsStream(next)
        BY <3>1 DEF IsTable, IsStream
      <4> QED
        BY <1>4, <2>1, <2>4, <3>1, <4>1 DEF Visit, HybridIn, Abandon
    <3>2. CASE ~IsTable(next)
      BY <1>4, <2>1, <2>4, <3>2 DEF Visit, Abandon
    <3> QED
      BY <3>1, <3>2
  <2>8. Good(file, C, {}, xref)
    <3>1. Chained(file, sections) \subseteq C
      BY <1>1, <2>4, <2>6, <2>7, UntilGrows DEF Chained
    <3> QED
      BY <2>2, <3>1, GoodSoFar
  <2>9. list[1] = s /\ Len(list) >= 1
    BY <1>1, <2>6, <2>7, PutInFront
  <2>10. CASE IsTable(next)
    <3>1. xref' = xref
      <4>1. ~IsStream(next)
        BY <2>10 DEF IsTable, IsStream
      <4> QED
        BY <1>4, <2>10, <4>1 DEF Visit, Abandon
    <3>2. Ground(file, list) = {}
      BY <1>1, <2>4, <2>9, <2>10 DEF Ground
    <3>3. Good(file, C, Ground(file, list), xref')
      BY <2>8, <3>1, <3>2
    <3> QED
      BY <1>1, <1>4, <2>4, <3>3 DEF NewestInv
  <2>11. CASE ~IsTable(next)
    <3>1. xref' = WithStream(xref, file[next].entries) /\ file[next].what = "stream"
      BY <1>4, <2>1, <2>11 DEF Visit, Abandon, IsStream, ItemAt
    <3>2. Where(list[1]) = next /\ list[1].table = 0
      BY <2>4, <2>9, <2>11 DEF Where
    <3>3. Ground(file, list) = {next} /\ next \in C
      <4>1. Until(file, list, 2) = {next}
        BY <1>1, <2>1, <2>5, <3>2, UntilNext
      <4>2. next \in Here(file, list, 1) /\ 1 \in 1..Len(list)
        <5>1. Len(list) \in Nat
          BY <1>1, <2>5, WalkedFits
        <5> QED
          BY <2>9, <3>2, <5>1 DEF Here
      <4>3. next \in C
        BY <1>1, <2>1, <2>4, <2>5, <4>2, ChainSections
      <4> QED
        BY <3>2, <4>1, <4>3 DEF Ground
    <3>4. Good(file, C, {} \union {next}, WithStream(xref, file[next].entries))
      BY <1>1, <2>1, <2>4, <2>5, <2>8, <3>1, <3>3, GoodMore
    <3>5. Good(file, C, Ground(file, list), xref')
      BY <3>1, <3>3, <3>4
    <3> QED
      BY <1>1, <1>4, <2>4, <3>5 DEF NewestInv
  <2> QED
    BY <2>10, <2>11
<1> QED
  <2>1. Abandon \/ (pc' = "walk" /\ (IsTable(next) \/ IsStream(next)))
    BY DEF Visit
  <2> QED
    BY <1>2, <1>3, <1>4, <2>1

LEMMA NewestOldest ==
    ASSUME \A f \in Sound : Incremental(f)
    PROVE  NewestInv /\ ReadOldest => NewestInv'
<1> SUFFICES ASSUME NewestInv, ReadOldest PROVE NewestInv'
  OBVIOUS
<1>1. /\ TypeInv' /\ file' = file /\ file \in Files /\ sections' = sections /\ pc = "oldest"
      /\ Walked(file, sections, 0, seen)
  BY TypeOldest DEF NewestInv, TypeInv, WalkInv, ReadOldest
<1>2. CASE Abandon
  BY <1>1, <1>2 DEF NewestInv, Abandon
<1>3. CASE file \notin Sound
  BY <1>1, <1>3 DEF NewestInv
<1>4. CASE file \in Sound /\ pc' = "newer" /\ cursor' = 2
  <2>1. Incremental(file) /\ Good(file, Chained(file, sections), Ground(file, sections), xref)
    BY <1>1, <1>4 DEF NewestInv
  <2>2. PICK p, C : p = Where(sections[1]) /\ C = Chained(file, sections)
    OBVIOUS
  <2>3. Until(file, sections, 2) = {p} /\ p \in C
    <3>1. Until(file, sections, 2) = {p}
      BY <1>1, <2>1, <2>2, UntilNext
    <3> QED
      BY <1>1, <2>1, <2>2, <3>1, ChainSections
  <2>4. Good(file, C, {p}, xref')
    <3>1. CASE sections[1].table = 0
      <4>1. xref' = xref
        BY <1>4, <3>1 DEF ReadOldest
      <4> QED
        BY <2>1, <2>2, <2>3, <3>1, <4>1 DEF Ground
    <3>2. CASE sections[1].table # 0
      <4>1. p = sections[1].table /\ xref' = WithTable(xref, file[p].entries)
        BY <1>4, <2>2, <3>2 DEF ReadOldest, Abandon, Where
      <4>2. file[p].what = "table"
        <5>1. 1 \in 1..Len(sections)
          BY <1>1 DEF Walked
        <5>2. TableIn(file, p)
          BY <1>1, <3>2, <4>1, <5>1 DEF Walked, Listed
        <5> QED
          BY <5>2, JunkIsNoSection DEF TableIn
      <4>3. Good(file, C, {} \union {p}, WithTable(xref, file[p].entries))
        BY <1>1, <2>1, <2>2, <2>3, <3>2, <4>2, GoodMore DEF Ground
      <4> QED
        BY <4>1, <4>3
    <3> QED
      BY <3>1, <3>2
  <2> QED
    BY <1>1, <1>4, <2>2, <2>3, <2>4 DEF NewestInv
<1> QED
  <2>1. Abandon \/ (pc' = "newer" /\ cursor' = 2)
    BY DEF ReadOldest
  <2> QED
    BY <1>2, <1>3, <1>4, <2>1

LEMMA NewestNewer ==
    ASSUME \A f \in Sound : Incremental(f)
    PROVE  NewestInv /\ ReadNewer => NewestInv'
<1> SUFFICES ASSUME NewestInv, ReadNewer PROVE NewestInv'
  OBVIOUS
<1>1. /\ TypeInv' /\ file' = file /\ file \in Files /\ sections' = sections /\ pc = "newer"
      /\ Walked(file, sections, 0, seen)
      /\ cursor \in Nat /\ cursor >= 2 /\ cursor <= Len(sections)
  BY TypeNewer DEF NewestInv, TypeInv, WalkInv, ReadNewer
<1>2. CASE Abandon
  BY <1>1, <1>2 DEF NewestInv, Abandon
<1>3. CASE file \notin Sound
  BY <1>1, <1>3 DEF NewestInv
<1>4. CASE file \in Sound /\ pc' = "newer" /\ cursor' = cursor + 1 /\ ~Abandon
  <2>1. Incremental(file) /\ Good(file, Chained(file, sections), Until(file, sections, cursor), xref)
    BY <1>1, <1>4 DEF NewestInv
  <2>2. PICK p, q, t, C, S :
          /\ p = Where(sections[cursor]) /\ q = sections[cursor].stream
          /\ t = sections[cursor].table
          /\ C = Chained(file, sections) /\ S = Until(file, sections, cursor)
    OBVIOUS
  <2>3. cursor \in 1..Len(sections) /\ cursor # 1
    BY <1>1, WalkedFits
  <2>4. Until(file, sections, cursor + 1) = S \union Here(file, sections, cursor)
    BY <1>1, <2>1, <2>2, <2>3, UntilNext
  <2>5. Here(file, sections, cursor) \subseteq C /\ S \subseteq C
    BY <1>1, <2>1, <2>2, <2>3, ChainSections
  <2>6. \A x \in S, y \in Here(file, sections, cursor) : x <= y
    <3> TAKE x \in S, y \in Here(file, sections, cursor)
    <3>1. PICK i \in 1..Len(sections) : i < cursor /\ x \in Here(file, sections, i)
      BY <2>2 DEF Until
    <3>2. x < y
      BY <1>1, <2>1, <2>3, <3>1, HereOrder
    <3>3. x \in Nat /\ y \in Nat
      BY <1>1, <2>1, <2>5, ChainSections, SectionEntries, <2>2
    <3> QED
      BY <3>2, <3>3
  <2>7. /\ q # 0 => IsStream(q)
        /\ xref' = IF t = 0 THEN IF IsStream(q) THEN WithStream(xref, file[q].entries) ELSE xref
                   ELSE WithTable(IF IsStream(q) THEN WithStream(xref, file[q].entries) ELSE xref,
                                  file[t].entries)
    BY <1>4, <2>2 DEF ReadNewer
  <2>8. Listed(file, sections[cursor])
    BY <1>1, <2>3 DEF Walked
  <2>9. IsStream(q) <=> StreamIn(file, q)
    BY ReadsFile
  <2>10. StreamIn(file, q) => file[q].what = "stream"
    BY JunkIsNoSection DEF StreamIn
  <2>11. CASE t = 0
    <3>1. p = q /\ StreamIn(file, q) /\ Here(file, sections, cursor) = {q}
      BY <2>2, <2>8, <2>11 DEF Listed, Where, Here, Hybrid
    <3>2. xref' = WithStream(xref, file[q].entries)
      BY <2>7, <2>9, <2>11, <3>1
    <3>3. Good(file, C, S \union {q}, xref')
      BY <1>1, <2>1, <2>2, <2>5, <2>6, <2>10, <3>1, <3>2, GoodMore
    <3> QED
      BY <1>1, <1>4, <2>2, <2>4, <3>1, <3>3 DEF NewestInv
  <2>12. CASE t # 0
    <3>1. p = t /\ TableIn(file, t)
      BY <2>2, <2>8, <2>12 DEF Listed, Where
    <3>2. file[t].what = "table"
      BY <3>1, JunkIsNoSection DEF TableIn
    <3>3. CASE StreamIn(file, q)
      <4>1. Here(file, sections, cursor) = {t, q}
        BY <2>2, <2>3, <2>12, <3>1, <3>3 DEF Here, Hybrid
      <4>2. Good(file, C, S \union {q}, WithStream(xref, file[q].entries))
        BY <1>1, <2>1, <2>2, <2>5, <2>6, <2>10, <3>3, <4>1, GoodMore
      <4>3. q <= t
        <5>1. q \in Hybrid(file, sections, cursor)
          BY <2>2, <2>3, <2>12, <3>3 DEF Hybrid
        <5>2. q < Where(sections[cursor]) /\ q \in Nat /\ Where(sections[cursor]) \in Nat
          BY <1>1, <2>1, <2>3, <5>1, ListOrder
        <5> QED
          BY <2>2, <3>1, <5>2
      <4>4. \A x \in S \union {q} : x <= t
        BY <2>6, <4>1, <4>3
      <4>5. S \union {q} \subseteq C /\ t \in C
        BY <2>5, <4>1
      <4>6. Good(file, C, (S \union {q}) \union {t}, WithTable(WithStream(xref, file[q].entries), file[t].entries))
        BY <1>1, <2>1, <2>2, <3>2, <4>2, <4>4, <4>5, GoodMore
      <4>7. (S \union {q}) \union {t} = S \union {t, q}
        OBVIOUS
      <4>8. Good(file, C, Until(file, sections, cursor + 1), xref')
        BY <2>4, <2>7, <2>9, <2>12, <3>3, <4>1, <4>6, <4>7
      <4> QED
        BY <1>1, <1>4, <2>2, <4>8 DEF NewestInv
    <3>4. CASE ~StreamIn(file, q)
      <4>1. Here(file, sections, cursor) = {t}
        BY <2>2, <3>1, <3>4 DEF Here, Hybrid
      <4>2. Good(file, C, S \union {t}, WithTable(xref, file[t].entries))
        BY <1>1, <2>1, <2>2, <2>5, <2>6, <3>2, <4>1, GoodMore
      <4>3. Good(file, C, Until(file, sections, cursor + 1), xref')
        BY <2>4, <2>7, <2>9, <2>12, <3>4, <4>1, <4>2
      <4> QED
        BY <1>1, <1>4, <2>2, <4>3 DEF NewestInv
    <3> QED
      BY <3>3, <3>4
  <2> QED
    BY <2>11, <2>12
<1> QED
  <2>1. Abandon \/ (pc' = "newer" /\ cursor' = cursor + 1)
    BY <1>1 DEF ReadNewer
  <2> QED
    BY <1>2, <1>3, <1>4, <2>1

LEMMA NewestRest ==
    NewestInv /\ (WalkEnds \/ ChainEnds \/ ScanItem \/ ScanEnds \/ CatalogCheck \/ TimeOut) => NewestInv'
<1> SUFFICES ASSUME NewestInv, WalkEnds \/ ChainEnds \/ ScanItem \/ ScanEnds \/ CatalogCheck \/ TimeOut
             PROVE  NewestInv'
  OBVIOUS
<1>1. TypeInv' /\ file' = file /\ sections' = sections
  BY TypeWalkEnds, TypeRest, TypeScan
     DEF NewestInv, WalkEnds, ChainEnds, ScanItem, ScanEnds, CatalogCheck, TimeOut
<1>2. CASE WalkEnds
  BY <1>1, <1>2 DEF NewestInv, WalkEnds
<1>3. CASE ChainEnds
  <2>1. /\ Walked(file, sections, 0, seen) /\ cursor \in Nat /\ cursor > Len(sections)
        /\ pc = "newer" /\ xref' = xref /\ (pc' = "catalog" \/ pc' = "scan")
    BY <1>3 DEF NewestInv, TypeInv, WalkInv, ChainEnds, Abandon
  <2>2. Len(sections) \in Nat
    BY <2>1 DEF Walked
  <2>3. \A i \in 1..Len(sections) : i < cursor /\ i < Len(sections) + 1
    BY <2>1, <2>2
  <2>4. Until(file, sections, cursor) = Chained(file, sections)
    BY <2>3 DEF Until, Chained
  <2> QED
    BY <1>1, <2>1, <2>4 DEF NewestInv
<1>4. CASE ScanItem
  BY <1>1, <1>4 DEF NewestInv, ScanItem, Scanning
<1>5. CASE ScanEnds
  BY <1>1, <1>5 DEF NewestInv, ScanEnds
<1>6. CASE CatalogCheck
  <2>1. pc = "again" => rebuilt
    BY DEF NewestInv, TypeInv, WalkInv
  <2> QED
    BY <1>1, <1>6, <2>1 DEF NewestInv, CatalogCheck
<1>7. CASE TimeOut
  BY <1>1, <1>7 DEF NewestInv, TimeOut
<1> QED
  BY <1>2, <1>3, <1>4, <1>5, <1>6, <1>7

----------------------------------------------------------------------------
(* What the file says of a number, by the list that the walk has made.     *)

\* The section of those read with the i-th that speaks of n: its table first.
Tells(f, list, i, n) ==
    IF n \in Says(f, Where(list[i])) THEN {Where(list[i])}
    ELSE {q \in Hybrid(f, list, i) : n \in Says(f, q)}

LEMMA Words ==
    ASSUME file \in Files, Walked(file, sections, 0, seen), NEW L, L = Len(sections),
           \A i \in 1..L : Loaded(file, sections, i), NEW k \in 1..L, NEW n
    PROVE  Word(k, n) = {file[q].entries[n] : q \in Tells(file, sections, L + 1 - k, n)}
<1>1. L \in Nat /\ ChainLength = L /\ Chain[k] = Where(sections[L + 1 - k])
  BY ChainIsWalked, WalkedFits
<1>2. PICK i, c, s, h : i = L + 1 - k /\ c = Chain[k] /\ s = sections[i] /\ h = HybridOf(k)
  OBVIOUS
<1>3. /\ i \in 1..L /\ (k < L <=> i # 1) /\ c = Where(s)
      /\ Listed(file, s) /\ Loaded(file, sections, i)
  BY <1>1, <1>2 DEF Walked
<1>4. c \in DOMAIN file /\ ItemOf(file, c) = file[c] /\ (TableIn(file, c) <=> s.table # 0)
      /\ (s.table # 0 => s.stream = HybridIn(file, c))
  <2>1. CASE s.table # 0
    BY <1>3, <2>1, JunkIsNoSection DEF Listed, Where
  <2>2. CASE s.table = 0
    <3>1. c = s.stream /\ StreamIn(file, c)
      BY <1>3, <2>2 DEF Listed, Where
    <3>2. ~TableIn(file, c)
      BY <3>1 DEF TableIn, StreamIn
    <3> QED
      BY <2>2, <3>1, <3>2, JunkIsNoSection
  <2> QED
    BY <2>1, <2>2
<1>5. IsTable(c) <=> file[c].what = "table"
  BY <1>4 DEF IsTable, ItemAt
<1>6. h = HybridIn(file, c)
  BY <1>2, <1>4 DEF HybridOf, HybridIn
<1>7. n \in DOMAIN file[c].entries /\ (IsTable(c) => file[c].entries[n].at # "free")
        <=> n \in Says(file, c)
  BY <1>5 DEF Says
<1>8. IsTable(c) /\ k < L /\ n \in DOMAIN ItemAt(h).entries
        <=> \E q \in Hybrid(file, sections, i) : n \in Says(file, q)
  <2>1. IsTable(c) <=> s.table # 0
    BY <1>4, ReadsFile
  <2>2. ASSUME s.table # 0, i # 1
        PROVE  n \in DOMAIN ItemAt(h).entries
                 <=> \E q \in Hybrid(file, sections, i) : n \in Says(file, q)
    <3>1. h = s.stream
      BY <1>4, <1>6, <2>2
    <3>2. CASE StreamIn(file, h)
      <4>1. ItemAt(h) = file[h] /\ file[h].what = "stream"
        BY <3>2, ReadsFile, JunkIsNoSection DEF StreamIn
      <4>2. Says(file, h) = DOMAIN file[h].entries
        BY <4>1 DEF Says
      <4>3. Hybrid(file, sections, i) = {h}
        BY <1>2, <2>2, <3>1, <3>2 DEF Hybrid
      <4> QED
        BY <4>1, <4>2, <4>3
    <3>3. CASE ~StreamIn(file, h)
      <4>1. h = 0
        BY <1>2, <1>3, <2>2, <3>1, <3>3 DEF Loaded
      <4>2. 0 \notin DOMAIN file
        BY FileFacts
      <4>3. DOMAIN ItemAt(h).entries = {}
        BY <4>1, <4>2 DEF ItemAt, Junk, NoEntries
      <4>4. Hybrid(file, sections, i) = {}
        BY <1>2, <3>1, <3>3 DEF Hybrid
      <4> QED
        BY <4>3, <4>4
    <3> QED
      BY <3>2, <3>3
  <2>3. s.table = 0 \/ i = 1 => Hybrid(file, sections, i) = {}
    BY <1>2 DEF Hybrid
  <2> QED
    BY <1>3, <2>1, <2>2, <2>3
<1>9. \A q \in Hybrid(file, sections, i) : q = h /\ ItemAt(h) = file[h]
  <2>1. \A q \in Hybrid(file, sections, i) : q = s.stream /\ s.table # 0 /\ StreamIn(file, q)
    BY <1>2 DEF Hybrid
  <2> QED
    BY <1>4, <1>6, <2>1, ReadsFile, JunkIsNoSection
<1>10. CASE n \in Says(file, c)
  <2>1. Word(k, n) = {file[c].entries[n]}
    BY <1>2, <1>7, <1>10 DEF Word
  <2>2. Tells(file, sections, i, n) = {c}
    BY <1>2, <1>3, <1>10 DEF Tells
  <2> QED
    BY <1>2, <2>1, <2>2
<1>11. CASE n \notin Says(file, c) /\ \E q \in Hybrid(file, sections, i) : n \in Says(file, q)
  <2>1. Word(k, n) = {ItemAt(h).entries[n]}
    BY <1>1, <1>2, <1>7, <1>8, <1>11 DEF Word
  <2>2. Tells(file, sections, i, n) = {h} /\ ItemAt(h) = file[h]
    <3>1. Tells(file, sections, i, n) = {q \in Hybrid(file, sections, i) : n \in Says(file, q)}
      BY <1>2, <1>3, <1>11 DEF Tells
    <3> QED
      BY <1>9, <1>11, <3>1
  <2> QED
    BY <1>2, <2>1, <2>2
<1>12. CASE n \notin Says(file, c) /\ ~\E q \in Hybrid(file, sections, i) : n \in Says(file, q)
  <2>1. Word(k, n) = {}
    BY <1>1, <1>2, <1>7, <1>8, <1>12 DEF Word
  <2>2. Tells(file, sections, i, n) = {}
    BY <1>2, <1>3, <1>12 DEF Tells
  <2> QED
    BY <1>2, <2>1, <2>2
<1> QED
  BY <1>10, <1>11, <1>12

\* The newest word is that of the highest section of the chain to speak.
LEMMA NewestWord ==
    ASSUME file \in Files, Incremental(file), Walked(file, sections, 0, seen),
           \A i \in 1..Len(sections) : Loaded(file, sections, i), NEW n
    PROVE  /\ (\A q \in Chained(file, sections) : n \notin Says(file, q)) => Newest(n) = {}
           /\ \A p \in Chained(file, sections) :
                n \in Says(file, p) /\ (\A q \in Chained(file, sections) : n \in Says(file, q) => q <= p)
                  => Newest(n) = {file[p].entries[n]}
<1>1. PICK L, C : L = Len(sections) /\ C = Chained(file, sections)
  OBVIOUS
<1>2. L \in Nat /\ ChainLength = L
  BY <1>1, ChainIsWalked, WalkedFits
<1>3. \A k \in 1..L : Word(k, n) = {file[q].entries[n] : q \in Tells(file, sections, L + 1 - k, n)}
  BY <1>1, Words
<1>4. \A k \in 1..L : L + 1 - k \in 1..L
  BY <1>2
<1>5. \A i \in 1..L : \A q \in Tells(file, sections, i, n) :
         q \in Here(file, sections, i) /\ n \in Says(file, q) /\ q \in C
  <2>1. \A i \in 1..L : Here(file, sections, i) \subseteq C
    BY <1>1, ChainSections
  <2> QED
    BY <2>1 DEF Tells, Here
<1> DEFINE S == {k \in 1..ChainLength : Word(k, n) # {}}
           least == CHOOSE k \in S : \A j \in S : k <= j
<1>6. Newest(n) = IF S = {} THEN {} ELSE Word(least, n)
  BY Zenon DEF Newest
<1>7. ASSUME \A q \in C : n \notin Says(file, q) PROVE Newest(n) = {}
  <2>1. \A k \in 1..L : Tells(file, sections, L + 1 - k, n) = {}
    BY <1>4, <1>5, <1>7
  <2>2. S = {}
    BY <1>2, <1>3, <2>1
  <2> HIDE DEF S, least
  <2> QED
    BY <1>6, <2>2
<1>8. ASSUME NEW p \in C, n \in Says(file, p), \A q \in C : n \in Says(file, q) => q <= p
      PROVE  Newest(n) = {file[p].entries[n]}
  <2>1. PICK i \in 1..L : p \in Here(file, sections, i)
    BY <1>1 DEF Chained, Until
  <2>2. PICK k : k = L + 1 - i
    OBVIOUS
  <2>3. k \in 1..L /\ L + 1 - k = i
    BY <1>2, <2>2
  <2>4. Tells(file, sections, i, n) = {p}
    <3>1. p <= Where(sections[i]) /\ Where(sections[i]) \in Nat /\ p \in Nat
          /\ Where(sections[i]) \in C
      <4>1. Where(sections[i]) \in Here(file, sections, i)
        BY DEF Here
      <4>2. Here(file, sections, i) \subseteq C
        BY <1>1, ChainSections
      <4>3. C \subseteq Sections(file)
        BY <1>1, ChainSections
      <4> QED
        BY <1>1, <2>1, <4>1, <4>2, <4>3, HereOrder, SectionEntries
    <3>2. CASE n \in Says(file, Where(sections[i]))
      <4>1. p = Where(sections[i])
        BY <1>8, <3>1, <3>2
      <4> QED
        BY <3>2, <4>1 DEF Tells
    <3>3. CASE n \notin Says(file, Where(sections[i]))
      <4>1. p \in Hybrid(file, sections, i)
        BY <1>8, <2>1, <3>3 DEF Here
      <4>2. Hybrid(file, sections, i) = {p}
        BY <4>1 DEF Hybrid
      <4> QED
        BY <1>8, <3>3, <4>2 DEF Tells
    <3> QED
      BY <3>2, <3>3
  <2>5. Word(k, n) = {file[p].entries[n]}
    BY <1>3, <2>3, <2>4
  <2>6. ASSUME NEW j \in S PROVE k <= j
    <3>1. j \in 1..L /\ Word(j, n) # {}
      BY <1>2
    <3>2. PICK o : o = L + 1 - j
      OBVIOUS
    <3>3. o \in 1..L
      BY <1>4, <3>1, <3>2
    <3>4. PICK q : q \in Tells(file, sections, o, n)
      BY <1>3, <3>1, <3>2
    <3>5. q \in Here(file, sections, o) /\ q <= p
      BY <1>5, <1>8, <3>3, <3>4
    <3>6. ~(i < o)
      <4> SUFFICES ASSUME i < o PROVE FALSE
        OBVIOUS
      <4>1. p < q
        BY <1>1, <2>1, <3>3, <3>5, HereOrder
      <4>2. p \in Nat /\ q \in Nat
        BY <1>1, <1>5, <3>3, <3>4, ChainSections, SectionEntries
      <4> QED
        BY <3>5, <4>1, <4>2
    <3> QED
      BY <1>2, <2>2, <3>1, <3>2, <3>6
  <2>7. k \in S
    BY <1>2, <2>3, <2>5
  <2>8. S \subseteq Nat
    BY <1>2
  <2> HIDE DEF S
  <2>9. least \in S /\ \A j \in S : least <= j
    BY <2>6, <2>7
  <2>10. least = k
    <3>1. least <= k /\ k <= least /\ least \in Nat /\ k \in Nat
      BY <2>6, <2>7, <2>8, <2>9
    <3> HIDE DEF least
    <3> QED
      BY <3>1
  <2> HIDE DEF least
  <2> QED
    BY <1>6, <2>5, <2>7, <2>10
<1> QED
  BY <1>1, <1>7, <1>8

\* A table that says what the chain says leads where the chain says.
LEMMA FoundIsPlace ==
    ASSUME file \in Files, Incremental(file), Walked(file, sections, 0, seen),
           \A i \in 1..Len(sections) : Loaded(file, sections, i),
           NEW m, Good(file, Chained(file, sections), Chained(file, sections), m),
           NEW n \in Numbers \ {0}
    PROVE  Found(m, n) = Place(n)
<1>1. PICK C : C = Chained(file, sections)
  OBVIOUS
<1>2. C \subseteq Sections(file) /\ StartIn(file) \in Sections(file)
      /\ \A p \in C : p <= StartIn(file) /\ p \in Nat
  BY <1>1, ChainSections, SectionEntries
<1>3. From(file, C, m) /\ Right(file, C, C, m) /\ Kept(Archives(file), m)
  BY <1>1 DEF Good
<1>4. \A x : (\A q \in C : x \notin Says(file, q)) => Newest(x) = {}
  BY <1>1, NewestWord
<1>5. \A x : \A p \in C :
         x \in Says(file, p) /\ (\A q \in C : x \in Says(file, q) => q <= p)
           => Newest(x) = {file[p].entries[x]}
  BY <1>1, NewestWord
<1>6. \A x : \/ \A q \in C : x \notin Says(file, q)
             \/ \E p \in C : x \in Says(file, p) /\ \A q \in C : x \in Says(file, q) => q <= p
  <2> TAKE x
  <2> DEFINE T == {q \in C : x \in Says(file, q)}
  <2>1. StartIn(file) \in Nat /\ T \in SUBSET (0..StartIn(file))
    BY <1>2, SectionEntries
  <2>2. CASE T # {}
    <3>1. PICK max : max = CHOOSE a \in T : \A b \in T : a >= b
      OBVIOUS
    <3> HIDE DEF T
    <3>2. max \in T /\ \A b \in T : max >= b
      BY <2>1, <2>2, <3>1, LargestNatural
    <3>3. \A b \in T : b \in Nat /\ b <= max
      BY <2>1, <3>2
    <3> QED
      BY <3>2, <3>3 DEF T
  <2>3. CASE T = {}
    BY <2>3
  <2> QED
    BY <2>2, <2>3
<1>7. CASE \A q \in C : n \notin Says(file, q)
  <2>1. Place(n) = 0
    BY <1>4, <1>7 DEF Place
  <2>2. Found(m, n) = 0
    <3>1. CASE n \notin DOMAIN m
      BY <3>1 DEF Found, Knows
    <3>2. CASE n \in DOMAIN m
      <4>1. Bare(m[n]) = Free(0)
        BY <1>3, <1>7, <3>2 DEF From
      <4>2. m[n].at = "free"
        BY <1>3, <3>2, <4>1, KeptGen, AlikeFree
      <4> QED
        BY <3>2, <4>2 DEF Found, Knows
    <3> QED
      BY <3>1, <3>2
  <2> QED
    BY <2>1, <2>2
<1>8. ASSUME NEW p \in C, n \in Says(file, p), \A q \in C : n \in Says(file, q) => q <= p
      PROVE  Found(m, n) = Place(n)
  <2>1. PICK e, d : e = file[p].entries[n] /\ d = m[n]
    OBVIOUS
  <2>2. /\ Newest(n) = {e} /\ n \in DOMAIN m /\ Bare(d) = Bare(e)
        /\ e.at = "packed" => e.archive \in DOMAIN m /\ m[e.archive].flag
    BY <1>3, <1>5, <1>8, <2>1 DEF Right
  <2>3. e \in Entry /\ d \in Entry
    BY <1>2, <1>3, <1>8, <2>1, <2>2, KeptGen, SectionEntries
  <2>4. /\ e.at = d.at /\ (e.at # "free" => e.pos = d.pos)
        /\ e.at = "packed" => e.archive = d.archive
        /\ e.at \in {"free", "offset", "packed"}
    BY <2>2, <2>3, AlikeEntries, EntryIs
  <2>5. \A c, x : IsObject(c, x) <=> c \in Bodies(file) /\ file[c].num = x
    BY DEF IsObject, ItemAt, Bodies, Junk
  <2>6. CASE e.at = "free"
    <3>1. Place(n) = 0
      BY <2>2, <2>6 DEF Place
    <3>2. Found(m, n) = 0
      BY <2>1, <2>2, <2>4, <2>6 DEF Found, Knows
    <3> QED
      BY <3>1, <3>2
  <2>7. CASE e.at = "offset"
    <3>1. Place(n) = e.pos
      BY <2>2, <2>7 DEF Place
    <3>2. IsObject(e.pos, n)
      BY <1>2, <1>8, <2>1, <2>5, <2>7, IncrementalWords
    <3>3. Found(m, n) = e.pos
      BY <2>1, <2>2, <2>4, <2>7, <3>2 DEF Found, Knows
    <3> QED
      BY <3>1, <3>3
  <2>8. CASE e.at = "packed"
    <3>1. PICK a : a = e.archive
      OBVIOUS
    <3>2. /\ a \in Says(file, p)
          /\ \A q \in Sections(file) : a \in Says(file, q) => file[q].entries[a].at = "offset"
          /\ \A c \in Bodies(file) : file[c].num = a =>
               e.pos + 1 \in DOMAIN file[c].members /\ file[c].members[e.pos + 1] = n
      BY <1>2, <1>8, <2>1, <2>8, <3>1, IncrementalWords
    <3>3. PICK q \in C : a \in Says(file, q) /\ \A o \in C : a \in Says(file, o) => o <= q
      BY <1>6, <3>2
    <3>4. PICK b, c : b = file[q].entries[a] /\ c = b.pos
      OBVIOUS
    <3>5. /\ Newest(a) = {b} /\ a \in DOMAIN m /\ Bare(m[a]) = Bare(b) /\ m[a].flag
          /\ b.at = "offset"
      BY <1>2, <1>3, <1>5, <2>2, <2>8, <3>1, <3>2, <3>3, <3>4 DEF Right
    <3>6. m[a].at = "offset" /\ m[a].pos = c
      <4>1. m[a] \in Entry /\ b \in Entry
        BY <1>2, <1>3, <3>3, <3>4, <3>5, KeptGen, SectionEntries
      <4> QED
        BY <3>4, <3>5, <4>1, AlikeEntries
    <3>7. c \in Bodies(file) /\ file[c].num = a
      BY <1>2, <3>3, <3>4, <3>5, IncrementalWords
    <3>8. Place(n) = c
      <4>1. (CHOOSE x \in Newest(n) : TRUE) = e /\ (CHOOSE x \in Newest(a) : TRUE) = b
        BY <2>2, <3>5
      <4> QED
        BY <2>2, <2>8, <3>1, <3>4, <4>1 DEF Place
    <3>9. d.at = "packed" /\ d.archive = a /\ d.pos = e.pos
      BY <2>4, <2>8, <3>1
    <3>10. IsObject(c, a) /\ d.pos + 1 \in DOMAIN file[c].members /\ file[c].members[d.pos + 1] = n
      BY <2>5, <3>2, <3>7, <3>9
    <3>11. Found(m, n) = c
      BY <2>1, <2>2, <3>5, <3>6, <3>9, <3>10 DEF Found, Knows
    <3> QED
      BY <3>8, <3>11
  <2> QED
    BY <2>4, <2>6, <2>7, <2>8
<1> QED
  BY <1>6, <1>7, <1>8

\* A document opened from the chain of a file that an incremental writer left
\* resolves every number to the copy that the newest section to mention it
\* names, and to nothing when that section frees it: though the walk applies
\* the older streams over the newer, reading again sets the order right.
THEOREM NewestCorrect ==
    ASSUME \A f \in Sound : Incremental(f)
    PROVE  Spec => []NewestWins
<1>1. Init => NewestInv
  BY TypeInit DEF Init, NewestInv
<1>2. NewestInv /\ [Next]_vars => NewestInv'
  <2> SUFFICES ASSUME NewestInv, [Next]_vars PROVE NewestInv'
    OBVIOUS
  <2>1. CASE UNCHANGED vars
    <3>1. TypeInv'
      BY <2>1, WalkStep DEF vars, NewestInv, TypeInv
    <3> QED
      BY <2>1, <3>1 DEF vars, NewestInv
  <2> QED
    BY <2>1, NewestStart, NewestVisit, NewestOldest, NewestNewer, NewestRest DEF Next
<1>3. ASSUME \A f \in Sound : Incremental(f) PROVE NewestInv => NewestWins
  <2> SUFFICES ASSUME NewestInv, pc = "open", ~rebuilt, file \in Sound, NEW n \in Numbers \ {0}
               PROVE  Found(xref, n) = Place(n)
    BY DEF NewestWins
  <2>1. /\ file \in Files /\ Incremental(file) /\ Walked(file, sections, 0, seen)
        /\ \A i \in 1..Len(sections) : Loaded(file, sections, i)
        /\ Good(file, Chained(file, sections), Chained(file, sections), xref)
    BY <1>3 DEF NewestInv, TypeInv, WalkInv
  <2> QED
    BY <2>1, FoundIsPlace
<1> QED
  BY <1>1, <1>2, <1>3, PTL DEF Spec
=============================================================================
