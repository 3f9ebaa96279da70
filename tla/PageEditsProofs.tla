---------------------------- MODULE PageEditsProofs ----------------------------
(***************************************************************************)
(* For any files, whatever their page trees: however the pages are added,  *)
(* deleted, turned and reordered, the overlay stays a page tree and each   *)
(* call does to the list of pages what it says.                            *)
(***************************************************************************)
EXTENDS PageEdits, FoldProofs, SequenceTheorems, FiniteSetTheorems, TLAPS

Trees == [Numbers -> Node \union {Free}]

Branches(b) == {n \in Numbers : b[n] # Free /\ b[n].type = "Pages"}

\* What stays true of the overlay's nodes, whether or not the root leads to
\* them: branches are the file's, where the file has them, though they may
\* have lost kids, and every page names one of them as its parent.
Shape(b, t) ==
    /\ t \in Trees
    /\ \A n \in InUse(b) : t[n] # Free /\ t[n].type = b[n].type
    /\ \A n \in InUse(t) : t[n].type = "Pages" => n \in Branches(b)
    /\ \A n \in InUse(t) : t[n].type = "Page" => t[n].kids = <<>> /\ t[n].parent \in Branches(b)
    /\ \A n \in Branches(b) : /\ t[n].rotate = b[n].rotate
                              /\ t[n].parent = b[n].parent
                              /\ \A k \in ToSet(t[n].kids) :
                                    t[k] # Free /\ (k \in Branches(b) => k \in ToSet(b[n].kids))

\* Every node of R names the one of R that lists it.
Reach(R, t) ==
    /\ R \subseteq InUse(t) /\ Root \in R
    /\ \A n \in R : \A k \in ToSet(t[n].kids) : k \in R /\ t[k].parent = n

\* How high a branch is above the pages.
Heights(r, N, b) ==
    /\ r \in [Numbers -> 0..N]
    /\ \A n \in Branches(b) : r[n] > 0 /\ \A k \in ToSet(b[n].kids) : r[k] < r[n]
    /\ \A n \in Numbers \ Branches(b) : r[n] = 0

----------------------------------------------------------------------------
(* Nodes.                                                                  *)

LEMMA NodeParts ==
    ASSUME NEW t \in Trees, NEW n \in InUse(t)
    PROVE  /\ n \in Numbers /\ t[n] \in Node
           /\ t[n].type \in {"Pages", "Page"} /\ t[n].parent \in Numbers \union {None}
           /\ t[n].kids \in Seq(Numbers) /\ ToSet(t[n].kids) \subseteq Numbers
           /\ t[n].count \in Nat /\ t[n].rotate \in Turns \union {None}
<1>1. n \in Numbers /\ t[n] \in Node
  BY DEF Trees, InUse
<1>2. t[n].kids \in Seq(Numbers)
  BY <1>1 DEF Node
<1>3. ToSet(t[n].kids) \subseteq Numbers
  BY <1>2 DEF ToSet
<1> QED
  BY <1>1, <1>2, <1>3 DEF Node

\* A file's own tree has the shape, and its root leads to all of it.
LEMMA FileShape ==
    ASSUME PageTreeFiles, NEW b \in Bases
    PROVE  /\ Shape(b, b) /\ Reach(InUse(b), b) /\ Root \in Branches(b)
           /\ b[Root].parent = None
           /\ \A n \in Branches(b) \ {Root} : /\ b[n].parent \in Branches(b)
                                              /\ n \in ToSet(b[b[n].parent].kids)
<1>1. PageTreeOf(b) /\ Root \in Numbers /\ b \in Trees
  BY DEF PageTreeFiles, PageTreeOf, Trees
<1>2. ASSUME NEW n \in InUse(b)
      PROVE  /\ b[n].type = "Page" => b[n].kids = <<>>
             /\ \A k \in ToSet(b[n].kids) : k \in InUse(b) /\ b[k].parent = n
             /\ n # Root => /\ b[n].parent \in InUse(b)
                            /\ n \in ToSet(b[b[n].parent].kids)
  <2>1. n \in Numbers /\ b[n] # Free /\ ToSet(b[n].kids) \subseteq Numbers
    BY <1>1, NodeParts DEF InUse
  <2> QED
    BY <1>1, <2>1 DEF PageTreeOf, InUse
<1>3. ASSUME NEW n \in InUse(b), n # Root
      PROVE  b[n].parent \in Branches(b)
  <2>1. b[n].parent \in InUse(b) /\ n \in ToSet(b[b[n].parent].kids)
    BY <1>2, <1>3
  <2>2. b[b[n].parent].kids # <<>>
    BY <2>1 DEF ToSet
  <2>3. b[b[n].parent].type = "Pages"
    BY <1>1, <1>2, <2>1, <2>2, NodeParts
  <2> QED
    BY <2>1, <2>3 DEF Branches, InUse
<1>4. Root \in Branches(b) /\ b[Root].parent = None
  BY <1>1 DEF PageTreeOf, Branches
<1>5. Branches(b) \subseteq InUse(b) /\ \A n \in Branches(b) : b[n].type = "Pages"
  BY DEF Branches, InUse
<1>6. \A n \in InUse(b) : b[n].type = "Pages" => n \in Branches(b)
  BY DEF Branches, InUse
<1>7. Shape(b, b)
  <2>1. \A n \in InUse(b) : b[n] # Free
    BY DEF InUse
  <2> QED
    BY <1>1, <1>2, <1>3, <1>4, <1>5, <1>6, <2>1 DEF Shape
<1>8. Reach(InUse(b), b)
  BY <1>2, <1>4, <1>5 DEF Reach
<1> QED
  BY <1>2, <1>3, <1>4, <1>5, <1>7, <1>8

LEMMA HeightsExist ==
    ASSUME PageTreeFiles, NEW b \in Bases
    PROVE  \E N \in Nat : \E r : Heights(r, N, b)
<1>1. PageTreeOf(b) /\ IsFiniteSet(Numbers) /\ b \in Trees
  BY DEF PageTreeFiles, PageTreeOf, Trees
<1> DEFINE below == [n \in Numbers |-> IF b[n] = Free THEN {} ELSE ToSet(b[n].kids)]
<1>2. \A n \in Numbers : below[n] \in SUBSET Numbers
  BY <1>1, NodeParts DEF InUse
<1>3. \A S \in SUBSET Numbers : S # {} => \E n \in S : below[n] \intersect S = {}
  BY <1>1 DEF PageTreeOf
<1>4. \A n \in Branches(b) : n \in Numbers /\ below[n] = ToSet(b[n].kids)
  BY DEF Branches
<1> HIDE DEF below
<1>5. PICK N \in Nat : \E q \in [Numbers -> 0..N] : \A n \in Numbers : \A k \in below[n] : q[k] < q[n]
  BY <1>1, <1>2, <1>3, RankExists
<1>6. PICK q \in [Numbers -> 0..N] : \A n \in Numbers : \A k \in below[n] : q[k] < q[n]
  BY <1>5
<1> DEFINE r == [n \in Numbers |-> IF n \in Branches(b) THEN q[n] + 1 ELSE 0]
<1>7. r \in [Numbers -> 0..(N + 1)]
  BY <1>6
<1>8. ASSUME NEW n \in Branches(b)
      PROVE  r[n] > 0 /\ \A k \in ToSet(b[n].kids) : r[k] < r[n]
  <2>1. n \in Numbers /\ q[n] \in 0..N /\ r[n] = q[n] + 1
    BY <1>4, <1>6
  <2>2. \A k \in ToSet(b[n].kids) : k \in Numbers /\ q[k] < q[n] /\ q[k] \in 0..N
    BY <1>2, <1>4, <1>6
  <2> QED
    BY <2>1, <2>2
<1>9. \A n \in Numbers \ Branches(b) : r[n] = 0
  OBVIOUS
<1>10. Heights(r, N + 1, b)
  <2> HIDE DEF r
  <2> QED
    BY <1>7, <1>8, <1>9 DEF Heights
<1>11. N + 1 \in Nat
  OBVIOUS
<1> QED
  BY <1>10, <1>11

\* In the overlay too, what a branch lists is below it.
LEMMA KidsLower ==
    ASSUME NEW b, NEW t, Shape(b, t), NEW r, NEW N \in Nat, Heights(r, N, b),
           NEW n \in InUse(t), NEW k \in ToSet(t[n].kids)
    PROVE  n \in Branches(b) /\ k \in Numbers /\ k \in InUse(t) /\ r[k] < r[n]
<1>1. t \in Trees /\ n \in Numbers /\ k \in Numbers /\ t[n].kids # <<>>
  BY NodeParts DEF Shape, ToSet
<1>2. n \in Branches(b)
  BY <1>1, NodeParts DEF Shape
<1>3. t[k] # Free /\ (k \in Branches(b) => k \in ToSet(b[n].kids))
  BY <1>2 DEF Shape
<1>4. r[k] < r[n]
  <2>1. CASE k \in Branches(b)
    BY <1>2, <1>3, <2>1 DEF Heights
  <2>2. CASE k \notin Branches(b)
    <3>1. r[k] = 0 /\ r[n] > 0 /\ r[n] \in 0..N
      BY <1>1, <1>2, <2>2 DEF Heights
    <3> QED
      BY <3>1
  <2> QED
    BY <2>1, <2>2
<1> QED
  BY <1>1, <1>2, <1>3, <1>4 DEF InUse

----------------------------------------------------------------------------
(* The leaves of a tree.                                                   *)

\* f gives every node the pages under it, in order.
Under(f, t) ==
    /\ f \in [Numbers -> Seq(Numbers)]
    /\ \A n \in Numbers \ InUse(t) : f[n] = <<>>
    /\ \A n \in InUse(t) : f[n] = IF t[n].type = "Page" THEN <<n>> ELSE Bind(t[n].kids, f)

\* Bind asks only for the values at the elements.
LEMMA BindSame ==
    ASSUME NEW s, NEW f, NEW g, \A k \in ToSet(s) : f[k] = g[k]
    PROVE  Bind(s, f) = Bind(s, g)
<1>1. \A i \in DOMAIN s : f[s[i]] = g[s[i]]
  BY DEF ToSet
<1>2. [i \in DOMAIN s |-> f[s[i]]] = [i \in DOMAIN s |-> g[s[i]]]
  BY <1>1
<1> QED
  BY <1>2 DEF Bind

LEMMA BindType ==
    ASSUME NEW A, NEW B, NEW f \in [A -> Seq(B)], NEW s \in Seq(A)
    PROVE  Bind(s, f) \in Seq(B)
<1>0. BoundLeft(f, A, B)
  BY BindOne
<1> QED
  BY <1>0 DEF BoundLeft

LEMMA UnderExists ==
    ASSUME NEW b, NEW t, Shape(b, t), NEW r, NEW N \in Nat, Heights(r, N, b)
    PROVE  \E f : Under(f, t)
<1> DEFINE T == Seq(Numbers)
           value(n, f) == IF t[n] = Free THEN <<>>
                          ELSE IF t[n].type = "Page" THEN <<n>> ELSE Bind(t[n].kids, f)
           step == [a \in Numbers \X [Numbers -> T] |-> value(a[1], a[2])]
<1>1. t \in Trees /\ r \in [Numbers -> 0..N]
  BY DEF Shape, Heights
<1>2. \A n \in Numbers : \A f \in [Numbers -> T] : step[<<n, f>>] = value(n, f)
  OBVIOUS
<1>3. ASSUME NEW n \in Numbers, NEW f \in [Numbers -> T] PROVE value(n, f) \in T
  <2>1. <<>> \in T /\ <<n>> \in T
    OBVIOUS
  <2>2. CASE n \in InUse(t)
    <3>1. Bind(t[n].kids, f) \in T
      BY <1>1, <2>2, NodeParts, BindType
    <3> QED
      BY <2>1, <3>1
  <2>3. CASE n \notin InUse(t)
    BY <2>1, <2>3 DEF InUse
  <2> QED
    BY <2>2, <2>3
<1>4. step \in [Numbers \X [Numbers -> T] -> T]
  <2> HIDE DEF value, T
  <2> QED
    BY <1>3
<1>5. ASSUME NEW n \in Numbers, NEW f \in [Numbers -> T], NEW g \in [Numbers -> T],
             \A q \in Numbers : r[q] < r[n] => f[q] = g[q]
      PROVE  value(n, f) = value(n, g)
  <2>1. CASE n \in InUse(t)
    <3>1. \A k \in ToSet(t[n].kids) : f[k] = g[k]
      BY <1>5, <2>1, KidsLower
    <3>2. Bind(t[n].kids, f) = Bind(t[n].kids, g)
      BY <3>1, BindSame
    <3> QED
      BY <3>2
  <2>2. CASE n \notin InUse(t)
    BY <2>2 DEF InUse
  <2> QED
    BY <2>1, <2>2
<1>6. FromBelow(Numbers, T, r, step)
  <2> HIDE DEF value, step, T
  <2> QED
    BY <1>2, <1>5 DEF FromBelow
<1>7. T # {}
  <2>1. <<>> \in T
    OBVIOUS
  <2> QED
    BY <2>1
<1>8. \E f \in [Numbers -> T] : MadeBy(f, Numbers, step)
  <2> HIDE DEF step, T
  <2> QED
    BY <1>1, <1>4, <1>6, <1>7, RecursionExists
<1>9. PICK f \in [Numbers -> T] : MadeBy(f, Numbers, step)
  BY <1>8
<1>10. \A n \in Numbers : f[n] = value(n, f)
  <2> HIDE DEF step, value, T
  <2> QED
    BY <1>2, <1>9 DEF MadeBy
<1>11. Under(f, t)
  BY <1>9, <1>10 DEF Under, InUse
<1> QED
  BY <1>11

\* What Leaves(t) recurs through.
LeafFun(t, g) ==
    g = [n \in Numbers |->
            IF t[n] = Free THEN <<>>
            ELSE IF t[n].type = "Page" THEN <<n>>
            ELSE FlattenSeq([i \in DOMAIN t[n].kids |-> g[t[n].kids[i]]])]

LEMMA UnderIsLeaves ==
    ASSUME NEW b, NEW t, Shape(b, t), NEW r, NEW N \in Nat, Heights(r, N, b),
           Root \in Numbers, NEW f, Under(f, t)
    PROVE  Leaves(t) = f[Root]
<1>1. t \in Trees /\ r \in [Numbers -> Nat]
  BY DEF Shape, Heights
<1>2. \A n \in Numbers \ InUse(t) : t[n] = Free
  BY DEF InUse
<1>3. \A n \in InUse(t) : n \in Numbers /\ t[n] # Free
  BY DEF InUse
<1>4. LeafFun(t, f)
  <2>1. f = [n \in Numbers |-> f[n]]
    BY DEF Under
  <2>2. ASSUME NEW n \in Numbers
        PROVE  f[n] = IF t[n] = Free THEN <<>>
                      ELSE IF t[n].type = "Page" THEN <<n>>
                      ELSE FlattenSeq([i \in DOMAIN t[n].kids |-> f[t[n].kids[i]]])
    <3>1. CASE n \in InUse(t)
      BY <1>3, <3>1 DEF Under, Bind
    <3>2. CASE n \notin InUse(t)
      BY <1>2, <3>2 DEF Under
    <3> QED
      BY <3>1, <3>2
  <2> QED
    BY <2>1, <2>2, Zenon DEF LeafFun
<1>5. PICK g : g = CHOOSE q : LeafFun(t, q)
  OBVIOUS
<1>6. LeafFun(t, g)
  BY <1>4, <1>5
<1>7. Leaves(t) = g[Root]
  BY <1>5 DEF Leaves, LeafFun
<1>8. \A n \in Numbers : g[n] = IF t[n] = Free THEN <<>>
                                ELSE IF t[n].type = "Page" THEN <<n>>
                                ELSE Bind(t[n].kids, g)
  BY <1>6, Zenon DEF LeafFun, Bind
<1> DEFINE S == {n \in Numbers : g[n] = f[n]}
<1>9. ASSUME NEW n \in Numbers, \A q \in Numbers : r[q] < r[n] => q \in S
      PROVE  n \in S
  <2>1. CASE n \in InUse(t)
    <3>1. \A k \in ToSet(t[n].kids) : g[k] = f[k]
      BY <1>9, <2>1, KidsLower
    <3>2. Bind(t[n].kids, g) = Bind(t[n].kids, f)
      BY <3>1, BindSame
    <3>3. g[n] = f[n]
      BY <1>3, <1>8, <2>1, <3>2 DEF Under
    <3> QED
      BY <3>3
  <2>2. CASE n \notin InUse(t)
    <3>1. g[n] = f[n]
      BY <1>2, <1>8, <2>2 DEF Under
    <3> QED
      BY <3>1
  <2> QED
    BY <2>1, <2>2
<1>10. Numbers \subseteq S
  <2> HIDE DEF S
  <2> QED
    BY <1>1, <1>9, RankInduction
<1> QED
  BY <1>7, <1>10

\* What is found under a node is pages, and when all of R is reached, each is
\* listed by the branch it names.
LEMMA PagesUnder ==
    ASSUME NEW b, NEW t, Shape(b, t), NEW r, NEW N \in Nat, Heights(r, N, b),
           NEW f, Under(f, t), NEW R, Reach(R, t)
    PROVE  /\ \A n \in Numbers : \A p \in ToSet(f[n]) : p \in InUse(t) /\ t[p].type = "Page"
           /\ \A n \in R : \A p \in ToSet(f[n]) :
                 p \in R /\ (p = n \/ p \in ToSet(t[t[p].parent].kids))
<1> DEFINE Fit(n) == \A p \in ToSet(f[n]) :
                        /\ p \in InUse(t) /\ t[p].type = "Page"
                        /\ n \in R => p \in R /\ (p = n \/ p \in ToSet(t[t[p].parent].kids))
           S == {n \in Numbers : Fit(n)}
<1>1. t \in Trees /\ r \in [Numbers -> Nat] /\ f \in [Numbers -> Seq(Numbers)]
  BY DEF Shape, Heights, Under
<1>2. ASSUME NEW n \in Numbers, \A q \in Numbers : r[q] < r[n] => q \in S
      PROVE  n \in S
  <2>1. CASE n \notin InUse(t)
    <3>1. ToSet(f[n]) = {}
      BY <2>1 DEF Under, ToSet
    <3> QED
      BY <3>1
  <2>2. CASE n \in InUse(t) /\ t[n].type = "Page"
    <3>1. ToSet(f[n]) = {n}
      <4>1. f[n] = <<n>>
        BY <2>2 DEF Under
      <4> QED
        BY <4>1 DEF ToSet
    <3> QED
      BY <2>2, <3>1
  <2>3. CASE n \in InUse(t) /\ t[n].type # "Page"
    <3>1. f[n] = Bind(t[n].kids, f) /\ t[n].kids \in Seq(Numbers)
      BY <1>1, <2>3, NodeParts DEF Under
    <3>2. SUFFICES ASSUME NEW p \in ToSet(f[n])
                   PROVE  /\ p \in InUse(t) /\ t[p].type = "Page"
                          /\ n \in R => p \in R /\ (p = n \/ p \in ToSet(t[t[p].parent].kids))
      OBVIOUS
    <3>3. PICK k \in ToSet(t[n].kids) : p \in ToSet(f[k])
      BY <1>1, <3>1, <3>2, BindElements
    <3>4. k \in Numbers /\ r[k] < r[n]
      BY <2>3, KidsLower
    <3>5. Fit(k)
      BY <1>2, <3>4
    <3>6. n \in R => k \in R /\ t[k].parent = n
      BY <3>3 DEF Reach
    <3> QED
      BY <3>3, <3>5, <3>6
  <2> QED
    BY <2>1, <2>2, <2>3
<1>3. Numbers \subseteq S
  <2> HIDE DEF S
  <2> QED
    BY <1>1, <1>2, RankInduction
<1>4. R \subseteq Numbers
  BY DEF Reach, InUse
<1> QED
  BY <1>3, <1>4

\* The list of leaves.
LEMMA LeavesArePages ==
    ASSUME PageTreeFiles, NEW b \in Bases, NEW t, Shape(b, t), NEW R, Reach(R, t)
    PROVE  /\ Leaves(t) \in Seq(Numbers)
           /\ \A p \in ToSet(Leaves(t)) : /\ p \in R /\ p \in InUse(t) /\ t[p].type = "Page"
                                          /\ t[p].parent \in Branches(b)
                                          /\ p \in ToSet(t[t[p].parent].kids)
<1>0. Root \in Numbers /\ Root \in Branches(b) /\ Root \in R
  BY FileShape DEF PageTreeFiles, Reach
<1>1. PICK N \in Nat : \E r : Heights(r, N, b)
  BY HeightsExist
<1>2. PICK r : Heights(r, N, b)
  BY <1>1
<1>3. PICK f : Under(f, t)
  BY <1>2, UnderExists
<1>4. Leaves(t) = f[Root]
  BY <1>0, <1>2, <1>3, UnderIsLeaves
<1>5. f[Root] \in Seq(Numbers)
  BY <1>0, <1>3 DEF Under
<1>6. ASSUME NEW p \in ToSet(Leaves(t))
      PROVE  /\ p \in R /\ p \in InUse(t) /\ t[p].type = "Page"
             /\ t[p].parent \in Branches(b) /\ p \in ToSet(t[t[p].parent].kids)
  <2>1. /\ p \in InUse(t) /\ t[p].type = "Page"
        /\ p \in R /\ (p = Root \/ p \in ToSet(t[t[p].parent].kids))
    BY <1>0, <1>2, <1>3, <1>4, <1>6, PagesUnder
  <2>2. p # Root
    <3>1. Root \in InUse(b) /\ b[Root].type = "Pages"
      BY <1>0 DEF Branches, InUse
    <3>2. t[Root].type = "Pages"
      BY <3>1 DEF Shape
    <3> QED
      BY <2>1, <3>2
  <2>3. t[p].parent \in Branches(b)
    BY <2>1 DEF Shape
  <2> QED
    BY <2>1, <2>2, <2>3
<1> QED
  BY <1>4, <1>5, <1>6

----------------------------------------------------------------------------
(* What a page inherits.                                                   *)

\* h gives every branch of the file the turn it hands down.
Turning(h, b) ==
    h = [n \in Branches(b) |->
            IF b[n].rotate # None \/ b[n].parent = None THEN b[n].rotate ELSE h[b[n].parent]]

\* The turn of a node of t.
TurnOf(h, t, n) == IF t[n].rotate # None THEN t[n].rotate ELSE h[t[n].parent]

\* How far a branch is below the root.
Depth(r, N, b) == [n \in Branches(b) |-> N - r[n]]

LEMMA Depths ==
    ASSUME PageTreeFiles, NEW b \in Bases, NEW r, NEW N \in Nat, Heights(r, N, b)
    PROVE  /\ Depth(r, N, b) \in [Branches(b) -> 0..N]
           /\ \A n \in Branches(b) : b[n].parent # None =>
                 b[n].parent \in Branches(b) /\ Depth(r, N, b)[b[n].parent] < Depth(r, N, b)[n]
<1>1. \A n \in Branches(b) : n \in Numbers /\ r[n] \in 0..N
  BY DEF Heights, Branches
<1>2. \A n \in Branches(b) : Depth(r, N, b)[n] = N - r[n]
  BY DEF Depth
<1>3. \A n \in Branches(b) : N - r[n] \in 0..N
  BY <1>1
<1>4. Depth(r, N, b) \in [Branches(b) -> 0..N]
  BY <1>3 DEF Depth
<1>5. ASSUME NEW n \in Branches(b), b[n].parent # None
      PROVE  b[n].parent \in Branches(b) /\ Depth(r, N, b)[b[n].parent] < Depth(r, N, b)[n]
  <2>1. n # Root
    BY <1>5, FileShape
  <2>2. b[n].parent \in Branches(b) /\ n \in ToSet(b[b[n].parent].kids)
    BY <2>1, FileShape
  <2>3. r[n] < r[b[n].parent]
    BY <2>2 DEF Heights
  <2>4. N - r[b[n].parent] < N - r[n]
    BY <1>1, <2>2, <2>3
  <2> QED
    BY <1>2, <2>2, <2>4
<1> QED
  BY <1>4, <1>5

LEMMA TurningExists ==
    ASSUME PageTreeFiles, NEW b \in Bases, NEW r, NEW N \in Nat, Heights(r, N, b)
    PROVE  \E h \in [Branches(b) -> Turns \union {None}] : Turning(h, b)
<1> DEFINE P == Branches(b)
           T == Turns \union {None}
           value(n, h) == IF b[n].rotate # None \/ b[n].parent = None THEN b[n].rotate
                          ELSE h[b[n].parent]
           step == [a \in P \X [P -> T] |-> value(a[1], a[2])]
           rank == Depth(r, N, b)
<1>1. /\ rank \in [P -> 0..N]
      /\ \A n \in P : b[n].parent # None => b[n].parent \in P /\ rank[b[n].parent] < rank[n]
  BY Depths
<1>2. \A n \in P : b[n].rotate \in T
  <2>1. b \in Trees /\ P \subseteq InUse(b)
    BY FileShape DEF Shape, Branches, InUse
  <2> QED
    BY <2>1, NodeParts
<1>3. \A n \in P : \A h \in [P -> T] : step[<<n, h>>] = value(n, h) /\ value(n, h) \in T
  <2> HIDE DEF P, T, rank
  <2> QED
    BY <1>1, <1>2
<1>4. step \in [P \X [P -> T] -> T]
  <2>1. step = [a \in P \X [P -> T] |-> step[a]]
    OBVIOUS
  <2>2. \A a \in P \X [P -> T] : step[a] \in T
    <3> HIDE DEF step, value, P, T
    <3> QED
      BY <1>3
  <2> HIDE DEF step, value, P, T
  <2> QED
    BY <2>1, <2>2
<1>5. FromBelow(P, T, rank, step)
  <2> HIDE DEF P, T, rank, step
  <2> QED
    BY <1>1, <1>3 DEF FromBelow
<1>6. \E h \in [P -> T] : MadeBy(h, P, step)
  <2>1. T # {}
    OBVIOUS
  <2> HIDE DEF P, T, rank, step
  <2> QED
    BY <1>1, <1>4, <1>5, <2>1, RecursionExists
<1>7. PICK h \in [P -> T] : MadeBy(h, P, step)
  BY <1>6
<1>8. \A n \in P : h[n] = value(n, h)
  <2> HIDE DEF P, T, step, value
  <2> QED
    BY <1>3, <1>7 DEF MadeBy
<1>9. Turning(h, b)
  BY <1>7, <1>8 DEF Turning
<1> QED
  BY <1>7, <1>9

\* What Inherited(t, n) recurs through.
NearestFun(t, g) ==
    g = [k \in InUse(t) |->
            IF t[k].rotate # None \/ t[k].parent = None THEN t[k].rotate ELSE g[t[k].parent]]

LEMMA InheritedIs ==
    ASSUME PageTreeFiles, NEW b \in Bases, NEW t, Shape(b, t), NEW h, Turning(h, b),
           NEW n \in InUse(t), t[n].type = "Page"
    PROVE  Inherited(t, n) = TurnOf(h, t, n)
<1>0. None \notin Numbers /\ t \in Trees
  BY DEF PageTreeFiles, Shape
<1>1. PICK N \in Nat : \E r : Heights(r, N, b)
  BY HeightsExist
<1>2. PICK r : Heights(r, N, b)
  BY <1>1
<1>3. /\ Depth(r, N, b) \in [Branches(b) -> 0..N]
      /\ \A k \in Branches(b) : b[k].parent # None =>
            b[k].parent \in Branches(b) /\ Depth(r, N, b)[b[k].parent] < Depth(r, N, b)[k]
  BY <1>2, Depths
<1>4. \A k \in Branches(b) : /\ k \in Numbers /\ k \in InUse(t)
                             /\ t[k].rotate = b[k].rotate /\ t[k].parent = b[k].parent
  BY DEF Branches, InUse, Shape
<1>5. \A k \in InUse(t) \ Branches(b) : t[k].parent \in Branches(b) /\ t[k].parent # None
  <2>1. \A k \in InUse(t) : t[k].type \in {"Pages", "Page"}
    BY <1>0, NodeParts
  <2> QED
    BY <1>0, <1>4, <2>1 DEF Shape
<1>6. \A k \in Branches(b) : h[k] = IF b[k].rotate # None \/ b[k].parent = None THEN b[k].rotate
                                    ELSE h[b[k].parent]
  BY Zenon DEF Turning
<1> DEFINE g == [k \in InUse(t) |-> IF k \in Branches(b) THEN h[k] ELSE TurnOf(h, t, k)]
<1>7. NearestFun(t, g)
  <2>1. ASSUME NEW k \in InUse(t)
        PROVE  g[k] = IF t[k].rotate # None \/ t[k].parent = None THEN t[k].rotate ELSE g[t[k].parent]
    <3>1. CASE k \in Branches(b)
      BY <1>3, <1>4, <1>6, <3>1
    <3>2. CASE k \notin Branches(b)
      BY <1>4, <1>5, <3>2 DEF TurnOf
    <3> QED
      BY <3>1, <3>2
  <2>2. g = [k \in InUse(t) |-> g[k]]
    OBVIOUS
  <2> HIDE DEF g
  <2> QED
    BY <2>1, <2>2, Zenon DEF NearestFun
<1>8. PICK v : v = CHOOSE q : NearestFun(t, q)
  OBVIOUS
<1>9. NearestFun(t, v)
  BY <1>7, <1>8
<1>10. Inherited(t, n) = v[n]
  BY <1>8 DEF Inherited, NearestFun
<1>11. \A k \in InUse(t) : v[k] = IF t[k].rotate # None \/ t[k].parent = None THEN t[k].rotate
                                  ELSE v[t[k].parent]
  BY <1>9, Zenon DEF NearestFun
<1> DEFINE S == {k \in Branches(b) : v[k] = h[k]}
<1>12. ASSUME NEW k \in Branches(b),
              \A q \in Branches(b) : Depth(r, N, b)[q] < Depth(r, N, b)[k] => q \in S
       PROVE  k \in S
  <2>1. v[k] = IF b[k].rotate # None \/ b[k].parent = None THEN b[k].rotate ELSE v[b[k].parent]
    BY <1>4, <1>11
  <2>2. b[k].parent # None => v[b[k].parent] = h[b[k].parent]
    BY <1>3, <1>12
  <2> QED
    BY <1>6, <2>1, <2>2
<1>13. Branches(b) \subseteq S
  <2>1. Depth(r, N, b) \in [Branches(b) -> Nat]
    BY <1>3
  <2> HIDE DEF S
  <2> QED
    BY <1>12, <2>1, RankInduction
<1>14. n \notin Branches(b)
  <2>1. n \in Branches(b) => n \in InUse(b) /\ b[n].type = "Pages"
    BY DEF Branches, InUse
  <2> QED
    BY <2>1 DEF Shape
<1>15. v[n] = TurnOf(h, t, n)
  BY <1>5, <1>11, <1>13, <1>14 DEF TurnOf
<1> QED
  BY <1>10, <1>15

----------------------------------------------------------------------------
(* The list of pages.                                                      *)

Row(h, t, n) == [page |-> n, turn |-> TurnOf(h, t, n)]

Rows(h, t, pages) == [i \in DOMAIN pages |-> Row(h, t, pages[i])]

LEMMA ListingIs ==
    ASSUME PageTreeFiles, NEW b \in Bases, NEW t, Shape(b, t), NEW R, Reach(R, t),
           NEW h, Turning(h, b)
    PROVE  Listing(t) = Rows(h, t, Leaves(t))
<1>1. \A i \in DOMAIN Leaves(t) : Leaves(t)[i] \in ToSet(Leaves(t))
  BY DEF ToSet
<1>2. \A i \in DOMAIN Leaves(t) : Inherited(t, Leaves(t)[i]) = TurnOf(h, t, Leaves(t)[i])
  BY <1>1, LeavesArePages, InheritedIs
<1> QED
  BY <1>2 DEF Listing, Rows, Row

LEMMA SameLeaves ==
    ASSUME PageTreeFiles, NEW b \in Bases, NEW t, NEW u, Shape(b, t), Shape(b, u),
           InUse(u) = InUse(t), \A n \in InUse(t) : u[n].type = t[n].type /\ u[n].kids = t[n].kids
    PROVE  Leaves(u) = Leaves(t)
<1>0. Root \in Numbers
  BY DEF PageTreeFiles
<1>1. PICK N \in Nat : \E r : Heights(r, N, b)
  BY HeightsExist
<1>2. PICK r : Heights(r, N, b)
  BY <1>1
<1>3. PICK f : Under(f, t)
  BY <1>2, UnderExists
<1>4. Under(f, u)
  BY <1>3 DEF Under
<1> QED
  BY <1>0, <1>2, <1>3, <1>4, UnderIsLeaves

\* A page of the file is a page of the overlay for good.
LEMMA FilePages ==
    ASSUME PageTreeFiles, NEW b \in Bases, NEW p \in ToSet(Leaves(b))
    PROVE  /\ p \in InUse(b) /\ b[p].type = "Page" /\ p \notin Branches(b)
           /\ \A t : Shape(b, t) => /\ p \in InUse(t) /\ t[p] \in Node /\ t[p].type = "Page"
                                    /\ t[p].parent \in Branches(b) /\ t[p].kids = <<>>
<1>1. p \in InUse(b) /\ b[p].type = "Page"
  BY FileShape, LeavesArePages
<1>2. p \notin Branches(b)
  BY <1>1 DEF Branches
<1>3. ASSUME NEW t, Shape(b, t)
      PROVE  /\ p \in InUse(t) /\ t[p] \in Node /\ t[p].type = "Page"
             /\ t[p].parent \in Branches(b) /\ t[p].kids = <<>>
  <2>1. p \in InUse(t) /\ t[p].type = "Page" /\ t \in Trees
    BY <1>1, <1>3 DEF Shape, InUse
  <2> QED
    BY <1>3, <2>1, NodeParts DEF Shape
<1> QED
  BY <1>1, <1>2, <1>3

----------------------------------------------------------------------------
(* Turning a page.                                                         *)

Turned(t, p, v) == [t EXCEPT ![p].rotate = v]

LEMMA TurnedKeeps ==
    ASSUME PageTreeFiles, NEW b \in Bases, NEW t, Shape(b, t), NEW R, Reach(R, t),
           NEW p \in ToSet(Leaves(b)), NEW v \in Turns
    PROVE  /\ Shape(b, Turned(t, p, v)) /\ Reach(R, Turned(t, p, v))
           /\ InUse(Turned(t, p, v)) = InUse(t)
           /\ Listing(Turned(t, p, v)) =
                [i \in DOMAIN Listing(t) |->
                    IF Listing(t)[i].page = p THEN [Listing(t)[i] EXCEPT !.turn = v]
                    ELSE Listing(t)[i]]
<1> DEFINE u == Turned(t, p, v)
<1>0. None \notin Turns /\ Free \notin Node /\ t \in Trees
  BY DEF PageTreeFiles, Shape
<1>1. /\ p \in InUse(t) /\ p \in Numbers /\ p \notin Branches(b) /\ t[p] \in Node
      /\ t[p].type = "Page" /\ t[p].parent \in Branches(b) /\ t[p].kids = <<>>
  BY FilePages DEF InUse
<1>2. u[p] \in Node /\ u[p].rotate = v
  BY <1>0, <1>1 DEF Turned, Trees, Node
<1>3. /\ u \in Trees
      /\ \A n \in Numbers : n # p => u[n] = t[n]
      /\ u[p] # Free /\ u[p].type = t[p].type /\ u[p].kids = t[p].kids /\ u[p].parent = t[p].parent
  BY <1>0, <1>1, <1>2 DEF Turned, Trees, Node
<1> HIDE DEF u
<1>4. InUse(u) = InUse(t)
  BY <1>1, <1>3 DEF InUse
<1>5. \A n \in InUse(t) : u[n].type = t[n].type /\ u[n].kids = t[n].kids /\ u[n].parent = t[n].parent
  BY <1>3 DEF InUse
<1>6. InUse(b) \subseteq InUse(t) /\ Branches(b) \subseteq InUse(t) /\ Branches(b) \subseteq Numbers
  BY DEF Shape, InUse, Branches
<1>7. Shape(b, u)
  <2>1. \A n \in InUse(b) : u[n] # Free /\ u[n].type = b[n].type
    BY <1>4, <1>5, <1>6 DEF Shape, InUse
  <2>2. \A n \in InUse(u) : u[n].type = "Pages" => n \in Branches(b)
    BY <1>4, <1>5 DEF Shape
  <2>3. \A n \in InUse(u) : u[n].type = "Page" => u[n].kids = <<>> /\ u[n].parent \in Branches(b)
    BY <1>4, <1>5 DEF Shape
  <2>4. ASSUME NEW n \in Branches(b)
        PROVE  /\ u[n].rotate = b[n].rotate /\ u[n].parent = b[n].parent
               /\ \A k \in ToSet(u[n].kids) : u[k] # Free /\ (k \in Branches(b) => k \in ToSet(b[n].kids))
    <3>1. u[n] = t[n]
      BY <1>1, <1>3, <1>6
    <3>2. \A k \in ToSet(t[n].kids) : k \in Numbers /\ t[k] # Free /\ (k \in Branches(b) => k \in ToSet(b[n].kids))
      BY <1>0, <1>6, NodeParts DEF Shape
    <3>3. \A k \in ToSet(t[n].kids) : u[k] # Free
      BY <1>3, <3>2
    <3> QED
      BY <3>1, <3>2, <3>3 DEF Shape
  <2> QED
    BY <1>3, <2>1, <2>2, <2>3, <2>4 DEF Shape
<1>8. Reach(R, u)
  <2>1. R \subseteq InUse(t)
    BY DEF Reach
  <2> QED
    BY <1>4, <1>5, <2>1 DEF Reach
<1>9. Leaves(u) = Leaves(t)
  BY <1>4, <1>5, <1>7, SameLeaves
<1>10. PICK h : Turning(h, b)
  BY HeightsExist, TurningExists
<1>11. Listing(u) = Rows(h, u, Leaves(t)) /\ Listing(t) = Rows(h, t, Leaves(t))
  BY <1>7, <1>8, <1>9, <1>10, ListingIs
<1>12. \A i \in DOMAIN Leaves(t) : Leaves(t)[i] \in Numbers
  BY LeavesArePages
<1>13. ASSUME NEW n \in Numbers
       PROVE  Row(h, u, n) = IF Row(h, t, n).page = p THEN [Row(h, t, n) EXCEPT !.turn = v]
                             ELSE Row(h, t, n)
  BY <1>0, <1>1, <1>2, <1>3 DEF Row, TurnOf
<1>14. Listing(u) = [i \in DOMAIN Listing(t) |->
                        IF Listing(t)[i].page = p THEN [Listing(t)[i] EXCEPT !.turn = v]
                        ELSE Listing(t)[i]]
  <2>1. DOMAIN Listing(t) = DOMAIN Leaves(t) /\ \A i \in DOMAIN Leaves(t) : Listing(t)[i] = Row(h, t, Leaves(t)[i])
    BY <1>11 DEF Rows
  <2>2. \A i \in DOMAIN Leaves(t) : Row(h, u, Leaves(t)[i]) =
            IF Listing(t)[i].page = p THEN [Listing(t)[i] EXCEPT !.turn = v] ELSE Listing(t)[i]
    BY <1>12, <1>13, <2>1
  <2>3. Listing(u) = [i \in DOMAIN Leaves(t) |-> Row(h, u, Leaves(t)[i])]
    BY <1>11 DEF Rows
  <2> QED
    BY <2>1, <2>2, <2>3, Zenon
<1> QED
  BY <1>4, <1>7, <1>8, <1>14 DEF u

----------------------------------------------------------------------------
(* Reordering the pages.                                                   *)

\* Who gives every element itself gives the sequence.
LEMMA BindSelf ==
    ASSUME NEW A, NEW s \in Seq(A), NEW f, \A k \in ToSet(s) : f[k] = <<k>>
    PROVE  Bind(s, f) = s
<1> DEFINE g == [k \in A |-> <<k>>]
           G == {u \in Seq(A) : Bind(u, g) = u}
<1>1. g \in [A -> Seq(A)] /\ \A k \in A : g[k] = <<k>>
  OBVIOUS
<1>2. ToSet(s) \subseteq A
  BY DEF ToSet
<1> HIDE DEF g
<1>3. \A k \in ToSet(s) : f[k] = g[k]
  BY <1>1, <1>2
<1>4. Bind(s, f) = Bind(s, g)
  BY <1>3, BindSame
<1>5. BoundLeft(g, A, A)
  BY <1>1, BindOne
<1>6. <<>> \in G
  BY <1>5 DEF BoundLeft
<1>7. \A u \in Seq(A) : \A k \in A : u \in G => Append(u, k) \in G
  <2> SUFFICES ASSUME NEW u \in Seq(A), NEW k \in A, Bind(u, g) = u
               PROVE  Bind(Append(u, k), g) = Append(u, k)
    BY AppendProperties
  <2>1. Bind(Append(u, k), g) = Bind(u, g) \o g[k]
    BY <1>5 DEF BoundLeft
  <2> QED
    BY <1>1, <2>1, AppendIsConcat
<1>8. Seq(A) \subseteq G
  <2> HIDE DEF G
  <2> QED
    BY <1>6, <1>7, SeqInduction
<1> QED
  BY <1>4, <1>8

\* A branch that hands nothing down has none above it that does.
LEMMA RootTurn ==
    ASSUME PageTreeFiles, NEW b \in Bases, NEW h, Turning(h, b),
           NEW n \in Branches(b), h[n] = None
    PROVE  h[Root] = None
<1>1. PICK N \in Nat : \E r : Heights(r, N, b)
  BY HeightsExist
<1>2. PICK r : Heights(r, N, b)
  BY <1>1
<1>3. /\ Depth(r, N, b) \in [Branches(b) -> Nat]
      /\ \A k \in Branches(b) : b[k].parent # None =>
            b[k].parent \in Branches(b) /\ Depth(r, N, b)[b[k].parent] < Depth(r, N, b)[k]
  BY <1>2, Depths
<1>4. \A k \in Branches(b) : h[k] = IF b[k].rotate # None \/ b[k].parent = None THEN b[k].rotate
                                    ELSE h[b[k].parent]
  BY Zenon DEF Turning
<1>5. \A k \in Branches(b) : b[k].parent = None => k = Root
  BY FileShape DEF PageTreeFiles, Branches
<1> DEFINE S == {k \in Branches(b) : h[k] = None => h[Root] = None}
<1>6. ASSUME NEW k \in Branches(b),
             \A q \in Branches(b) : Depth(r, N, b)[q] < Depth(r, N, b)[k] => q \in S
      PROVE  k \in S
  <2>1. b[k].parent # None => b[k].parent \in S
    BY <1>3, <1>6
  <2> QED
    BY <1>4, <1>5, <2>1
<1>7. Branches(b) \subseteq S
  <2> HIDE DEF S
  <2> QED
    BY <1>3, <1>6, RankInduction
<1> QED
  BY <1>7

\* A page put back as the file has it.
LEMMA PutBack ==
    ASSUME PageTreeFiles, NEW b \in Bases, NEW t, Shape(b, t), NEW p \in ToSet(Leaves(b)),
           NEW h, Turning(h, b)
    PROVE  Inherited([t EXCEPT ![p] = b[p]], p) = TurnOf(h, b, p)
<1> DEFINE u == [t EXCEPT ![p] = b[p]]
<1>0. t \in Trees /\ Shape(b, b)
  BY FileShape DEF Shape
<1>1. /\ p \in Numbers /\ p \in InUse(b) /\ p \in InUse(t) /\ p \notin Branches(b)
      /\ b[p] \in Node /\ b[p] # Free /\ b[p].type = "Page" /\ b[p].kids = <<>>
      /\ b[p].parent \in Branches(b)
  BY <1>0, FilePages DEF InUse
<1>2. u \in Trees /\ u[p] = b[p] /\ \A n \in Numbers : n # p => u[n] = t[n]
  BY <1>0, <1>1 DEF Trees
<1> HIDE DEF u
<1>3. InUse(u) = InUse(t) /\ Branches(b) \subseteq Numbers /\ Branches(b) \subseteq InUse(t)
  BY <1>1, <1>2 DEF InUse, Branches, Shape
<1>4. Shape(b, u)
  <2>1. \A n \in InUse(b) : u[n] # Free /\ u[n].type = b[n].type
    BY <1>1, <1>2 DEF Shape, InUse
  <2>2. \A n \in InUse(u) : u[n].type = "Pages" => n \in Branches(b)
    <3>1. \A n \in InUse(u) : n = p \/ u[n] = t[n]
      BY <1>2 DEF InUse
    <3> QED
      BY <1>1, <1>2, <1>3, <3>1 DEF Shape
  <2>3. \A n \in InUse(u) : u[n].type = "Page" => u[n].kids = <<>> /\ u[n].parent \in Branches(b)
    <3>1. \A n \in InUse(u) : n = p \/ u[n] = t[n]
      BY <1>2 DEF InUse
    <3> QED
      BY <1>1, <1>2, <1>3, <3>1 DEF Shape
  <2>4. ASSUME NEW n \in Branches(b)
        PROVE  /\ u[n].rotate = b[n].rotate /\ u[n].parent = b[n].parent
               /\ \A k \in ToSet(u[n].kids) : u[k] # Free /\ (k \in Branches(b) => k \in ToSet(b[n].kids))
    <3>1. u[n] = t[n]
      BY <1>1, <1>2, <1>3
    <3>2. \A k \in ToSet(t[n].kids) : k \in Numbers /\ t[k] # Free /\ (k \in Branches(b) => k \in ToSet(b[n].kids))
      BY <1>0, <1>3, NodeParts DEF Shape
    <3>3. \A k \in ToSet(t[n].kids) : u[k] # Free
      BY <1>1, <1>2, <3>2
    <3> QED
      BY <3>1, <3>2, <3>3 DEF Shape
  <2> QED
    BY <1>2, <2>1, <2>2, <2>3, <2>4 DEF Shape
<1>5. p \in InUse(u) /\ u[p].type = "Page"
  BY <1>1, <1>2, <1>3
<1>6. Inherited(u, p) = TurnOf(h, u, p)
  BY <1>4, <1>5, InheritedIs
<1> QED
  BY <1>2, <1>6 DEF TurnOf, u

LEMMA ReorderedKeeps ==
    ASSUME PageTreeFiles, base \in Bases, Shape(base, tree),
           NEW order \in [DOMAIN Leaves(base) -> DOMAIN Leaves(base)]
    PROVE  /\ Shape(base, Reordered(order))
           /\ \E R : Reach(R, Reordered(order))
           /\ InUse(Reordered(order)) = InUse(tree)
           /\ Listing(Reordered(order)) =
                [i \in DOMAIN Listing(base) |-> Listing(base)[order[i]]]
<1> DEFINE L == Leaves(base)
           pages == [i \in DOMAIN order |-> L[order[i]]]
           P == ToSet(pages)
           u == Reordered(order)
<1>0. /\ None \notin Turns /\ None \notin Numbers /\ Free \notin Node /\ tree \in Trees /\ Root \in Numbers
      /\ Shape(base, base) /\ Root \in Branches(base) /\ base[Root].parent = None
      /\ Reach(InUse(base), base)
  BY FileShape DEF PageTreeFiles, Shape
<1>1. PICK N \in Nat : \E r : Heights(r, N, base)
  BY HeightsExist
<1>2. PICK r : Heights(r, N, base)
  BY <1>1
<1>3. PICK h \in [Branches(base) -> Turns \union {None}] : Turning(h, base)
  BY <1>2, TurningExists
<1>4. L \in Seq(Numbers) /\ DOMAIN L = 1..Len(L) /\ Len(L) \in Nat
  BY <1>0, LeavesArePages
<1>5. pages \in Seq(Numbers) /\ DOMAIN pages = DOMAIN L /\ \A i \in DOMAIN L : pages[i] = L[order[i]]
  BY <1>4
<1>6. P \subseteq ToSet(L)
  BY DEF ToSet
<1>7. \A p \in P : /\ p \in Numbers /\ p \in InUse(base) /\ p \in InUse(tree) /\ p \notin Branches(base)
                   /\ base[p] \in Node /\ base[p].type = "Page" /\ base[p].kids = <<>>
                   /\ base[p].parent \in Branches(base)
  BY <1>0, <1>6, FilePages DEF InUse
<1>8. \A p \in P : /\ Inherited([tree EXCEPT ![p] = base[p]], p) = TurnOf(h, base, p)
                   /\ TurnOf(h, base, p) \in Turns \union {None}
  <2>1. \A p \in P : base[p].rotate \in Turns \union {None}
    BY <1>7 DEF Node
  <2> QED
    BY <1>3, <1>6, <1>7, <2>1, PutBack DEF TurnOf
<1>9. Root \notin P /\ Root \in InUse(tree) /\ tree[Root] \in Node /\ tree[Root].type = "Pages"
  <2>1. Root \in InUse(base) /\ base[Root].type = "Pages"
    BY <1>0 DEF Branches, InUse
  <2>2. Root \in InUse(tree) /\ tree[Root].type = "Pages"
    BY <1>0, <2>1 DEF Shape, InUse
  <2> QED
    BY <1>0, <1>7, <2>2, NodeParts
<1> DEFINE Moved(p) == [base[p] EXCEPT !.rotate = TurnOf(h, base, p), !.parent = Root]
           Top == [tree[Root] EXCEPT !.kids = pages, !.count = Len(pages), !.parent = None]
<1>10. /\ \A n \in Numbers \ (P \union {Root}) : u[n] = tree[n]
       /\ \A p \in P : u[p] = Moved(p)
       /\ u[Root] = Top
       /\ u = [n \in Numbers |-> u[n]]
  <2> HIDE DEF L, P
  <2> QED
    BY <1>0, <1>7, <1>8, <1>9 DEF Reordered, P, L
<1>11. ASSUME NEW p \in P
       PROVE  /\ Moved(p) \in Node /\ Moved(p).type = "Page" /\ Moved(p).kids = <<>>
              /\ Moved(p).parent = Root /\ Moved(p).rotate = TurnOf(h, base, p)
  <2>1. PICK v \in Turns \union {None} : v = TurnOf(h, base, p)
    BY <1>8
  <2>2. PICK q \in Node : q = base[p]
    BY <1>7
  <2>3. q.type = "Page" /\ q.kids = <<>>
    BY <1>7, <2>2
  <2>4. Moved(p) = [q EXCEPT !.rotate = v, !.parent = Root]
    BY <2>1, <2>2
  <2> HIDE DEF Moved, P, L
  <2>5. Root \in Numbers
    BY <1>0
  <2> QED
    BY <2>1, <2>3, <2>4, <2>5 DEF Node
<1>12. /\ Top \in Node /\ Top.type = "Pages" /\ Top.kids = pages /\ Top.parent = None
       /\ Top.rotate = tree[Root].rotate
  <2>1. Len(pages) \in Nat
    BY <1>5
  <2> HIDE DEF L, P, pages
  <2> QED
    BY <1>5, <1>9, <2>1 DEF Node
<1> HIDE DEF L, P, pages, u, Moved, Top
<1> DEFINE Fit(p) == /\ u[p] \in Node /\ u[p] # Free /\ u[p].type = "Page" /\ u[p].kids = <<>>
                     /\ u[p].parent = Root /\ u[p].rotate = TurnOf(h, base, p)
<1>24. \A p \in P : Fit(p)
  BY <1>0, <1>10, <1>11
<1>25. /\ u[Root] \in Node /\ u[Root] # Free /\ u[Root].type = "Pages" /\ u[Root].kids = pages
       /\ u[Root].parent = None /\ u[Root].rotate = tree[Root].rotate
  BY <1>0, <1>10, <1>12
<1>26. \A n \in Numbers : n \in P \/ n = Root \/ u[n] = tree[n]
  BY <1>10
<1>13. u \in Trees
  <2>1. \A n \in Numbers : u[n] \in Node \union {Free}
    BY <1>0, <1>24, <1>25, <1>26 DEF Trees
  <2>2. u = [n \in Numbers |-> u[n]]
    BY <1>10
  <2> QED
    BY <2>1, <2>2, Zenon DEF Trees
<1>14. InUse(u) = InUse(tree)
  BY <1>7, <1>9, <1>24, <1>25, <1>26 DEF InUse
<1>15. Branches(base) \subseteq InUse(tree) /\ InUse(base) \subseteq InUse(tree)
  BY <1>0 DEF Branches, InUse, Shape
<1>16. \A n \in InUse(tree) : n \in P \/ n = Root \/ u[n] = tree[n]
  BY <1>26 DEF InUse
<1>17. Shape(base, u)
  <2>1. \A n \in InUse(base) : u[n] # Free /\ u[n].type = base[n].type
    <3>1. \A n \in InUse(base) : tree[n] # Free /\ tree[n].type = base[n].type
      BY DEF Shape
    <3>2. \A n \in InUse(u) : u[n] # Free
      BY DEF InUse
    <3> QED
      BY <1>7, <1>9, <1>14, <1>15, <1>16, <1>24, <1>25, <3>1, <3>2
  <2>2. \A n \in InUse(u) : u[n].type = "Pages" => n \in Branches(base)
    BY <1>0, <1>14, <1>16, <1>24, <1>25 DEF Shape
  <2>3. \A n \in InUse(u) : u[n].type = "Page" => u[n].kids = <<>> /\ u[n].parent \in Branches(base)
    BY <1>0, <1>14, <1>16, <1>24, <1>25 DEF Shape
  <2>4. ASSUME NEW n \in Branches(base)
        PROVE  /\ u[n].rotate = base[n].rotate /\ u[n].parent = base[n].parent
               /\ \A k \in ToSet(u[n].kids) :
                     u[k] # Free /\ (k \in Branches(base) => k \in ToSet(base[n].kids))
    <3>1. CASE n = Root
      <4>1. u[n].rotate = base[n].rotate /\ u[n].parent = base[n].parent /\ u[n].kids = pages
        BY <1>0, <1>25, <3>1 DEF Shape
      <4>2. \A k \in P : u[k] # Free /\ k \notin Branches(base)
        BY <1>7, <1>24
      <4> QED
        BY <4>1, <4>2 DEF P
    <3>2. CASE n # Root
      <4>1. u[n] = tree[n] /\ n \in InUse(tree)
        BY <1>7, <1>15, <1>16, <3>2
      <4>2. \A k \in ToSet(tree[n].kids) : k \in InUse(tree) /\ (k \in Branches(base) => k \in ToSet(base[n].kids))
        BY <1>0, <4>1, NodeParts DEF Shape, InUse
      <4>3. \A k \in InUse(tree) : u[k] # Free
        BY <1>14 DEF InUse
      <4> QED
        BY <4>1, <4>2, <4>3 DEF Shape
    <3> QED
      BY <3>1, <3>2
  <2> QED
    BY <1>13, <2>1, <2>2, <2>3, <2>4 DEF Shape
<1>18. Reach(P \union {Root}, u)
  <2>1. \A p \in P : u[p].kids = <<>> /\ u[p].parent = Root
    BY <1>24
  <2>2. \A p \in P : ToSet(u[p].kids) = {}
    BY <2>1 DEF ToSet
  <2>3. ToSet(u[Root].kids) = P
    BY <1>25 DEF P
  <2> QED
    BY <1>7, <1>9, <1>14, <2>1, <2>2, <2>3 DEF Reach
<1>19. Leaves(u) = pages
  <2>1. PICK f : Under(f, u)
    BY <1>2, <1>17, UnderExists
  <2>2. Leaves(u) = f[Root]
    BY <1>0, <1>2, <1>17, <2>1, UnderIsLeaves
  <2>3. \A p \in P : f[p] = <<p>>
    BY <1>7, <1>14, <1>24, <2>1 DEF Under
  <2>4. f[Root] = Bind(pages, f)
    BY <1>9, <1>14, <1>25, <2>1 DEF Under
  <2>5. Bind(pages, f) = pages
    BY <1>5, <2>3, BindSelf DEF P
  <2> QED
    BY <2>2, <2>4, <2>5
<1>20. Listing(u) = Rows(h, u, pages) /\ Listing(base) = Rows(h, base, L)
  BY <1>0, <1>3, <1>17, <1>18, <1>19, ListingIs DEF L
<1>21. ASSUME NEW p \in P PROVE Row(h, u, p) = Row(h, base, p)
  <2>1. u[p].rotate = TurnOf(h, base, p) /\ u[p].parent = Root
    BY <1>24
  <2>2. TurnOf(h, base, p) = None => h[Root] = None
    BY <1>3, <1>7, RootTurn DEF TurnOf
  <2> QED
    BY <2>1, <2>2 DEF Row, TurnOf
<1>22. \A i \in DOMAIN L : pages[i] \in P /\ order[i] \in DOMAIN L
  BY <1>5 DEF P, ToSet, L
<1>23. Listing(u) = [i \in DOMAIN Listing(base) |-> Listing(base)[order[i]]]
  <2>1. DOMAIN Listing(base) = DOMAIN L /\ \A i \in DOMAIN L : Listing(base)[i] = Row(h, base, L[i])
    BY <1>20 DEF Rows
  <2>2. Listing(u) = [i \in DOMAIN L |-> Row(h, u, pages[i])]
    BY <1>5, <1>20 DEF Rows
  <2>3. \A i \in DOMAIN L : Row(h, u, pages[i]) = Listing(base)[order[i]]
    BY <1>5, <1>21, <1>22, <2>1
  <2> QED
    BY <2>1, <2>2, <2>3
<1> QED
  BY <1>14, <1>17, <1>18, <1>23 DEF u

----------------------------------------------------------------------------
(* Adding pages.                                                           *)

LEMMA ConcatParts ==
    ASSUME NEW A, NEW s \in Seq(A), NEW t \in Seq(A)
    PROVE  SubSeq(s \o t, 1, Len(s)) = s /\ SubSeq(s \o t, Len(s) + 1, Len(s \o t)) = t
<1>1. /\ s \o t \in Seq(A) /\ Len(s \o t) = Len(s) + Len(t) /\ Len(s) \in Nat /\ Len(t) \in Nat
      /\ \A i \in 1..Len(s) : (s \o t)[i] = s[i]
      /\ \A i \in 1..Len(t) : (s \o t)[Len(s) + i] = t[i]
  BY ConcatProperties
<1>2. SubSeq(s \o t, 1, Len(s)) = s
  <2>1. \A i \in 1..Len(s) : (s \o t)[i] \in A
    BY <1>1
  <2>2. /\ SubSeq(s \o t, 1, Len(s)) \in Seq(A) /\ Len(SubSeq(s \o t, 1, Len(s))) = Len(s)
        /\ \A i \in 1..Len(s) : SubSeq(s \o t, 1, Len(s))[i] = (s \o t)[i]
    BY <1>1, <2>1, SubSeqProperties
  <2> QED
    BY <1>1, <2>2, SeqEqual
<1>3. SubSeq(s \o t, Len(s) + 1, Len(s \o t)) = t
  <2> DEFINE q == SubSeq(s \o t, Len(s) + 1, Len(s) + Len(t))
  <2>1. \A i \in (Len(s) + 1)..(Len(s) + Len(t)) : (s \o t)[i] \in A
    BY <1>1
  <2>2. /\ q \in Seq(A) /\ Len(q) = Len(t)
        /\ \A i \in 1..Len(t) : q[i] = (s \o t)[Len(s) + i]
    BY <1>1, <2>1, SubSeqProperties
  <2> HIDE DEF q
  <2>3. q = t
    BY <1>1, <2>2, SeqEqual
  <2> QED
    BY <1>1, <2>3 DEF q
<1> QED
  BY <1>2, <1>3

LEMMA RowsConcat ==
    ASSUME NEW h, NEW t, NEW s \in Seq(Numbers), NEW q \in Seq(Numbers)
    PROVE  /\ Rows(h, t, s \o q) = Rows(h, t, s) \o Rows(h, t, q)
           /\ Len(Rows(h, t, s)) = Len(s)
           /\ Rows(h, t, s) \in Seq({Row(h, t, n) : n \in Numbers})
<1> DEFINE V == {Row(h, t, n) : n \in Numbers}
<1>1. \A v \in Seq(Numbers) : /\ Rows(h, t, v) \in Seq(V) /\ Len(Rows(h, t, v)) = Len(v)
                              /\ \A i \in 1..Len(v) : Rows(h, t, v)[i] = Row(h, t, v[i])
  <2> TAKE v \in Seq(Numbers)
  <2>1. DOMAIN v = 1..Len(v) /\ Len(v) \in Nat /\ \A i \in 1..Len(v) : v[i] \in Numbers
    OBVIOUS
  <2>2. Rows(h, t, v) = [i \in 1..Len(v) |-> Row(h, t, v[i])]
    BY <2>1 DEF Rows
  <2>3. \A i \in 1..Len(v) : Row(h, t, v[i]) \in V
    BY <2>1
  <2> HIDE DEF V
  <2> QED
    BY <2>1, <2>2, <2>3
<1> HIDE DEF V
<1>2. /\ s \o q \in Seq(Numbers) /\ Len(s \o q) = Len(s) + Len(q)
      /\ \A i \in 1..Len(s) + Len(q) : (s \o q)[i] = IF i <= Len(s) THEN s[i] ELSE q[i - Len(s)]
  BY ConcatProperties
<1> DEFINE X == Rows(h, t, s)
           Y == Rows(h, t, q)
           Z == Rows(h, t, s \o q)
<1>3. /\ X \in Seq(V) /\ Len(X) = Len(s) /\ \A i \in 1..Len(s) : X[i] = Row(h, t, s[i])
      /\ Y \in Seq(V) /\ Len(Y) = Len(q) /\ \A i \in 1..Len(q) : Y[i] = Row(h, t, q[i])
      /\ Z \in Seq(V) /\ Len(Z) = Len(s) + Len(q)
      /\ \A i \in 1..Len(s) + Len(q) : Z[i] = Row(h, t, (s \o q)[i])
  BY <1>1, <1>2
<1> HIDE DEF X, Y, Z
<1>4. /\ X \o Y \in Seq(V) /\ Len(X \o Y) = Len(s) + Len(q)
      /\ \A i \in 1..Len(s) + Len(q) : (X \o Y)[i] = IF i <= Len(s) THEN X[i] ELSE Y[i - Len(s)]
  <2>1. X \in Seq(V) /\ Y \in Seq(V)
    BY <1>3
  <2>2. /\ X \o Y \in Seq(V) /\ Len(X \o Y) = Len(X) + Len(Y)
        /\ \A i \in 1..Len(X) + Len(Y) : (X \o Y)[i] = IF i <= Len(X) THEN X[i] ELSE Y[i - Len(X)]
    BY <2>1, ConcatProperties
  <2>3. Len(X) = Len(s) /\ Len(Y) = Len(q)
    BY <1>3
  <2> QED
    BY <2>2, <2>3
<1>5. Len(s) \in Nat /\ Len(q) \in Nat
  OBVIOUS
<1>6. ASSUME NEW i \in 1..Len(s) + Len(q) PROVE Z[i] = (X \o Y)[i]
  <2>1. CASE i <= Len(s)
    <3>1. i \in 1..Len(s)
      BY <1>5, <2>1
    <3> QED
      BY <1>2, <1>3, <1>4, <2>1, <3>1
  <2>2. CASE ~ (i <= Len(s))
    <3>1. i - Len(s) \in 1..Len(q)
      BY <1>5, <2>2
    <3> QED
      BY <1>2, <1>3, <1>4, <2>2, <3>1
  <2> QED
    BY <2>1, <2>2
<1>7. Z = X \o Y
  BY <1>3, <1>4, <1>6, SeqEqual
<1> QED
  BY <1>3, <1>7 DEF X, Y, Z, V

\* Rows put among others.
RowsPut(h, t, u, X, new, Y) ==
    LET W == Rows(h, t, X \o Y) IN
    /\ Len(X) \in 0..Len(W)
    /\ Rows(h, u, X \o new \o Y) =
          SubSeq(W, 1, Len(X)) \o Rows(h, u, new) \o SubSeq(W, Len(X) + 1, Len(W))

SameRows(h, t, u, X, Y) ==
    /\ X \in Seq(Numbers) /\ Y \in Seq(Numbers)
    /\ \A p \in ToSet(X \o Y) : Row(h, u, p) = Row(h, t, p)

LEMMA RowsInserted ==
    ASSUME NEW h, NEW t, NEW u, NEW X, NEW Y, SameRows(h, t, u, X, Y), NEW new \in Seq(Numbers)
    PROVE  RowsPut(h, t, u, X, new, Y)
<1> DEFINE V == {Row(h, t, n) : n \in Numbers}
           W == Rows(h, t, X \o Y)
<1>0. X \in Seq(Numbers) /\ Y \in Seq(Numbers) /\ \A p \in ToSet(X \o Y) : Row(h, u, p) = Row(h, t, p)
  BY DEF SameRows
<1>7. X \in Seq(Numbers) /\ Y \in Seq(Numbers)
  BY DEF SameRows
<1>1. X \o new \in Seq(Numbers) /\ ToSet(X \o Y) = ToSet(X) \union ToSet(Y)
  BY <1>7, SetOfConcat
<1>2. Rows(h, u, X \o new \o Y) = Rows(h, u, X) \o Rows(h, u, new) \o Rows(h, u, Y)
  <2>1. Rows(h, u, X \o new \o Y) = Rows(h, u, X \o new) \o Rows(h, u, Y)
    BY <1>1, <1>7, RowsConcat
  <2>2. Rows(h, u, X \o new) = Rows(h, u, X) \o Rows(h, u, new)
    BY <1>7, RowsConcat
  <2> QED
    BY <2>1, <2>2
<1>3. Rows(h, u, X) = Rows(h, t, X) /\ Rows(h, u, Y) = Rows(h, t, Y)
  <2>1. (\A i \in DOMAIN X : X[i] \in ToSet(X)) /\ \A i \in DOMAIN Y : Y[i] \in ToSet(Y)
    BY DEF ToSet
  <2>2. (\A i \in DOMAIN X : Row(h, u, X[i]) = Row(h, t, X[i])) /\ \A i \in DOMAIN Y : Row(h, u, Y[i]) = Row(h, t, Y[i])
    BY <1>0, <1>1, <2>1
  <2> QED
    BY <2>2 DEF Rows
<1>4. W = Rows(h, t, X) \o Rows(h, t, Y) /\ Rows(h, t, X) \in Seq(V) /\ Rows(h, t, Y) \in Seq(V)
      /\ Len(Rows(h, t, X)) = Len(X)
  BY <1>7, RowsConcat
<1> HIDE DEF V, W
<1>5. SubSeq(W, 1, Len(X)) = Rows(h, t, X) /\ SubSeq(W, Len(X) + 1, Len(W)) = Rows(h, t, Y)
  BY <1>4, ConcatParts
<1>6. Len(X) \in 0..Len(W)
  <2>1. PICK P \in Seq(V) : P = Rows(h, t, X)
    BY <1>4
  <2>2. PICK Q \in Seq(V) : Q = Rows(h, t, Y)
    BY <1>4
  <2>3. Len(P \o Q) = Len(P) + Len(Q) /\ Len(P) \in Nat /\ Len(Q) \in Nat
    BY ConcatProperties
  <2>4. W = P \o Q /\ Len(P) = Len(X)
    BY <1>4, <2>1, <2>2
  <2> QED
    BY <2>3, <2>4
<1> QED
  BY <1>2, <1>3, <1>5, <1>6 DEF W, RowsPut

\* The new pages, under the root but not among its kids yet.
NewPage(v) == [type |-> "Page", parent |-> Root, kids |-> <<>>, count |-> 0, rotate |-> v]

Grown(t, new, v) == [n \in Numbers |-> IF n \in ToSet(new) THEN NewPage(v) ELSE t[n]]

GrownFrom(b, t, new, v, g) ==
    /\ Shape(b, g) /\ InUse(g) = InUse(t) \union ToSet(new)
    /\ \A n \in ToSet(new) : n \in Numbers /\ g[n] = NewPage(v)
    /\ \A n \in Numbers \ ToSet(new) : g[n] = t[n]

LEMMA GrownShape ==
    ASSUME PageTreeFiles, NEW b \in Bases, NEW t, Shape(b, t), NEW v \in Turns \union {None},
           NEW new \in Seq(Numbers), ToSet(new) \intersect InUse(t) = {}
    PROVE  GrownFrom(b, t, new, v, Grown(t, new, v))
<1> DEFINE g == Grown(t, new, v)
           X == ToSet(new)
<1>0. /\ t \in Trees /\ Free \notin Node /\ Root \in Numbers /\ Root \in Branches(b)
      /\ InUse(b) \subseteq InUse(t) /\ Branches(b) \subseteq InUse(t) /\ InUse(t) \subseteq Numbers
  BY FileShape DEF PageTreeFiles, Shape, Branches, InUse
<1>1. X \subseteq Numbers
  BY DEF ToSet
<1>2. NewPage(v) \in Node /\ NewPage(v) # Free
  <2>1. <<>> \in Seq(Numbers) /\ Root \in Numbers
    BY <1>0
  <2>2. NewPage(v) \in Node
    BY <2>1 DEF NewPage, Node
  <2> QED
    BY <1>0, <2>2
<1>3. (\A n \in X : g[n] = NewPage(v)) /\ (\A n \in Numbers \ X : g[n] = t[n]) /\ g \in Trees
  BY <1>0, <1>1, <1>2 DEF Grown, Trees
<1> HIDE DEF g, X
<1>4. InUse(g) = InUse(t) \union X
  <2>1. X \intersect InUse(t) = {}
    BY DEF X
  <2> QED
    BY <1>1, <1>2, <1>3, <2>1 DEF InUse
<1>5. \A n \in InUse(t) : n \notin X /\ g[n] = t[n]
  BY <1>0, <1>3 DEF X
<1>6. \A n \in X : g[n].type = "Page" /\ g[n].kids = <<>> /\ g[n].parent \in Branches(b)
  BY <1>0, <1>3 DEF NewPage
<1>7. Shape(b, g)
  <2>1. \A n \in InUse(b) : g[n] # Free /\ g[n].type = b[n].type
    BY <1>0, <1>5 DEF Shape
  <2>2. \A n \in InUse(g) : g[n].type = "Pages" => n \in Branches(b)
    BY <1>4, <1>5, <1>6 DEF Shape
  <2>3. \A n \in InUse(g) : g[n].type = "Page" => g[n].kids = <<>> /\ g[n].parent \in Branches(b)
    BY <1>4, <1>5, <1>6 DEF Shape
  <2>4. ASSUME NEW n \in Branches(b)
        PROVE  /\ g[n].rotate = b[n].rotate /\ g[n].parent = b[n].parent
               /\ \A k \in ToSet(g[n].kids) : g[k] # Free /\ (k \in Branches(b) => k \in ToSet(b[n].kids))
    <3>1. g[n] = t[n] /\ n \in InUse(t)
      BY <1>0, <1>5
    <3>2. \A k \in ToSet(t[n].kids) : k \in InUse(t) /\ (k \in Branches(b) => k \in ToSet(b[n].kids))
      BY <1>0, <3>1, NodeParts DEF Shape, InUse
    <3>3. \A k \in InUse(t) : g[k] # Free
      BY <1>4 DEF InUse
    <3> QED
      BY <3>1, <3>2, <3>3 DEF Shape
  <2> QED
    BY <1>3, <2>1, <2>2, <2>3, <2>4 DEF Shape
<1> QED
  BY <1>1, <1>3, <1>4, <1>7 DEF g, X, GrownFrom

\* The root is no kid of a branch.
LEMMA RootOnTop ==
    ASSUME PageTreeFiles, NEW b \in Bases, NEW t, Shape(b, t), NEW n \in InUse(t)
    PROVE  Root \notin ToSet(t[n].kids)
<1>1. SUFFICES ASSUME Root \in ToSet(t[n].kids) PROVE FALSE
  OBVIOUS
<1>2. /\ Root \in Branches(b) /\ Reach(InUse(b), b) /\ b[Root].parent = None
      /\ None \notin Numbers /\ t \in Trees /\ Branches(b) \subseteq InUse(b)
  BY FileShape DEF PageTreeFiles, Shape, Branches, InUse
<1>3. t[n].kids # <<>> /\ t[n].type \in {"Pages", "Page"} /\ n \in Numbers
  BY <1>1, <1>2, NodeParts DEF ToSet
<1>4. n \in Branches(b)
  BY <1>3 DEF Shape
<1>5. Root \in ToSet(b[n].kids)
  BY <1>1, <1>2, <1>4 DEF Shape
<1>6. b[Root].parent = n
  BY <1>2, <1>4, <1>5 DEF Reach
<1> QED
  BY <1>2, <1>3, <1>6

\* u is t with the new pages between A and B among the root's kids.
Inserts(u, t, new, v, A, B) ==
    /\ A \o B = t[Root].kids
    /\ \E c \in Nat :
          u = [Grown(t, new, v) EXCEPT ![Root].kids = A \o new \o B, ![Root].count = c]

Inserting(b, t, R, v, new, A, B, u) ==
    /\ b \in Bases /\ Shape(b, t) /\ Reach(R, t) /\ v \in Turns \union {None}
    /\ new \in Seq(Numbers) /\ ToSet(new) \intersect InUse(t) = {}
    /\ A \in Seq(Numbers) /\ B \in Seq(Numbers) /\ Inserts(u, t, new, v, A, B)

InsertedInto(b, t, R, v, new, A, B, u) ==
    /\ Shape(b, u) /\ Reach(R \union ToSet(new), u)
    /\ InUse(u) = InUse(t) \union ToSet(new)
    /\ u[Root].type = "Pages" /\ u[Root].kids = A \o new \o B
    /\ \A n \in ToSet(new) : u[n] = NewPage(v)
    /\ \A n \in Numbers : n # Root /\ n \notin ToSet(new) => u[n] = t[n]

LEMMA InsertedShape ==
    ASSUME PageTreeFiles, NEW b, NEW t, NEW R, NEW v, NEW new, NEW A, NEW B, NEW u,
           Inserting(b, t, R, v, new, A, B, u)
    PROVE  InsertedInto(b, t, R, v, new, A, B, u)
<1> DEFINE g == Grown(t, new, v)
           X == ToSet(new)
           K == A \o new \o B
<1>13. /\ b \in Bases /\ Shape(b, t) /\ Reach(R, t) /\ v \in Turns \union {None}
       /\ new \in Seq(Numbers) /\ ToSet(new) \intersect InUse(t) = {}
       /\ A \in Seq(Numbers) /\ B \in Seq(Numbers)
  BY DEF Inserting
<1>14. A \o B = t[Root].kids
  BY DEF Inserting, Inserts
<1>0. /\ t \in Trees /\ Free \notin Node /\ Root \in Numbers /\ Root \in Branches(b)
      /\ Branches(b) \subseteq InUse(t) /\ InUse(t) \subseteq Numbers /\ Root \in InUse(t)
      /\ X \intersect InUse(t) = {}
  BY <1>13, FileShape DEF PageTreeFiles, Shape, Branches, InUse
<1>1. /\ Shape(b, g) /\ InUse(g) = InUse(t) \union X
      /\ \A n \in X : n \in Numbers /\ g[n] = NewPage(v)
      /\ \A n \in Numbers \ X : g[n] = t[n]
  <2>1. GrownFrom(b, t, new, v, g)
    BY <1>13, GrownShape
  <2> HIDE DEF g
  <2> QED
    BY <2>1 DEF GrownFrom
<1>2. K \in Seq(Numbers) /\ ToSet(K) = ToSet(t[Root].kids) \union X
  <2>1. A \o new \in Seq(Numbers) /\ ToSet(A \o new) = ToSet(A) \union X
    BY <1>13, SetOfConcat
  <2>2. ToSet(K) = ToSet(A \o new) \union ToSet(B) /\ K \in Seq(Numbers)
    <3>1. PICK Q \in Seq(Numbers) : Q = A \o new
      BY <2>1
    <3>2. ToSet(Q \o B) = ToSet(Q) \union ToSet(B) /\ Q \o B \in Seq(Numbers)
      BY <1>13, SetOfConcat
    <3> QED
      BY <3>1, <3>2
  <2>3. ToSet(A \o B) = ToSet(A) \union ToSet(B)
    BY <1>13, SetOfConcat
  <2>4. A \o B = t[Root].kids
    BY <1>14
  <2> QED
    BY <2>1, <2>2, <2>3, <2>4
<1> HIDE DEF g, X, K
<1>3. g \in Trees /\ g[Root] = t[Root] /\ g[Root] \in Node /\ g[Root].type = "Pages"
  <2>1. g \in Trees /\ g[Root] = t[Root]
    BY <1>0, <1>1 DEF Shape
  <2>2. Root \in InUse(b) /\ b[Root].type = "Pages"
    BY <1>0 DEF Branches, InUse
  <2>3. t[Root] \in Node /\ t[Root].type = "Pages"
    BY <1>0, <1>13, <2>2, NodeParts DEF Shape
  <2> QED
    BY <2>1, <2>3
<1>4. PICK c \in Nat : u = [g EXCEPT ![Root].kids = K, ![Root].count = c]
  BY DEF Inserting, Inserts, g, K
<1>5. /\ u[Root] \in Node /\ u[Root].type = "Pages" /\ u[Root].kids = K
      /\ u[Root].parent = t[Root].parent /\ u[Root].rotate = t[Root].rotate
  <2>1. PICK q \in Node : q = g[Root]
    BY <1>3
  <2>2. u[Root] = [q EXCEPT !.kids = K, !.count = c]
    BY <1>0, <1>3, <1>4, <2>1 DEF Trees, Node
  <2>3. q.type = "Pages" /\ q.parent = t[Root].parent /\ q.rotate = t[Root].rotate
    BY <1>3, <2>1
  <2>4. [q EXCEPT !.kids = K, !.count = c] \in Node
    BY <1>2, <1>4, <2>1 DEF Node
  <2>5. /\ u[Root].type = q.type /\ u[Root].kids = K
        /\ u[Root].parent = q.parent /\ u[Root].rotate = q.rotate
    BY <2>1, <2>2 DEF Node
  <2> QED
    BY <2>2, <2>3, <2>4, <2>5
<1>6. u \in Trees /\ \A n \in Numbers : n # Root => u[n] = g[n]
  <2>1. \A n \in Numbers : n # Root => u[n] = g[n]
    BY <1>0, <1>3, <1>4 DEF Trees
  <2>2. u = [n \in Numbers |-> u[n]]
    BY <1>0, <1>3, <1>4 DEF Trees
  <2>3. \A n \in Numbers : u[n] \in Node \union {Free}
    BY <1>3, <1>5, <2>1 DEF Trees
  <2> QED
    BY <2>1, <2>2, <2>3, Zenon DEF Trees
<1>7. InUse(u) = InUse(g)
  BY <1>0, <1>3, <1>5, <1>6 DEF InUse
<1>8. \A n \in InUse(g) : n \in Numbers
  BY DEF InUse
<1>9. Branches(b) \subseteq InUse(g)
  BY <1>0, <1>1
<1>10. Shape(b, u)
  <2>1. \A n \in InUse(b) : u[n] # Free /\ u[n].type = b[n].type
    <3>1. \A n \in InUse(b) : n \in InUse(g) /\ g[n].type = b[n].type
      BY <1>1 DEF Shape, InUse
    <3>2. \A n \in InUse(u) : u[n] # Free
      BY DEF InUse
    <3> QED
      BY <1>3, <1>5, <1>6, <1>7, <1>8, <3>1, <3>2
  <2>2. \A n \in InUse(u) : u[n].type = "Pages" => n \in Branches(b)
    BY <1>0, <1>1, <1>6, <1>7, <1>8 DEF Shape
  <2>3. \A n \in InUse(u) : u[n].type = "Page" => u[n].kids = <<>> /\ u[n].parent \in Branches(b)
    BY <1>1, <1>5, <1>6, <1>7, <1>8 DEF Shape
  <2>4. ASSUME NEW n \in Branches(b)
        PROVE  /\ u[n].rotate = b[n].rotate /\ u[n].parent = b[n].parent
               /\ \A k \in ToSet(u[n].kids) : u[k] # Free /\ (k \in Branches(b) => k \in ToSet(b[n].kids))
    <3>1. \A k \in InUse(g) : u[k] # Free
      BY <1>7 DEF InUse
    <3>2. \A k \in ToSet(t[n].kids) : k \in InUse(t) /\ (k \in Branches(b) => k \in ToSet(b[n].kids))
      BY <1>0, <1>13, NodeParts DEF Shape, InUse
    <3>3. t[n].rotate = b[n].rotate /\ t[n].parent = b[n].parent
      BY <1>13 DEF Shape
    <3>4. CASE n = Root
      <4>1. \A k \in X : k \in InUse(g) /\ k \notin Branches(b)
        BY <1>0, <1>1
      <4> QED
        BY <1>1, <1>2, <1>5, <3>1, <3>2, <3>3, <3>4, <4>1
    <3>5. CASE n # Root
      <4>1. u[n] = t[n]
        BY <1>0, <1>1, <1>6, <3>5
      <4> QED
        BY <1>1, <3>1, <3>2, <3>3, <4>1
    <3> QED
      BY <3>4, <3>5
  <2> QED
    BY <1>6, <2>1, <2>2, <2>3, <2>4 DEF Shape
<1>11. Reach(R \union X, u)
  <2>1. R \subseteq InUse(t) /\ Root \in R /\ \A n \in R : \A k \in ToSet(t[n].kids) : k \in R /\ t[k].parent = n
    BY <1>13 DEF Reach
  <2>2. \A n \in X : u[n].parent = Root /\ u[n].kids = <<>>
    <3>1. \A n \in X : n # Root /\ n \in Numbers
      BY <1>0, <1>1
    <3> QED
      BY <1>1, <1>6, <3>1 DEF NewPage
  <2>3. \A n \in X : ToSet(u[n].kids) = {}
    BY <2>2 DEF ToSet
  <2>4. \A n \in R : n # Root => u[n] = t[n]
    BY <1>0, <1>1, <1>6, <2>1
  <2>5. \A n \in R : \A k \in ToSet(t[n].kids) : k # Root /\ k \in R
    BY <1>13, <2>1, RootOnTop
  <2>6. ASSUME NEW n \in R, NEW k \in ToSet(u[n].kids) PROVE k \in R \union X /\ u[k].parent = n
    <3>1. CASE k \in ToSet(t[n].kids)
      <4>1. k \in R /\ k # Root /\ t[k].parent = n
        BY <2>1, <2>5, <3>1
      <4> QED
        BY <2>4, <4>1
    <3>2. CASE k \notin ToSet(t[n].kids)
      <4>1. n = Root
        BY <2>4, <2>6, <3>2
      <4>2. k \in X
        BY <1>2, <1>5, <2>6, <3>2, <4>1
      <4> QED
        BY <2>2, <4>1, <4>2
    <3> QED
      BY <3>1, <3>2
  <2> QED
    BY <1>1, <1>7, <2>1, <2>3, <2>6 DEF Reach
<1>12. \A n \in X : n # Root
  BY <1>0
<1> QED
  BY <1>1, <1>5, <1>6, <1>7, <1>10, <1>11, <1>12 DEF X, K, InsertedInto

\* Nothing else of the leaves moves.
LeavesPut(t, u, new) ==
    \E X \in Seq(Numbers) : \E Y \in Seq(Numbers) : Leaves(t) = X \o Y /\ Leaves(u) = X \o new \o Y

LEMMA InsertedLeaves ==
    ASSUME PageTreeFiles, NEW b, NEW t, NEW R, NEW v, NEW new, NEW A, NEW B, NEW u,
           Inserting(b, t, R, v, new, A, B, u)
    PROVE  LeavesPut(t, u, new)
<1>20. /\ b \in Bases /\ Shape(b, t) /\ Reach(R, t) /\ v \in Turns \union {None}
       /\ new \in Seq(Numbers) /\ ToSet(new) \intersect InUse(t) = {}
  BY DEF Inserting
<1>22. new \in Seq(Numbers)
  BY DEF Inserting
<1>24. A \in Seq(Numbers) /\ B \in Seq(Numbers)
  BY DEF Inserting
<1>21. A \in Seq(Numbers) /\ B \in Seq(Numbers) /\ A \o B = t[Root].kids
  BY DEF Inserting, Inserts
<1>0. /\ Root \in Numbers /\ t \in Trees /\ Root \in InUse(t) /\ t[Root].type = "Pages"
      /\ InUse(t) \subseteq Numbers /\ A \o B = t[Root].kids
  <2>1. Root \in InUse(b) /\ b[Root].type = "Pages"
    BY <1>20, FileShape DEF Branches, InUse
  <2>2. t[Root].type = "Pages" /\ InUse(b) \subseteq InUse(t) /\ t \in Trees
    BY <1>20, <2>1 DEF Shape, InUse
  <2> QED
    BY <1>21, <2>1, <2>2 DEF InUse
<1>23. InsertedInto(b, t, R, v, new, A, B, u)
  BY InsertedShape
<1>1. /\ Shape(b, u) /\ InUse(u) = InUse(t) \union ToSet(new)
      /\ u[Root].type = "Pages" /\ u[Root].kids = A \o new \o B
      /\ \A n \in ToSet(new) : u[n] = NewPage(v)
      /\ \A n \in Numbers : n # Root /\ n \notin ToSet(new) => u[n] = t[n]
  BY <1>23 DEF InsertedInto
<1>2. PICK N \in Nat : \E r : Heights(r, N, b)
  BY <1>20, HeightsExist
<1>3. PICK r : Heights(r, N, b)
  BY <1>2
<1>4. PICK f : Under(f, t)
  BY <1>3, <1>20, UnderExists
<1>5. PICK g : Under(g, u)
  BY <1>1, <1>3, UnderExists
<1>6. Leaves(t) = f[Root] /\ Leaves(u) = g[Root]
  BY <1>0, <1>1, <1>3, <1>4, <1>5, <1>20, UnderIsLeaves
<1>7. f \in [Numbers -> Seq(Numbers)] /\ g \in [Numbers -> Seq(Numbers)]
  BY <1>4, <1>5 DEF Under
<1>8. r \in [Numbers -> Nat]
  BY <1>3 DEF Heights
<1> DEFINE S == {n \in Numbers : n # Root /\ n \notin ToSet(new) => g[n] = f[n]}
<1>9. ASSUME NEW n \in Numbers, \A q \in Numbers : r[q] < r[n] => q \in S
      PROVE  n \in S
  <2>1. SUFFICES ASSUME n # Root, n \notin ToSet(new) PROVE g[n] = f[n]
    OBVIOUS
  <2>2. u[n] = t[n] /\ (n \in InUse(u) <=> n \in InUse(t))
    BY <1>1, <2>1
  <2>3. CASE n \in InUse(t)
    <3>1. \A k \in ToSet(t[n].kids) : k \in Numbers /\ k \in InUse(t) /\ r[k] < r[n]
      BY <1>3, <1>20, <2>3, KidsLower
    <3>4. Root \notin ToSet(t[n].kids)
      BY <1>20, <2>3, RootOnTop
    <3>5. \A k \in ToSet(t[n].kids) : k \notin ToSet(new) /\ k # Root /\ k \in S
      BY <1>9, <1>20, <3>1, <3>4
    <3>2. \A k \in ToSet(t[n].kids) : g[k] = f[k]
      BY <3>5
    <3>3. Bind(t[n].kids, g) = Bind(t[n].kids, f)
      BY <3>2, BindSame
    <3> QED
      BY <1>4, <1>5, <2>2, <2>3, <3>3 DEF Under
  <2>4. CASE n \notin InUse(t)
    BY <1>4, <1>5, <2>2, <2>4 DEF Under
  <2> QED
    BY <2>3, <2>4
<1>10. Numbers \subseteq S
  <2> HIDE DEF S
  <2> QED
    BY <1>8, <1>9, RankInduction
<1>11. \A k \in ToSet(t[Root].kids) : g[k] = f[k]
  <2>1. \A k \in ToSet(t[Root].kids) : k \in Numbers /\ k \in InUse(t)
    BY <1>0, <1>3, <1>20, KidsLower
  <2>2. Root \notin ToSet(t[Root].kids)
    BY <1>0, <1>20, RootOnTop
  <2>3. \A k \in ToSet(t[Root].kids) : k # Root /\ k \notin ToSet(new) /\ k \in S
    BY <1>10, <1>20, <2>1, <2>2
  <2> QED
    BY <2>3
<1>12. ToSet(t[Root].kids) = ToSet(A) \union ToSet(B)
  <2>1. ToSet(A \o B) = ToSet(A) \union ToSet(B)
    BY <1>21, SetOfConcat
  <2> QED
    BY <1>21, <2>1
<1>13. Bind(A, g) = Bind(A, f) /\ Bind(B, g) = Bind(B, f) /\ Bind(A, f) \in Seq(Numbers) /\ Bind(B, f) \in Seq(Numbers)
  <2>1. Bind(A, g) = Bind(A, f) /\ Bind(B, g) = Bind(B, f)
    BY <1>11, <1>12, BindSame
  <2>2. f \in [Numbers -> Seq(Numbers)]
    BY <1>7
  <2>3. Bind(A, f) \in Seq(Numbers) /\ Bind(B, f) \in Seq(Numbers)
    BY <1>21, <2>2, BindType
  <2> QED
    BY <2>1, <2>3
<1>14. Bind(new, g) = new
  <2>1. \A n \in ToSet(new) : n \in InUse(u) /\ u[n].type = "Page"
    BY <1>1 DEF NewPage
  <2>2. \A n \in ToSet(new) : g[n] = <<n>>
    BY <1>5, <2>1 DEF Under
  <2> QED
    BY <1>20, <2>2, BindSelf
<1>15. f[Root] = Bind(A, f) \o Bind(B, f)
  <2>1. f[Root] = Bind(t[Root].kids, f)
    BY <1>0, <1>4 DEF Under
  <2>2. f \in [Numbers -> Seq(Numbers)]
    BY <1>7
  <2>3. Bind(A \o B, f) = Bind(A, f) \o Bind(B, f)
    BY <1>21, <2>2, BindConcat
  <2> QED
    BY <1>21, <2>1, <2>3
<1>16. g[Root] = Bind(A, f) \o new \o Bind(B, f)
  <2>1. g[Root] = Bind(u[Root].kids, g)
    BY <1>0, <1>1, <1>5 DEF Under
  <2>6. A \o new \in Seq(Numbers)
    BY <1>22, <1>24, ConcatProperties
  <2>2. PICK Q \in Seq(Numbers) : Q = A \o new
    BY <2>6, Zenon
  <2>5. g \in [Numbers -> Seq(Numbers)]
    BY <1>7
  <2>3. Bind(A \o new, g) = Bind(A, g) \o Bind(new, g)
    BY <1>21, <1>22, <2>5, BindConcat
  <2>4. Bind(Q \o B, g) = Bind(Q, g) \o Bind(B, g)
    BY <1>21, <2>5, BindConcat
  <2> QED
    BY <1>1, <1>13, <1>14, <2>1, <2>2, <2>3, <2>4
<1> QED
  BY <1>6, <1>13, <1>15, <1>16 DEF LeavesPut

\* The new pages' rows stand together in what is listed, the others as they were.
ListingPut(t, u, new, v) ==
    LET list == Listing(t)
        rows == [k \in DOMAIN new |->
                    [page |-> new[k], turn |-> Inherited(Grown(t, new, v), new[k])]] IN
    \E j \in 0..Len(list) :
       Listing(u) = SubSeq(list, 1, j) \o rows \o SubSeq(list, j + 1, Len(list))

LEMMA InsertedListing ==
    ASSUME PageTreeFiles, NEW b, NEW t, NEW R, NEW v, NEW new, NEW A, NEW B, NEW u,
           Inserting(b, t, R, v, new, A, B, u)
    PROVE  ListingPut(t, u, new, v)
<1> DEFINE g == Grown(t, new, v)
<1>20. /\ b \in Bases /\ Shape(b, t) /\ Reach(R, t) /\ v \in Turns \union {None}
       /\ new \in Seq(Numbers) /\ ToSet(new) \intersect InUse(t) = {}
  BY DEF Inserting
<1>22. new \in Seq(Numbers)
  BY DEF Inserting
<1>23. InsertedInto(b, t, R, v, new, A, B, u)
  BY InsertedShape
<1>0. Shape(b, u) /\ Reach(R \union ToSet(new), u)
  BY <1>23 DEF InsertedInto
<1>1. PICK X \in Seq(Numbers) : \E Y \in Seq(Numbers) : Leaves(t) = X \o Y /\ Leaves(u) = X \o new \o Y
  <2>1. LeavesPut(t, u, new)
    BY InsertedLeaves
  <2> QED
    BY <2>1 DEF LeavesPut
<1>2. PICK Y \in Seq(Numbers) : Leaves(t) = X \o Y /\ Leaves(u) = X \o new \o Y
  BY <1>1
<1>3. PICK h : Turning(h, b)
  BY <1>20, HeightsExist, TurningExists
<1>4. Listing(t) = Rows(h, t, X \o Y) /\ Listing(u) = Rows(h, u, X \o new \o Y)
  BY <1>0, <1>2, <1>3, <1>20, ListingIs
<1>5. ASSUME NEW p \in ToSet(X \o Y) PROVE Row(h, u, p) = Row(h, t, p)
  <2>1. p \in InUse(t) /\ p \in Numbers /\ p \notin ToSet(new) /\ t[p].type = "Page"
    BY <1>2, <1>20, LeavesArePages DEF InUse
  <2>2. t[Root].type = "Pages"
    <3>1. Root \in InUse(b) /\ b[Root].type = "Pages"
      BY <1>20, FileShape DEF Branches, InUse
    <3> QED
      BY <1>20, <3>1 DEF Shape
  <2>4. \A n \in Numbers : n # Root /\ n \notin ToSet(new) => u[n] = t[n]
    BY <1>23 DEF InsertedInto
  <2>3. u[p] = t[p]
    BY <2>1, <2>2, <2>4
  <2> QED
    BY <2>3 DEF Row, TurnOf
<1>6. /\ Len(X) \in 0..Len(Listing(t))
      /\ Listing(u) = SubSeq(Listing(t), 1, Len(X)) \o Rows(h, u, new) \o SubSeq(Listing(t), Len(X) + 1, Len(Listing(t)))
  <2>1. SameRows(h, t, u, X, Y)
    BY <1>5 DEF SameRows
  <2>2. RowsPut(h, t, u, X, new, Y)
    BY <1>22, <2>1, RowsInserted
  <2> QED
    BY <1>4, <2>2 DEF RowsPut
<1>7. Rows(h, u, new) = [k \in DOMAIN new |-> [page |-> new[k], turn |-> Inherited(g, new[k])]]
  <2>1. \A k \in DOMAIN new : new[k] \in ToSet(new)
    BY DEF ToSet
  <2>2. Shape(b, g) /\ InUse(g) = InUse(t) \union ToSet(new) /\ \A n \in ToSet(new) : g[n] = NewPage(v)
    <3>1. GrownFrom(b, t, new, v, g)
      BY <1>20, <1>22, GrownShape
    <3> HIDE DEF g
    <3> QED
      BY <3>1 DEF GrownFrom
  <2>3. \A n \in ToSet(new) : u[n] = NewPage(v)
    BY <1>23 DEF InsertedInto
  <2>4. \A n \in ToSet(new) : g[n].type = "Page"
    BY <2>2 DEF NewPage
  <2> HIDE DEF g
  <2>5. \A n \in ToSet(new) : Inherited(g, n) = TurnOf(h, g, n)
    BY <1>3, <1>20, <2>2, <2>4, InheritedIs
  <2>6. \A n \in ToSet(new) : Row(h, u, n) = [page |-> n, turn |-> Inherited(g, n)]
    BY <2>2, <2>3, <2>5 DEF Row, TurnOf
  <2> QED
    BY <2>1, <2>6 DEF Rows
<1> QED
  BY <1>6, <1>7 DEF ListingPut

----------------------------------------------------------------------------
(* Deleting pages.                                                         *)

Keeping(gone) == [k \in Numbers |-> IF k \in gone THEN <<>> ELSE <<k>>]

LEMMA KeepingType ==
    ASSUME NEW gone
    PROVE  /\ Keeping(gone) \in [Numbers -> Seq(Numbers)]
           /\ \A k \in Numbers : Keeping(gone)[k] = IF k \in gone THEN <<>> ELSE <<k>>
<1>1. \A k \in Numbers : <<>> \in Seq(Numbers) /\ <<k>> \in Seq(Numbers)
  OBVIOUS
<1> QED
  BY <1>1 DEF Keeping

LEMMA WithoutIs ==
    ASSUME NEW s \in Seq(Numbers), NEW gone
    PROVE  /\ Without(s, gone) = Bind(s, Keeping(gone))
           /\ Without(s, gone) \in Seq(Numbers)
           /\ ToSet(Without(s, gone)) \subseteq ToSet(s)
<1>1. DOMAIN s = 1..Len(s) /\ \A i \in DOMAIN s : s[i] \in Numbers
  OBVIOUS
<1>2. \A i \in DOMAIN s : Keeping(gone)[s[i]] = IF s[i] \in gone THEN <<>> ELSE <<s[i]>>
  BY <1>1, KeepingType
<1>3. [i \in DOMAIN s |-> Keeping(gone)[s[i]]] = [i \in DOMAIN s |-> IF s[i] \in gone THEN <<>> ELSE <<s[i]>>]
  BY <1>2
<1>4. Without(s, gone) = Bind(s, Keeping(gone))
  BY <1>3 DEF Without, Bind
<1>5. Keeping(gone) \in [Numbers -> Seq(Numbers)]
  BY KeepingType
<1>6. Bind(s, Keeping(gone)) \in Seq(Numbers)
  BY <1>5, BindType
<1>7. ASSUME NEW x \in ToSet(Bind(s, Keeping(gone))) PROVE x \in ToSet(s)
  <2>1. PICK e \in ToSet(s) : x \in ToSet(Keeping(gone)[e])
    BY <1>5, BindElements
  <2>2. e \in Numbers
    BY DEF ToSet
  <2>3. Keeping(gone)[e] = <<>> \/ Keeping(gone)[e] = <<e>>
    BY <2>2, KeepingType
  <2>4. ToSet(<<>>) = {} /\ ToSet(<<e>>) = {e}
    BY DEF ToSet
  <2> QED
    BY <2>1, <2>3, <2>4
<1> QED
  BY <1>4, <1>6, <1>7

LEMMA WithoutTwice ==
    ASSUME NEW s \in Seq(Numbers), NEW X, NEW Y
    PROVE  Without(Without(s, X), Y) = Without(s, X \union Y)
<1> DEFINE f == Keeping(X)
           g == Keeping(Y)
           h == Keeping(X \union Y)
<1>1. f \in [Numbers -> Seq(Numbers)] /\ g \in [Numbers -> Seq(Numbers)] /\ h \in [Numbers -> Seq(Numbers)]
  BY KeepingType
<1>2. BoundLeft(g, Numbers, Numbers)
  BY <1>1, BindOne
<1>3. ASSUME NEW e \in Numbers PROVE h[e] = Bind(f[e], g)
  <2>1. /\ f[e] = IF e \in X THEN <<>> ELSE <<e>>
        /\ g[e] = IF e \in Y THEN <<>> ELSE <<e>>
        /\ h[e] = IF e \in X \union Y THEN <<>> ELSE <<e>>
    BY KeepingType
  <2>2. Bind(<<>>, g) = <<>>
    BY <1>2 DEF BoundLeft
  <2>3. Bind(<<e>>, g) = g[e]
    <3>1. g \in [Numbers -> Seq(Numbers)]
      BY <1>1
    <3> HIDE DEF g
    <3> QED
      BY <3>1, BindSingle
  <2> HIDE DEF f, g, h
  <2> QED
    BY <2>1, <2>2, <2>3
<1> HIDE DEF f, g, h
<1>4. Bind(Bind(s, f), g) = Bind(s, h)
  <2>1. f \in [Numbers -> Seq(Numbers)]
    BY <1>1
  <2>2. g \in [Numbers -> Seq(Numbers)]
    BY <1>1
  <2>3. h \in [Numbers -> Seq(Numbers)]
    BY <1>1
  <2>4. \A e \in Numbers : h[e] = Bind(f[e], g)
    BY <1>3
  <2>5. Composed(h, f, g, Numbers, Numbers, Numbers)
    BY <2>1, <2>2, <2>3, <2>4 DEF Composed
  <2> QED
    BY <2>5, BindBind
<1>5. Without(s, X) = Bind(s, f) /\ Without(s, X) \in Seq(Numbers) /\ Without(s, X \union Y) = Bind(s, h)
  BY WithoutIs DEF f, h
<1>6. Without(Without(s, X), Y) = Bind(Without(s, X), g)
  BY <1>5, WithoutIs DEF g
<1> QED
  BY <1>4, <1>5, <1>6

LEMMA WithoutNone ==
    ASSUME NEW s \in Seq(Numbers)
    PROVE  Without(s, {}) = s
<1>1. ToSet(s) \subseteq Numbers
  BY DEF ToSet
<1>2. \A k \in ToSet(s) : Keeping({})[k] = <<k>>
  BY <1>1, KeepingType
<1>3. Bind(s, Keeping({})) = s
  BY <1>2, BindSelf
<1> QED
  BY <1>3, WithoutIs

\* What Lineage(t, n) recurs through.
LineageFun(t, g) ==
    g = [k \in InUse(t) |-> {k} \union IF t[k].parent = None THEN {} ELSE g[t[k].parent]]

\* Above a branch are branches.
LEMMA LineageBranches ==
    ASSUME PageTreeFiles, NEW b \in Bases, NEW t, Shape(b, t), NEW q \in Branches(b)
    PROVE  Lineage(t, q) \subseteq Branches(b)
<1> DEFINE P == Branches(b)
           T == SUBSET P
           value(n, h) == {n} \union IF b[n].parent = None THEN {} ELSE h[b[n].parent]
           step == [a \in P \X [P -> T] |-> value(a[1], a[2])]
<1>0. None \notin Numbers /\ t \in Trees
  BY DEF PageTreeFiles, Shape
<1>1. PICK N \in Nat : \E r : Heights(r, N, b)
  BY HeightsExist
<1>2. PICK r : Heights(r, N, b)
  BY <1>1
<1> DEFINE rank == Depth(r, N, b)
<1>3. /\ rank \in [P -> 0..N]
      /\ \A n \in P : b[n].parent # None => b[n].parent \in P /\ rank[b[n].parent] < rank[n]
  BY <1>2, Depths
<1>4. \A n \in P : \A h \in [P -> T] : step[<<n, h>>] = value(n, h) /\ value(n, h) \in T
  <2>1. \A n \in P : \A h \in [P -> T] : step[<<n, h>>] = value(n, h)
    OBVIOUS
  <2>2. ASSUME NEW n \in P, NEW h \in [P -> T] PROVE value(n, h) \in T
    <3> HIDE DEF P, rank
    <3> QED
      BY <1>3
  <2> QED
    BY <2>1, <2>2
<1>5. step \in [P \X [P -> T] -> T]
  <2>1. step = [a \in P \X [P -> T] |-> step[a]]
    OBVIOUS
  <2>2. \A a \in P \X [P -> T] : step[a] \in T
    <3> HIDE DEF step, value, P, T
    <3> QED
      BY <1>4
  <2> HIDE DEF step, value, P, T
  <2> QED
    BY <2>1, <2>2
<1>6. FromBelow(P, T, rank, step)
  <2>1. ASSUME NEW n \in P, NEW f \in [P -> T], NEW g \in [P -> T],
               \A k \in P : rank[k] < rank[n] => f[k] = g[k]
        PROVE  value(n, f) = value(n, g)
    <3> HIDE DEF P, T, rank
    <3> QED
      BY <1>3, <2>1
  <2> HIDE DEF P, T, rank, step, value
  <2> QED
    BY <1>4, <2>1 DEF FromBelow
<1>7. \E h \in [P -> T] : MadeBy(h, P, step)
  <2>1. T # {}
    OBVIOUS
  <2> HIDE DEF P, T, rank, step
  <2> QED
    BY <1>3, <1>5, <1>6, <2>1, RecursionExists
<1>8. PICK h \in [P -> T] : MadeBy(h, P, step)
  BY <1>7
<1>9. \A n \in P : h[n] = value(n, h)
  <2> HIDE DEF P, T, step, value
  <2> QED
    BY <1>4, <1>8 DEF MadeBy
<1>10. \A k \in P : k \in Numbers /\ k \in InUse(t) /\ t[k].parent = b[k].parent
  BY DEF Branches, InUse, Shape
<1>11. \A k \in InUse(t) \ P : t[k].parent \in P /\ t[k].parent # None
  <2>1. \A k \in InUse(t) : t[k].type \in {"Pages", "Page"}
    BY <1>0, NodeParts
  <2> QED
    BY <1>0, <1>10, <2>1 DEF Shape
<1> DEFINE g == [k \in InUse(t) |-> IF k \in P THEN h[k] ELSE {k} \union h[t[k].parent]]
<1>12. LineageFun(t, g)
  <2>1. ASSUME NEW k \in InUse(t)
        PROVE  g[k] = {k} \union IF t[k].parent = None THEN {} ELSE g[t[k].parent]
    <3> HIDE DEF P, rank, T, step
    <3>1. CASE k \in P
      BY <1>3, <1>9, <1>10, <3>1
    <3>2. CASE k \notin P
      BY <1>10, <1>11, <3>2
    <3> QED
      BY <3>1, <3>2
  <2>2. g = [k \in InUse(t) |-> g[k]]
    OBVIOUS
  <2> HIDE DEF g
  <2> QED
    BY <2>1, <2>2, Zenon DEF LineageFun
<1>13. PICK v : v = CHOOSE u : LineageFun(t, u)
  OBVIOUS
<1>14. LineageFun(t, v)
  BY <1>12, <1>13
<1>15. Lineage(t, q) = v[q]
  BY <1>13 DEF Lineage, LineageFun
<1>16. \A k \in InUse(t) : v[k] = {k} \union IF t[k].parent = None THEN {} ELSE v[t[k].parent]
  BY <1>14, Zenon DEF LineageFun
<1> DEFINE S == {k \in P : v[k] \subseteq P}
<1>17. ASSUME NEW k \in P, \A n \in P : rank[n] < rank[k] => n \in S
       PROVE  k \in S
  <2> HIDE DEF P, rank
  <2>1. v[k] = {k} \union IF b[k].parent = None THEN {} ELSE v[b[k].parent]
    BY <1>10, <1>16
  <2>2. b[k].parent # None => v[b[k].parent] \subseteq P
    BY <1>3, <1>17
  <2> QED
    BY <2>1, <2>2
<1>18. P \subseteq S
  <2>1. rank \in [P -> Nat]
    BY <1>3
  <2> HIDE DEF S, P, rank
  <2> QED
    BY <1>17, <2>1, RankInduction
<1> QED
  BY <1>15, <1>18

\* t is t0 without the pages of s, among the kids of the branches they name.
Unlinked(t0, t, s) ==
    /\ InUse(t) = InUse(t0)
    /\ \A n \in InUse(t0) :
          /\ t[n].type = t0[n].type /\ t[n].parent = t0[n].parent /\ t[n].rotate = t0[n].rotate
          /\ t[n].kids = Without(t0[n].kids, {p \in s : t0[p].parent = n})

LEMMA UnlinkedNone ==
    ASSUME NEW t \in Trees
    PROVE  Unlinked(t, t, {})
<1>1. \A n \in InUse(t) : t[n].kids \in Seq(Numbers)
  BY NodeParts
<1>2. \A n \in InUse(t) : {p \in {} : t[p].parent = n} = {}
  OBVIOUS
<1>3. \A n \in InUse(t) : t[n].kids = Without(t[n].kids, {})
  BY <1>1, WithoutNone
<1> QED
  BY <1>2, <1>3 DEF Unlinked

\* Counts say nothing of the rest.
LEMMA DecrementKeeps ==
    ASSUME PageTreeFiles, NEW b \in Bases, NEW t, Shape(b, t), NEW q \in Branches(b)
    PROVE  /\ DecrementCounts(t, q) \in Trees
           /\ InUse(DecrementCounts(t, q)) = InUse(t)
           /\ \A n \in InUse(t) :
                 /\ DecrementCounts(t, q)[n].type = t[n].type
                 /\ DecrementCounts(t, q)[n].kids = t[n].kids
                 /\ DecrementCounts(t, q)[n].parent = t[n].parent
                 /\ DecrementCounts(t, q)[n].rotate = t[n].rotate
<1> DEFINE u == DecrementCounts(t, q)
<1>1. t \in Trees /\ Free \notin Node /\ Branches(b) \subseteq InUse(t)
  BY DEF PageTreeFiles, Shape, Branches, InUse
<1>2. Lineage(t, q) \subseteq InUse(t)
  BY <1>1, LineageBranches
<1>3. ASSUME NEW n \in InUse(t)
      PROVE  /\ u[n] \in Node /\ u[n].type = t[n].type /\ u[n].kids = t[n].kids
             /\ u[n].parent = t[n].parent /\ u[n].rotate = t[n].rotate
  <2>1. PICK m \in Node : m = t[n]
    BY <1>1, NodeParts
  <2>2. n \in Numbers
    BY DEF InUse
  <2>3. u[n] = IF n \in Lineage(t, q) THEN [m EXCEPT !.count = IF @ > 0 THEN @ - 1 ELSE 0] ELSE m
    BY <2>1, <2>2 DEF DecrementCounts
  <2>4. (IF m.count > 0 THEN m.count - 1 ELSE 0) \in Nat
    BY DEF Node
  <2>5. PICK c \in Nat : c = IF m.count > 0 THEN m.count - 1 ELSE 0
    BY <2>4
  <2>6. u[n] = m \/ u[n] = [m EXCEPT !.count = c]
    BY <2>3, <2>5
  <2> HIDE DEF u
  <2> QED
    BY <2>1, <2>6 DEF Node
<1>4. ASSUME NEW n \in Numbers \ InUse(t) PROVE u[n] = Free
  <2>1. n \notin Lineage(t, q) /\ t[n] = Free
    BY <1>2 DEF InUse
  <2> QED
    BY <2>1 DEF DecrementCounts
<1>5. u = [n \in Numbers |-> u[n]]
  BY DEF DecrementCounts
<1> HIDE DEF u
<1>6. u \in Trees
  <2>1. \A n \in Numbers : u[n] \in Node \union {Free}
    BY <1>3, <1>4
  <2> QED
    BY <1>5, <2>1, Zenon DEF Trees
<1>7. InUse(u) = InUse(t)
  BY <1>1, <1>3, <1>4 DEF InUse
<1> QED
  BY <1>3, <1>6, <1>7 DEF u

LEMMA UnlinkStep ==
    ASSUME PageTreeFiles, NEW b \in Bases, NEW t0, Shape(b, t0), NEW t, Shape(b, t),
           NEW s, Unlinked(t0, t, s), NEW p \in ToSet(Leaves(b))
    PROVE  Shape(b, Unlink(p, t)) /\ Unlinked(t0, Unlink(p, t), s \union {p})
<1> DEFINE q == t[p].parent
           w == [t EXCEPT ![q].kids = Without(@, {p})]
           u == DecrementCounts(w, q)
<1>0. /\ Free \notin Node /\ t \in Trees /\ t0 \in Trees /\ Branches(b) \subseteq Numbers
      /\ Branches(b) \subseteq InUse(t) /\ InUse(t) \subseteq Numbers
  BY DEF PageTreeFiles, Shape, Branches, InUse
<1>1. q \in Branches(b) /\ q \in InUse(t) /\ q \in Numbers /\ p \in InUse(t)
  BY <1>0, FilePages
<1>2. PICK m \in Node : m = t[q]
  BY <1>0, <1>1, NodeParts
<1> HIDE DEF q
<1>3. m.kids \in Seq(Numbers)
  BY DEF Node
<1>4. PICK K \in Seq(Numbers) : K = Without(m.kids, {p}) /\ ToSet(K) \subseteq ToSet(m.kids)
  BY <1>3, WithoutIs
<1>5. w[q] = [m EXCEPT !.kids = K] /\ w = [n \in Numbers |-> w[n]] /\ \A n \in Numbers : n # q => w[n] = t[n]
  BY <1>0, <1>1, <1>2, <1>4 DEF Trees, Node
<1>6. /\ w[q] \in Node /\ w[q].kids = K /\ w[q].type = t[q].type
      /\ w[q].parent = t[q].parent /\ w[q].rotate = t[q].rotate
  <2>1. [m EXCEPT !.kids = K] \in Node
    BY <1>4 DEF Node
  <2>2. /\ [m EXCEPT !.kids = K].kids = K /\ [m EXCEPT !.kids = K].type = m.type
        /\ [m EXCEPT !.kids = K].parent = m.parent /\ [m EXCEPT !.kids = K].rotate = m.rotate
    BY DEF Node
  <2> QED
    BY <1>2, <1>5, <2>1, <2>2
<1> HIDE DEF w
<1>7. w \in Trees
  <2>1. \A n \in Numbers : w[n] \in Node \union {Free}
    BY <1>0, <1>5, <1>6 DEF Trees
  <2> QED
    BY <1>5, <2>1, Zenon DEF Trees
<1>8. InUse(w) = InUse(t)
  BY <1>0, <1>1, <1>5, <1>6 DEF InUse
<1>9. \A n \in InUse(t) : /\ w[n].type = t[n].type /\ w[n].parent = t[n].parent /\ w[n].rotate = t[n].rotate
                          /\ ToSet(w[n].kids) \subseteq ToSet(t[n].kids)
  BY <1>0, <1>2, <1>4, <1>5, <1>6
<1>10. \A n \in InUse(t) : t[n].kids = <<>> => n # q \/ w[n].kids = <<>>
  <2>1. ToSet(<<>>) = {}
    BY DEF ToSet
  <2>2. m.kids = <<>> => ToSet(K) = {}
    BY <1>4, <2>1
  <2>3. ToSet(K) = {} => K = <<>>
    <3>1. K # <<>> => K[1] \in ToSet(K)
      BY DEF ToSet
    <3> QED
      BY <3>1
  <2> QED
    BY <1>2, <1>6, <2>2, <2>3
<1>11. Shape(b, w)
  <2>1. \A n \in InUse(b) : w[n] # Free /\ w[n].type = b[n].type
    <3>1. \A n \in InUse(b) : n \in InUse(t) /\ t[n].type = b[n].type
      BY DEF Shape, InUse
    <3>2. \A n \in InUse(w) : w[n] # Free
      BY DEF InUse
    <3> QED
      BY <1>8, <1>9, <3>1, <3>2
  <2>2. \A n \in InUse(w) : w[n].type = "Pages" => n \in Branches(b)
    BY <1>8, <1>9 DEF Shape
  <2>3. \A n \in InUse(w) : w[n].type = "Page" => w[n].kids = <<>> /\ w[n].parent \in Branches(b)
    <3>1. \A n \in InUse(w) : n # q => w[n] = t[n]
      BY <1>0, <1>5, <1>8
    <3>2. \A n \in InUse(t) : t[n].type = "Page" => t[n].kids = <<>> /\ t[n].parent \in Branches(b)
      BY DEF Shape
    <3> QED
      BY <1>8, <1>9, <1>10, <3>1, <3>2
  <2>4. ASSUME NEW n \in Branches(b)
        PROVE  /\ w[n].rotate = b[n].rotate /\ w[n].parent = b[n].parent
               /\ \A k \in ToSet(w[n].kids) : w[k] # Free /\ (k \in Branches(b) => k \in ToSet(b[n].kids))
    <3>1. \A k \in ToSet(t[n].kids) : k \in InUse(t) /\ (k \in Branches(b) => k \in ToSet(b[n].kids))
      BY <1>0, NodeParts DEF Shape, InUse
    <3>2. \A k \in InUse(t) : w[k] # Free
      BY <1>8 DEF InUse
    <3>3. t[n].rotate = b[n].rotate /\ t[n].parent = b[n].parent /\ n \in InUse(t)
      BY <1>0 DEF Shape
    <3> QED
      BY <1>9, <3>1, <3>2, <3>3
  <2> QED
    BY <1>7, <2>1, <2>2, <2>3, <2>4 DEF Shape
<1>12. /\ u \in Trees /\ InUse(u) = InUse(t)
       /\ \A n \in InUse(t) : /\ u[n].type = w[n].type /\ u[n].kids = w[n].kids
                              /\ u[n].parent = w[n].parent /\ u[n].rotate = w[n].rotate
  BY <1>1, <1>8, <1>11, DecrementKeeps
<1> HIDE DEF u
<1>13. Shape(b, u)
  <2>1. \A n \in InUse(w) : n \in Numbers /\ w[n] # Free /\ u[n] # Free
    BY <1>8, <1>12 DEF InUse
  <2>2. \A n \in InUse(b) : n \in InUse(w) /\ w[n].type = b[n].type
    BY <1>11 DEF Shape, InUse
  <2>3. \A n \in InUse(b) : u[n] # Free /\ u[n].type = b[n].type
    BY <1>8, <1>12, <2>1, <2>2
  <2>4. \A n \in InUse(u) : u[n].type = "Pages" => n \in Branches(b)
    BY <1>8, <1>11, <1>12 DEF Shape
  <2>5. \A n \in InUse(u) : u[n].type = "Page" => u[n].kids = <<>> /\ u[n].parent \in Branches(b)
    BY <1>8, <1>11, <1>12 DEF Shape
  <2>6. ASSUME NEW n \in Branches(b)
        PROVE  /\ u[n].rotate = b[n].rotate /\ u[n].parent = b[n].parent
               /\ \A k \in ToSet(u[n].kids) : u[k] # Free /\ (k \in Branches(b) => k \in ToSet(b[n].kids))
    <3>1. n \in InUse(w)
      BY <1>0, <1>8
    <3>2. \A k \in ToSet(w[n].kids) : k \in InUse(w) /\ (k \in Branches(b) => k \in ToSet(b[n].kids))
      BY <1>7, <1>11, <3>1, NodeParts DEF Shape, InUse
    <3>3. w[n].rotate = b[n].rotate /\ w[n].parent = b[n].parent
      BY <1>11 DEF Shape
    <3> QED
      BY <1>8, <1>12, <2>1, <3>1, <3>2, <3>3
  <2> QED
    BY <1>12, <2>3, <2>4, <2>5, <2>6 DEF Shape
<1>14. Unlinked(t0, u, s \union {p})
  <2>1. InUse(t) = InUse(t0)
    BY DEF Unlinked
  <2>2. ASSUME NEW n \in InUse(t0)
        PROVE  /\ u[n].type = t0[n].type /\ u[n].parent = t0[n].parent /\ u[n].rotate = t0[n].rotate
               /\ u[n].kids = Without(t0[n].kids, {x \in s \union {p} : t0[x].parent = n})
    <3>1. /\ t[n].type = t0[n].type /\ t[n].parent = t0[n].parent /\ t[n].rotate = t0[n].rotate
          /\ t[n].kids = Without(t0[n].kids, {x \in s : t0[x].parent = n})
      BY DEF Unlinked
    <3>2. t0[p].parent = q
      BY <1>1, <2>1 DEF Unlinked, q
    <3>3. u[n].kids = Without(t0[n].kids, {x \in s \union {p} : t0[x].parent = n})
      <4>1. CASE n = q
        <5>1. {x \in s \union {p} : t0[x].parent = n} = {x \in s : t0[x].parent = n} \union {p}
          BY <3>2, <4>1
        <5>2. u[n].kids = Without(t[n].kids, {p})
          BY <1>1, <1>2, <1>4, <1>6, <1>12, <4>1
        <5>3. t0[n].kids \in Seq(Numbers)
          BY <1>0, NodeParts
        <5> QED
          BY <3>1, <5>1, <5>2, <5>3, WithoutTwice
      <4>2. CASE n # q
        <5>1. {x \in s \union {p} : t0[x].parent = n} = {x \in s : t0[x].parent = n}
          BY <3>2, <4>2
        <5>2. u[n].kids = t[n].kids
          BY <1>0, <1>5, <1>12, <2>1, <4>2
        <5> QED
          BY <3>1, <5>1, <5>2
      <4> QED
        BY <4>1, <4>2
    <3> QED
      BY <1>9, <1>12, <2>1, <3>1, <3>3
  <2> QED
    BY <1>12, <2>1, <2>2 DEF Unlinked
<1>15. u = Unlink(p, t)
  BY DEF Unlink, u, w, q
<1> QED
  BY <1>13, <1>14, <1>15

UnlinkFold(g, t, S) ==
    g = [s \in SUBSET S |-> IF s = {} THEN t
                            ELSE Unlink(CHOOSE x \in s : TRUE, g[s \ {CHOOSE x \in s : TRUE}])]

\* Induction over the subsets of S, H holding what is shown of them.
LEMMA SubsetInduction ==
    \A S, H : /\ IsFiniteSet(S) /\ {} \in H
              /\ \A T \in SUBSET S : T # {} => \E x \in T : T \ {x} \in H => T \in H
             => SUBSET S \subseteq H
BY SetInduction

LEMMA DeletedShape ==
    ASSUME PageTreeFiles, NEW b \in Bases, NEW t, Shape(b, t), NEW S \in SUBSET ToSet(Leaves(b))
    PROVE  Shape(b, FoldSet(Unlink, t, S)) /\ Unlinked(t, FoldSet(Unlink, t, S), S)
<1> DEFINE V == {u \in Trees : Shape(b, u)}
           pick == [s \in SUBSET S |-> CHOOSE x \in s : TRUE]
           step == [a \in S \X V |-> Unlink(a[1], a[2])]
<1>1. t \in V /\ t \in Trees
  BY DEF Shape
<1>2. IsFiniteSet(S)
  <2>1. ToSet(Leaves(b)) \subseteq Numbers
    <3>1. Leaves(b) \in Seq(Numbers)
      BY FileShape, LeavesArePages
    <3> QED
      BY <3>1 DEF ToSet
  <2> QED
    BY <2>1, FS_Subset DEF PageTreeFiles
<1>3. \A s \in SUBSET S : s # {} => pick[s] \in s
  OBVIOUS
<1>4. ASSUME NEW p \in S, NEW u \in V PROVE Unlink(p, u) \in V
  <2>1. Shape(b, u) /\ u \in Trees
    OBVIOUS
  <2>2. Unlinked(u, u, {})
    BY <2>1, UnlinkedNone
  <2>3. Shape(b, Unlink(p, u))
    BY <2>1, <2>2, UnlinkStep
  <2> QED
    BY <2>3 DEF Shape
<1>5. step \in [S \X V -> V] /\ \A p \in S : \A u \in V : step[<<p, u>>] = Unlink(p, u)
  <2> HIDE DEF V
  <2> QED
    BY <1>4
<1>6. PICK g \in [SUBSET S -> V] : Folds(g, S, t, pick, step)
  <2>1. step \in [S \X V -> V]
    BY <1>5
  <2> HIDE DEF V, pick, step
  <2> QED
    BY <1>1, <1>2, <1>3, <2>1, FoldExists
<1>7. UnlinkFold(g, t, S)
  <2>1. g = [s \in SUBSET S |-> g[s]]
    BY <1>6
  <2>2. ASSUME NEW s \in SUBSET S
        PROVE  g[s] = IF s = {} THEN t
                      ELSE Unlink(CHOOSE x \in s : TRUE, g[s \ {CHOOSE x \in s : TRUE}])
    <3>1. g[s] = IF s = {} THEN t ELSE step[<<pick[s], g[s \ {pick[s]}]>>]
      <4> HIDE DEF V, pick, step
      <4> QED
        BY <1>6 DEF Folds
    <3>2. CASE s # {}
      <4>1. pick[s] \in S /\ g[s \ {pick[s]}] \in V
        BY <1>3, <1>6, <3>2
      <4>2. g[s] = Unlink(pick[s], g[s \ {pick[s]}])
        <5> HIDE DEF V, pick, step
        <5> QED
          BY <1>5, <3>1, <3>2, <4>1
      <4> QED
        BY <3>2, <4>2
    <3> QED
      BY <3>1, <3>2
  <2> QED
    BY <2>1, <2>2, Zenon DEF UnlinkFold
<1>8. PICK v : v = CHOOSE u : UnlinkFold(u, t, S)
  OBVIOUS
<1>9. UnlinkFold(v, t, S)
  BY <1>7, <1>8
<1>10. FoldSet(Unlink, t, S) = v[S]
  BY <1>8 DEF FoldSet, MapThenFoldSet, UnlinkFold
<1>11. \A s \in SUBSET S : v[s] = IF s = {} THEN t
                                  ELSE Unlink(CHOOSE x \in s : TRUE, v[s \ {CHOOSE x \in s : TRUE}])
  BY <1>9, Zenon DEF UnlinkFold
<1> DEFINE G == {s \in SUBSET S : Shape(b, v[s]) /\ Unlinked(t, v[s], s)}
<1>12. {} \in G
  BY <1>1, <1>11, UnlinkedNone
<1>13. ASSUME NEW T \in SUBSET S, T # {} PROVE \E x \in T : T \ {x} \in G => T \in G
  <2>1. PICK x \in T : x = CHOOSE y \in T : TRUE
    BY <1>13
  <2>2. v[T] = Unlink(x, v[T \ {x}])
    BY <1>11, <1>13, <2>1
  <2>3. ASSUME T \ {x} \in G PROVE T \in G
    <3>1. Shape(b, v[T \ {x}]) /\ Unlinked(t, v[T \ {x}], T \ {x})
      BY <2>3
    <3>2. Shape(b, v[T]) /\ Unlinked(t, v[T], (T \ {x}) \union {x})
      BY <2>2, <3>1, UnlinkStep
    <3>3. (T \ {x}) \union {x} = T
      OBVIOUS
    <3> QED
      BY <3>2, <3>3
  <2> QED
    BY <2>3
<1>14. SUBSET S \subseteq G
  <2>1. \A H : /\ IsFiniteSet(S) /\ {} \in H
               /\ \A T \in SUBSET S : T # {} => \E x \in T : T \ {x} \in H => T \in H
               => SUBSET S \subseteq H
    <3> HIDE DEF G, V, pick, step
    <3> QED
      BY SubsetInduction, Zenon
  <2>2. \A T \in SUBSET S : T # {} => \E x \in T : T \ {x} \in G => T \in G
    <3> HIDE DEF G, V, pick, step
    <3> QED
      BY <1>13
  <2> HIDE DEF G, V, pick, step
  <2>3. PICK H : H = G
    OBVIOUS
  <2>4. SUBSET S \subseteq H
    BY <1>2, <1>12, <2>1, <2>2, <2>3
  <2> QED
    BY <2>3, <2>4
<1> QED
  BY <1>10, <1>14

\* What stays of the leaves is what stays under each branch.
LEMMA DeletedLeaves ==
    ASSUME PageTreeFiles, NEW b \in Bases, NEW t, Shape(b, t), NEW R, Reach(R, t),
           NEW S \in SUBSET ToSet(Leaves(b)), NEW u, Shape(b, u), Unlinked(t, u, S)
    PROVE  Reach(R, u) /\ Leaves(u) = Without(Leaves(t), S)
<1>0. /\ Root \in Numbers /\ Root \in R /\ t \in Trees /\ u \in Trees /\ R \subseteq InUse(t)
      /\ InUse(u) = InUse(t) /\ InUse(t) \subseteq Numbers
  BY DEF PageTreeFiles, Reach, Shape, Unlinked, InUse
<1>1. \A p \in S : p \in InUse(t) /\ t[p].type = "Page"
  BY FilePages
<1>2. Root \notin S
  <2>1. Root \in InUse(b) /\ b[Root].type = "Pages"
    BY FileShape DEF Branches, InUse
  <2>2. t[Root].type = "Pages"
    BY <2>1 DEF Shape
  <2> QED
    BY <1>1, <2>2
<1> DEFINE gone(n) == {p \in S : t[p].parent = n}
<1>3. \A n \in InUse(t) : /\ u[n].type = t[n].type /\ u[n].parent = t[n].parent
                          /\ u[n].kids = Without(t[n].kids, gone(n))
                          /\ t[n].kids \in Seq(Numbers) /\ u[n].kids \in Seq(Numbers)
                          /\ ToSet(u[n].kids) \subseteq ToSet(t[n].kids)
  <2>1. \A n \in InUse(t) : t[n].kids \in Seq(Numbers) /\ u[n].kids \in Seq(Numbers)
    BY <1>0, NodeParts
  <2>2. \A n \in InUse(t) : u[n].type = t[n].type /\ u[n].parent = t[n].parent
                            /\ u[n].kids = Without(t[n].kids, gone(n))
    BY DEF Unlinked
  <2> HIDE DEF gone
  <2> QED
    BY <2>1, <2>2, WithoutIs
<1>4. Reach(R, u)
  <2>1. \A n \in R : \A k \in ToSet(t[n].kids) : k \in R /\ t[k].parent = n
    BY DEF Reach
  <2> QED
    BY <1>0, <1>3, <2>1 DEF Reach
<1>5. PICK N \in Nat : \E r : Heights(r, N, b)
  BY HeightsExist
<1>6. PICK r : Heights(r, N, b)
  BY <1>5
<1>7. PICK f : Under(f, t)
  BY <1>6, UnderExists
<1>8. PICK g : Under(g, u)
  BY <1>6, UnderExists
<1>9. Leaves(t) = f[Root] /\ Leaves(u) = g[Root]
  BY <1>0, <1>6, <1>7, <1>8, UnderIsLeaves
<1>10. f \in [Numbers -> Seq(Numbers)] /\ g \in [Numbers -> Seq(Numbers)] /\ r \in [Numbers -> Nat]
  BY <1>6, <1>7, <1>8 DEF Under, Heights
<1> DEFINE K == Keeping(S)
           hf == [k \in Numbers |-> Bind(f[k], K)]
           hg == [k \in Numbers |-> Bind(K[k], g)]
<1>11. K \in [Numbers -> Seq(Numbers)] /\ \A k \in Numbers : K[k] = IF k \in S THEN <<>> ELSE <<k>>
  BY KeepingType
<1>12. \A k \in Numbers : hf[k] = Without(f[k], S) /\ hf[k] \in Seq(Numbers) /\ hf[k] = Bind(f[k], K)
  BY <1>10, WithoutIs
<1>13. \A k \in Numbers : hg[k] = IF k \in S THEN <<>> ELSE g[k]
  <2>1. BoundLeft(g, Numbers, Numbers)
    BY <1>10, BindOne
  <2>2. Bind(<<>>, g) = <<>>
    BY <2>1 DEF BoundLeft
  <2>3. g \in [Numbers -> Seq(Numbers)]
    BY <1>10
  <2>4. \A k \in Numbers : Bind(<<k>>, g) = g[k]
    BY <2>3, BindSingle
  <2>5. \A k \in Numbers : hg[k] = Bind(K[k], g)
    OBVIOUS
  <2> HIDE DEF K, hg
  <2> QED
    BY <1>11, <2>2, <2>4, <2>5
<1>14. \A k \in Numbers : hg[k] = Bind(K[k], g) /\ hg[k] \in Seq(Numbers)
  <2>1. \A k \in Numbers : hg[k] = Bind(K[k], g)
    OBVIOUS
  <2>2. \A k \in Numbers : <<>> \in Seq(Numbers) /\ g[k] \in Seq(Numbers)
    BY <1>10
  <2> HIDE DEF K, hg
  <2> QED
    BY <1>13, <2>1, <2>2
<1>15. Composed(hf, f, K, Numbers, Numbers, Numbers) /\ Composed(hg, K, g, Numbers, Numbers, Numbers)
  <2>1. hf = [k \in Numbers |-> hf[k]] /\ hg = [k \in Numbers |-> hg[k]]
    OBVIOUS
  <2> HIDE DEF K, hf, hg
  <2>2. hf \in [Numbers -> Seq(Numbers)]
    BY <1>12, <2>1
  <2>3. hg \in [Numbers -> Seq(Numbers)]
    BY <1>14, <2>1
  <2>4. f \in [Numbers -> Seq(Numbers)]
    BY <1>10
  <2>5. g \in [Numbers -> Seq(Numbers)]
    BY <1>10
  <2>6. K \in [Numbers -> Seq(Numbers)]
    BY <1>11
  <2>7. \A k \in Numbers : hf[k] = Bind(f[k], K)
    BY <1>12
  <2>8. \A k \in Numbers : hg[k] = Bind(K[k], g)
    BY <1>14
  <2> QED
    BY <2>2, <2>3, <2>4, <2>5, <2>6, <2>7, <2>8 DEF Composed
<1> HIDE DEF hf, hg
<1> DEFINE Fit(n) == n \in R /\ n \notin S => g[n] = Without(f[n], S)
           G == {n \in Numbers : Fit(n)}
<1>16. ASSUME NEW n \in Numbers, \A k \in Numbers : r[k] < r[n] => k \in G
       PROVE  n \in G
  <2>1. SUFFICES ASSUME n \in R, n \notin S PROVE g[n] = Without(f[n], S)
    OBVIOUS
  <2>2. n \in InUse(t)
    BY <1>0, <2>1
  <2>3. CASE t[n].type = "Page"
    <3>1. f[n] = <<n>> /\ g[n] = <<n>>
      BY <1>0, <1>3, <1>7, <1>8, <2>2, <2>3 DEF Under
    <3>2. \A k \in ToSet(<<n>>) : K[k] = <<k>>
      <4>1. ToSet(<<n>>) = {n}
        BY DEF ToSet
      <4> QED
        BY <1>11, <2>1, <4>1
    <3>3. <<n>> \in Seq(Numbers)
      OBVIOUS
    <3>4. Bind(<<n>>, K) = <<n>>
      BY <3>2, <3>3, BindSelf
    <3> QED
      BY <3>1, <3>3, <3>4, WithoutIs
  <2>4. CASE t[n].type # "Page"
    <3>1. f[n] = Bind(t[n].kids, f) /\ g[n] = Bind(u[n].kids, g) /\ t[n].kids \in Seq(Numbers)
      BY <1>0, <1>3, <1>7, <1>8, <2>2, <2>4 DEF Under
    <3>2. \A k \in ToSet(t[n].kids) : k \in R /\ t[k].parent = n
      BY <2>1 DEF Reach
    <3>3. Without(t[n].kids, gone(n)) = Without(t[n].kids, S)
      <4>1. \A i \in DOMAIN t[n].kids : t[n].kids[i] \in gone(n) <=> t[n].kids[i] \in S
        BY <3>2 DEF ToSet
      <4>2. [i \in DOMAIN t[n].kids |-> IF t[n].kids[i] \in gone(n) THEN <<>> ELSE <<t[n].kids[i]>>]
            = [i \in DOMAIN t[n].kids |-> IF t[n].kids[i] \in S THEN <<>> ELSE <<t[n].kids[i]>>]
        BY <4>1
      <4> QED
        BY <4>2 DEF Without
    <3>4. u[n].kids = Bind(t[n].kids, K)
      BY <1>3, <2>2, <3>1, <3>3, WithoutIs
    <3>5. g[n] = Bind(t[n].kids, hg)
      BY <1>15, <3>1, <3>4, BindBind
    <3>6. Without(f[n], S) = Bind(t[n].kids, hf)
      <4>1. f[n] \in Seq(Numbers)
        BY <1>10
      <4>2. Without(f[n], S) = Bind(f[n], K)
        BY <4>1, WithoutIs
      <4> QED
        BY <1>15, <3>1, <4>2, BindBind
    <3>7. ASSUME NEW k \in ToSet(t[n].kids) PROVE hg[k] = hf[k]
      <4>1. k \in Numbers /\ k \in R /\ r[k] < r[n]
        BY <1>6, <2>2, <3>2, KidsLower
      <4>2. CASE k \in S
        <5>1. f[k] = <<k>>
          BY <1>1, <1>7, <4>2 DEF Under
        <5>2. Bind(<<k>>, K) = K[k]
          <6>1. K \in [Numbers -> Seq(Numbers)]
            BY <1>11
          <6> HIDE DEF K
          <6> QED
            BY <4>1, <6>1, BindSingle
        <5>3. hf[k] = Bind(f[k], K) /\ hg[k] = <<>> /\ K[k] = <<>>
          BY <1>11, <1>12, <1>13, <4>1, <4>2
        <5> QED
          BY <5>1, <5>2, <5>3
      <4>3. CASE k \notin S
        <5>1. g[k] = Without(f[k], S)
          BY <1>16, <4>1, <4>3
        <5> QED
          BY <1>12, <1>13, <4>1, <4>3, <5>1
      <4> QED
        BY <4>2, <4>3
    <3>8. Bind(t[n].kids, hg) = Bind(t[n].kids, hf)
      BY <3>7, BindSame
    <3> QED
      BY <3>5, <3>6, <3>8
  <2> QED
    BY <2>3, <2>4
<1>17. Numbers \subseteq G
  <2>1. r \in [Numbers -> Nat]
    BY <1>10
  <2> HIDE DEF G
  <2> QED
    BY <1>16, <2>1, RankInduction
<1> QED
  BY <1>0, <1>2, <1>4, <1>9, <1>17

LEMMA DeletedListing ==
    ASSUME PageTreeFiles, NEW b \in Bases, NEW t, Shape(b, t), NEW R, Reach(R, t),
           NEW S \in SUBSET ToSet(Leaves(b)), NEW u, Shape(b, u), Unlinked(t, u, S)
    PROVE  Listing(u) = FlattenSeq([i \in DOMAIN Listing(t) |->
                           IF Listing(t)[i].page \in S THEN <<>> ELSE <<Listing(t)[i]>>])
<1>1. PICK h : Turning(h, b)
  BY HeightsExist, TurningExists
<1>2. PICK L \in Seq(Numbers) : L = Leaves(t)
  BY LeavesArePages
<1>3. Reach(R, u) /\ Leaves(u) = Without(L, S)
  BY <1>2, DeletedLeaves
<1>4. Listing(t) = Rows(h, t, L) /\ Listing(u) = Rows(h, u, Without(L, S))
  BY <1>1, <1>2, <1>3, ListingIs
<1>5. \A p \in ToSet(L) : p \in InUse(t)
  BY <1>2, LeavesArePages
<1>6. ToSet(Without(L, S)) \subseteq ToSet(L)
  BY WithoutIs
<1>7. Rows(h, u, Without(L, S)) = Rows(h, t, Without(L, S))
  <2>1. \A i \in DOMAIN Without(L, S) : Without(L, S)[i] \in InUse(t)
    BY <1>5, <1>6 DEF ToSet
  <2>2. \A p \in InUse(t) : Row(h, u, p) = Row(h, t, p)
    BY DEF Row, TurnOf, Unlinked
  <2> QED
    BY <2>1, <2>2 DEF Rows
<1> DEFINE V == {Row(h, t, n) : n \in Numbers}
           K == Keeping(S)
           k2 == [n \in Numbers |-> IF n \in S THEN <<>> ELSE <<Row(h, t, n)>>]
           G == {s \in Seq(Numbers) : Rows(h, t, Bind(s, K)) = Bind(s, k2)}
<1>8. k2 \in [Numbers -> Seq(V)]
  <2>1. \A n \in Numbers : <<>> \in Seq(V) /\ <<Row(h, t, n)>> \in Seq(V)
    OBVIOUS
  <2> HIDE DEF V
  <2> QED
    BY <2>1
<1>9. BoundLeft(k2, Numbers, V) /\ BoundLeft(K, Numbers, Numbers)
  <2>1. K \in [Numbers -> Seq(Numbers)]
    BY KeepingType
  <2> HIDE DEF V, k2, K
  <2> QED
    BY <1>8, <2>1, BindOne
<1>10. \A n \in Numbers : /\ k2[n] = IF n \in S THEN <<>> ELSE <<Row(h, t, n)>>
                          /\ K[n] = IF n \in S THEN <<>> ELSE <<n>>
  BY KeepingType
<1>11. Rows(h, t, <<>>) = <<>>
  BY DEF Rows
<1>12. ASSUME NEW n \in Numbers PROVE K[n] \in Seq(Numbers) /\ Rows(h, t, K[n]) = k2[n]
  <2>1. Rows(h, t, <<n>>) = <<Row(h, t, n)>>
    BY DEF Rows
  <2>2. <<>> \in Seq(Numbers) /\ <<n>> \in Seq(Numbers)
    OBVIOUS
  <2> HIDE DEF K, k2
  <2> QED
    BY <1>10, <1>11, <2>1, <2>2
<1> HIDE DEF V, K, k2
<1>13. <<>> \in G
  BY <1>9, <1>11 DEF BoundLeft
<1>14. ASSUME NEW s \in Seq(Numbers), NEW n \in Numbers, s \in G PROVE Append(s, n) \in G
  <2>1. Rows(h, t, Bind(s, K)) = Bind(s, k2)
    BY <1>14
  <2>2. Bind(Append(s, n), K) = Bind(s, K) \o K[n] /\ Bind(s, K) \in Seq(Numbers)
    BY <1>9 DEF BoundLeft
  <2>3. Bind(Append(s, n), k2) = Bind(s, k2) \o k2[n]
    BY <1>9 DEF BoundLeft
  <2>4. PICK P \in Seq(Numbers) : P = Bind(s, K)
    BY <2>2
  <2>5. PICK Q \in Seq(Numbers) : Q = K[n]
    BY <1>12
  <2>6. Rows(h, t, P \o Q) = Rows(h, t, P) \o Rows(h, t, Q)
    BY RowsConcat
  <2>7. Rows(h, t, Bind(Append(s, n), K)) = Bind(Append(s, n), k2)
    BY <1>12, <2>1, <2>2, <2>3, <2>4, <2>5, <2>6
  <2>8. Append(s, n) \in Seq(Numbers)
    BY AppendProperties
  <2> QED
    BY <2>7, <2>8
<1>15. Seq(Numbers) \subseteq G
  <2> HIDE DEF G
  <2> QED
    BY <1>13, <1>14, SeqInduction
<1>16. Rows(h, t, Without(L, S)) = Bind(L, k2)
  <2>1. Without(L, S) = Bind(L, K)
    BY WithoutIs DEF K
  <2> QED
    BY <1>15, <2>1
<1>17. Bind(L, k2) = FlattenSeq([i \in DOMAIN Listing(t) |->
                         IF Listing(t)[i].page \in S THEN <<>> ELSE <<Listing(t)[i]>>])
  <2>1. DOMAIN Listing(t) = DOMAIN L /\ \A i \in DOMAIN L : Listing(t)[i] = Row(h, t, L[i])
    BY <1>4 DEF Rows
  <2>2. \A n \in Numbers : Row(h, t, n).page = n
    BY DEF Row
  <2>3. \A i \in DOMAIN L : L[i] \in Numbers
    OBVIOUS
  <2>4. \A i \in DOMAIN L : k2[L[i]] = IF Listing(t)[i].page \in S THEN <<>> ELSE <<Listing(t)[i]>>
    <3>1. TAKE i \in DOMAIN L
    <3>2. PICK n \in Numbers : n = L[i]
      BY <2>3
    <3>3. Listing(t)[i] = Row(h, t, n)
      BY <2>1, <3>2
    <3>4. Listing(t)[i].page = n
      BY <2>2, <3>3
    <3>5. k2[n] = IF n \in S THEN <<>> ELSE <<Row(h, t, n)>>
      BY <1>10
    <3> QED
      BY <3>2, <3>3, <3>4, <3>5
  <2>5. [i \in DOMAIN L |-> k2[L[i]]] = [i \in DOMAIN Listing(t) |->
                         IF Listing(t)[i].page \in S THEN <<>> ELSE <<Listing(t)[i]>>]
    BY <2>1, <2>4
  <2> QED
    BY <2>5 DEF Bind
<1> QED
  BY <1>4, <1>7, <1>16, <1>17

----------------------------------------------------------------------------
(* The inductive invariant, and what each call keeps of it.                *)

\* The overlay has the file's shape, its root leads to nodes each of which
\* names the one that lists it, and the numbers in use are the first.
Inv ==
    /\ base \in Bases
    /\ Shape(base, tree)
    /\ \E R \in SUBSET Numbers : Reach(R, tree)
    /\ nextNum \in Nat /\ \A n \in Numbers : n < nextNum <=> tree[n] # Free
    /\ calls \in 0..MaxCalls

Step == Inv' /\ List!Next

\* A sequence falls in two at any place.
LEMMA SplitAt ==
    ASSUME NEW D, NEW s \in Seq(D), NEW k \in 0..Len(s)
    PROVE  /\ SubSeq(s, 1, k) \in Seq(D) /\ SubSeq(s, k + 1, Len(s)) \in Seq(D)
           /\ SubSeq(s, 1, k) \o SubSeq(s, k + 1, Len(s)) = s
<1>1. k \in Int /\ Len(s) \in Nat /\ \A i \in 1..Len(s) : s[i] \in D
  BY ElementOfSeq, LenProperties
<1>2. /\ SubSeq(s, 1, k) \in Seq(D) /\ Len(SubSeq(s, 1, k)) = k
      /\ \A i \in 1..k : SubSeq(s, 1, k)[i] = s[i]
  BY <1>1, SubSeqProperties
<1>3. /\ SubSeq(s, k + 1, Len(s)) \in Seq(D) /\ Len(SubSeq(s, k + 1, Len(s))) = Len(s) - k
      /\ \A i \in 1..(Len(s) - k) : SubSeq(s, k + 1, Len(s))[i] = s[k + i]
  BY <1>1, SubSeqProperties
<1>4. PICK X \in Seq(D) : X = SubSeq(s, 1, k)
  BY <1>2
<1>5. PICK Y \in Seq(D) : Y = SubSeq(s, k + 1, Len(s))
  BY <1>3
<1>6. /\ X \o Y \in Seq(D) /\ Len(X \o Y) = Len(X) + Len(Y)
      /\ \A i \in 1..(Len(X) + Len(Y)) : (X \o Y)[i] = IF i <= Len(X) THEN X[i] ELSE Y[i - Len(X)]
  BY ConcatProperties
<1>7. Len(X \o Y) = Len(s) /\ \A i \in 1..Len(s) : (X \o Y)[i] = s[i]
  <2>1. Len(X) = k /\ Len(Y) = Len(s) - k /\ k <= Len(s)
    BY <1>1, <1>2, <1>3, <1>4, <1>5
  <2>2. Len(X \o Y) = Len(s)
    BY <1>1, <1>6, <2>1
  <2>3. ASSUME NEW i \in 1..Len(s) PROVE (X \o Y)[i] = s[i]
    <3>1. (X \o Y)[i] = IF i <= k THEN X[i] ELSE Y[i - k]
      BY <1>1, <1>6, <2>1
    <3>2. CASE i <= k
      <4>1. X[i] = s[i]
        BY <1>2, <1>4, <3>2
      <4> QED
        BY <3>1, <3>2, <4>1
    <3>3. CASE i > k
      <4>1. i - k \in 1..(Len(s) - k) /\ k + (i - k) = i
        BY <1>1, <3>3
      <4>2. Y[i - k] = s[i]
        BY <1>3, <1>5, <4>1
      <4> QED
        BY <3>1, <3>3, <4>2
    <3>4. i <= k \/ i > k
      BY <1>1
    <3> QED
      BY <3>2, <3>3, <3>4
  <2> QED
    BY <2>2, <2>3
<1>8. PICK Z \in Seq(D) : Z = X \o Y
  BY <1>6
<1>9. Z = s
  BY <1>7, <1>8, SeqEqual
<1> QED
  BY <1>2, <1>3, <1>4, <1>5, <1>8, <1>9

\* Calls that make no object keep the invariant when they keep the shape.
LEMMA KeepsInv ==
    ASSUME MaxCalls \in Nat, Inv, NEW c, Called(c), nextNum' = nextNum, Shape(base, tree'),
           NEW R, Reach(R, tree'), InUse(tree') = InUse(tree)
    PROVE  Inv'
<1>1. base' = base /\ base' \in Bases /\ Shape(base', tree')
  BY DEF Inv, Called
<1>2. R \in SUBSET Numbers
  BY DEF Reach, InUse
<1>3. \A n \in Numbers : n < nextNum' <=> tree'[n] # Free
  BY DEF Inv, InUse
<1>4. calls' \in 0..MaxCalls
  BY DEF Inv, Called
<1> QED
  BY <1>1, <1>2, <1>3, <1>4 DEF Inv

\* PageList flattens as PageEdits does.
LEMMA FlattenedAlike == ASSUME NEW s PROVE List!FlattenSeq(s) = FlattenSeq(s)
BY DEF FlattenSeq, List!FlattenSeq

\* unlink() of the pages the call names.
LEMMA DeleteKeeps ==
    ASSUME PageTreeFiles, MaxCalls \in Nat, Inv, DeletePages
    PROVE  Step
<1>1. PICK S \in SUBSET ToSet(Leaves(base)) :
            /\ tree' = FoldSet(Unlink, tree, S) /\ Called([op |-> "delete", pages |-> S])
            /\ nextNum' = nextNum
  BY DEF DeletePages
<1>2. base \in Bases /\ Shape(base, tree)
  BY DEF Inv
<1>3. PICK R : Reach(R, tree)
  BY DEF Inv
<1>4. Shape(base, tree') /\ Unlinked(tree, tree', S)
  BY <1>1, <1>2, DeletedShape
<1>5. Reach(R, tree')
  BY <1>2, <1>3, <1>4, DeletedLeaves
<1>6. Listing(tree') = FlattenSeq([i \in DOMAIN Listing(tree) |->
                          IF Listing(tree)[i].page \in S THEN <<>> ELSE <<Listing(tree)[i]>>])
  BY <1>2, <1>3, <1>4, DeletedListing
<1>7. Inv'
  BY <1>1, <1>4, <1>5, KeepsInv DEF Unlinked
<1>8. call'.op = "delete" /\ call'.pages = S /\ base' = base
  BY <1>1 DEF Called
<1>9. List!Delete
  <2>1. Listing(tree') = FlattenSeq([i \in DOMAIN Listing(tree) |->
                            IF Listing(tree)[i].page \in call'.pages THEN <<>>
                            ELSE <<Listing(tree)[i]>>])
    BY <1>6, <1>8
  <2> QED
    BY <1>8, <2>1, FlattenedAlike DEF List!Delete
<1> QED
  BY <1>7, <1>8, <1>9 DEF Step, List!Next

\* set_page_rotation().
LEMMA TurnKeeps ==
    ASSUME PageTreeFiles, MaxCalls \in Nat, Inv, SetPageRotation
    PROVE  Step
<1>1. PICK p \in ToSet(Leaves(base)), v \in Turns :
            /\ tree' = Turned(tree, p, v) /\ Called([op |-> "turn", page |-> p, turn |-> v])
            /\ nextNum' = nextNum
  BY DEF SetPageRotation, Turned
<1>2. base \in Bases /\ Shape(base, tree)
  BY DEF Inv
<1>3. PICK R : Reach(R, tree)
  BY DEF Inv
<1>4. /\ Shape(base, tree') /\ Reach(R, tree') /\ InUse(tree') = InUse(tree)
      /\ Listing(tree') = [i \in DOMAIN Listing(tree) |->
                              IF Listing(tree)[i].page = p THEN [Listing(tree)[i] EXCEPT !.turn = v]
                              ELSE Listing(tree)[i]]
  BY <1>1, <1>2, <1>3, TurnedKeeps
<1>5. Inv'
  BY <1>1, <1>4, KeepsInv
<1>6. call'.op = "turn" /\ call'.page = p /\ call'.turn = v /\ base' = base
  BY <1>1 DEF Called
<1>7. List!Turn
  BY <1>4, <1>6 DEF List!Turn
<1> QED
  BY <1>5, <1>6, <1>7 DEF Step, List!Next

\* reorder_pages().
LEMMA ReorderKeeps ==
    ASSUME PageTreeFiles, MaxCalls \in Nat, Inv, ReorderPages
    PROVE  Step
<1>1. PICK order \in [DOMAIN Leaves(base) -> DOMAIN Leaves(base)] :
            /\ tree' = Reordered(order) /\ Called([op |-> "reorder", order |-> order])
            /\ nextNum' = nextNum
  BY DEF ReorderPages
<1>2. base \in Bases /\ Shape(base, tree)
  BY DEF Inv
<1>3. /\ Shape(base, tree') /\ (\E R : Reach(R, tree')) /\ InUse(tree') = InUse(tree)
      /\ Listing(tree') = [i \in DOMAIN Listing(base) |-> Listing(base)[order[i]]]
  BY <1>1, <1>2, ReorderedKeeps
<1>4. PICK R : Reach(R, tree')
  BY <1>3
<1>5. Inv'
  BY <1>1, <1>3, <1>4, KeepsInv
<1>6. call'.op = "reorder" /\ call'.order = order /\ base' = base
  BY <1>1 DEF Called
<1>7. List!Reorder
  BY <1>3, <1>6 DEF List!Reorder
<1> QED
  BY <1>5, <1>6, <1>7 DEF Step, List!Next

\* New pages, under the root at the place asked for.
LEMMA AddKeeps ==
    ASSUME PageTreeFiles, MaxCalls \in Nat, Inv, NEW count \in Nat,
           NEW v \in Turns \union {None}, NEW i \in Nat, AddPages(count, v, i)
    PROVE  Step
<1> DEFINE new  == [k \in 1..count |-> nextNum + k - 1]
           t    == Grown(tree, new, v)
           kids == tree[Root].kids
           rows == [k \in DOMAIN new |-> [page |-> new[k], turn |-> Inherited(t, new[k])]]
<1>1. /\ ToSet(new) \subseteq Numbers /\ tree' = Inserted(t, new, i) /\ nextNum' = nextNum + count
      /\ Called([op |-> "add", pages |-> rows])
  BY DEF AddPages, Grown, NewPage
<1>2. base \in Bases /\ Shape(base, tree) /\ nextNum \in Nat /\ \A n \in Numbers : n < nextNum <=> tree[n] # Free
  BY DEF Inv
<1>3. PICK R : Reach(R, tree)
  BY DEF Inv
<1>4. new \in Seq(Numbers) /\ ToSet(new) = {nextNum + k - 1 : k \in 1..count}
  <2>1. ToSet(new) = {nextNum + k - 1 : k \in 1..count}
    BY DEF ToSet
  <2>2. \A k \in 1..count : nextNum + k - 1 \in Numbers
    BY <1>1, <2>1
  <2> QED
    BY <2>1, <2>2
<1>5. ToSet(new) \intersect InUse(tree) = {}
  BY <1>2, <1>4 DEF InUse
<1>6. /\ kids \in Seq(Numbers) /\ Root \in Numbers /\ tree[Root] \in Node /\ Root \notin ToSet(new)
  <2>1. Root \in InUse(tree) /\ tree \in Trees
    BY <1>2, FileShape DEF Shape, Branches, InUse
  <2> QED
    BY <1>5, <2>1, NodeParts
<1>7. PICK k \in 0..Len(kids) : k = IF i < Len(kids) THEN i ELSE Len(kids)
  BY <1>6
<1> DEFINE A == SubSeq(kids, 1, k)
           B == SubSeq(kids, k + 1, Len(kids))
<1>8. A \in Seq(Numbers) /\ B \in Seq(Numbers) /\ A \o B = kids
  <2> HIDE DEF kids
  <2> QED
    BY <1>6, SplitAt
<1>9. t[Root] = tree[Root]
  BY <1>6 DEF Grown
<1>10. Inserts(tree', tree, new, v, A, B)
  <2>1. Len(kids) + Len(new) \in Nat
    BY <1>4, <1>6
  <2>2. tree' = [t EXCEPT ![Root].kids = A \o new \o B, ![Root].count = Len(kids) + Len(new)]
    BY <1>1, <1>7, <1>9 DEF Inserted
  <2> HIDE DEF new, kids, A, B
  <2> QED
    BY <1>8, <2>1, <2>2 DEF Inserts, kids
<1> HIDE DEF new, t, kids, A, B
<1>11. Inserting(base, tree, R, v, new, A, B, tree')
  BY <1>2, <1>3, <1>4, <1>5, <1>8, <1>10 DEF Inserting
<1>12. /\ Shape(base, tree') /\ Reach(R \union ToSet(new), tree')
       /\ InUse(tree') = InUse(tree) \union ToSet(new)
  <2>1. InsertedInto(base, tree, R, v, new, A, B, tree')
    BY <1>11, InsertedShape
  <2> QED
    BY <2>1 DEF InsertedInto
<1>13. Inv'
  <2>1. base' = base /\ base' \in Bases /\ Shape(base', tree')
    BY <1>1, <1>2, <1>12 DEF Called
  <2>2. R \union ToSet(new) \in SUBSET Numbers
    BY <1>12 DEF Reach, InUse
  <2>3. ASSUME NEW n \in Numbers PROVE n < nextNum' <=> tree'[n] # Free
    <3>1. n \in Nat /\ nextNum' = nextNum + count
      BY <1>1 DEF PageTreeFiles
    <3>2. n \in ToSet(new) <=> nextNum <= n /\ n < nextNum + count
      <4>1. ASSUME nextNum <= n, n < nextNum + count PROVE n \in ToSet(new)
        <5>1. n - nextNum + 1 \in 1..count /\ n = nextNum + (n - nextNum + 1) - 1
          BY <1>2, <3>1, <4>1
        <5> QED
          BY <1>4, <5>1
      <4>2. ASSUME n \in ToSet(new) PROVE nextNum <= n /\ n < nextNum + count
        BY <1>2, <1>4, <4>2
      <4> QED
        BY <4>1, <4>2
    <3>3. tree'[n] # Free <=> (tree[n] # Free \/ n \in ToSet(new))
      BY <1>12 DEF InUse
    <3> QED
      BY <1>2, <3>1, <3>2, <3>3
  <2>4. calls' \in 0..MaxCalls
    BY <1>1 DEF Inv, Called
  <2>5. nextNum' \in Nat
    BY <1>1, <1>2
  <2> QED
    BY <1>12, <2>1, <2>2, <2>3, <2>4, <2>5 DEF Inv
<1>14. \E j \in 0..Len(Listing(tree)) :
          Listing(tree') = SubSeq(Listing(tree), 1, j) \o rows
                               \o SubSeq(Listing(tree), j + 1, Len(Listing(tree)))
  <2>1. ListingPut(tree, tree', new, v)
    BY <1>11, InsertedListing
  <2> QED
    BY <2>1 DEF ListingPut, t
<1>15. call'.op = "add" /\ call'.pages = rows /\ base' = base
  BY <1>1 DEF Called
<1>16. List!Add
  BY <1>14, <1>15 DEF List!Add
<1> QED
  BY <1>13, <1>15, <1>16 DEF Step, List!Next

LEMMA NextKeeps ==
    ASSUME PageTreeFiles, MaxCalls \in Nat, Inv, Next
    PROVE  Step
<1>1. CASE AddBlankPage \/ ImportPages
  <2>1. Places \subseteq Nat
    BY DEF Places
  <2>2. \E count \in Nat, v \in Turns \union {None}, i \in Nat : AddPages(count, v, i)
    BY <1>1, <2>1 DEF AddBlankPage, ImportPages
  <2> QED
    BY <2>2, AddKeeps
<1>2. CASE DeletePages
  BY <1>2, DeleteKeeps
<1>3. CASE SetPageRotation
  BY <1>3, TurnKeeps
<1>4. CASE ReorderPages
  BY <1>4, ReorderKeeps
<1> QED
  BY <1>1, <1>2, <1>3, <1>4 DEF Next

\* A file is opened with its own tree, of the first numbers.
LEMMA InitKeeps ==
    ASSUME PageTreeFiles, MaxCalls \in Nat, Init
    PROVE  Inv
<1>1. base \in Bases /\ tree = base /\ nextNum = 1 + Cardinality(InUse(base)) /\ calls = 0
  BY DEF Init
<1>2. Shape(base, base) /\ Reach(InUse(base), base)
  BY <1>1, FileShape
<1>3. InUse(base) \subseteq Numbers /\ IsFiniteSet(Numbers) /\ PageTreeOf(base)
  BY <1>1 DEF InUse, PageTreeFiles
<1>4. Cardinality(InUse(base)) \in Nat
  BY <1>3, FS_Subset, FS_CardinalityType
<1>5. \A n \in Numbers : n < 1 + Cardinality(InUse(base)) <=> base[n] # Free
  BY <1>3 DEF PageTreeOf
<1> QED
  BY <1>1, <1>2, <1>3, <1>4, <1>5 DEF Inv

LEMMA InvStays ==
    ASSUME PageTreeFiles, MaxCalls \in Nat, Inv, [Next]_vars
    PROVE  Inv' /\ [List!Next]_(List!vars)
<1>1. CASE Next
  BY <1>1, NextKeeps DEF Step
<1>2. CASE UNCHANGED vars
  <2>1. base' = base /\ tree' = tree /\ nextNum' = nextNum /\ call' = call /\ calls' = calls
    BY <1>2 DEF vars
  <2> QED
    BY <2>1 DEF Inv, List!vars
<1> QED
  BY <1>1, <1>2

----------------------------------------------------------------------------
(* The theorems.                                                           *)

LEMMA InvHolds == ASSUME PageTreeFiles, MaxCalls \in Nat PROVE Spec => []Inv
<1>1. Init => Inv
  BY InitKeeps
<1>2. Inv /\ [Next]_vars => Inv'
  BY InvStays
<1> QED
  BY <1>1, <1>2, PTL DEF Spec

\* Whatever was added, deleted, turned and reordered, every number of the
\* overlay's is free or holds a node, and the page a lookup finds is among the
\* kids of the node it names as its parent, where unlink() looks for it.
THEOREM TreeKeepsShape == ASSUME PageTreeFiles, MaxCalls \in Nat PROVE Spec => []TypeOK
<1>1. Inv => TypeOK
  <2> SUFFICES ASSUME Inv PROVE TypeOK
    OBVIOUS
  <2>1. PICK R : Reach(R, tree)
    BY DEF Inv
  <2>2. \A p \in ToSet(Leaves(tree)) : p \in ToSet(tree[tree[p].parent].kids)
    BY <2>1, LeavesArePages DEF Inv
  <2>3. \A n \in Numbers : tree[n] = Free \/ tree[n] \in Node
    BY DEF Inv, Shape, Trees
  <2> QED
    BY <2>2, <2>3 DEF Inv, TypeOK
<1> QED
  BY <1>1, InvHolds, PTL

\* Each call does to the list of pages what pages.rs says of it: adding puts
\* the new pages together, deleting takes out those named and no other, turning
\* turns the one, and reordering gives the file's own pages in the new order.
THEOREM EditsImplementPageList ==
    ASSUME PageTreeFiles, MaxCalls \in Nat PROVE Spec => ImplementsPageList
<1>1. Init => List!Init
  BY DEF Init, List!Init
<1>2. Inv /\ [Next]_vars => [List!Next]_(List!vars)
  BY InvStays
<1> QED
  BY <1>1, <1>2, InvHolds, PTL DEF Spec, ImplementsPageList, List!Spec
=============================================================================
