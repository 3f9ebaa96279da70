-------------------------- MODULE PageTreeProofs --------------------------
(***************************************************************************)
(* What the page cache holds, for any trees of finitely many nodes: a slot *)
(* never has a page that belongs elsewhere, a page that was given out      *)
(* stays, true counts find every page, and only depth ends the lookups.    *)
(***************************************************************************)
EXTENDS PageTree, FiniteSetTheorems, SequenceTheorems, FoldProofs, TLAPS

----------------------------------------------------------------------------
(* Sequences laid end to end.                                              *)

\* all is the sequences of parts one after another; at[j] is where the part
\* after the j-th begins.
Laid(all, parts, at) ==
    /\ at \in [0..Len(parts) -> Nat]
    /\ at[0] = 0 /\ at[Len(parts)] = Len(all)
    /\ \A j \in 1..Len(parts) :
          /\ at[j] = at[j - 1] + Len(parts[j])
          /\ at[j] <= Len(all)
          /\ \A i \in 1..Len(parts[j]) : all[at[j - 1] + i] = parts[j][i]

LEMMA JoinsLaid ==
    ASSUME NEW T, NEW N \in Nat, NEW parts \in [1..N -> Seq(T)], Len(parts) = N,
           NEW f, Joins(f, parts, N, T)
    PROVE  Laid(f[N], parts, [j \in 0..N |-> Len(f[j])])
<1> DEFINE at == [j \in 0..N |-> Len(f[j])]
           Fits(j, k) == /\ at[j] <= Len(f[k])
                         /\ \A i \in 1..Len(parts[j]) : f[k][at[j - 1] + i] = parts[j][i]
<1>1. \A j \in 0..N : f[j] \in Seq(T) /\ Len(f[j]) \in Nat /\ at[j] = Len(f[j])
  BY DEF Joins
<1>2. at \in [0..N -> Nat] /\ at[0] = 0
  <2>1. 0 \in 0..N
    OBVIOUS
  <2>2. at[0] = Len(<<>>)
    BY <2>1 DEF Joins
  <2> QED
    BY <1>1, <2>2
<1> HIDE DEF at
<1>3. ASSUME NEW k \in 1..N
      PROVE  /\ f[k] = f[k - 1] \o parts[k]
             /\ f[k - 1] \in Seq(T) /\ parts[k] \in Seq(T) /\ f[k] \in Seq(T)
             /\ at[k - 1] = Len(f[k - 1]) /\ at[k] = Len(f[k])
             /\ at[k] = at[k - 1] + Len(parts[k])
             /\ at[k - 1] \in Nat /\ at[k] \in Nat /\ Len(parts[k]) \in Nat
  <2>1. k \in 0..N /\ k - 1 \in 0..N
    OBVIOUS
  <2>2. f[k] = f[k - 1] \o parts[k] /\ parts[k] \in Seq(T)
    BY DEF Joins
  <2>3. f[k - 1] \in Seq(T) /\ f[k] \in Seq(T) /\ at[k - 1] = Len(f[k - 1]) /\ at[k] = Len(f[k])
    BY <1>1, <2>1
  <2>4. Len(f[k]) = Len(f[k - 1]) + Len(parts[k])
    BY <2>2, <2>3
  <2>5. Len(f[k - 1]) \in Nat /\ Len(f[k]) \in Nat /\ Len(parts[k]) \in Nat
    BY <2>2, <2>3
  <2> QED
    BY <2>2, <2>3, <2>4, <2>5
<1>4. ASSUME NEW k \in 1..N PROVE Fits(k, k)
  <2>1. PICK s, t : s = f[k - 1] /\ t = parts[k]
    OBVIOUS
  <2>2. s \in Seq(T) /\ t \in Seq(T) /\ f[k] = s \o t /\ at[k - 1] = Len(s)
    BY <1>3, <2>1
  <2>3. \A i \in 1..Len(t) : (s \o t)[Len(s) + i] = t[i]
    <3>1. PICK m \in Nat, n \in Nat : m = Len(s) /\ n = Len(t)
      BY <2>2
    <3>2. \A h \in 1..m + n : (s \o t)[h] = IF h <= m THEN s[h] ELSE t[h - m]
      BY <2>2, <3>1, ConcatProperties
    <3>3. \A i \in 1..n : m + i \in 1..m + n /\ ~ (m + i <= m) /\ (m + i) - m = i
      BY <3>1
    <3> QED
      BY <3>1, <3>2, <3>3
  <2>4. \A i \in 1..Len(t) : f[k][at[k - 1] + i] = t[i]
    BY <2>2, <2>3
  <2>5. at[k] <= Len(f[k])
    BY <1>3
  <2> QED
    BY <2>1, <2>4, <2>5
<1>5. ASSUME NEW k \in 1..N, NEW j \in 1..(k - 1), Fits(j, k - 1) PROVE Fits(j, k)
  <2>0. j \in 1..N
    OBVIOUS
  <2>1. \A i \in 1..Len(f[k - 1]) : f[k][i] = f[k - 1][i]
    <3>1. PICK s, t : s = f[k - 1] /\ t = parts[k]
      OBVIOUS
    <3>2. s \in Seq(T) /\ t \in Seq(T) /\ f[k] = s \o t
      BY <1>3, <3>1
    <3>3. \A i \in 1..Len(s) : (s \o t)[i] = s[i]
      BY <3>2
    <3> QED
      BY <3>1, <3>2, <3>3
  <2>2. Len(f[k - 1]) <= Len(f[k]) /\ Len(f[k - 1]) \in Nat /\ Len(f[k]) \in Nat
    <3>1. Len(f[k]) = Len(f[k - 1]) + Len(parts[k]) /\ Len(parts[k]) \in Nat
          /\ Len(f[k - 1]) \in Nat /\ Len(f[k]) \in Nat
      BY <1>3, Zenon
    <3> QED
      BY <3>1
  <2>3. /\ at[j] = at[j - 1] + Len(parts[j])
        /\ at[j - 1] \in Nat /\ at[j] \in Nat /\ Len(parts[j]) \in Nat
    BY <1>3, <2>0
  <2>5. PICK a, b, c, d, e : /\ a = at[j - 1] /\ b = at[j] /\ c = Len(parts[j])
                            /\ d = Len(f[k - 1]) /\ e = Len(f[k])
    OBVIOUS
  <2>6. a \in Nat /\ b \in Nat /\ c \in Nat /\ d \in Nat /\ e \in Nat
        /\ b = a + c /\ b <= d /\ d <= e
    BY <1>5, <2>2, <2>3, <2>5
  <2>4. \A i \in 1..c : a + i \in 1..d
    BY <2>6
  <2>7. \A i \in 1..c : f[k][a + i] = parts[j][i]
    BY <1>5, <2>1, <2>4, <2>5
  <2>8. b <= e
    BY <2>6
  <2> QED
    BY <2>5, <2>7, <2>8
<1> DEFINE S == {k \in 0..N : \A j \in 1..k : Fits(j, k)}
<1>6. 0 \in S
  OBVIOUS
<1>7. ASSUME NEW k \in 1..N, k - 1 \in S PROVE k \in S
  <2>1. \A j \in 1..k : j = k \/ j \in 1..(k - 1)
    OBVIOUS
  <2>2. \A j \in 1..(k - 1) : Fits(j, k - 1)
    BY <1>7
  <2> HIDE DEF Fits
  <2> QED
    BY <1>4, <1>5, <2>1, <2>2
<1> HIDE DEF S
<1>8. 0..N \subseteq S
  BY <1>6, <1>7, CountInduction
<1>9. \A j \in 1..N : Fits(j, N)
  BY <1>8 DEF S
<1>10. at \in [0..Len(parts) -> Nat] /\ at[Len(parts)] = Len(f[N])
  BY <1>1, <1>2
<1> QED
  <2>1. at = [j \in 0..N |-> Len(f[j])]
    BY DEF at
  <2>2. Laid(f[N], parts, at)
    BY <1>2, <1>3, <1>9, <1>10 DEF Laid
  <2> QED
    BY <2>1, <2>2

LEMMA FlattenLaid ==
    ASSUME NEW T, NEW parts \in Seq(Seq(T))
    PROVE  /\ FlattenSeq(parts) \in Seq(T)
           /\ \E at : Laid(FlattenSeq(parts), parts, at)
<1>0. PICK N \in Nat : N = Len(parts)
  OBVIOUS
<1>1. parts \in [1..N -> Seq(T)]
  BY <1>0
<1>2. PICK f : Joins(f, parts, N, T)
  BY <1>1, JoinsExist
<1>3. FlattenSeq(parts) = f[N]
  <2>1. CASE N = 0
    <3>1. parts = <<>>
      BY <1>0, <2>1, EmptySeq
    <3> QED
      BY <1>2, <2>1, <3>1 DEF FlattenSeq, Joins
  <2>2. CASE N # 0
    BY <1>0, <1>1, <1>2, <2>2, JoinsFlatten
  <2> QED
    BY <2>1, <2>2
<1>4. Laid(f[N], parts, [j \in 0..N |-> Len(f[j])])
  BY <1>0, <1>1, <1>2, JoinsLaid
<1>5. f[N] \in Seq(T)
  BY <1>2 DEF Joins
<1> QED
  BY <1>3, <1>4, <1>5

----------------------------------------------------------------------------
(* The descent.                                                            *)

Frame == [node : Nodes, kid : Nat \ {0}]

\* A descent from the root: each node is a kid of the one before, the one that
\* was taken last, and no node is on it twice.
Chain(t, p) ==
    /\ p \in Seq(Frame)
    /\ Len(p) <= MaxDepth
    /\ p # <<>> => p[1].node = Root
    /\ \A d \in 1..Len(p) :
          /\ ~t[p[d].node].lost /\ t[p[d].node].hasKids
          /\ p[d].kid <= Len(t[p[d].node].kids) + 1
          /\ \A e \in 1..d - 1 : p[e].node # p[d].node
    /\ \A d \in 1..Len(p) - 1 :
          /\ p[d].kid - 1 \in 1..Len(t[p[d].node].kids)
          /\ p[d + 1].node = t[p[d].node].kids[p[d].kid - 1]

ChainInv ==
    /\ tree \in Trees
    /\ Chain(tree, path)
    /\ poisoned => TooDeep

LEMMA ConstantsTyped ==
    /\ MaxPages \in Nat \ {0} /\ MaxDepth \in Nat \ {0}
    /\ IsFiniteSet(Nodes) /\ Root \in Nodes /\ None \notin Nodes
  BY TreesAssumption

LEMMA TreeTyped ==
    ASSUME NEW t \in Trees, NEW n \in Nodes
    PROVE  /\ t[n].type \in {"Pages", "Page", "absent"} /\ t[n].hasKids \in BOOLEAN
           /\ t[n].lost \in BOOLEAN /\ t[n].count \in Nat
           /\ t[n].kids \in Seq(Nodes) /\ Len(t[n].kids) \in Nat
           /\ DOMAIN t[n].kids = 1..Len(t[n].kids)
           /\ \A i \in 1..Len(t[n].kids) : t[n].kids[i] \in Nodes
           /\ ~t[Root].lost /\ Root \in Nodes
<1>1. t \in [Nodes -> Node] /\ ~t[Root].lost /\ Root \in Nodes
  BY TreesAssumption
<1>2. PICK r \in Node : r = t[n]
  BY <1>1
<1>3. /\ r.type \in {"Pages", "Page", "absent"} /\ r.hasKids \in BOOLEAN
      /\ r.lost \in BOOLEAN /\ r.count \in Nat
      /\ r.kids \in Seq(Nodes)
  BY DEF Node
<1>4. Len(r.kids) \in Nat /\ DOMAIN r.kids = 1..Len(r.kids)
      /\ \A i \in 1..Len(r.kids) : r.kids[i] \in Nodes
  BY <1>3
<1> QED
  BY <1>1, <1>2, <1>3, <1>4

\* What the top of a descent is.
LEMMA TopOfChain ==
    ASSUME NEW t \in Trees, NEW p, Chain(t, p), p # <<>>
    PROVE  /\ Len(p) \in 1..MaxDepth
           /\ p[Len(p)] \in Frame
           /\ p[Len(p)].node \in Nodes /\ p[Len(p)].kid \in Nat \ {0}
           /\ p[Len(p)].kid <= Len(t[p[Len(p)].node].kids) + 1
           /\ ~t[p[Len(p)].node].lost /\ t[p[Len(p)].node].hasKids
<1>1. Len(p) \in 1..Len(p) /\ Len(p) \in Nat \ {0}
  BY DEF Chain
<1>2. p[Len(p)] \in Frame
  BY <1>1 DEF Chain
<1>3. MaxDepth \in Nat
  BY ConstantsTyped
<1> QED
  BY <1>1, <1>2, <1>3 DEF Chain, Frame

\* The next kid of the top is passed.
LEMMA ChainMoves ==
    ASSUME NEW t \in Trees, NEW p, Chain(t, p), p # <<>>,
           p[Len(p)].kid <= Len(t[p[Len(p)].node].kids)
    PROVE  LET q == [p EXCEPT ![Len(p)].kid = @ + 1] IN
           /\ Chain(t, q) /\ Len(q) = Len(p)
           /\ \A d \in 1..Len(p) : q[d].node = p[d].node
           /\ \A d \in 1..Len(p) - 1 : q[d] = p[d]
           /\ q[Len(p)].kid = p[Len(p)].kid + 1
<1> DEFINE q == [p EXCEPT ![Len(p)].kid = @ + 1]
<1>0. Len(p) \in 1..MaxDepth /\ MaxDepth \in Nat
  BY TopOfChain, ConstantsTyped
<1>1. PICK m \in Nat \ {0} : m = Len(p) /\ m <= MaxDepth /\ MaxDepth \in Nat
  BY <1>0
<1>2. p \in [1..m -> Frame] /\ p \in Seq(Frame)
  BY <1>1 DEF Chain
<1>3. m \in 1..m /\ p[m] \in Frame /\ p[m].kid \in Nat \ {0}
  BY <1>1, TopOfChain
<1>4. q = [p EXCEPT ![m] = [p[m] EXCEPT !.kid = p[m].kid + 1]]
  BY <1>1
<1>5. [p[m] EXCEPT !.kid = p[m].kid + 1] \in Frame
  BY <1>3 DEF Frame
<1>6. q \in Seq(Frame) /\ Len(q) = m /\ DOMAIN q = 1..m
  BY <1>1, <1>2, <1>4, <1>5
<1>7. \A d \in 1..m : d # m => q[d] = p[d]
  BY <1>2, <1>4
<1>8. q[m].node = p[m].node /\ q[m].kid = p[m].kid + 1
  BY <1>2, <1>3, <1>4 DEF Frame
<1> HIDE DEF q
<1>9. \A d \in 1..m : q[d].node = p[d].node
  BY <1>7, <1>8
<1>10. \A d \in 1..m : q[d].kid <= Len(t[q[d].node].kids) + 1
  <2>1. p[m].kid <= Len(t[p[m].node].kids) /\ p[m].kid \in Nat
        /\ Len(t[p[m].node].kids) \in Nat
    BY <1>1, TopOfChain, TreeTyped
  <2>2. q[m].kid <= Len(t[q[m].node].kids) + 1
    BY <1>8, <2>1
  <2> QED
    BY <1>1, <1>7, <2>2 DEF Chain
<1>11. \A d \in 1..m - 1 : d \in 1..m /\ d + 1 \in 1..m /\ d # m
  BY <1>1
<1>12. \A d \in 1..m : \A e \in 1..d - 1 : e \in 1..m
  BY <1>1
<1>13. Chain(t, q)
  <2>1. q # <<>> /\ 1 \in 1..m /\ q[1].node = Root
    BY <1>1, <1>6, <1>9 DEF Chain
  <2>2. \A d \in 1..m : /\ ~t[q[d].node].lost /\ t[q[d].node].hasKids
                        /\ \A e \in 1..d - 1 : q[e].node # q[d].node
    <3> TAKE d \in 1..m
    <3>1. q[d].node = p[d].node /\ \A e \in 1..d - 1 : q[e].node = p[e].node
      BY <1>9, <1>12
    <3>2. /\ ~t[p[d].node].lost /\ t[p[d].node].hasKids
          /\ \A e \in 1..d - 1 : p[e].node # p[d].node
      BY <1>1 DEF Chain
    <3> QED
      BY <3>1, <3>2, Zenon
  <2>3. \A d \in 1..m - 1 : /\ q[d].kid - 1 \in 1..Len(t[q[d].node].kids)
                            /\ q[d + 1].node = t[q[d].node].kids[q[d].kid - 1]
    <3> TAKE d \in 1..m - 1
    <3>1. q[d] = p[d] /\ q[d + 1].node = p[d + 1].node
      BY <1>7, <1>9, <1>11
    <3> QED
      BY <1>1, <3>1 DEF Chain
  <2> QED
    BY <1>1, <1>6, <1>10, <2>1, <2>2, <2>3 DEF Chain
<1> QED
  BY <1>1, <1>6, <1>7, <1>8, <1>9, <1>11, <1>13 DEF q

\* k is the i-th kid of the top of a descent, has kids and is not on it.
KidBelow(t, p, k, i) ==
    /\ i \in 1..Len(t[p[Len(p)].node].kids)
    /\ k = t[p[Len(p)].node].kids[i]
    /\ ~t[k].lost /\ t[k].hasKids
    /\ \A d \in 1..Len(p) : p[d].node # k

\* A kid with kids of its own is descended into.
LEMMA ChainGrows ==
    ASSUME NEW t \in Trees, NEW q, Chain(t, q), q # <<>>, NEW k \in Nodes,
           NEW j, j = q[Len(q)].kid - 1, KidBelow(t, q, k, j), Len(q) < MaxDepth
    PROVE  Chain(t, Append(q, [node |-> k, kid |-> 1]))
<1> DEFINE r == Append(q, [node |-> k, kid |-> 1])
<1>0. Len(q) \in 1..MaxDepth /\ MaxDepth \in Nat
  BY TopOfChain, ConstantsTyped
<1>1. PICK m \in Nat \ {0} : m = Len(q) /\ m < MaxDepth /\ MaxDepth \in Nat
  BY <1>0
<1>14. [node |-> k, kid |-> 1] \in Frame
  BY DEF Frame
<1>2. PICK f \in Frame : f = [node |-> k, kid |-> 1] /\ f.node = k /\ f.kid = 1
  BY <1>14
<1>13. q \in Seq(Frame) /\ r = Append(q, f)
  BY <1>2 DEF Chain
<1> HIDE DEF r
<1>3. r \in Seq(Frame) /\ Len(r) = m + 1 /\ r[m + 1] = f
      /\ \A d \in 1..m : r[d] = q[d]
  <2>1. /\ Append(q, f) \in Seq(Frame)
        /\ Len(Append(q, f)) = Len(q) + 1
        /\ \A i \in 1..Len(q) : Append(q, f)[i] = q[i]
        /\ Append(q, f)[Len(q) + 1] = f
    BY <1>13, AppendProperties
  <2>2. r \in Seq(Frame) /\ Len(r) = Len(q) + 1 /\ r[Len(q) + 1] = f
        /\ \A d \in 1..Len(q) : r[d] = q[d]
    BY <1>13, <2>1, Zenon
  <2> QED
    BY <1>1, <2>2, Zenon
<1>4. r[m + 1].node = k /\ r[m + 1].kid = 1
  BY <1>2, <1>3
<1>5. \A d \in 1..m + 1 : d \in 1..m \/ d = m + 1
  BY <1>1
<1>6. \A d \in 1..m + 1 : \A e \in 1..d - 1 : e \in 1..m
  BY <1>1
<1>7. \A d \in 1..m + 1 : /\ ~t[r[d].node].lost /\ t[r[d].node].hasKids
                          /\ r[d].kid <= Len(t[r[d].node].kids) + 1
  <2>1. PICK n \in Nat : n = Len(t[k].kids)
    BY TreeTyped
  <2>4. 1 <= n + 1
    OBVIOUS
  <2>3. 1 <= Len(t[k].kids) + 1
    BY <2>1, <2>4, Zenon
  <2>2. r[m + 1].kid <= Len(t[r[m + 1].node].kids) + 1
    BY <1>4, <2>3, Zenon
  <2>5. ~t[r[m + 1].node].lost /\ t[r[m + 1].node].hasKids
    BY <1>4 DEF KidBelow
  <2>6. \A d \in 1..m : /\ ~t[r[d].node].lost /\ t[r[d].node].hasKids
                        /\ r[d].kid <= Len(t[r[d].node].kids) + 1
    BY <1>1, <1>3 DEF Chain
  <2> QED
    BY <1>5, <2>2, <2>5, <2>6, Zenon
<1>8. \A d \in 1..m + 1 : \A e \in 1..d - 1 : r[e].node # r[d].node
  <2> TAKE d \in 1..m + 1
  <2> TAKE e \in 1..d - 1
  <2>1. e \in 1..m /\ r[e] = q[e]
    BY <1>3, <1>6
  <2>2. CASE d = m + 1
    BY <1>1, <1>4, <2>1, <2>2 DEF KidBelow
  <2>3. CASE d \in 1..m
    <3>1. r[d] = q[d] /\ q[e].node # q[d].node
      BY <1>1, <1>3, <2>3 DEF Chain
    <3> QED
      BY <2>1, <3>1
  <2> QED
    BY <1>5, <2>2, <2>3
<1>9. \A d \in 1..m : d = m \/ (d \in 1..m - 1 /\ d + 1 \in 1..m)
  BY <1>1
<1>10. \A d \in 1..m : /\ r[d].kid - 1 \in 1..Len(t[r[d].node].kids)
                       /\ r[d + 1].node = t[r[d].node].kids[r[d].kid - 1]
  <2> TAKE d \in 1..m
  <2>1. r[d] = q[d]
    BY <1>3
  <2>2. CASE d = m
    <3>1. r[d].kid - 1 = j /\ r[d].node = q[Len(q)].node
      BY <1>1, <2>1, <2>2
    <3>2. r[d + 1].node = k
      BY <1>4, <2>2
    <3> QED
      BY <3>1, <3>2 DEF KidBelow
  <2>3. CASE d # m
    <3>1. d \in 1..m - 1 /\ d + 1 \in 1..m
      BY <1>9, <2>3
    <3>2. r[d + 1] = q[d + 1]
      BY <1>3, <3>1
    <3> QED
      BY <1>1, <2>1, <3>1, <3>2 DEF Chain
  <2> QED
    BY <2>2, <2>3
<1>11. r[1].node = Root
  <2>1. 1 \in 1..m /\ q # <<>>
    BY <1>1
  <2> QED
    BY <1>3, <2>1 DEF Chain
<1>12. m + 1 <= MaxDepth /\ (m + 1) - 1 = m
  BY <1>1
<1> QED
  <2>1. Chain(t, r)
    BY <1>3, <1>7, <1>8, <1>10, <1>11, <1>12 DEF Chain
  <2> QED
    BY <2>1 DEF r

LEMMA ChainShrinks ==
    ASSUME NEW t \in Trees, NEW p, Chain(t, p), p # <<>>
    PROVE  /\ Chain(t, Front(p)) /\ Len(Front(p)) = Len(p) - 1
           /\ \A d \in 1..Len(p) - 1 : Front(p)[d] = p[d]
<1>0. Len(p) \in 1..MaxDepth /\ MaxDepth \in Nat
  BY TopOfChain, ConstantsTyped
<1>1. PICK m \in Nat \ {0} : m = Len(p) /\ m <= MaxDepth /\ MaxDepth \in Nat
  BY <1>0
<1> DEFINE q == Front(p)
<1>2. p \in Seq(Frame)
  BY DEF Chain
<1>3. q = [i \in 1..m - 1 |-> p[i]]
  <2>1. q = SubSeq(p, 1, m - 1)
    BY <1>1 DEF Front
  <2>2. PICK n \in Nat : n = m - 1
    BY <1>1
  <2>3. SubSeq(p, 1, n) = [i \in 1..n |-> p[i]]
    BY <1>1, <1>2, <2>2
  <2> QED
    BY <2>1, <2>2, <2>3
<1>4. q \in Seq(Frame) /\ Len(q) = m - 1 /\ \A d \in 1..m - 1 : q[d] = p[d]
  <2>1. m - 1 \in Nat /\ \A d \in 1..m - 1 : p[d] \in Frame
    BY <1>1, <1>2
  <2> QED
    BY <1>3, <2>1
<1> HIDE DEF q
<1>5. \A d \in 1..m - 1 : d \in 1..m /\ \A e \in 1..d - 1 : e \in 1..m - 1
  BY <1>1
<1>6. \A d \in 1..(m - 1) - 1 : d \in 1..m - 1 /\ d + 1 \in 1..m - 1
  BY <1>1
<1>7. q # <<>> => 1 \in 1..m - 1
  BY <1>4
<1>8. m - 1 <= MaxDepth
  BY <1>1
<1>9. Chain(t, q)
  <2>1. q # <<>> => q[1].node = Root
    BY <1>4, <1>7 DEF Chain
  <2>2. \A d \in 1..m - 1 : /\ ~t[q[d].node].lost /\ t[q[d].node].hasKids
                            /\ q[d].kid <= Len(t[q[d].node].kids) + 1
                            /\ \A e \in 1..d - 1 : q[e].node # q[d].node
    <3> TAKE d \in 1..m - 1
    <3>1. d \in 1..Len(p) /\ q[d] = p[d]
      BY <1>1, <1>4, <1>5
    <3>2. \A e \in 1..d - 1 : q[e] = p[e]
      BY <1>4, <1>5
    <3> QED
      BY <3>1, <3>2 DEF Chain
  <2>3. \A d \in 1..(m - 1) - 1 : /\ q[d].kid - 1 \in 1..Len(t[q[d].node].kids)
                                  /\ q[d + 1].node = t[q[d].node].kids[q[d].kid - 1]
    <3> TAKE d \in 1..(m - 1) - 1
    <3>1. q[d] = p[d] /\ q[d + 1] = p[d + 1] /\ d \in 1..m - 1
      BY <1>4, <1>6
    <3> QED
      BY <1>1, <3>1 DEF Chain
  <2> QED
    BY <1>4, <1>8, <2>1, <2>2, <2>3 DEF Chain
<1> QED
  BY <1>1, <1>4, <1>9 DEF q

\* A node with kids under a full descent makes the tree too deep.
LEMMA FullChain ==
    ASSUME tree \in Trees, NEW p, Chain(tree, p), p # <<>>, Len(p) >= MaxDepth,
           NEW k \in Nodes, NEW j, KidBelow(tree, p, k, j)
    PROVE  TooDeep
<1>0. Len(p) \in 1..MaxDepth /\ MaxDepth \in Nat
  BY TopOfChain, ConstantsTyped
<1>1. PICK m \in Nat \ {0} : m = Len(p) /\ m = MaxDepth
  BY <1>0
<1> DEFINE chain == [d \in 1..m + 1 |-> IF d = m + 1 THEN k ELSE p[d].node]
<1>2. \A d \in 1..m : chain[d] = p[d].node /\ p[d].node \in Nodes /\ d # m + 1
  <2> TAKE d \in 1..m
  <2>3. p \in Seq(Frame)
    BY DEF Chain
  <2>4. d \in 1..m + 1 /\ d # m + 1
    OBVIOUS
  <2>5. d \in 1..Len(p)
    BY <1>1, Zenon
  <2>6. p[d] \in Frame
    BY <2>3, <2>5
  <2>1. p[d] \in Frame /\ d \in 1..m + 1 /\ d # m + 1
    BY <2>4, <2>6
  <2>2. p[d].node \in Nodes
    BY <2>1 DEF Frame
  <2> QED
    BY <2>1, <2>2
<1>3. chain[m + 1] = k /\ \A d \in 1..m + 1 : d \in 1..m \/ d = m + 1
  BY <1>1
<1>4. chain \in [1..m + 1 -> Nodes]
  BY <1>2, <1>3
<1> HIDE DEF chain
<1>5. chain[1] = Root
  <2>1. 1 \in 1..m
    BY <1>1
  <2> QED
    BY <1>2, <2>1 DEF Chain
<1>6. \A d \in 1..m + 1 : /\ ~tree[chain[d]].lost /\ tree[chain[d]].hasKids
                          /\ \A e \in 1..d - 1 : chain[e] # chain[d]
  <2>1. \A d \in 1..m + 1 : \A e \in 1..d - 1 : e \in 1..m
    BY <1>1
  <2> QED
    <3> TAKE d \in 1..m + 1
    <3>1. CASE d = m + 1
      <4>1. \A e \in 1..d - 1 : e \in 1..m /\ chain[e] = p[e].node
        BY <1>2, <2>1
      <4> QED
        BY <1>1, <1>3, <3>1, <4>1 DEF KidBelow
    <3>2. CASE d # m + 1
      <4>1. d \in 1..m /\ chain[d] = p[d].node
        BY <1>2, <1>3, <3>2
      <4>2. \A e \in 1..d - 1 : e \in 1..m /\ chain[e] = p[e].node
        BY <1>2, <2>1
      <4>3. \A e \in 1..d - 1 : p[e].node # p[d].node
        BY <1>1, <4>1 DEF Chain
      <4> QED
        BY <1>1, <4>1, <4>2, <4>3 DEF Chain
    <3> QED
      BY <3>1, <3>2
<1>7. \A d \in 1..m : \E i \in DOMAIN tree[chain[d]].kids : chain[d + 1] = tree[chain[d]].kids[i]
  <2> TAKE d \in 1..m
  <2>1. DOMAIN tree[chain[d]].kids = 1..Len(tree[chain[d]].kids) /\ chain[d] = p[d].node
    BY <1>2, TreeTyped
  <2>2. CASE d = m
    BY <1>1, <1>3, <2>1, <2>2 DEF KidBelow
  <2>3. CASE d # m
    <3>1. d \in 1..m - 1 /\ d + 1 \in 1..m
      BY <1>1, <2>3
    <3>2. p[d].kid - 1 \in 1..Len(tree[p[d].node].kids)
          /\ p[d + 1].node = tree[p[d].node].kids[p[d].kid - 1]
      BY <1>1, <3>1 DEF Chain
    <3> QED
      BY <1>2, <2>1, <3>1, <3>2
  <2> QED
    BY <2>2, <2>3
<1> QED
  BY <1>1, <1>4, <1>5, <1>6, <1>7 DEF TooDeep

LEMMA ChainStarts ==
    ASSUME NEW t \in Trees, t[Root].hasKids
    PROVE  Chain(t, <<[node |-> Root, kid |-> 1]>>)
<1>1. [node |-> Root, kid |-> 1] \in Frame
  BY ConstantsTyped DEF Frame
<1>2. PICK f \in Frame : f = [node |-> Root, kid |-> 1] /\ f.node = Root /\ f.kid = 1
  BY <1>1
<1>3. <<f>> \in Seq(Frame) /\ Len(<<f>>) = 1 /\ <<f>>[1] = f
  OBVIOUS
<1>4. PICK n \in Nat : n = Len(t[Root].kids)
  BY ConstantsTyped, TreeTyped
<1>5. ~t[Root].lost /\ 1 <= n + 1
  BY TreesAssumption
<1>6. f.kid <= Len(t[f.node].kids) + 1
  BY <1>2, <1>4, <1>5, Zenon
<1>7. 1 <= MaxDepth
  BY ConstantsTyped
<1>8. Chain(t, <<f>>)
  <2> DEFINE p == <<f>>
  <2>1. p \in Seq(Frame) /\ Len(p) = 1 /\ p[1] = f
    BY <1>3
  <2> HIDE DEF p
  <2>2. \A d \in 1..1 : d = 1 /\ \A e \in 1..d - 1 : FALSE
    OBVIOUS
  <2>3. \A d \in 1..0 : FALSE
    OBVIOUS
  <2>4. \A d \in 1..1 : /\ ~t[p[d].node].lost /\ t[p[d].node].hasKids
                        /\ p[d].kid <= Len(t[p[d].node].kids) + 1
                        /\ \A e \in 1..d - 1 : p[e].node # p[d].node
    BY <1>2, <1>5, <1>6, <2>1, <2>2
  <2>5. Chain(t, p)
    BY <1>2, <1>7, <2>1, <2>3, <2>4 DEF Chain
  <2> QED
    BY <2>5 DEF p
<1> QED
  BY <1>2, <1>8

\* What the walk has before it.
LEMMA GoingOn ==
    ASSUME tree \in Trees, Chain(tree, path), Going
    PROVE  /\ path # <<>> /\ next < Len(slots)
           /\ Top = path[Len(path)] /\ Top.node \in Nodes
           /\ Top.kid \in 1..Len(tree[Top.node].kids)
           /\ Kid = tree[Top.node].kids[Top.kid] /\ Kid \in Nodes
           /\ Len(path) \in 1..MaxDepth
           /\ \A d \in 1..Len(path) : path[d].node \in Ancestors
           /\ Chain(tree, OnToNext) /\ Len(OnToNext) = Len(path)
           /\ \A d \in 1..Len(path) : OnToNext[d].node = path[d].node
           /\ \A d \in 1..Len(path) - 1 : OnToNext[d] = path[d]
           /\ OnToNext[Len(path)].node = Top.node
           /\ OnToNext[Len(path)].kid = Top.kid + 1
           /\ OnToNext # <<>>
<1>1. path # <<>> /\ next < Len(slots) /\ Top.kid <= Len(tree[Top.node].kids)
  BY DEF Going
<1>2. Top = path[Len(path)] /\ Kid = tree[Top.node].kids[Top.kid]
  BY DEF Top, Kid
<1>3. Len(path) \in 1..MaxDepth /\ Top.node \in Nodes /\ Top.kid \in Nat \ {0}
  BY <1>1, <1>2, TopOfChain
<1>4. PICK n \in Nat : n = Len(tree[Top.node].kids)
  BY <1>3, TreeTyped
<1>5. Top.kid \in 1..n
  BY <1>1, <1>3, <1>4
<1>6. Kid \in Nodes
  BY <1>2, <1>3, <1>4, <1>5, TreeTyped
<1>7. \A d \in 1..Len(path) : path[d].node \in Ancestors
  BY DEF Ancestors, Chain
<1>8. LET q == [path EXCEPT ![Len(path)].kid = @ + 1] IN
        /\ Chain(tree, q) /\ Len(q) = Len(path)
        /\ \A d \in 1..Len(path) : q[d].node = path[d].node
        /\ \A d \in 1..Len(path) - 1 : q[d] = path[d]
        /\ q[Len(path)].kid = path[Len(path)].kid + 1
  BY <1>1, <1>2, ChainMoves
<1>9. /\ Chain(tree, OnToNext) /\ Len(OnToNext) = Len(path)
      /\ \A d \in 1..Len(path) : OnToNext[d].node = path[d].node
      /\ \A d \in 1..Len(path) - 1 : OnToNext[d] = path[d]
      /\ OnToNext[Len(path)].kid = path[Len(path)].kid + 1
  BY <1>8 DEF OnToNext
<1>10. Len(path) \in 1..Len(path)
  <2>1. PICK m \in Nat \ {0} : m = Len(path)
    BY <1>3, ConstantsTyped
  <2> QED
    BY <2>1
<1>11. OnToNext[Len(path)].node = Top.node /\ OnToNext # <<>>
  <2>1. OnToNext \in Seq(Frame) /\ Len(OnToNext) # 0
    BY <1>9, <1>10 DEF Chain
  <2>2. OnToNext # <<>>
    BY <2>1
  <2> QED
    BY <1>2, <1>9, <1>10, <2>2
<1> QED
  BY <1>1, <1>2, <1>3, <1>4, <1>5, <1>6, <1>7, <1>9, <1>11

\* The descent that begins at a kid.
LEMMA Descends ==
    ASSUME tree \in Trees, Chain(tree, path), Going, ~tree[Kid].lost, Kid \notin Ancestors,
           tree[Kid].hasKids, Len(path) < MaxDepth
    PROVE  Chain(tree, Append(OnToNext, [node |-> Kid, kid |-> 1]))
<1>1. /\ Chain(tree, OnToNext) /\ OnToNext # <<>> /\ Kid \in Nodes
      /\ Len(OnToNext) = Len(path)
      /\ OnToNext[Len(path)].node = Top.node
      /\ OnToNext[Len(path)].kid = Top.kid + 1
      /\ Top.kid \in 1..Len(tree[Top.node].kids)
      /\ Kid = tree[Top.node].kids[Top.kid]
      /\ \A d \in 1..Len(path) : path[d].node \in Ancestors /\ OnToNext[d].node = path[d].node
  BY GoingOn
<1>2. (Top.kid + 1) - 1 = Top.kid
  BY <1>1
<1>3. PICK q, k, i : q = OnToNext /\ k = Kid /\ i = Top.kid
  OBVIOUS
<1>4. KidBelow(tree, q, k, i) /\ i = q[Len(q)].kid - 1
  BY <1>1, <1>2, <1>3 DEF KidBelow
<1>5. Chain(tree, q) /\ q # <<>> /\ k \in Nodes /\ Len(q) < MaxDepth
  BY <1>1, <1>3
<1> QED
  BY <1>3, <1>4, <1>5, ChainGrows

LEMMA ChainInvNext ==
    ASSUME ChainInv, Next
    PROVE  ChainInv'
<1>1. tree \in Trees /\ tree' = tree /\ (TooDeep <=> TooDeep')
  <2>1. tree' = tree
    BY DEF Next, Ask, KidFails, KidLoads, Ascend, Answer, OtherLoads
  <2> QED
    BY <2>1 DEF TooDeep, ChainInv
<1>2. SUFFICES Chain(tree, path') /\ (poisoned' => poisoned \/ TooDeep)
  BY <1>1 DEF ChainInv
<1>3. Chain(tree, path)
  BY DEF ChainInv
<1>4. CASE Ask
  BY <1>1, <1>3, <1>4, ChainStarts DEF Ask
<1>5. CASE KidFails
  <2>1. Going /\ path' = OnToNext /\ poisoned' = poisoned
    BY <1>5 DEF KidFails
  <2> QED
    BY <1>1, <1>3, <2>1, GoingOn
<1>6. CASE KidLoads
  <2>1. Going /\ ~tree[Kid].lost
    BY <1>6 DEF KidLoads
  <2>2. CASE path' = OnToNext /\ UNCHANGED poisoned
    BY <1>1, <1>3, <2>1, <2>2, GoingOn
  <2>3. CASE /\ Kid \notin Ancestors /\ tree[Kid].hasKids /\ Len(path) >= MaxDepth
             /\ path' = OnToNext
    <3>1. Chain(tree, path')
      BY <1>1, <1>3, <2>1, <2>3, GoingOn
    <3>2. TooDeep
      <4>1. /\ path # <<>> /\ Kid \in Nodes
            /\ path[Len(path)].kid \in 1..Len(tree[path[Len(path)].node].kids)
            /\ Kid = tree[path[Len(path)].node].kids[path[Len(path)].kid]
            /\ \A d \in 1..Len(path) : path[d].node # Kid
        BY <1>1, <1>3, <2>1, <2>3, GoingOn
      <4>2. KidBelow(tree, path, Kid, path[Len(path)].kid)
        BY <2>1, <2>3, <4>1 DEF KidBelow
      <4> QED
        BY <1>1, <1>3, <2>3, <4>1, <4>2, FullChain
    <3> QED
      BY <3>1, <3>2
  <2>4. CASE /\ Kid \notin Ancestors /\ tree[Kid].hasKids /\ Len(path) < MaxDepth
             /\ path' = Append(OnToNext, [node |-> Kid, kid |-> 1])
             /\ UNCHANGED poisoned
    BY <1>1, <1>3, <2>1, <2>4, Descends
  <2> QED
    BY <1>6, <2>2, <2>3, <2>4 DEF KidLoads
<1>7. CASE Ascend
  <2>1. path # <<>> /\ path' = Front(path) /\ poisoned' = poisoned
    BY <1>7 DEF Ascend
  <2> QED
    BY <1>1, <1>3, <2>1, ChainShrinks
<1>8. CASE Answer \/ OtherLoads
  BY <1>3, <1>8 DEF Answer, OtherLoads
<1> QED
  BY <1>4, <1>5, <1>6, <1>7, <1>8 DEF Next

LEMMA EmptyChain ==
    ASSUME NEW t \in Trees
    PROVE  Chain(t, <<>>)
<1> DEFINE p == <<>>
<1>1. p \in Seq(Frame) /\ Len(p) = 0
  OBVIOUS
<1>2. 0 <= MaxDepth /\ (\A d \in 1..0 : FALSE) /\ (\A d \in 1..0 - 1 : FALSE)
  BY ConstantsTyped
<1> QED
  BY <1>1, <1>2 DEF Chain

LEMMA ChainAlways == Spec => []ChainInv
<1>1. Init => ChainInv
  BY EmptyChain DEF Init, ChainInv
<1>2. ChainInv /\ [Next]_vars => ChainInv'
  <2> SUFFICES ASSUME ChainInv, [Next]_vars PROVE ChainInv'
    OBVIOUS
  <2>1. CASE Next
    BY <2>1, ChainInvNext
  <2>2. CASE UNCHANGED vars
    BY <2>2 DEF vars, ChainInv, TooDeep
  <2> QED
    BY <2>1, <2>2
<1> QED
  BY <1>1, <1>2, PTL DEF Spec

\* Only a tree with more levels than are followed ends the lookups: a loop
\* does not, nor a node that is shared.
THEOREM OnlyDepthCorrect == Spec => []OnlyDepthPoisons
<1>1. ChainInv => OnlyDepthPoisons
  BY DEF ChainInv, OnlyDepthPoisons
<1> QED
  BY <1>1, ChainAlways, PTL

----------------------------------------------------------------------------
(* The pages under a node, with nodes D deep left out if they have kids.   *)

Entry == Nodes \union {None}

Place == Nodes \X SUBSET Nodes

\* What is under a node, made of what is under its kids.
Listed(t, D, f, n, above) ==
    IF t[n].lost THEN <<None>>
    ELSE IF n \in above THEN <<>>
    ELSE IF ~t[n].hasKids THEN IF t[n].type = "Pages" THEN <<>> ELSE <<n>>
    ELSE IF Cardinality(above) >= D THEN <<>>
    ELSE FlattenSeq([i \in DOMAIN t[n].kids |-> f[<<t[n].kids[i], above \union {n}>>]])

Lists(f, t, D) ==
    /\ f \in [Place -> Seq(Entry)]
    /\ \A n \in Nodes, above \in SUBSET Nodes : f[<<n, above>>] = Listed(t, D, f, n, above)

\* How many nodes may still be below.
Room(p) == Cardinality(Nodes \ p[2])

LEMMA RoomLess ==
    ASSUME NEW n \in Nodes, NEW above \in SUBSET Nodes
    PROVE  /\ Cardinality(above) \in Nat /\ Cardinality(Nodes) \in Nat
           /\ Room(<<n, above>>) \in 0..Cardinality(Nodes)
           /\ n \notin above =>
                /\ Cardinality(above \union {n}) = Cardinality(above) + 1
                /\ Cardinality(above) < Cardinality(Nodes)
                /\ \A k \in Nodes : Room(<<k, above \union {n}>>) < Room(<<n, above>>)
<1>1. IsFiniteSet(Nodes) /\ IsFiniteSet(above) /\ IsFiniteSet(Nodes \ above)
  BY ConstantsTyped, FS_Subset
<1>2. Cardinality(above) \in Nat /\ Cardinality(Nodes) \in Nat /\ Cardinality(Nodes \ above) \in Nat
      /\ Cardinality(Nodes \ above) <= Cardinality(Nodes)
  BY <1>1, FS_CardinalityType, FS_Subset
<1>3. ASSUME n \notin above
      PROVE  /\ Cardinality(above \union {n}) = Cardinality(above) + 1
             /\ Cardinality(above) < Cardinality(Nodes)
             /\ \A k \in Nodes : Cardinality(Nodes \ (above \union {n})) < Cardinality(Nodes \ above)
  <2>1. Cardinality(above \union {n}) = Cardinality(above) + 1
    BY <1>1, <1>3, FS_AddElement
  <2>2. above \union {n} \subseteq Nodes /\ IsFiniteSet(above \union {n})
    BY <1>1, FS_Subset
  <2>3. Cardinality(above \union {n}) <= Cardinality(Nodes)
    BY <1>1, <2>2, FS_Subset
  <2>4. n \in Nodes \ above /\ Nodes \ (above \union {n}) = (Nodes \ above) \ {n}
    BY <1>3
  <2>5. Cardinality((Nodes \ above) \ {n}) = Cardinality(Nodes \ above) - 1
    BY <1>1, <2>4, FS_RemoveElement
  <2>6. PICK a \in Nat, b \in Nat, c \in Nat :
          a = Cardinality(above) /\ b = Cardinality(Nodes) /\ c = Cardinality(Nodes \ above)
    BY <1>2
  <2>7. a < b /\ c - 1 < c
    BY <2>1, <2>3, <2>6
  <2>8. Cardinality(Nodes \ (above \union {n})) < Cardinality(Nodes \ above)
    BY <2>4, <2>5, <2>6, <2>7
  <2> QED
    BY <2>1, <2>6, <2>7, <2>8
<1>4. \A k \in Nodes, s \in SUBSET Nodes : Room(<<k, s>>) = Cardinality(Nodes \ s)
  BY DEF Room
<1>5. above \union {n} \in SUBSET Nodes
  OBVIOUS
<1>6. Room(<<n, above>>) \in 0..Cardinality(Nodes)
  BY <1>2, <1>4
<1> QED
  BY <1>2, <1>3, <1>4, <1>5, <1>6

\* What is under a node depends on what is under the nodes below it alone.
SameBelow(f, g, n, above) ==
    n \notin above => \A k \in Nodes : f[<<k, above \union {n}>>] = g[<<k, above \union {n}>>]

LEMMA ListedFromKids ==
    ASSUME NEW t \in Trees, NEW D, NEW f, NEW g, NEW n \in Nodes, NEW above \in SUBSET Nodes,
           SameBelow(f, g, n, above)
    PROVE  Listed(t, D, f, n, above) = Listed(t, D, g, n, above)
<1>1. CASE n \in above
  BY <1>1 DEF Listed
<1>2. CASE n \notin above
  <2>1. \A i \in DOMAIN t[n].kids : t[n].kids[i] \in Nodes
    BY TreeTyped
  <2>2. [i \in DOMAIN t[n].kids |-> f[<<t[n].kids[i], above \union {n}>>]]
        = [i \in DOMAIN t[n].kids |-> g[<<t[n].kids[i], above \union {n}>>]]
    BY <1>2, <2>1 DEF SameBelow
  <2> QED
    BY <2>2 DEF Listed
<1> QED
  BY <1>1, <1>2

LEMMA ListedTyped ==
    ASSUME NEW t \in Trees, NEW D, NEW f \in [Place -> Seq(Entry)],
           NEW n \in Nodes, NEW above \in SUBSET Nodes
    PROVE  Listed(t, D, f, n, above) \in Seq(Entry)
<1> DEFINE parts == [i \in DOMAIN t[n].kids |-> f[<<t[n].kids[i], above \union {n}>>]]
<1>1. \A k \in Nodes : f[<<k, above \union {n}>>] \in Seq(Entry)
  BY DEF Place
<1>2. PICK m \in Nat : m = Len(t[n].kids) /\ DOMAIN t[n].kids = 1..m
  BY TreeTyped
<1>3. \A i \in 1..m : t[n].kids[i] \in Nodes
  BY <1>2, TreeTyped
<1>4. parts \in Seq(Seq(Entry))
  <2>1. parts = [i \in 1..m |-> f[<<t[n].kids[i], above \union {n}>>]]
    BY <1>2
  <2> HIDE DEF parts
  <2>2. \A i \in 1..m : f[<<t[n].kids[i], above \union {n}>>] \in Seq(Entry)
    BY <1>1, <1>3
  <2> QED
    BY <2>1, <2>2
<1>5. FlattenSeq(parts) \in Seq(Entry)
  BY <1>4, FlattenLaid
<1>6. <<None>> \in Seq(Entry) /\ <<>> \in Seq(Entry) /\ <<n>> \in Seq(Entry)
  BY DEF Entry
<1> HIDE DEF parts
<1> QED
  BY <1>5, <1>6 DEF Listed, parts

LEMMA ListsExist ==
    ASSUME NEW t \in Trees, NEW D
    PROVE  \E f : Lists(f, t, D)
<1> DEFINE T == Seq(Entry)
           step == [a \in Place \X [Place -> T] |-> Listed(t, D, a[2], a[1][1], a[1][2])]
           rank == [p \in Place |-> Room(p)]
<1>1. \A p \in Place : p[1] \in Nodes /\ p[2] \in SUBSET Nodes /\ p = <<p[1], p[2]>>
  BY DEF Place
<1>2. rank \in [Place -> 0..Cardinality(Nodes)] /\ Cardinality(Nodes) \in Nat
  <2>1. \A p \in Place : Room(p) \in 0..Cardinality(Nodes)
    BY <1>1, RoomLess
  <2>2. Cardinality(Nodes) \in Nat
    BY ConstantsTyped, FS_CardinalityType
  <2> QED
    BY <2>1, <2>2
<1>3. \A p \in Place : \A f \in [Place -> T] : step[<<p, f>>] = Listed(t, D, f, p[1], p[2])
  OBVIOUS
<1>4. step \in [Place \X [Place -> T] -> T]
  <2>1. \A p \in Place : \A f \in [Place -> T] : Listed(t, D, f, p[1], p[2]) \in T
    BY <1>1, ListedTyped
  <2>2. \A a \in Place \X [Place -> T] : a[1] \in Place /\ a[2] \in [Place -> T]
    OBVIOUS
  <2> QED
    BY <2>1, <2>2
<1>5. ASSUME NEW p \in Place, NEW f \in [Place -> T], NEW g \in [Place -> T],
             \A q \in Place : rank[q] < rank[p] => f[q] = g[q]
      PROVE  step[<<p, f>>] = step[<<p, g>>]
  <2>1. PICK n \in Nodes, above \in SUBSET Nodes : p = <<n, above>>
    BY <1>1
  <2>2. ASSUME n \notin above, NEW k \in Nodes PROVE f[<<k, above \union {n}>>] = g[<<k, above \union {n}>>]
    <3>1. <<k, above \union {n}>> \in Place /\ <<n, above>> \in Place
      BY DEF Place
    <3>2. Room(<<k, above \union {n}>>) < Room(<<n, above>>)
      BY <2>2, RoomLess
    <3> QED
      BY <1>5, <2>1, <3>1, <3>2
  <2>3. Listed(t, D, f, n, above) = Listed(t, D, g, n, above)
    <3>1. SameBelow(f, g, n, above)
      BY <2>2 DEF SameBelow
    <3> QED
      BY <3>1, ListedFromKids
  <2> QED
    BY <1>3, <2>1, <2>3
<1>6. T # {}
  BY <<>> \in T
<1>9. PICK N \in Nat : N = Cardinality(Nodes)
  BY <1>2
<1> HIDE DEF T, step, rank
<1>10. rank \in [Place -> 0..N]
  BY <1>2, <1>9
<1>11. FromBelow(Place, T, rank, step)
  BY <1>5 DEF FromBelow
<1>7. PICK f \in [Place -> T] : MadeBy(f, Place, step)
  BY <1>4, <1>6, <1>9, <1>10, <1>11, RecursionExists
<1>8. ASSUME NEW n \in Nodes, NEW above \in SUBSET Nodes
      PROVE  f[<<n, above>>] = Listed(t, D, f, n, above)
  <2>0. <<n, above>> \in Place
    BY DEF Place
  <2>1. PICK p \in Place : p = <<n, above>>
    BY <2>0
  <2>2. f[p] = step[<<p, f>>]
    BY <1>7 DEF MadeBy
  <2> QED
    BY <1>3, <2>1, <2>2
<1> QED
  BY <1>7, <1>8 DEF Lists, T

\* What the properties read off the tree is what is listed when nothing is too
\* deep.
LEMMA PagesListed ==
    ASSUME NEW t \in Trees
    PROVE  Lists(PagesUnder(t), t, Cardinality(Nodes))
<1> DEFINE body(u, p) ==
             LET n == p[1] IN
             IF t[n].lost THEN <<None>>
             ELSE IF n \in p[2] THEN <<>>
             ELSE IF ~t[n].hasKids
             THEN IF t[n].type = "Pages" THEN <<>> ELSE <<n>>
             ELSE FlattenSeq([i \in DOMAIN t[n].kids |-> u[<<t[n].kids[i], p[2] \union {n}>>]])
           Eq(u) == u = [p \in Nodes \X SUBSET Nodes |-> body(u, p)]
           D == Cardinality(Nodes)
<1>1. PagesUnder(t) = CHOOSE u : Eq(u)
  BY DEF PagesUnder
<1>2. \A u : \A n \in Nodes, above \in SUBSET Nodes : body(u, <<n, above>>) = Listed(t, D, u, n, above)
  <2> TAKE u
  <2> TAKE n \in Nodes, above \in SUBSET Nodes
  <2>1. n \notin above => ~ (Cardinality(above) >= D)
    <3>1. PICK a \in Nat, b \in Nat : a = Cardinality(above) /\ b = Cardinality(Nodes)
      BY RoomLess
    <3>2. n \notin above => a < b
      BY <3>1, RoomLess
    <3> QED
      BY <3>1, <3>2
  <2> QED
    BY <2>1 DEF Listed
<1>3. PICK f : Lists(f, t, D)
  BY ListsExist
<1>4. \A p \in Nodes \X SUBSET Nodes : p[1] \in Nodes /\ p[2] \in SUBSET Nodes /\ p = <<p[1], p[2]>>
  OBVIOUS
<1> HIDE DEF body
<1>5. Eq(f)
  <2>1. \A p \in Nodes \X SUBSET Nodes : f[p] = body(f, p)
    <3> TAKE p \in Nodes \X SUBSET Nodes
    <3>1. PICK n \in Nodes, above \in SUBSET Nodes : p = <<n, above>>
      BY <1>4
    <3>2. f[<<n, above>>] = Listed(t, D, f, n, above)
      BY <1>3 DEF Lists
    <3> QED
      BY <1>2, <3>1, <3>2
  <2>2. f = [p \in Nodes \X SUBSET Nodes |-> f[p]]
    BY <1>3 DEF Lists, Place
  <2> QED
    BY <2>1, <2>2
<1>6. PICK u : u = PagesUnder(t)
  OBVIOUS
<1>7. Eq(u)
  BY <1>1, <1>5, <1>6
<1>8. \A n \in Nodes, above \in SUBSET Nodes : u[<<n, above>>] = Listed(t, D, u, n, above)
  <2> TAKE n \in Nodes, above \in SUBSET Nodes
  <2>1. <<n, above>> \in Nodes \X SUBSET Nodes
    OBVIOUS
  <2>2. u[<<n, above>>] = body(u, <<n, above>>)
    BY <1>7, <2>1
  <2> QED
    BY <1>2, <2>2
<1>9. DOMAIN u = Place /\ u = [p \in Place |-> u[p]]
  BY <1>7 DEF Place
<1> HIDE DEF Eq
<1> DEFINE S == {p \in Place : u[p] = f[p]}
           rank == [p \in Place |-> Room(p)]
<1>10. rank \in [Place -> Nat] /\ \A p \in Place : rank[p] = Room(p)
  <2>1. ASSUME NEW p \in Place PROVE Room(p) \in Nat
    <3>1. PICK n \in Nodes, above \in SUBSET Nodes : p = <<n, above>>
      BY <1>4 DEF Place
    <3>2. Room(<<n, above>>) \in 0..Cardinality(Nodes)
      BY RoomLess
    <3> QED
      BY <3>1, <3>2
  <2> QED
    BY <2>1
<1>11. ASSUME NEW p \in Place, \A q \in Place : rank[q] < rank[p] => q \in S
       PROVE  p \in S
  <2>1. PICK n \in Nodes, above \in SUBSET Nodes : p = <<n, above>>
    BY <1>4 DEF Place
  <2>2. ASSUME n \notin above, NEW k \in Nodes PROVE u[<<k, above \union {n}>>] = f[<<k, above \union {n}>>]
    <3>1. <<k, above \union {n}>> \in Place
      BY DEF Place
    <3>2. Room(<<k, above \union {n}>>) < Room(<<n, above>>)
      BY <2>2, RoomLess
    <3> QED
      BY <1>10, <1>11, <2>1, <3>1, <3>2
  <2>3. Listed(t, D, u, n, above) = Listed(t, D, f, n, above)
    <3>1. SameBelow(u, f, n, above)
      BY <2>2 DEF SameBelow
    <3> QED
      BY <3>1, ListedFromKids
  <2>4. f[<<n, above>>] = Listed(t, D, f, n, above)
    BY <1>3 DEF Lists
  <2> QED
    BY <1>8, <2>1, <2>3, <2>4
<1> HIDE DEF S, rank
<1>12. Place \subseteq S
  BY <1>10, <1>11, RankInduction
<1>13. u \in [Place -> Seq(Entry)]
  <2>1. \A p \in Place : u[p] \in Seq(Entry)
    BY <1>3, <1>12 DEF S, Lists
  <2> QED
    BY <1>9, <2>1
<1> QED
  BY <1>6, <1>8, <1>13 DEF Lists

----------------------------------------------------------------------------
(* Where in the whole list the walk is.                                    *)

\* The nodes above the d-th of a descent.
Above(p, d) == {p[e].node : e \in 1..d - 1}

\* What is listed under the d-th, and under each of its kids.
Under(f, p, d) == f[<<p[d].node, Above(p, d)>>]
Parts(f, t, p, d) ==
    [i \in DOMAIN t[p[d].node].kids |-> f[<<t[p[d].node].kids[i], Above(p, d) \union {p[d].node}>>]]

\* part is in all, after the first so many.
Spans(all, part, from) ==
    /\ from \in Nat
    /\ from + Len(part) <= Len(all)
    /\ \A j \in 1..Len(part) : all[from + j] = part[j]

\* from[d] is where in the whole list what is under the d-th node begins, and
\* at[d] where in that each of its kids does.
Placed(f, t, p, from, at) ==
    /\ \A d \in 1..Len(p) :
          /\ Laid(Under(f, p, d), Parts(f, t, p, d), at[d])
          /\ Spans(f[<<Root, {}>>], Under(f, p, d), from[d])
    /\ \A d \in 1..Len(p) - 1 : from[d + 1] = from[d] + at[d][p[d].kid - 2]

\* The nodes with kids that are left out are too deep for the walk.
Limit(D) == D = MaxDepth \/ (D = Cardinality(Nodes) /\ ~TooDeep)

LEMMA AboveCount ==
    ASSUME NEW t \in Trees, NEW p, Chain(t, p), NEW d \in 1..Len(p) + 1
    PROVE  /\ Above(p, d) \in SUBSET Nodes /\ Cardinality(Above(p, d)) = d - 1
           /\ d \in 1..Len(p) => p[d].node \notin Above(p, d) /\ p[d].node \in Nodes
           /\ d \in 1..Len(p) => Above(p, d + 1) = Above(p, d) \union {p[d].node}
<1>0. PICK m \in Nat : m = Len(p) /\ p \in Seq(Frame)
  BY DEF Chain
<1>1. \A e \in 1..m : p[e].node \in Nodes
  <2>1. \A e \in 1..m : p[e] \in Frame
    BY <1>0
  <2> QED
    BY <2>1 DEF Frame
<1>2. \A c \in 1..m : /\ Above(p, c + 1) = Above(p, c) \union {p[c].node}
                      /\ p[c].node \notin Above(p, c)
  <2> TAKE c \in 1..m
  <2>1. \A e : e \in 1..(c + 1) - 1 <=> e \in 1..c - 1 \/ e = c
    OBVIOUS
  <2>2. p[c].node \notin Above(p, c)
    BY <1>0 DEF Above, Chain
  <2> QED
    BY <2>1, <2>2 DEF Above
<1> DEFINE S == {k \in 0..m : /\ Above(p, k + 1) \in SUBSET Nodes
                              /\ IsFiniteSet(Above(p, k + 1))
                              /\ Cardinality(Above(p, k + 1)) = k}
<1>3. 0 \in S
  <2>1. Above(p, 0 + 1) = {}
    BY DEF Above
  <2>2. PICK above : above = Above(p, 0 + 1)
    OBVIOUS
  <2>3. above \in SUBSET Nodes /\ IsFiniteSet(above) /\ Cardinality(above) = 0
    BY <2>1, <2>2, FS_EmptySet
  <2>4. 0 \in 0..m
    OBVIOUS
  <2> QED
    BY <2>2, <2>3, <2>4
<1>4. ASSUME NEW k \in 1..m, k - 1 \in S PROVE k \in S
  <2>1. (k - 1) + 1 = k
    OBVIOUS
  <2>2. Above(p, k) \in SUBSET Nodes /\ IsFiniteSet(Above(p, k)) /\ Cardinality(Above(p, k)) = k - 1
    BY <1>4, <2>1
  <2>3. Above(p, k + 1) = Above(p, k) \union {p[k].node} /\ p[k].node \notin Above(p, k)
    BY <1>2
  <2>5. PICK above : above = Above(p, k)
    OBVIOUS
  <2>6. /\ IsFiniteSet(above \union {p[k].node})
        /\ Cardinality(above \union {p[k].node}) = Cardinality(above) + 1
    BY <2>2, <2>3, <2>5, FS_AddElement
  <2>4. IsFiniteSet(Above(p, k + 1)) /\ Cardinality(Above(p, k + 1)) = k
    BY <2>1, <2>2, <2>3, <2>5, <2>6
  <2> QED
    BY <1>1, <2>2, <2>3, <2>4
<1> HIDE DEF S
<1>5. 0..m \subseteq S
  BY <1>3, <1>4, CountInduction
<1>6. d - 1 \in 0..m /\ (d - 1) + 1 = d
  BY <1>0
<1>7. d - 1 \in S
  BY <1>5, <1>6
<1>8. Above(p, d) \in SUBSET Nodes /\ Cardinality(Above(p, d)) = d - 1
  BY <1>6, <1>7 DEF S
<1> QED
  BY <1>0, <1>1, <1>2, <1>8

\* What is under a node that the walk descends into.
LEMMA Descended ==
    ASSUME NEW t \in Trees, NEW D, NEW f, Lists(f, t, D), NEW n \in Nodes,
           NEW above \in SUBSET Nodes,
           ~t[n].lost, n \notin above, t[n].hasKids, ~ (Cardinality(above) >= D)
    PROVE  LET parts == [i \in DOMAIN t[n].kids |-> f[<<t[n].kids[i], above \union {n}>>]] IN
           /\ \E at : Laid(f[<<n, above>>], parts, at)
           /\ parts \in Seq(Seq(Entry)) /\ Len(parts) = Len(t[n].kids)
           /\ f[<<n, above>>] \in Seq(Entry)
<1> DEFINE parts == [i \in DOMAIN t[n].kids |-> f[<<t[n].kids[i], above \union {n}>>]]
<1>1. f[<<n, above>>] = FlattenSeq(parts)
  BY DEF Lists, Listed
<1>2. PICK m \in Nat : m = Len(t[n].kids) /\ DOMAIN t[n].kids = 1..m
  BY TreeTyped
<1>3. \A i \in 1..m : f[<<t[n].kids[i], above \union {n}>>] \in Seq(Entry)
  <2> TAKE i \in 1..m
  <2>1. t[n].kids[i] \in Nodes
    BY <1>2, TreeTyped
  <2>2. <<t[n].kids[i], above \union {n}>> \in Place
    BY <2>1 DEF Place
  <2> QED
    BY <2>2 DEF Lists
<1>4. parts \in Seq(Seq(Entry)) /\ Len(parts) = m
  <2>1. parts = [i \in 1..m |-> f[<<t[n].kids[i], above \union {n}>>]]
    BY <1>2
  <2> HIDE DEF parts
  <2> QED
    BY <1>3, <2>1
<1> HIDE DEF parts
<1>5. FlattenSeq(parts) \in Seq(Entry) /\ \E at : Laid(FlattenSeq(parts), parts, at)
  BY <1>4, FlattenLaid
<1> QED
  BY <1>1, <1>2, <1>4, <1>5 DEF parts

\* Where the next kid of the top begins.
Here(p, from, at) == from[Len(p)] + at[Len(p)][p[Len(p)].kid - 1]

\* Each part has its place in the whole.
PartsSpan(all, parts, at, from) ==
    \A j \in 1..Len(parts) : Len(parts[j]) \in Nat =>
        /\ Spans(all, parts[j], from + at[j - 1])
        /\ at[j] = at[j - 1] + Len(parts[j])
        /\ at[j - 1] \in Nat /\ at[j] \in Nat /\ from \in Nat

LEMMA PartSpans ==
    ASSUME NEW all, Len(all) \in Nat, NEW under, Len(under) \in Nat,
           NEW parts, Len(parts) \in Nat, NEW at, NEW from,
           Laid(under, parts, at), Spans(all, under, from)
    PROVE  PartsSpan(all, parts, at, from)
<1> SUFFICES ASSUME NEW j \in 1..Len(parts), Len(parts[j]) \in Nat
             PROVE  /\ Spans(all, parts[j], from + at[j - 1])
                    /\ at[j] = at[j - 1] + Len(parts[j])
                    /\ at[j - 1] \in Nat /\ at[j] \in Nat /\ from \in Nat
  BY DEF PartsSpan
<1>1. PICK n \in Nat : n = Len(parts)
  OBVIOUS
<1>2. PICK c \in Nat, u \in Nat, l \in Nat : c = Len(parts[j]) /\ u = Len(under) /\ l = Len(all)
  OBVIOUS
<1>4. j \in 0..n /\ j - 1 \in 0..n
  BY <1>1
<1>5. at \in [0..n -> Nat]
  BY <1>1 DEF Laid
<1>6. PICK a \in Nat, b \in Nat : a = at[j - 1] /\ b = at[j]
  BY <1>4, <1>5
<1>7. /\ at[j] = at[j - 1] + Len(parts[j]) /\ at[j] <= Len(under)
      /\ \A i \in 1..Len(parts[j]) : under[at[j - 1] + i] = parts[j][i]
  BY DEF Laid
<1>8. b = a + c /\ b <= u /\ \A i \in 1..c : under[a + i] = parts[j][i]
  BY <1>2, <1>6, <1>7
<1>9. from \in Nat /\ from + u <= l /\ \A i \in 1..u : all[from + i] = under[i]
  BY <1>2 DEF Spans
<1>10. \A i \in 1..c : a + i \in 1..u /\ (from + a) + i = from + (a + i)
  BY <1>8, <1>9
<1>11. \A i \in 1..c : all[(from + a) + i] = parts[j][i]
  BY <1>8, <1>9, <1>10
<1>12. from + a \in Nat /\ (from + a) + c <= l
  BY <1>8, <1>9
<1>13. Spans(all, parts[j], from + at[j - 1])
  BY <1>2, <1>6, <1>11, <1>12 DEF Spans
<1> QED
  BY <1>6, <1>7, <1>9, <1>13

\* The nodes a descent goes through are listed by their kids.
ListedByKids(f, t, p, d) ==
    /\ p[d].node \in Nodes /\ Len(Under(f, p, d)) \in Nat
    /\ Len(Parts(f, t, p, d)) = Len(t[p[d].node].kids)
    /\ Len(Parts(f, t, p, d)) \in Nat
    /\ \A i \in 1..Len(t[p[d].node].kids) :
          /\ t[p[d].node].kids[i] \in Nodes
          /\ Parts(f, t, p, d)[i] = f[<<t[p[d].node].kids[i], Above(p, d + 1)>>]
          /\ Parts(f, t, p, d)[i] \in Seq(Entry)
          /\ Len(Parts(f, t, p, d)[i]) \in Nat

LEMMA ChainListed ==
    ASSUME NEW t \in Trees, NEW D, NEW f, Lists(f, t, D), NEW p, Chain(t, p),
           NEW d \in 1..Len(p)
    PROVE  ListedByKids(f, t, p, d)
<1>0. PICK m \in Nat : m = Len(p) /\ d \in 1..m + 1 /\ d + 1 \in 1..m + 1
  BY DEF Chain
<1>1. /\ Above(p, d) \in SUBSET Nodes /\ p[d].node \in Nodes
      /\ Above(p, d + 1) = Above(p, d) \union {p[d].node}
  BY <1>0, AboveCount
<1>2. PICK n \in Nodes, above \in SUBSET Nodes, over \in SUBSET Nodes :
        n = p[d].node /\ above = Above(p, d) /\ over = above \union {n} /\ over = Above(p, d + 1)
  BY <1>1
<1>3. PICK k \in Nat : k = Len(t[n].kids) /\ DOMAIN t[n].kids = 1..k
  BY TreeTyped
<1>4. \A i \in 1..k : t[n].kids[i] \in Nodes
  BY <1>3, TreeTyped
<1>5. \A i \in 1..k : f[<<t[n].kids[i], over>>] \in Seq(Entry)
  <2> TAKE i \in 1..k
  <2>1. <<t[n].kids[i], over>> \in Place
    BY <1>4 DEF Place
  <2> QED
    BY <2>1 DEF Lists
<1>6. Parts(f, t, p, d) = [i \in 1..k |-> f[<<t[n].kids[i], over>>]]
  BY <1>2, <1>3 DEF Parts
<1>7. Parts(f, t, p, d) \in Seq(Seq(Entry)) /\ Len(Parts(f, t, p, d)) = k
  BY <1>5, <1>6
<1>8. f[<<n, above>>] \in Seq(Entry)
  <2>1. <<n, above>> \in Place
    BY DEF Place
  <2> QED
    BY <2>1 DEF Lists
<1>9. Len(Under(f, p, d)) \in Nat
  BY <1>2, <1>8 DEF Under
<1>10. \A i \in 1..k : /\ Parts(f, t, p, d)[i] = f[<<t[n].kids[i], over>>]
                       /\ Len(f[<<t[n].kids[i], over>>]) \in Nat
  BY <1>5, <1>6
<1> QED
  BY <1>2, <1>3, <1>4, <1>5, <1>7, <1>9, <1>10 DEF ListedByKids

LEMMA ListedAll ==
    ASSUME NEW t \in Trees, NEW D, NEW f, Lists(f, t, D)
    PROVE  f[<<Root, {}>>] \in Seq(Entry) /\ Len(f[<<Root, {}>>]) \in Nat
<1>1. <<Root, {}>> \in Place
  BY ConstantsTyped DEF Place
<1>2. f[<<Root, {}>>] \in Seq(Entry)
  BY <1>1 DEF Lists
<1> QED
  BY <1>2

\* A walk begins with the whole list before it.
LEMMA PlacedStarts ==
    ASSUME NEW t \in Trees, t[Root].hasKids, NEW D, ~ (0 >= D), NEW f, Lists(f, t, D)
    PROVE  LET p == <<[node |-> Root, kid |-> 1]>> IN
           \E from, at : Placed(f, t, p, from, at) /\ Here(p, from, at) = 0
<1>1. PICK p : p = <<[node |-> Root, kid |-> 1]>>
  OBVIOUS
<1>2. Len(p) = 1 /\ p[1].node = Root /\ p[1].kid = 1
  BY <1>1
<1>3. Above(p, 1) = {}
  BY DEF Above
<1>4. ~t[Root].lost /\ Root \in Nodes /\ {} \in SUBSET Nodes /\ Cardinality({}) = 0
  BY TreesAssumption, FS_EmptySet
<1>5. PICK a : Laid(Under(f, p, 1), Parts(f, t, p, 1), a)
  BY <1>2, <1>3, <1>4, Descended DEF Under, Parts
<1> DEFINE from == [d \in {1} |-> 0]
           at   == [d \in {1} |-> a]
<1>6. from[1] = 0 /\ at[1] = a
  OBVIOUS
<1> HIDE DEF from, at
<1>7. PICK all \in Seq(Entry) : all = f[<<Root, {}>>] /\ all = Under(f, p, 1)
  BY <1>2, <1>3, ListedAll DEF Under
<1>8. Spans(all, all, 0)
  <2>1. PICK l \in Nat : l = Len(all)
    OBVIOUS
  <2>2. \A j \in 1..l : 0 + j = j
    OBVIOUS
  <2> QED
    BY <2>1, <2>2 DEF Spans
<1>9. \A d \in 1..1 : d = 1
  OBVIOUS
<1>10. \A d \in 1..1 - 1 : FALSE
  OBVIOUS
<1>11. Placed(f, t, p, from, at)
  BY <1>2, <1>5, <1>6, <1>7, <1>8, <1>9, <1>10 DEF Placed
<1>12. Here(p, from, at) = 0
  <2>1. a[0] = 0 /\ 1 - 1 = 0
    BY <1>5 DEF Laid
  <2>2. Here(p, from, at) = 0 + a[1 - 1]
    BY <1>2, <1>6 DEF Here
  <2> QED
    BY <2>1, <2>2
<1> QED
  BY <1>1, <1>11, <1>12

\* The kid that the top passed last begins at h.
After(p, from, at, h) == h = from[Len(p)] + at[Len(p)][p[Len(p)].kid - 2]

\* The next kid of p's top is passed in q.
Follows(p, q) ==
    /\ Len(q) = Len(p)
    /\ \A d \in 1..Len(p) : q[d].node = p[d].node
    /\ \A d \in 1..Len(p) - 1 : q[d] = p[d]
    /\ q[Len(p)].kid = p[Len(p)].kid + 1

\* The walk goes from p on to q, past what is listed under k.
Moved(f, t, p, q, k, from, at) ==
    LET part == f[<<k, Above(p, Len(p) + 1)>>] IN
    /\ Placed(f, t, q, from, at)
    /\ Spans(f[<<Root, {}>>], part, Here(p, from, at))
    /\ Here(q, from, at) = Here(p, from, at) + Len(part)
    /\ After(q, from, at, Here(p, from, at))

\* Passing a kid: what is listed under it is where the walk was, and the walk
\* goes on after it.
LEMMA PlacedMoves ==
    ASSUME NEW t \in Trees, NEW D, NEW f, Lists(f, t, D), NEW p, Chain(t, p), p # <<>>,
           NEW q, Chain(t, q), Follows(p, q),
           p[Len(p)].kid \in 1..Len(t[p[Len(p)].node].kids),
           NEW from, NEW at, Placed(f, t, p, from, at),
           NEW k, k = t[p[Len(p)].node].kids[p[Len(p)].kid]
    PROVE  Moved(f, t, p, q, k, from, at)
<1>1. PICK m \in Nat \ {0} : m = Len(p)
  <2>1. Len(p) \in 1..MaxDepth /\ MaxDepth \in Nat
    BY TopOfChain, ConstantsTyped
  <2> QED
    BY <2>1
<1>2. \A d \in 1..m : /\ Under(f, q, d) = Under(f, p, d) /\ Parts(f, t, q, d) = Parts(f, t, p, d)
  <2> TAKE d \in 1..m
  <2>1. \A e \in 1..d - 1 : q[e].node = p[e].node
    BY <1>1 DEF Follows
  <2>2. Above(q, d) = Above(p, d) /\ q[d].node = p[d].node
    BY <1>1, <2>1 DEF Above, Follows
  <2> QED
    BY <2>2 DEF Under, Parts
<1>3. Placed(f, t, q, from, at)
  <2>1. Len(q) = m /\ \A d \in 1..m - 1 : q[d] = p[d]
    BY <1>1 DEF Follows
  <2> QED
    BY <1>1, <1>2, <2>1 DEF Placed
<1>4. m \in 1..m
  BY <1>1
<1>5. PICK parts, under, a, all, n, i :
        /\ parts = Parts(f, t, p, m) /\ under = Under(f, p, m) /\ a = at[m]
        /\ all = f[<<Root, {}>>] /\ n = p[m].node /\ i = p[m].kid
  OBVIOUS
<1>6. PICK K \in Nat : K = Len(t[n].kids)
  <2>1. ListedByKids(f, t, p, m)
    BY <1>1, <1>4, ChainListed
  <2>2. n \in Nodes
    BY <1>5, <2>1 DEF ListedByKids
  <2> QED
    BY <2>2, TreeTyped
<1>7. /\ Len(under) \in Nat /\ Len(parts) = K /\ i \in 1..K
      /\ parts[i] = f[<<k, Above(p, m + 1)>>] /\ Len(parts[i]) \in Nat
  <2>1. m \in 1..Len(p) /\ i \in 1..Len(t[p[m].node].kids) /\ k = t[p[m].node].kids[i]
    BY <1>1, <1>4, <1>5
  <2>5. ListedByKids(f, t, p, m)
    BY <2>1, ChainListed
  <2>2. /\ Len(Under(f, p, m)) \in Nat
        /\ Len(Parts(f, t, p, m)) = Len(t[p[m].node].kids)
    BY <2>5 DEF ListedByKids
  <2>3. \A j \in 1..Len(t[p[m].node].kids) :
           /\ Parts(f, t, p, m)[j] = f[<<t[p[m].node].kids[j], Above(p, m + 1)>>]
           /\ Len(Parts(f, t, p, m)[j]) \in Nat
    BY <2>5 DEF ListedByKids
  <2>4. /\ Parts(f, t, p, m)[i] = f[<<t[p[m].node].kids[i], Above(p, m + 1)>>]
        /\ Len(Parts(f, t, p, m)[i]) \in Nat
    BY <2>1, <2>3
  <2> QED
    BY <1>5, <1>6, <2>1, <2>2, <2>4
<1>8. Len(all) \in Nat
  BY <1>5, ListedAll
<1>9. Laid(under, parts, a) /\ Spans(all, under, from[m])
  BY <1>1, <1>4, <1>5 DEF Placed
<1>10. /\ Spans(all, parts[i], from[m] + a[i - 1])
       /\ a[i] = a[i - 1] + Len(parts[i])
       /\ a[i - 1] \in Nat /\ a[i] \in Nat /\ from[m] \in Nat
  <2>1. Len(parts) \in Nat /\ i \in 1..Len(parts)
    BY <1>6, <1>7
  <2> QED
    BY <1>7, <1>8, <1>9, <2>1, PartSpans DEF PartsSpan
<1>11. Here(p, from, at) = from[m] + a[i - 1]
  BY <1>1, <1>5 DEF Here
<1>12. Len(q) = m /\ q[m].kid = i + 1 /\ (i + 1) - 1 = i /\ (i + 1) - 2 = i - 1
  <2>1. i \in Nat
    BY <1>7
  <2>2. (i + 1) - 1 = i /\ (i + 1) - 2 = i - 1
    BY <2>1
  <2>3. Len(q) = m /\ q[m].kid = i + 1
    BY <1>1, <1>5 DEF Follows
  <2> QED
    BY <2>2, <2>3
<1>13. Here(q, from, at) = from[m] + a[i]
  BY <1>5, <1>12 DEF Here
<1>14. PICK c \in Nat, x \in Nat, y \in Nat : c = Len(parts[i]) /\ x = a[i - 1] /\ y = from[m]
  BY <1>7, <1>10
<1>15. y + (x + c) = (y + x) + c /\ y + x \in Nat
  OBVIOUS
<1>16. Here(q, from, at) = Here(p, from, at) + Len(parts[i]) /\ Here(p, from, at) \in Nat
  BY <1>10, <1>11, <1>13, <1>14, <1>15
<1>17. After(q, from, at, Here(p, from, at))
  BY <1>5, <1>11, <1>12 DEF After
<1> QED
  BY <1>1, <1>3, <1>5, <1>7, <1>10, <1>11, <1>16, <1>17 DEF Moved

\* The walk may go on from r where h is.
Begun(f, t, r, h) == \E from, at : Placed(f, t, r, from, at) /\ Here(r, from, at) = h

\* Descending: what is under the kid begins where the walk was.
LEMMA PlacedGrows ==
    ASSUME NEW t \in Trees, NEW D, NEW f, Lists(f, t, D), NEW q, Chain(t, q), q # <<>>,
           NEW k \in Nodes, ~t[k].lost, t[k].hasKids, k \notin Above(q, Len(q) + 1),
           ~ (Len(q) >= D),
           NEW from, NEW at, Placed(f, t, q, from, at), NEW h \in Nat, After(q, from, at, h),
           Spans(f[<<Root, {}>>], f[<<k, Above(q, Len(q) + 1)>>], h)
    PROVE  Begun(f, t, Append(q, [node |-> k, kid |-> 1]), h)
<1>1. PICK m \in Nat \ {0} : m = Len(q) /\ q \in Seq(Frame)
  <2>1. Len(q) \in 1..MaxDepth /\ MaxDepth \in Nat
    BY TopOfChain, ConstantsTyped
  <2> QED
    BY <2>1 DEF Chain
<1>2. PICK r : r = Append(q, [node |-> k, kid |-> 1])
  OBVIOUS
<1>3. /\ Len(r) = m + 1 /\ r[m + 1].node = k /\ r[m + 1].kid = 1
      /\ \A d \in 1..m : r[d] = q[d]
  <2>1. [node |-> k, kid |-> 1] \in Frame
    BY DEF Frame
  <2>2. PICK fr \in Frame : fr = [node |-> k, kid |-> 1] /\ fr.node = k /\ fr.kid = 1
    BY <2>1
  <2>3. /\ Len(Append(q, fr)) = Len(q) + 1
        /\ \A i \in 1..Len(q) : Append(q, fr)[i] = q[i]
        /\ Append(q, fr)[Len(q) + 1] = fr
    BY <1>1, AppendProperties
  <2> QED
    BY <1>1, <1>2, <2>2, <2>3
<1>4. \A d \in 1..m : /\ Above(r, d) = Above(q, d) /\ Under(f, r, d) = Under(f, q, d)
                      /\ Parts(f, t, r, d) = Parts(f, t, q, d)
  <2> TAKE d \in 1..m
  <2>1. \A e \in 1..d - 1 : r[e] = q[e]
    BY <1>1, <1>3
  <2>3. Above(r, d) = Above(q, d)
    BY <2>1 DEF Above
  <2>2. Above(r, d) = Above(q, d) /\ r[d] = q[d]
    BY <1>3, <2>3
  <2> QED
    BY <2>2 DEF Under, Parts
<1>5. Above(r, m + 1) = Above(q, m + 1)
  <2>1. \A e \in 1..(m + 1) - 1 : r[e] = q[e]
    BY <1>1, <1>3
  <2> QED
    BY <2>1 DEF Above
<1>6. /\ Above(q, m + 1) \in SUBSET Nodes /\ Cardinality(Above(q, m + 1)) = m
  <2>1. m + 1 \in 1..m + 1 /\ (m + 1) - 1 = m
    BY <1>1
  <2> QED
    BY <1>1, <2>1, AboveCount
<1>7. PICK a : Laid(Under(f, r, m + 1), Parts(f, t, r, m + 1), a)
  <2>1. k \notin Above(q, m + 1) /\ ~ (Cardinality(Above(q, m + 1)) >= D)
    BY <1>1, <1>6
  <2>2. \E a : Laid(f[<<k, Above(q, m + 1)>>],
                    [i \in DOMAIN t[k].kids |-> f[<<t[k].kids[i], Above(q, m + 1) \union {k}>>]], a)
    <3>1. PICK above \in SUBSET Nodes : above = Above(q, m + 1)
      BY <1>6
    <3>2. k \notin above /\ ~ (Cardinality(above) >= D)
      BY <2>1, <3>1
    <3>3. \E a : Laid(f[<<k, above>>], [i \in DOMAIN t[k].kids |-> f[<<t[k].kids[i], above \union {k}>>]], a)
      BY <3>2, Descended
    <3> QED
      BY <3>1, <3>3
  <2> QED
    BY <1>3, <1>5, <2>2 DEF Under, Parts
<1> DEFINE from2 == [d \in 1..m + 1 |-> IF d = m + 1 THEN h ELSE from[d]]
           at2   == [d \in 1..m + 1 |-> IF d = m + 1 THEN a ELSE at[d]]
<1>14. m + 1 \in 1..m + 1 /\ \A d \in 1..m : d \in 1..m + 1 /\ d # m + 1
  OBVIOUS
<1>8. from2[m + 1] = h /\ at2[m + 1] = a
  BY <1>14, Zenon
<1>9. \A d \in 1..m : from2[d] = from[d] /\ at2[d] = at[d]
  BY <1>14, Zenon
<1> HIDE DEF from2, at2
<1>10. \A d \in 1..m + 1 : /\ Laid(Under(f, r, d), Parts(f, t, r, d), at2[d])
                           /\ Spans(f[<<Root, {}>>], Under(f, r, d), from2[d])
  <2> TAKE d \in 1..m + 1
  <2>1. CASE d = m + 1
    <3>1. Under(f, r, m + 1) = f[<<k, Above(q, m + 1)>>]
      BY <1>3, <1>5 DEF Under
    <3> QED
      BY <1>1, <1>7, <1>8, <2>1, <3>1
  <2>2. CASE d # m + 1
    <3>1. d \in 1..m
      BY <1>1, <2>2
    <3> QED
      BY <1>1, <1>4, <1>9, <3>1 DEF Placed
  <2> QED
    BY <2>1, <2>2
<1>11. \A d \in 1..m : from2[d + 1] = from2[d] + at2[d][r[d].kid - 2]
  <2> TAKE d \in 1..m
  <2>1. r[d] = q[d] /\ from2[d] = from[d] /\ at2[d] = at[d]
    BY <1>3, <1>9
  <2>2. CASE d = m
    BY <1>1, <1>8, <2>1, <2>2 DEF After
  <2>3. CASE d # m
    <3>1. d \in 1..m - 1 /\ d + 1 \in 1..m
      BY <1>1, <2>3
    <3>2. from[d + 1] = from[d] + at[d][q[d].kid - 2]
      BY <1>1, <3>1 DEF Placed
    <3> QED
      BY <1>9, <2>1, <3>1, <3>2
  <2> QED
    BY <2>2, <2>3
<1>12. Placed(f, t, r, from2, at2)
  <2>1. (m + 1) - 1 = m
    BY <1>1
  <2> QED
    BY <1>3, <1>10, <1>11, <2>1 DEF Placed
<1>13. Here(r, from2, at2) = h
  <2>1. a[0] = 0 /\ 1 - 1 = 0
    BY <1>7 DEF Laid
  <2>2. Here(r, from2, at2) = h + a[1 - 1]
    BY <1>3, <1>8 DEF Here
  <2> QED
    BY <2>1, <2>2
<1> QED
  BY <1>2, <1>12, <1>13 DEF Begun

\* The walk leaves the top of p for q.
Left(f, t, p, q, from, at) ==
    /\ Placed(f, t, q, from, at)
    /\ p[Len(p)].kid = Len(t[p[Len(p)].node].kids) + 1 =>
         Here(p, from, at) = IF q = <<>> THEN Len(f[<<Root, {}>>]) ELSE Here(q, from, at)

\* Ascending from a node all of whose kids are passed: the walk is after it in
\* the node above, or after the whole list.
LEMMA PlacedShrinks ==
    ASSUME NEW t \in Trees, NEW D, NEW f, Lists(f, t, D), NEW p, Chain(t, p), p # <<>>,
           NEW from, NEW at, Placed(f, t, p, from, at)
    PROVE  Left(f, t, p, Front(p), from, at)
<1>1. PICK m \in Nat \ {0} : m = Len(p) /\ p \in Seq(Frame)
  <2>1. Len(p) \in 1..MaxDepth /\ MaxDepth \in Nat
    BY TopOfChain, ConstantsTyped
  <2> QED
    BY <2>1 DEF Chain
<1>2. PICK q : /\ q = Front(p) /\ Chain(t, q) /\ Len(q) = m - 1
               /\ \A d \in 1..m - 1 : q[d] = p[d]
  BY <1>1, ChainShrinks
<1>3. \A d \in 1..m - 1 : /\ Under(f, q, d) = Under(f, p, d) /\ Parts(f, t, q, d) = Parts(f, t, p, d)
  <2> TAKE d \in 1..m - 1
  <2>1. \A e \in 1..d - 1 : q[e] = p[e]
    BY <1>1, <1>2
  <2>2. Above(q, d) = Above(p, d) /\ q[d] = p[d]
    BY <1>2, <2>1 DEF Above
  <2> QED
    BY <2>2 DEF Under, Parts
<1>4. Placed(f, t, q, from, at)
  <2>1. \A d \in 1..m - 1 : d \in 1..m
    BY <1>1
  <2>2. \A d \in 1..(m - 1) - 1 : d \in 1..m - 1
    BY <1>1
  <2> QED
    BY <1>1, <1>2, <1>3, <2>1, <2>2 DEF Placed
<1>5. ASSUME p[m].kid = Len(t[p[m].node].kids) + 1
      PROVE  /\ q # <<>> => Here(q, from, at) = Here(p, from, at)
             /\ q = <<>> => Here(p, from, at) = Len(f[<<Root, {}>>])
  <2>1. m \in 1..m
    BY <1>1
  <2>2. PICK parts, under, a, all, n :
          /\ parts = Parts(f, t, p, m) /\ under = Under(f, p, m) /\ a = at[m]
          /\ all = f[<<Root, {}>>] /\ n = p[m].node
    OBVIOUS
  <2>3. PICK K \in Nat : K = Len(t[n].kids) /\ Len(parts) = K
    BY <1>1, <2>1, <2>2, ChainListed DEF ListedByKids
  <2>4. Laid(under, parts, a) /\ Spans(all, under, from[m])
    BY <1>1, <2>1, <2>2 DEF Placed
  <2>5. a[K] = Len(under) /\ from[m] \in Nat
    BY <2>3, <2>4 DEF Laid, Spans
  <2>6. PICK u \in Nat, l \in Nat : u = Len(under) /\ l = Len(all)
    BY <1>1, <2>1, <2>2, ChainListed, ListedAll DEF ListedByKids
  <2>7. Here(p, from, at) = from[m] + u
    <3>1. (K + 1) - 1 = K /\ p[m].kid = K + 1
      BY <1>5, <2>2, <2>3
    <3> QED
      BY <1>1, <2>2, <2>5, <2>6, <3>1 DEF Here
  <2>8. CASE m = 1
    <3>1. n = Root /\ Above(p, 1) = {}
      BY <1>1, <2>2, <2>8 DEF Above, Chain
    <3>2. under = all
      BY <2>2, <2>8, <3>1 DEF Under
    <3>3. from[m] + l <= l
      BY <2>4, <2>6, <3>2 DEF Spans
    <3>4. from[m] + u = l
      BY <2>5, <2>6, <3>2, <3>3
    <3>5. q = <<>>
      BY <1>2, <2>8, EmptySeq DEF Chain
    <3> QED
      BY <2>2, <2>6, <2>7, <3>4, <3>5
  <2>9. CASE m # 1
    <3>1. m - 1 \in 1..m /\ m - 1 \in 1..m - 1 /\ (m - 1) + 1 = m /\ q # <<>>
      <4>1. m - 1 \in 1..m /\ m - 1 \in 1..m - 1 /\ (m - 1) + 1 = m /\ m - 1 # 0
        BY <1>1, <2>9
      <4> QED
        BY <1>2, <4>1
    <3>2. PICK e \in Nat : e = m - 1 /\ e \in 1..m - 1 /\ e \in 1..m /\ e + 1 = m
      BY <3>1
    <3>3. /\ from[m] = from[e] + at[e][p[e].kid - 2]
          /\ Laid(Under(f, p, e), Parts(f, t, p, e), at[e])
          /\ Spans(all, Under(f, p, e), from[e])
      BY <1>1, <2>2, <3>2 DEF Placed
    <3>4. /\ p[e].kid - 1 \in 1..Len(t[p[e].node].kids) /\ p[e].kid \in Nat
          /\ n = t[p[e].node].kids[p[e].kid - 1]
      <4>1. p[e] \in Frame
        BY <1>1, <3>2
      <4> QED
        BY <1>1, <2>2, <3>2, <4>1 DEF Chain, Frame
    <3>5. PICK i \in Nat : i = p[e].kid - 1 /\ i - 1 = p[e].kid - 2
      BY <3>4
    <3>6. /\ Parts(f, t, p, e)[i] = under /\ i \in 1..Len(Parts(f, t, p, e))
          /\ Len(Parts(f, t, p, e)) \in Nat /\ Len(Under(f, p, e)) \in Nat
      <4>1. e \in 1..Len(p) /\ i \in 1..Len(t[p[e].node].kids)
        BY <1>1, <3>2, <3>4, <3>5
      <4>2. /\ Len(Parts(f, t, p, e)) = Len(t[p[e].node].kids)
            /\ Len(Parts(f, t, p, e)) \in Nat /\ Len(Under(f, p, e)) \in Nat
            /\ Parts(f, t, p, e)[i] = f[<<t[p[e].node].kids[i], Above(p, e + 1)>>]
        BY <4>1, ChainListed DEF ListedByKids
      <4>3. under = f[<<n, Above(p, m)>>]
        BY <2>2 DEF Under
      <4> QED
        BY <3>2, <3>4, <3>5, <4>1, <4>2, <4>3
    <3>7. /\ at[e][i] = at[e][i - 1] + Len(under)
          /\ at[e][i - 1] \in Nat /\ from[e] \in Nat
      <4>1. PICK ps, v, b : ps = Parts(f, t, p, e) /\ v = Under(f, p, e) /\ b = at[e]
        OBVIOUS
      <4>2. /\ Len(all) \in Nat /\ Len(v) \in Nat /\ Len(ps) \in Nat /\ i \in 1..Len(ps)
            /\ ps[i] = under /\ Len(ps[i]) \in Nat
            /\ Laid(v, ps, b) /\ Spans(all, v, from[e])
        BY <2>6, <3>3, <3>6, <4>1
      <4>4. PartsSpan(all, ps, b, from[e])
        BY <4>2, PartSpans
      <4>3. b[i] = b[i - 1] + Len(ps[i]) /\ b[i - 1] \in Nat /\ from[e] \in Nat
        BY <4>2, <4>4 DEF PartsSpan
      <4> QED
        BY <4>1, <4>2, <4>3
    <3>8. Here(q, from, at) = from[e] + at[e][i]
      BY <1>2, <3>2, <3>5 DEF Here
    <3>9. PICK x \in Nat, y \in Nat : x = at[e][i - 1] /\ y = from[e]
      BY <3>7
    <3>10. y + (x + u) = (y + x) + u
      OBVIOUS
    <3> QED
      BY <2>6, <2>7, <3>1, <3>3, <3>5, <3>7, <3>8, <3>9, <3>10
  <2> QED
    BY <2>8, <2>9
<1> QED
  BY <1>1, <1>2, <1>4, <1>5 DEF Left

----------------------------------------------------------------------------
(* The count.                                                              *)

\* A sum of numbers is a number, and no more than the limit.
LEMMA TotalTyped ==
    ASSUME NEW N \in Nat, NEW counts, Len(counts) = N, \A i \in 1..N : counts[i] \in Nat
    PROVE  Total(counts) \in 0..MaxPages
<1> DEFINE capped(x) == IF x >= MaxPages THEN MaxPages ELSE x
           T == 0..MaxPages
           step == [p \in (1..N) \X T |-> capped(p[2] + counts[p[1]])]
           body(u, i) == IF i = 0 THEN 0
                         ELSE LET sum == u[i - 1] + counts[i] IN
                              IF sum >= MaxPages THEN MaxPages ELSE sum
           Eq(u) == u = [i \in 0..N |-> body(u, i)]
<1>1. MaxPages \in Nat /\ 0 \in T
  BY ConstantsTyped
<1>2. \A x \in Nat : capped(x) \in T
  BY <1>1
<1>3. Total(counts) = (CHOOSE u : Eq(u))[N]
  BY DEF Total
<1>4. step \in [(1..N) \X T -> T]
  <2>1. \A k \in 1..N : \A s \in T : s + counts[k] \in Nat
    BY <1>1
  <2> HIDE DEF capped, T
  <2> QED
    BY <1>2, <2>1
<1>5. \A k \in 1..N : \A s \in T : step[<<k, s>>] = capped(s + counts[k])
  OBVIOUS
<1> HIDE DEF step, T
<1>6. PICK f \in [0..N -> T] : Stepped(f, N, 0, step)
  BY <1>1, <1>4, StepsExist
<1>7. \A i \in 0..N : f[i] = body(f, i)
  <2> TAKE i \in 0..N
  <2>1. CASE i = 0
    BY <1>6, <2>1 DEF Stepped
  <2>2. CASE i # 0
    <3>1. i \in 1..N /\ i - 1 \in 0..N
      BY <2>2
    <3>2. f[i] = capped(f[i - 1] + counts[i])
      BY <1>5, <1>6, <3>1 DEF Stepped
    <3> QED
      BY <2>2, <3>2
  <2> QED
    BY <2>1, <2>2
<1> HIDE DEF body
<1>8. Eq(f)
  <2>1. f = [i \in 0..N |-> f[i]]
    BY <1>6
  <2> QED
    BY <1>7, <2>1
<1>9. PICK u : u = CHOOSE v : Eq(v)
  OBVIOUS
<1>10. Eq(u)
  BY <1>8, <1>9
<1>11. \A i \in 0..N : u[i] = body(u, i)
  BY <1>10
<1> HIDE DEF Eq
<1> DEFINE S == {i \in 0..N : u[i] \in T}
<1>12. 0 \in S
  BY <1>1, <1>11 DEF body
<1>13. ASSUME NEW i \in 1..N, i - 1 \in S PROVE i \in S
  <2>1. i \in 0..N /\ i # 0
    OBVIOUS
  <2>2. u[i] = capped(u[i - 1] + counts[i])
    BY <1>11, <2>1 DEF body
  <2>3. u[i - 1] + counts[i] \in Nat
    BY <1>1, <1>13 DEF T
  <2> HIDE DEF capped
  <2>4. u[i] \in T
    BY <1>2, <2>2, <2>3
  <2> QED
    BY <2>1, <2>4
<1> HIDE DEF S
<1>14. 0..N \subseteq S
  BY <1>12, <1>13, CountInduction
<1>15. N \in 0..N
  OBVIOUS
<1> QED
  BY <1>3, <1>9, <1>14, <1>15 DEF S, T

\* What a count or a set of nodes is made of, those of the kids that are
\* followed, is nearer the end than it.
LEMMA FollowedLess ==
    ASSUME NEW t \in Trees, NEW p \in Place, NEW k \in Nodes, Followed(t, k, p[2])
    PROVE  <<k, p[2] \union {k}>> \in Place /\ Room(<<k, p[2] \union {k}>>) < Room(p)
<1>1. PICK n \in Nodes, above \in SUBSET Nodes : p = <<n, above>>
  BY DEF Place
<1>2. k \notin above
  BY <1>1 DEF Followed
<1>3. Room(<<k, above \union {k}>>) < Room(<<k, above>>)
  BY <1>2, RoomLess
<1>4. Room(<<k, above>>) = Room(<<n, above>>)
  BY DEF Room
<1>5. <<k, above \union {k}>> \in Place
  BY DEF Place
<1> QED
  BY <1>1, <1>3, <1>4, <1>5

LEMMA RoomTyped ==
    [p \in Place |-> Room(p)] \in [Place -> 0..Cardinality(Nodes)] /\ Cardinality(Nodes) \in Nat
<1>1. ASSUME NEW p \in Place PROVE Room(p) \in 0..Cardinality(Nodes)
  <2>1. PICK n \in Nodes, above \in SUBSET Nodes : p = <<n, above>>
    BY DEF Place
  <2> QED
    BY <2>1, RoomLess
<1>2. Cardinality(Nodes) \in Nat
  BY ConstantsTyped, FS_CardinalityType
<1> QED
  BY <1>1, <1>2

\* Induction on what is below.
LEMMA BelowInduction ==
    ASSUME NEW S, \A p \in Place : (\A q \in Place : Room(q) < Room(p) => q \in S) => p \in S
    PROVE  Place \subseteq S
<1> DEFINE rank == [p \in Place |-> Room(p)]
<1>1. rank \in [Place -> Nat] /\ \A p \in Place : rank[p] = Room(p)
  BY RoomTyped
<1> HIDE DEF rank
<1>2. \A p \in Place : (\A q \in Place : rank[q] < rank[p] => q \in S) => p \in S
  BY <1>1
<1> QED
  BY <1>1, <1>2, RankInduction

\* The count of a document is a number, and no more than the limit.
LEMMA CountTyped ==
    ASSUME NEW t \in Trees
    PROVE  CountUnder(t) \in 0..MaxPages
<1> DEFINE kidsCount(u, p) ==
             [i \in DOMAIN t[p[1]].kids |->
                LET k == t[p[1]].kids[i] IN
                IF ~Followed(t, k, p[2]) THEN 0
                ELSE IF IsBranch(t, k) THEN u[<<k, p[2] \union {k}>>] ELSE 1]
           body(u, p) == IF Claimed(t, p[1]) THEN t[p[1]].count ELSE Total(kidsCount(u, p))
           Eq(u) == u = [p \in Nodes \X SUBSET Nodes |-> body(u, p)]
           T == 0..MaxPages
           Below(u, v, p) == \A q \in Place : Room(q) < Room(p) => u[q] = v[q]
<1>1. CountUnder(t) = (CHOOSE u : Eq(u))[<<Root, {Root}>>]
  BY DEF CountUnder
<1>2. ASSUME NEW u, NEW p \in Place, \A q \in Place : Room(q) < Room(p) => u[q] \in T
      PROVE  body(u, p) \in T
  <2>0. PICK n \in Nodes : n = p[1]
    BY DEF Place
  <2>1. CASE Claimed(t, n)
    <3>1. t[n].count \in Nat /\ t[n].count < MaxPages /\ MaxPages \in Nat
      BY <2>1, TreeTyped, ConstantsTyped DEF Claimed
    <3>2. t[n].count \in T
      <4>1. PICK c \in Nat : c = t[n].count
        BY <3>1
      <4> QED
        BY <3>1, <4>1
    <3> QED
      BY <2>0, <2>1, <3>2
  <2>2. CASE ~Claimed(t, n)
    <3>1. PICK N \in Nat : N = Len(t[n].kids) /\ DOMAIN t[n].kids = 1..N
      BY TreeTyped
    <3>2. \A i \in 1..N : t[n].kids[i] \in Nodes
      BY <3>1, TreeTyped
    <3>3. ASSUME NEW i \in 1..N
          PROVE  LET k == t[n].kids[i] IN
                 (IF ~Followed(t, k, p[2]) THEN 0
                  ELSE IF IsBranch(t, k) THEN u[<<k, p[2] \union {k}>>] ELSE 1) \in Nat
      <4>1. PICK k \in Nodes : k = t[n].kids[i]
        BY <3>2
      <4>2. Followed(t, k, p[2]) => u[<<k, p[2] \union {k}>>] \in T
        BY <1>2, FollowedLess
      <4>3. \A x \in T : x \in Nat
        BY ConstantsTyped
      <4> QED
        BY <4>1, <4>2, <4>3
    <3>4. PICK c : c = kidsCount(u, p)
      OBVIOUS
    <3>5. Len(c) = N /\ \A i \in 1..N : c[i] \in Nat
      <4>1. c = [i \in 1..N |-> LET k == t[n].kids[i] IN
                                IF ~Followed(t, k, p[2]) THEN 0
                                ELSE IF IsBranch(t, k) THEN u[<<k, p[2] \union {k}>>] ELSE 1]
        BY <2>0, <3>1, <3>4
      <4> QED
        BY <3>3, <4>1
    <3>6. Total(c) \in T
      BY <3>5, TotalTyped
    <3> HIDE DEF kidsCount
    <3> QED
      BY <2>0, <2>2, <3>4, <3>6
  <2> QED
    BY <2>1, <2>2
<1>3. ASSUME NEW u, NEW v, NEW p \in Place, Below(u, v, p) PROVE body(u, p) = body(v, p)
  <2>0. PICK n \in Nodes : n = p[1]
    BY DEF Place
  <2>1. \A i \in DOMAIN t[n].kids : t[n].kids[i] \in Nodes
    BY TreeTyped
  <2>2. \A k \in Nodes : Followed(t, k, p[2]) => u[<<k, p[2] \union {k}>>] = v[<<k, p[2] \union {k}>>]
    BY <1>3, FollowedLess
  <2>3. kidsCount(u, p) = kidsCount(v, p)
    BY <2>0, <2>1, <2>2
  <2> HIDE DEF kidsCount
  <2> QED
    BY <2>3
<1> HIDE DEF body
<1> DEFINE step == [a \in Place \X [Place -> T] |-> body(a[2], a[1])]
           rank == [p \in Place |-> Room(p)]
<1>4. T # {} /\ \A x \in T : x \in T
  <2>1. 0 \in T
    BY ConstantsTyped
  <2> QED
    BY <2>1
<1>5. PICK N \in Nat : N = Cardinality(Nodes)
  BY RoomTyped
<1>6. rank \in [Place -> 0..N] /\ \A p \in Place : rank[p] = Room(p)
  BY <1>5, RoomTyped
<1>7. \A p \in Place : \A f \in [Place -> T] : step[<<p, f>>] = body(f, p)
  OBVIOUS
<1>8. step \in [Place \X [Place -> T] -> T]
  <2>1. \A p \in Place : \A f \in [Place -> T] : body(f, p) \in T
    BY <1>2
  <2>2. \A a \in Place \X [Place -> T] : a[1] \in Place /\ a[2] \in [Place -> T]
    OBVIOUS
  <2> QED
    BY <2>1, <2>2
<1> HIDE DEF T, step, rank
<1>9. FromBelow(Place, T, rank, step)
  BY <1>3, <1>6, <1>7 DEF FromBelow
<1>10. PICK f \in [Place -> T] : MadeBy(f, Place, step)
  BY <1>4, <1>6, <1>8, <1>9, RecursionExists
<1>11. Eq(f)
  <2>1. \A p \in Place : f[p] = body(f, p)
    BY <1>7, <1>10 DEF MadeBy
  <2>2. f = [p \in Place |-> f[p]]
    OBVIOUS
  <2>3. Place = Nodes \X SUBSET Nodes
    BY DEF Place
  <2> QED
    BY <2>1, <2>2, <2>3
<1>12. PICK u : u = CHOOSE v : Eq(v)
  OBVIOUS
<1>13. Eq(u)
  BY <1>11, <1>12
<1>14. \A p \in Place : u[p] = body(u, p)
  BY <1>13 DEF Place
<1> HIDE DEF Eq
<1> DEFINE S == {p \in Place : u[p] \in T}
<1>15. ASSUME NEW p \in Place, \A q \in Place : Room(q) < Room(p) => q \in S
       PROVE  p \in S
  <2>1. body(u, p) \in T
    BY <1>2, <1>15
  <2> QED
    BY <1>14, <2>1
<1> HIDE DEF S
<1>16. Place \subseteq S
  BY <1>15, BelowInduction
<1>17. <<Root, {Root}>> \in Place
  BY ConstantsTyped DEF Place
<1> QED
  BY <1>1, <1>12, <1>16, <1>17 DEF S, T

\* Counting loads nodes.
LEMMA CountedTyped ==
    ASSUME NEW t \in Trees
    PROVE  Counted(t) \in SUBSET Nodes
<1> DEFINE body(u, p) ==
             IF Claimed(t, p[1]) THEN {}
             ELSE UNION {{k} \union IF IsBranch(t, k) THEN u[<<k, p[2] \union {k}>>] ELSE {}
                           : k \in {m \in Range(t[p[1]].kids) : Followed(t, m, p[2])}}
           Eq(u) == u = [p \in Nodes \X SUBSET Nodes |-> body(u, p)]
           T == SUBSET Nodes
           Below(u, v, p) == \A q \in Place : Room(q) < Room(p) => u[q] = v[q]
<1>1. Counted(t) = {Root} \union (CHOOSE u : Eq(u))[<<Root, {Root}>>]
  BY DEF Counted
<1>2. \A p \in Place : Range(t[p[1]].kids) \subseteq Nodes
  <2> TAKE p \in Place
  <2>1. PICK n \in Nodes : n = p[1]
    BY DEF Place
  <2>2. DOMAIN t[n].kids = 1..Len(t[n].kids) /\ \A i \in 1..Len(t[n].kids) : t[n].kids[i] \in Nodes
    BY TreeTyped
  <2> QED
    BY <2>1, <2>2 DEF Range
<1>3. ASSUME NEW u, NEW p \in Place, \A q \in Place : Room(q) < Room(p) => u[q] \in T
      PROVE  body(u, p) \in T
  <2>1. \A k \in Nodes : Followed(t, k, p[2]) => u[<<k, p[2] \union {k}>>] \subseteq Nodes
    BY <1>3, FollowedLess
  <2>2. \A k \in {m \in Range(t[p[1]].kids) : Followed(t, m, p[2])} :
          {k} \union (IF IsBranch(t, k) THEN u[<<k, p[2] \union {k}>>] ELSE {}) \subseteq Nodes
    BY <1>2, <2>1
  <2> QED
    BY <2>2
<1>4. ASSUME NEW u, NEW v, NEW p \in Place, Below(u, v, p) PROVE body(u, p) = body(v, p)
  <2>1. \A k \in Nodes : Followed(t, k, p[2]) => u[<<k, p[2] \union {k}>>] = v[<<k, p[2] \union {k}>>]
    BY <1>4, FollowedLess
  <2> DEFINE K == {m \in Range(t[p[1]].kids) : Followed(t, m, p[2])}
             part(w, k) == {k} \union IF IsBranch(t, k) THEN w[<<k, p[2] \union {k}>>] ELSE {}
  <2>2. \A k \in K : part(u, k) = part(v, k)
    BY <1>2, <2>1
  <2> HIDE DEF K, part
  <2>3. {part(u, k) : k \in K} = {part(v, k) : k \in K}
    BY <2>2
  <2>4. UNION {part(u, k) : k \in K} = UNION {part(v, k) : k \in K}
    BY <2>3
  <2> QED
    BY <2>4 DEF K, part
<1> HIDE DEF body
<1> DEFINE step == [a \in Place \X [Place -> T] |-> body(a[2], a[1])]
           rank == [p \in Place |-> Room(p)]
<1>5. T # {}
  OBVIOUS
<1>6. PICK N \in Nat : N = Cardinality(Nodes)
  BY RoomTyped
<1>7. rank \in [Place -> 0..N] /\ \A p \in Place : rank[p] = Room(p)
  BY <1>6, RoomTyped
<1>8. \A p \in Place : \A f \in [Place -> T] : step[<<p, f>>] = body(f, p)
  OBVIOUS
<1>9. step \in [Place \X [Place -> T] -> T]
  <2>1. \A p \in Place : \A f \in [Place -> T] : body(f, p) \in T
    BY <1>3
  <2>2. \A a \in Place \X [Place -> T] : a[1] \in Place /\ a[2] \in [Place -> T]
    OBVIOUS
  <2> QED
    BY <2>1, <2>2
<1> HIDE DEF T, step, rank
<1>10. FromBelow(Place, T, rank, step)
  BY <1>4, <1>7, <1>8 DEF FromBelow
<1>11. PICK f \in [Place -> T] : MadeBy(f, Place, step)
  BY <1>5, <1>7, <1>9, <1>10, RecursionExists
<1>12. Eq(f)
  <2>1. \A p \in Place : f[p] = body(f, p)
    BY <1>8, <1>11 DEF MadeBy
  <2>2. f = [p \in Place |-> f[p]]
    OBVIOUS
  <2>3. Place = Nodes \X SUBSET Nodes
    BY DEF Place
  <2> QED
    BY <2>1, <2>2, <2>3
<1>13. PICK u : u = CHOOSE v : Eq(v)
  OBVIOUS
<1>14. Eq(u)
  BY <1>12, <1>13
<1>15. \A p \in Place : u[p] = body(u, p)
  BY <1>14 DEF Place
<1> HIDE DEF Eq
<1> DEFINE S == {p \in Place : u[p] \in T}
<1>16. ASSUME NEW p \in Place, \A q \in Place : Room(q) < Room(p) => q \in S
       PROVE  p \in S
  <2>1. body(u, p) \in T
    BY <1>3, <1>16
  <2> QED
    BY <1>15, <2>1
<1> HIDE DEF S
<1>17. Place \subseteq S
  BY <1>16, BelowInduction
<1>18. <<Root, {Root}>> \in Place /\ Root \in Nodes
  BY ConstantsTyped DEF Place
<1> QED
  BY <1>1, <1>13, <1>17, <1>18 DEF S, T

----------------------------------------------------------------------------
(* Types.                                                                  *)

SlotsInv ==
    /\ slots \in Seq(Entry) /\ Len(slots) <= MaxPages
    /\ poisoned \in BOOLEAN
    /\ next \in Nat
    /\ asked = Nothing \/ asked \in 0..Len(slots) - 1
    /\ loaded \in SUBSET Nodes

LEMMA SlotFilled ==
    ASSUME slots \in Seq(Entry), NEW i \in Nat, i < Len(slots), NEW k \in Nodes
    PROVE  LET s == [slots EXCEPT ![i + 1] = k] IN
           /\ s \in Seq(Entry) /\ Len(s) = Len(slots) /\ DOMAIN s = DOMAIN slots
           /\ s[i + 1] = k /\ \A j \in DOMAIN slots : j # i + 1 => s[j] = slots[j]
<1> DEFINE s == [slots EXCEPT ![i + 1] = k]
<1>1. PICK n \in Nat : n = Len(slots) /\ DOMAIN slots = 1..n
  OBVIOUS
<1>2. k \in Entry /\ i + 1 \in 1..n
  BY <1>1 DEF Entry
<1>3. s \in [1..n -> Entry]
  BY <1>1, <1>2
<1>4. s \in Seq(Entry) /\ Len(s) = n /\ DOMAIN s = 1..n
  BY <1>3
<1> QED
  BY <1>1, <1>2, <1>4

LEMMA SlotsInvInit == Init => SlotsInv
<1> SUFFICES ASSUME Init PROVE SlotsInv
  OBVIOUS
<1>1. tree \in Trees /\ slots = [i \in 1..PageCount(tree) |-> None] /\ loaded = Counted(tree)
  BY DEF Init
<1>2. PageCount(tree) \in 0..MaxPages
  <2>1. CountUnder(tree) \in 0..MaxPages /\ MaxPages \in Nat \ {0}
    BY <1>1, CountTyped, ConstantsTyped
  <2> QED
    BY <2>1 DEF PageCount
<1>3. PICK n \in Nat : n = PageCount(tree) /\ n <= MaxPages
  BY <1>2, ConstantsTyped
<1>4. slots \in Seq(Entry) /\ Len(slots) = n
  <2>1. None \in Entry
    BY DEF Entry
  <2> QED
    BY <1>1, <1>3, <2>1
<1>5. loaded \in SUBSET Nodes
  BY <1>1, CountedTyped
<1> QED
  BY <1>3, <1>4, <1>5 DEF Init, SlotsInv

LEMMA SlotsInvNext ==
    ASSUME ChainInv, SlotsInv, Next
    PROVE  SlotsInv'
<1>0. /\ tree \in Trees /\ Chain(tree, path)
      /\ slots \in Seq(Entry) /\ Len(slots) <= MaxPages /\ Len(slots) \in Nat
      /\ poisoned \in BOOLEAN /\ next \in Nat /\ next + 1 \in Nat
      /\ asked = Nothing \/ asked \in 0..Len(slots) - 1
      /\ loaded \in SUBSET Nodes
  BY DEF ChainInv, SlotsInv
<1>1. CASE Ask
  <2>1. PICK i \in 0..Len(slots) - 1 :
          /\ asked' = i
          /\ \/ /\ tree[Root].hasKids /\ next' = 0
                /\ UNCHANGED slots
             \/ /\ ~tree[Root].hasKids
                /\ slots' = IF IsBranch(tree, Root) THEN slots
                            ELSE [slots EXCEPT ![1] = Root]
                /\ UNCHANGED <<path, next>>
    BY <1>1 DEF Ask
  <2>2. slots' \in Seq(Entry) /\ Len(slots') = Len(slots)
    <3>1. 0 < Len(slots) /\ Root \in Nodes /\ 0 + 1 = 1
      BY <1>0, <2>1, ConstantsTyped
    <3>2. [slots EXCEPT ![1] = Root] \in Seq(Entry) /\ Len([slots EXCEPT ![1] = Root]) = Len(slots)
      BY <1>0, <3>1, SlotFilled
    <3> QED
      BY <1>0, <2>1, <3>2
  <2>3. next' \in Nat /\ UNCHANGED <<poisoned, loaded>>
    BY <1>0, <1>1, <2>1 DEF Ask
  <2> QED
    BY <1>0, <2>1, <2>2, <2>3 DEF SlotsInv
<1>2. CASE KidFails
  BY <1>0, <1>2 DEF KidFails, SlotsInv, Nothing
<1>3. CASE KidLoads
  <2>1. Going /\ loaded' = loaded \union {Kid} /\ UNCHANGED asked
    BY <1>3 DEF KidLoads
  <2>2. Kid \in Nodes /\ next < Len(slots)
    BY <1>0, <2>1, GoingOn
  <2>3. /\ [slots EXCEPT ![next + 1] = Kid] \in Seq(Entry)
        /\ Len([slots EXCEPT ![next + 1] = Kid]) = Len(slots)
    BY <1>0, <2>2, SlotFilled
  <2>4. /\ slots' = slots \/ slots' = [slots EXCEPT ![next + 1] = Kid]
        /\ next' = next \/ next' = next + 1
        /\ poisoned' = poisoned \/ poisoned' = TRUE
    BY <1>3 DEF KidLoads
  <2>5. slots' \in Seq(Entry) /\ Len(slots') = Len(slots)
    BY <1>0, <2>3, <2>4
  <2>6. poisoned' \in BOOLEAN /\ next' \in Nat
    BY <1>0, <2>4
  <2> QED
    BY <1>0, <2>1, <2>2, <2>5, <2>6 DEF SlotsInv, Nothing
<1>4. CASE Ascend
  BY <1>0, <1>4 DEF Ascend, SlotsInv, Nothing
<1>5. CASE Answer
  BY <1>0, <1>5 DEF Answer, SlotsInv, Nothing
<1>6. CASE OtherLoads
  BY <1>0, <1>6 DEF OtherLoads, SlotsInv, Nothing
<1> QED
  BY <1>1, <1>2, <1>3, <1>4, <1>5, <1>6 DEF Next

LEMMA SlotsAlways == Spec => [](ChainInv /\ SlotsInv)
<1>1. Init => ChainInv /\ SlotsInv
  BY SlotsInvInit, EmptyChain DEF Init, ChainInv
<1>2. ChainInv /\ SlotsInv /\ [Next]_vars => (ChainInv /\ SlotsInv)'
  <2> SUFFICES ASSUME ChainInv, SlotsInv, [Next]_vars PROVE (ChainInv /\ SlotsInv)'
    OBVIOUS
  <2>1. CASE Next
    BY <2>1, ChainInvNext, SlotsInvNext
  <2>2. CASE UNCHANGED vars
    BY <2>2 DEF vars, ChainInv, SlotsInv, Nothing, TooDeep
  <2> QED
    BY <2>1, <2>2
<1> QED
  BY <1>1, <1>2, PTL DEF Spec

\* The slots hold nodes, no more of them than the limit, and the walk goes down
\* no further than the depth limit.
THEOREM PageTypeCorrect == Spec => []TypeOK
<1>1. ChainInv /\ SlotsInv => TypeOK
  <2> SUFFICES ASSUME ChainInv, SlotsInv PROVE TypeOK
    OBVIOUS
  <2>1. \A i \in DOMAIN slots : slots[i] \in Nodes \union {None}
    BY DEF SlotsInv, Entry
  <2>2. \A d \in DOMAIN path : path[d].node \in Nodes /\ path[d].kid \in Nat
    <3>1. \A d \in DOMAIN path : path[d] \in Frame
      BY DEF ChainInv, Chain
    <3> QED
      BY <3>1 DEF Frame
  <2>3. Len(path) <= MaxDepth
    BY DEF ChainInv, Chain
  <2>4. asked \in 0..MaxPages
    <3>1. PICK n \in Nat : n = Len(slots) /\ n <= MaxPages
      BY DEF SlotsInv
    <3>2. asked = MaxPages \/ asked \in 0..n - 1
      BY <3>1 DEF SlotsInv, Nothing
    <3> QED
      BY <3>1, <3>2, ConstantsTyped
  <2> QED
    BY <2>1, <2>2, <2>3, <2>4 DEF SlotsInv, TypeOK
<1> QED
  BY <1>1, SlotsAlways, PTL

----------------------------------------------------------------------------
(* The walk.                                                               *)

LEMMA AncestorsAre ==
    ASSUME tree \in Trees, Chain(tree, path)
    PROVE  /\ Ancestors = Above(path, Len(path) + 1)
           /\ Ancestors \in SUBSET Nodes /\ Cardinality(Ancestors) = Len(path)
<1>1. PICK m \in Nat : m = Len(path) /\ path \in Seq(Frame)
  BY DEF Chain
<1>2. DOMAIN path = 1..m /\ (m + 1) - 1 = m /\ m + 1 \in 1..m + 1
  BY <1>1
<1>3. Ancestors = Above(path, m + 1)
  BY <1>2 DEF Ancestors, Above
<1>4. Above(path, m + 1) \in SUBSET Nodes /\ Cardinality(Above(path, m + 1)) = (m + 1) - 1
  BY <1>1, <1>2, AboveCount
<1> QED
  BY <1>1, <1>2, <1>3, <1>4

\* What is listed under the next kid.
KidIs(part) ==
    /\ part \in Seq(Entry)
    /\ tree[Kid].lost => part = <<None>>
    /\ ~tree[Kid].lost /\ Kid \in Ancestors => part = <<>>
    /\ ~tree[Kid].lost /\ Kid \notin Ancestors /\ ~tree[Kid].hasKids =>
         IF IsBranch(tree, Kid) THEN part = <<>> ELSE part = <<Kid>>
    /\ ~tree[Kid].lost /\ Kid \notin Ancestors /\ tree[Kid].hasKids /\ Len(path) >= MaxDepth =>
         part = <<>>

\* A limit on depth that the walk does not go past.
LEMMA LimitReached ==
    ASSUME tree \in Trees, Chain(tree, path), Going, NEW D, Limit(D),
           ~tree[Kid].lost, Kid \notin Ancestors, tree[Kid].hasKids
    PROVE  IF Len(path) >= MaxDepth THEN Cardinality(Ancestors) >= D
           ELSE ~ (Cardinality(Ancestors) >= D)
<1>1. Cardinality(Ancestors) = Len(path) /\ Ancestors \in SUBSET Nodes
  BY AncestorsAre
<1>2. /\ path # <<>> /\ Kid \in Nodes
      /\ path[Len(path)].kid \in 1..Len(tree[path[Len(path)].node].kids)
      /\ Kid = tree[path[Len(path)].node].kids[path[Len(path)].kid]
      /\ \A d \in 1..Len(path) : path[d].node # Kid
      /\ Len(path) \in 1..MaxDepth
  BY GoingOn
<1>3. CASE D = MaxDepth
  BY <1>1, <1>3
<1>4. CASE D = Cardinality(Nodes) /\ ~TooDeep
  <2>5. KidBelow(tree, path, Kid, path[Len(path)].kid)
    BY <1>2 DEF KidBelow
  <2>1. ~ (Len(path) >= MaxDepth)
    BY <1>2, <1>4, <2>5, FullChain
  <2>2. Cardinality(Ancestors) < Cardinality(Nodes)
        /\ Cardinality(Ancestors) \in Nat /\ Cardinality(Nodes) \in Nat
    BY <1>1, <1>2, RoomLess
  <2>3. PICK a \in Nat, b \in Nat : a = Cardinality(Ancestors) /\ b = Cardinality(Nodes) /\ a < b
    BY <2>2
  <2>4. ~ (a >= b)
    BY <2>3
  <2> QED
    BY <1>4, <2>1, <2>3, <2>4
<1> QED
  BY <1>3, <1>4 DEF Limit

LEMMA KidListed ==
    ASSUME tree \in Trees, Chain(tree, path), Going, NEW D, Limit(D), NEW f, Lists(f, tree, D)
    PROVE  KidIs(f[<<Kid, Ancestors>>])
<1>1. Kid \in Nodes /\ Ancestors \in SUBSET Nodes
  BY GoingOn, AncestorsAre
<1>2. f[<<Kid, Ancestors>>] = Listed(tree, D, f, Kid, Ancestors)
  BY <1>1 DEF Lists
<1>3. f[<<Kid, Ancestors>>] \in Seq(Entry)
  <2>1. <<Kid, Ancestors>> \in Place
    BY <1>1 DEF Place
  <2> QED
    BY <2>1 DEF Lists
<1>4. ~tree[Kid].hasKids => (IsBranch(tree, Kid) <=> tree[Kid].type = "Pages")
  BY DEF IsBranch
<1>5. ~tree[Kid].lost /\ Kid \notin Ancestors /\ tree[Kid].hasKids /\ Len(path) >= MaxDepth
        => f[<<Kid, Ancestors>>] = <<>>
  BY <1>2, LimitReached DEF Listed
<1> QED
  BY <1>2, <1>3, <1>4, <1>5 DEF KidIs, Listed

\* A node that is listed as one page, or as the one hole it costs.
OnePage(t, n) == t[n].lost \/ (~t[n].hasKids /\ t[n].type # "Pages")

OneBelow(t, k) == t[k].hasKids /\ Len(t[k].kids) = 1 /\ OnePage(t, t[k].kids[1])

LEMMA OnePageListed ==
    ASSUME NEW t \in Trees, NEW D, NEW f, Lists(f, t, D), NEW n \in Nodes, OnePage(t, n),
           NEW above \in SUBSET Nodes, \A x \in above : t[x].hasKids
    PROVE  Len(f[<<n, above>>]) = 1
<1>1. f[<<n, above>>] = Listed(t, D, f, n, above)
  BY DEF Lists
<1>2. Listed(t, D, f, n, above) = <<None>> \/ Listed(t, D, f, n, above) = <<n>>
  BY DEF Listed, OnePage
<1> QED
  BY <1>1, <1>2

LEMMA OneBelowListed ==
    ASSUME NEW t \in Trees, NEW D, NEW f, Lists(f, t, D), NEW n \in Nodes, OneBelow(t, n), ~t[n].lost,
           NEW above \in SUBSET Nodes, \A x \in above : t[x].hasKids, n \notin above,
           ~ (Cardinality(above) >= D)
    PROVE  Len(f[<<n, above>>]) = 1
<1>1. t[n].hasKids /\ Len(t[n].kids) = 1
  BY DEF OneBelow
<1>2. PICK parts, a : /\ parts = [i \in DOMAIN t[n].kids |-> f[<<t[n].kids[i], above \union {n}>>]]
                      /\ Laid(f[<<n, above>>], parts, a)
                      /\ Len(parts) = Len(t[n].kids)
  BY <1>1, Descended
<1>3. DOMAIN t[n].kids = 1..1 /\ 1 \in 1..1 /\ 1 - 1 = 0
  BY <1>1, TreeTyped
<1>4. PICK k \in Nodes : k = t[n].kids[1] /\ OnePage(t, k)
  BY <1>1, <1>3, TreeTyped DEF OneBelow
<1>5. Len(f[<<k, above \union {n}>>]) = 1
  BY <1>1, <1>4, OnePageListed
<1>6. parts[1] = f[<<k, above \union {n}>>]
  BY <1>2, <1>3, <1>4
<1>7. a[1] = a[0] + Len(parts[1]) /\ a[0] = 0 /\ a[1] = Len(f[<<n, above>>])
  BY <1>1, <1>2, <1>3 DEF Laid
<1> QED
  BY <1>5, <1>6, <1>7

\* In a tree that other threads read meanwhile, a kid is one page.
LEMMA SharedKid ==
    ASSUME OnePageBranches, tree \in Shared, tree \in Trees, Chain(tree, path), Going,
           NEW D, Limit(D), NEW f, Lists(f, tree, D)
    PROVE  Len(f[<<Kid, Ancestors>>]) = 1
<1>1. /\ path # <<>> /\ Kid \in Nodes /\ Top = path[Len(path)] /\ Top.node \in Nodes
      /\ Top.kid \in 1..Len(tree[Top.node].kids)
      /\ Kid = tree[Top.node].kids[Top.kid]
  BY GoingOn
<1>2. PICK m \in Nat \ {0} : m = Len(path)
  <2>1. Len(path) \in 1..MaxDepth /\ MaxDepth \in Nat
    BY <1>1, TopOfChain, ConstantsTyped
  <2> QED
    BY <2>1
<1>3. \A d \in 1..m : path[d].node \in Nodes /\ tree[path[d].node].hasKids /\ ~tree[path[d].node].lost
  <2> TAKE d \in 1..m
  <2>1. path[d] \in Frame
    BY <1>2 DEF Chain
  <2> QED
    BY <1>2, <2>1 DEF Chain, Frame
<1>4. Ancestors = {path[d].node : d \in 1..m}
  <2>1. path \in Seq(Frame)
    BY DEF Chain
  <2>2. DOMAIN path = 1..m
    BY <1>2, <2>1
  <2> QED
    BY <2>2 DEF Ancestors
<1>5. Ancestors \in SUBSET Nodes /\ \A x \in Ancestors : tree[x].hasKids /\ ~tree[x].lost
  BY <1>3, <1>4
<1>6. /\ MaxDepth > 1 
      /\ \A i \in DOMAIN tree[Root].kids :
            OnePage(tree, tree[Root].kids[i]) \/ OneBelow(tree, tree[Root].kids[i])
  BY DEF OnePageBranches, OnePage, OneBelow
<1>7. path[1].node = Root /\ 1 \in 1..m /\ Root \in Nodes
  BY <1>1, <1>2, ConstantsTyped DEF Chain
<1>8. \A i \in 1..Len(tree[Root].kids) :
         OnePage(tree, tree[Root].kids[i]) \/ OneBelow(tree, tree[Root].kids[i])
  BY <1>6, <1>7, TreeTyped
<1>9. \A n \in Nodes : \A i \in 1..Len(tree[n].kids) : Len(tree[n].kids) = 1 => i = 1
  <2> SUFFICES ASSUME NEW n \in Nodes, NEW i \in 1..Len(tree[n].kids), Len(tree[n].kids) = 1
               PROVE  i = 1
    OBVIOUS
  <2>1. i \in 1..1
    BY Zenon
  <2>2. \A j \in 1..1 : j = 1
    OBVIOUS
  <2> QED
    BY <2>1, <2>2, Zenon
<1>10. CASE OnePage(tree, Kid)
  <2>1. Kid \in Nodes
    BY <1>1
  <2>2. \A x \in Ancestors : tree[x].hasKids
    BY <1>5
  <2> QED
    BY <1>5, <1>10, <2>1, <2>2, OnePageListed
<1>11. CASE ~OnePage(tree, Kid) /\ m = 1
  <2>1. Top.node = Root /\ Ancestors = {Root}
    BY <1>1, <1>2, <1>4, <1>7, <1>11
  <2>2. OneBelow(tree, Kid)
    BY <1>1, <1>8, <1>11, <2>1
  <2>3. ~tree[Kid].lost /\ tree[Kid].hasKids
    BY <1>11, <2>2 DEF OnePage, OneBelow
  <2>4. Kid # Root
    <3> SUFFICES ASSUME Kid = Root PROVE FALSE
      OBVIOUS
    <3>1. Len(tree[Root].kids) = 1 /\ OnePage(tree, tree[Root].kids[1])
      BY <2>2 DEF OneBelow
    <3>2. Top.kid = 1
      BY <1>1, <1>7, <1>9, <2>1, <3>1
    <3>3. Kid = tree[Root].kids[1]
      BY <1>1, <2>1, <3>2
    <3> QED
      BY <1>11, <3>1, <3>3
  <2>5. Kid \notin Ancestors
    BY <2>1, <2>4
  <2>6. ~ (Len(path) >= MaxDepth)
    <3>1. Len(path) = 1 /\ MaxDepth \in Nat
      BY <1>2, <1>11, ConstantsTyped
    <3> QED
      BY <1>6, <3>1
  <2>7. ~ (Cardinality(Ancestors) >= D)
    BY <2>3, <2>5, <2>6, LimitReached
  <2> QED
    BY <1>1, <1>5, <2>2, <2>3, <2>5, <2>7, OneBelowListed
<1>12. CASE ~OnePage(tree, Kid) /\ m # 1
  <2>1. 2 \in 1..m /\ 1 \in 1..m - 1 /\ 1 + 1 = 2 /\ (2 \in 1..m - 1 <=> m # 2) /\ 2 + 1 = 3
        /\ (m # 2 => 3 \in 1..m)
    BY <1>2, <1>12
  <2>2. \A d \in 1..m - 1 :
          /\ path[d].kid - 1 \in 1..Len(tree[path[d].node].kids)
          /\ path[d + 1].node = tree[path[d].node].kids[path[d].kid - 1]
    BY <1>2 DEF Chain
  <2>3. PICK j : /\ j \in 1..Len(tree[Root].kids) /\ path[2].node = tree[Root].kids[j]
    BY <1>7, <2>1, <2>2
  <2>4. PICK b \in Nodes : b = path[2].node /\ tree[b].hasKids /\ ~tree[b].lost
    BY <1>3, <2>1
  <2>5. OneBelow(tree, b)
    BY <1>8, <2>3, <2>4 DEF OnePage
  <2>6. Len(tree[b].kids) = 1 /\ OnePage(tree, tree[b].kids[1])
    BY <2>5 DEF OneBelow
  <2>7. CASE m = 2
    <3>1. Top.node = b
      BY <1>1, <1>2, <2>4, <2>7
    <3>2. Top.kid = 1
      BY <1>1, <1>9, <2>6, <3>1
    <3> QED
      BY <1>1, <1>12, <2>6, <3>1, <3>2
  <2>8. CASE m # 2
    <3>1. PICK i : i \in 1..Len(tree[b].kids) /\ path[3].node = tree[b].kids[i]
      BY <2>1, <2>2, <2>4, <2>8
    <3>2. i = 1
      BY <1>9, <2>6, <3>1
    <3>3. OnePage(tree, path[3].node)
      BY <2>6, <3>1, <3>2
    <3> QED
      BY <1>3, <2>1, <2>8, <3>3 DEF OnePage
  <2> QED
    BY <2>7, <2>8
<1> QED
  BY <1>10, <1>11, <1>12

----------------------------------------------------------------------------
(* Where the walk is, and what it has found.                               *)

All(f) == f[<<Root, {}>>]

\* The next slot is the one for what is listed next.
PlacedAt(f) ==
    path # <<>> =>
        \E from, at : /\ Placed(f, tree, path, from, at)
                      /\ next < Len(slots) => next = Here(path, from, at)

\* A slot that is filled has what is listed there.
RightAt(f) ==
    \A i \in DOMAIN slots : slots[i] # None => i <= Len(All(f)) /\ slots[i] = All(f)[i]

\* In a tree that nothing else reads, the slots that were passed have all that
\* is listed; a hole is listed as one.
FilledAt(f) ==
    tree \notin Shared =>
        /\ path # <<>> =>
             \A i \in DOMAIN slots : i <= next => i <= Len(All(f)) /\ slots[i] = All(f)[i]
        /\ path = <<>> /\ asked # Nothing /\ Len(slots) = Len(All(f)) =>
             \A i \in DOMAIN slots : slots[i] = All(f)[i]

Steady == tree \in Shared => OnePageBranches

WalkInv ==
    Steady => \A D, f : Limit(D) /\ Lists(f, tree, D) => PlacedAt(f) /\ RightAt(f) /\ FilledAt(f)

\* What is listed under the next kid is listed from the next slot on.
Passed(f, from, at) ==
    /\ Placed(f, tree, OnToNext, from, at)
    /\ Spans(All(f), f[<<Kid, Ancestors>>], next)
    /\ Here(OnToNext, from, at) = next + Len(f[<<Kid, Ancestors>>])
    /\ After(OnToNext, from, at, next)

LEMMA KidPassed ==
    ASSUME tree \in Trees, Chain(tree, path), Going, NEW D, NEW f, Lists(f, tree, D), PlacedAt(f)
    PROVE  \E from, at : Passed(f, from, at)
<1>1. /\ path # <<>> /\ next < Len(slots) /\ Top = path[Len(path)]
      /\ Top.kid \in 1..Len(tree[Top.node].kids)
      /\ Kid = tree[Top.node].kids[Top.kid]
      /\ Chain(tree, OnToNext) /\ Len(OnToNext) = Len(path)
      /\ \A d \in 1..Len(path) : OnToNext[d].node = path[d].node
      /\ \A d \in 1..Len(path) - 1 : OnToNext[d] = path[d]
      /\ OnToNext[Len(path)].kid = Top.kid + 1
  BY GoingOn
<1>2. PICK from, at : Placed(f, tree, path, from, at) /\ next = Here(path, from, at)
  BY <1>1 DEF PlacedAt
<1>3. Ancestors = Above(path, Len(path) + 1)
  BY AncestorsAre
<1>4. PICK q, k : q = OnToNext /\ k = Kid
  OBVIOUS
<1>5. /\ path[Len(path)].kid \in 1..Len(tree[path[Len(path)].node].kids)
      /\ k = tree[path[Len(path)].node].kids[path[Len(path)].kid]
  BY <1>1, <1>4
<1>6. Chain(tree, q) /\ Follows(path, q)
  BY <1>1, <1>4 DEF Follows
<1>7. Moved(f, tree, path, q, k, from, at)
  BY <1>1, <1>2, <1>5, <1>6, PlacedMoves
<1>8. Passed(f, from, at)
  BY <1>2, <1>3, <1>4, <1>7 DEF Passed, All, Moved
<1> QED
  BY <1>8

LEMMA AskKeeps ==
    ASSUME ChainInv, SlotsInv, Ask, NEW D, Limit(D), NEW f, Lists(f, tree, D), RightAt(f)
    PROVE  PlacedAt(f)' /\ RightAt(f)' /\ FilledAt(f)'
<1>1. tree \in Trees /\ Chain(tree, path) /\ tree' = tree /\ ~tree[Root].lost /\ Root \in Nodes
  BY TreesAssumption DEF ChainInv, Ask
<1>2. PICK n \in Nat : n = Len(slots) /\ DOMAIN slots = 1..n /\ slots \in Seq(Entry)
  BY DEF SlotsInv
<1>3. CASE tree[Root].hasKids
  <2>1. path' = <<[node |-> Root, kid |-> 1]>> /\ next' = 0 /\ slots' = slots
    BY <1>3 DEF Ask
  <2>2. ~ (0 >= D)
    <3>1. Cardinality(Nodes) \in Nat \ {0}
      BY <1>1, ConstantsTyped, FS_CardinalityType, FS_EmptySet
    <3> QED
      BY <3>1, ConstantsTyped DEF Limit
  <2>3. PICK from, at : Placed(f, tree, path', from, at) /\ Here(path', from, at) = 0
    BY <1>1, <1>3, <2>1, <2>2, PlacedStarts
  <2>4. PlacedAt(f)'
    BY <1>1, <2>1, <2>3 DEF PlacedAt
  <2>5. RightAt(f)'
    BY <2>1 DEF RightAt
  <2>6. path' # <<>>
    BY <2>1
  <2>7. FilledAt(f)'
    BY <1>2, <2>1, <2>6 DEF FilledAt
  <2> QED
    BY <2>4, <2>5, <2>7
<1>4. CASE ~tree[Root].hasKids
  <2>1. /\ path' = path /\ next' = next /\ 0 < n
        /\ slots' = IF IsBranch(tree, Root) THEN slots ELSE [slots EXCEPT ![1] = Root]
    BY <1>2, <1>4 DEF Ask
  <2>2. path = <<>>
    <3>1. path # <<>> => 1 \in 1..Len(path)
      <4>1. path # <<>> => Len(path) \in 1..MaxDepth
        BY <1>1, TopOfChain
      <4>2. MaxDepth \in Nat
        BY ConstantsTyped
      <4> QED
        BY <4>1, <4>2
    <3> QED
      BY <1>1, <1>4, <3>1 DEF Chain
  <2>3. All(f) = IF tree[Root].type = "Pages" THEN <<>> ELSE <<Root>>
    BY <1>1, <1>4 DEF All, Lists, Listed
  <2>4. PlacedAt(f)'
    BY <2>1, <2>2 DEF PlacedAt
  <2>5. CASE tree[Root].type = "Pages"
    <3>1. slots' = slots /\ Len(All(f)) = 0
      BY <2>1, <2>3, <2>5 DEF IsBranch
    <3>2. RightAt(f)'
      BY <3>1 DEF RightAt, All
    <3>3. FilledAt(f)'
      BY <1>2, <2>1, <2>2, <3>1 DEF FilledAt, All
    <3> QED
      BY <2>4, <3>2, <3>3
  <2>6. CASE tree[Root].type # "Pages"
    <3>1. All(f) = <<Root>> /\ Len(All(f)) = 1 /\ All(f)[1] = Root
      BY <2>3, <2>6
    <3>2. slots' = [slots EXCEPT ![0 + 1] = Root]
      BY <1>4, <2>1, <2>6 DEF IsBranch
    <3>3. /\ Len(slots') = n /\ DOMAIN slots' = 1..n /\ slots'[1] = Root
          /\ \A j \in 1..n : j # 1 => slots'[j] = slots[j]
      <4>1. LET s == [slots EXCEPT ![0 + 1] = Root] IN
            /\ s \in Seq(Entry) /\ Len(s) = Len(slots) /\ DOMAIN s = DOMAIN slots
            /\ s[0 + 1] = Root /\ \A j \in DOMAIN slots : j # 0 + 1 => s[j] = slots[j]
        BY <1>1, <1>2, <2>1, SlotFilled
      <4>2. 0 + 1 = 1
        OBVIOUS
      <4> QED
        BY <1>2, <3>2, <4>1, <4>2
    <3>4. RightAt(f)'
      BY <1>2, <3>1, <3>3 DEF RightAt, All
    <3>5. FilledAt(f)'
      <4>1. n = 1 => \A i \in 1..n : i = 1
        OBVIOUS
      <4> QED
        BY <1>2, <2>1, <2>2, <3>1, <3>3, <4>1 DEF FilledAt, All
    <3> QED
      BY <2>4, <3>4, <3>5
  <2> QED
    BY <2>5, <2>6
<1> QED
  BY <1>1, <1>3, <1>4, TreeTyped

\* A kid that does not load leaves a hole, where the list has one or where it
\* has one page.
LEMMA KidFailsKeeps ==
    ASSUME ChainInv, SlotsInv, KidFails, Steady, NEW D, Limit(D), NEW f, Lists(f, tree, D),
           PlacedAt(f), RightAt(f), FilledAt(f)
    PROVE  PlacedAt(f)' /\ RightAt(f)' /\ FilledAt(f)'
<1>1. /\ tree \in Trees /\ Chain(tree, path) /\ Going
      /\ tree' = tree /\ slots' = slots /\ next' = next + 1 /\ path' = OnToNext
      /\ tree[Kid].lost \/ tree \in Shared
  BY DEF ChainInv, KidFails
<1>2. PICK from, at : Passed(f, from, at)
  BY <1>1, KidPassed
<1>3. path # <<>> /\ OnToNext # <<>> /\ next \in Nat /\ next < Len(slots)
  BY <1>1, GoingOn DEF SlotsInv
<1>4. PICK part : part = f[<<Kid, Ancestors>>]
  OBVIOUS
<1>5. tree[Kid].lost => part = <<None>>
  BY <1>1, <1>4, KidListed DEF KidIs
<1>6. Len(part) = 1
  <2>1. CASE tree[Kid].lost
    BY <1>5, <2>1
  <2>2. CASE ~tree[Kid].lost
    BY <1>1, <1>4, <2>2, SharedKid DEF Steady
  <2> QED
    BY <2>1, <2>2
<1>7. Placed(f, tree, OnToNext, from, at) /\ Here(OnToNext, from, at) = next + 1
      /\ Spans(All(f), part, next)
  BY <1>2, <1>4, <1>6 DEF Passed
<1>8. PlacedAt(f)'
  BY <1>1, <1>7 DEF PlacedAt
<1>9. RightAt(f)'
  BY <1>1 DEF RightAt, All
<1>10. FilledAt(f)'
  <2> SUFFICES ASSUME tree \notin Shared,
                      NEW i \in DOMAIN slots, i <= next + 1
               PROVE  i <= Len(All(f)) /\ slots[i] = All(f)[i]
    BY <1>1, <1>3 DEF FilledAt, All
  <2>1. PICK n \in Nat : n = Len(slots) /\ DOMAIN slots = 1..n
    BY DEF SlotsInv
  <2>2. CASE i <= next
    BY <1>3, <2>2 DEF FilledAt
  <2>3. CASE ~ (i <= next)
    <3>1. i = next + 1
      BY <1>3, <2>1, <2>3
    <3>2. part[1] = None /\ 1 \in 1..Len(part)
      BY <1>1, <1>5, <1>6
    <3>3. next + 1 <= Len(All(f)) /\ All(f)[next + 1] = None
      BY <1>6, <1>7, <3>2 DEF Spans
    <3>4. slots[i] # None => slots[i] = All(f)[i]
      BY DEF RightAt
    <3> QED
      BY <3>1, <3>3, <3>4
  <2> QED
    BY <2>2, <2>3
<1> QED
  BY <1>8, <1>9, <1>10

\* A kid that loads is passed with what is listed under it, or descended into.
LEMMA KidLoadsKeeps ==
    ASSUME ChainInv, SlotsInv, KidLoads, NEW D, Limit(D), NEW f, Lists(f, tree, D),
           PlacedAt(f), RightAt(f), FilledAt(f)
    PROVE  PlacedAt(f)' /\ RightAt(f)' /\ FilledAt(f)'
<1>1. tree \in Trees /\ Chain(tree, path) /\ Going /\ tree' = tree /\ ~tree[Kid].lost
  BY DEF ChainInv, KidLoads
<1>2. PICK from, at : Passed(f, from, at)
  BY <1>1, KidPassed
<1>3. path # <<>> /\ OnToNext # <<>> /\ next \in Nat /\ next < Len(slots) /\ Kid \in Nodes
  BY <1>1, GoingOn DEF SlotsInv
<1>4. PICK part : part = f[<<Kid, Ancestors>>]
  OBVIOUS
<1>5. /\ Placed(f, tree, OnToNext, from, at)
      /\ Here(OnToNext, from, at) = next + Len(part)
      /\ Spans(All(f), part, next)
      /\ After(OnToNext, from, at, next)
  BY <1>2, <1>4 DEF Passed
<1>6. /\ Kid \in Ancestors => part = <<>>
      /\ Kid \notin Ancestors /\ ~tree[Kid].hasKids =>
           IF IsBranch(tree, Kid) THEN part = <<>> ELSE part = <<Kid>>
      /\ Kid \notin Ancestors /\ tree[Kid].hasKids /\ Len(path) >= MaxDepth => part = <<>>
  BY <1>1, <1>4, KidListed DEF KidIs
<1>7. ASSUME part = <<>>, path' = OnToNext, UNCHANGED <<slots, next>>
      PROVE  PlacedAt(f)' /\ RightAt(f)' /\ FilledAt(f)'
  <2>1. Here(OnToNext, from, at) = next
    BY <1>3, <1>5, <1>7
  <2>2. PlacedAt(f)'
    BY <1>1, <1>5, <1>7, <2>1 DEF PlacedAt
  <2>3. RightAt(f)'
    BY <1>7 DEF RightAt, All
  <2>4. FilledAt(f)'
    BY <1>1, <1>3, <1>7 DEF FilledAt, All
  <2> QED
    BY <2>2, <2>3, <2>4
<1>8. ASSUME part = <<Kid>>, path' = OnToNext, next' = next + 1,
             slots' = [slots EXCEPT ![next + 1] = Kid]
      PROVE  PlacedAt(f)' /\ RightAt(f)' /\ FilledAt(f)'
  <2>1. PICK n \in Nat : n = Len(slots) /\ DOMAIN slots = 1..n /\ slots \in Seq(Entry)
    BY DEF SlotsInv
  <2>2. /\ Len(slots') = n /\ DOMAIN slots' = 1..n /\ slots'[next + 1] = Kid
        /\ \A j \in 1..n : j # next + 1 => slots'[j] = slots[j]
    <3>1. LET s == [slots EXCEPT ![next + 1] = Kid] IN
            /\ s \in Seq(Entry) /\ Len(s) = Len(slots) /\ DOMAIN s = DOMAIN slots
            /\ s[next + 1] = Kid /\ \A j \in DOMAIN slots : j # next + 1 => s[j] = slots[j]
      BY <1>3, <2>1, SlotFilled
    <3> QED
      BY <1>8, <2>1, <3>1
  <2>3. Len(part) = 1 /\ part[1] = Kid /\ 1 \in 1..1
    BY <1>8
  <2>4. next + 1 <= Len(All(f)) /\ All(f)[next + 1] = Kid /\ Here(OnToNext, from, at) = next + 1
    BY <1>5, <2>3 DEF Spans
  <2>5. PlacedAt(f)'
    BY <1>1, <1>5, <1>8, <2>4 DEF PlacedAt
  <2>6. RightAt(f)'
    <3> SUFFICES ASSUME NEW i \in 1..n, slots'[i] # None
                 PROVE  i <= Len(All(f)) /\ slots'[i] = All(f)[i]
      BY <2>2 DEF RightAt, All
    <3>1. CASE i = next + 1
      BY <2>2, <2>4, <3>1
    <3>2. CASE i # next + 1
      BY <2>1, <2>2, <3>2 DEF RightAt
    <3> QED
      BY <3>1, <3>2
  <2>7. FilledAt(f)'
    <3> SUFFICES ASSUME tree \notin Shared, NEW i \in 1..n, i <= next + 1
                 PROVE  i <= Len(All(f)) /\ slots'[i] = All(f)[i]
      BY <1>1, <1>3, <1>8, <2>2 DEF FilledAt, All
    <3>1. CASE i = next + 1
      BY <2>2, <2>4, <3>1
    <3>2. CASE i # next + 1
      <4>1. i <= next
        BY <1>3, <3>2
      <4> QED
        BY <1>3, <2>1, <2>2, <3>2, <4>1 DEF FilledAt
    <3> QED
      BY <3>1, <3>2
  <2> QED
    BY <2>5, <2>6, <2>7
<1>9. ASSUME Kid \notin Ancestors, tree[Kid].hasKids, Len(path) < MaxDepth,
             path' = Append(OnToNext, [node |-> Kid, kid |-> 1]), UNCHANGED <<slots, next>>
      PROVE  PlacedAt(f)' /\ RightAt(f)' /\ FilledAt(f)'
  <2>1. Chain(tree, OnToNext) /\ Len(OnToNext) = Len(path)
        /\ \A d \in 1..Len(path) : OnToNext[d].node = path[d].node
    BY <1>1, GoingOn
  <2>2. Above(OnToNext, Len(OnToNext) + 1) = Ancestors /\ Cardinality(Ancestors) = Len(path)
    <3>1. Ancestors = Above(path, Len(path) + 1) /\ Cardinality(Ancestors) = Len(path)
      BY <1>1, AncestorsAre
    <3>2. PICK m \in Nat : m = Len(path)
      BY <1>1 DEF Chain
    <3>3. (m + 1) - 1 = m
      OBVIOUS
    <3>4. Above(OnToNext, m + 1) = Above(path, m + 1)
      BY <2>1, <3>2, <3>3 DEF Above
    <3> QED
      BY <2>1, <3>1, <3>2, <3>4
  <2>3. ~ (Len(path) >= MaxDepth)
    <3>1. PICK m \in Nat : m = Len(path)
      BY <1>1 DEF Chain
    <3> QED
      BY <1>9, <3>1, ConstantsTyped
  <2>4. ~ (Len(OnToNext) >= D)
    BY <1>1, <1>9, <2>1, <2>2, <2>3, LimitReached
  <2>5. PICK q, k, r : q = OnToNext /\ k = Kid /\ r = Append(OnToNext, [node |-> Kid, kid |-> 1])
    OBVIOUS
  <2>6. /\ Chain(tree, q) /\ q # <<>> /\ k \in Nodes /\ ~tree[k].lost /\ tree[k].hasKids
        /\ k \notin Above(q, Len(q) + 1) /\ ~ (Len(q) >= D)
        /\ Placed(f, tree, q, from, at)
        /\ After(q, from, at, next)
        /\ Spans(f[<<Root, {}>>], f[<<k, Above(q, Len(q) + 1)>>], next)
    BY <1>1, <1>3, <1>4, <1>5, <1>9, <2>1, <2>2, <2>4, <2>5 DEF All
  <2>7. PICK from2, at2 : Placed(f, tree, r, from2, at2) /\ Here(r, from2, at2) = next
    <3>1. Begun(f, tree, Append(q, [node |-> k, kid |-> 1]), next)
      BY <1>1, <1>3, <2>6, PlacedGrows
    <3> QED
      BY <2>5, <3>1 DEF Begun
  <2>8. PlacedAt(f)'
    BY <1>1, <1>9, <2>5, <2>7 DEF PlacedAt
  <2>9. RightAt(f)'
    BY <1>9 DEF RightAt, All
  <2>10. path' # <<>>
    <3>1. Chain(tree, path') /\ 1 \in 1..Len(path')
      <4>1. [node |-> Kid, kid |-> 1] \in Frame
        BY <1>3 DEF Frame
      <4>2. PICK e \in Frame : e = [node |-> Kid, kid |-> 1]
        BY <4>1
      <4>3. OnToNext \in Seq(Frame)
        BY <2>1 DEF Chain
      <4>4. Len(Append(OnToNext, e)) = Len(OnToNext) + 1 /\ Len(OnToNext) \in Nat
        BY <4>3
      <4> QED
        BY <1>1, <1>9, <4>2, <4>4, Descends
    <3> QED
      BY <3>1
  <2>11. FilledAt(f)'
    BY <1>1, <1>3, <1>9, <2>10 DEF FilledAt, All
  <2> QED
    BY <2>8, <2>9, <2>11
<1>10. \/ Kid \in Ancestors /\ path' = OnToNext /\ UNCHANGED <<slots, next>>
       \/ /\ Kid \notin Ancestors /\ ~tree[Kid].hasKids /\ path' = OnToNext
          /\ IF IsBranch(tree, Kid) THEN UNCHANGED <<slots, next>>
             ELSE slots' = [slots EXCEPT ![next + 1] = Kid] /\ next' = next + 1
       \/ /\ Kid \notin Ancestors /\ tree[Kid].hasKids /\ Len(path) >= MaxDepth
          /\ path' = OnToNext /\ UNCHANGED <<slots, next>>
       \/ /\ Kid \notin Ancestors /\ tree[Kid].hasKids /\ Len(path) < MaxDepth
          /\ path' = Append(OnToNext, [node |-> Kid, kid |-> 1]) /\ UNCHANGED <<slots, next>>
  BY DEF KidLoads
<1>11. \/ part = <<>> /\ path' = OnToNext /\ UNCHANGED <<slots, next>>
       \/ /\ part = <<Kid>> /\ path' = OnToNext /\ next' = next + 1
          /\ slots' = [slots EXCEPT ![next + 1] = Kid]
       \/ /\ Kid \notin Ancestors /\ tree[Kid].hasKids /\ Len(path) < MaxDepth
          /\ path' = Append(OnToNext, [node |-> Kid, kid |-> 1]) /\ UNCHANGED <<slots, next>>
  BY <1>6, <1>10
<1> QED
  BY <1>7, <1>8, <1>9, <1>11

\* A node whose kids are all passed is passed itself; when every slot has been
\* passed, where the walk is does not matter any more.
LEMMA AscendKeeps ==
    ASSUME ChainInv, SlotsInv, Ascend, NEW D, Limit(D), NEW f, Lists(f, tree, D),
           PlacedAt(f), RightAt(f), FilledAt(f)
    PROVE  PlacedAt(f)' /\ RightAt(f)' /\ FilledAt(f)'
<1>1. /\ tree \in Trees /\ Chain(tree, path) /\ tree' = tree /\ path # <<>> /\ ~Going
      /\ path' = Front(path) /\ UNCHANGED <<slots, next, asked>>
  BY DEF ChainInv, Ascend
<1>2. PICK from, at : /\ Placed(f, tree, path, from, at)
                      /\ next < Len(slots) => next = Here(path, from, at)
  BY <1>1 DEF PlacedAt
<1>3. next < Len(slots) => path[Len(path)].kid = Len(tree[path[Len(path)].node].kids) + 1
  <2> SUFFICES ASSUME next < Len(slots)
               PROVE  path[Len(path)].kid = Len(tree[path[Len(path)].node].kids) + 1
    OBVIOUS
  <2>1. /\ path[Len(path)].kid \in Nat \ {0} /\ path[Len(path)].node \in Nodes
        /\ path[Len(path)].kid <= Len(tree[path[Len(path)].node].kids) + 1
    BY <1>1, TopOfChain
  <2>2. PICK n \in Nat : n = Len(tree[path[Len(path)].node].kids)
    BY <1>1, <2>1, TreeTyped
  <2>3. ~ (path[Len(path)].kid <= n)
    BY <1>1, <2>2 DEF Going, Top
  <2>4. PICK i \in Nat : i = path[Len(path)].kid /\ i <= n + 1 /\ ~ (i <= n)
    BY <2>1, <2>2, <2>3
  <2>5. i = n + 1
    BY <2>4
  <2> QED
    BY <2>2, <2>4, <2>5
<1>4. PICK q : q = Front(path)
  OBVIOUS
<1>5. Left(f, tree, path, q, from, at)
  BY <1>1, <1>2, <1>4, PlacedShrinks
<1>6. next < Len(slots) =>
         /\ q # <<>> => next = Here(q, from, at)
         /\ q = <<>> => next = Len(All(f))
  BY <1>2, <1>3, <1>5 DEF Left, All
<1>7. PlacedAt(f)'
  BY <1>1, <1>4, <1>5, <1>6 DEF PlacedAt, Left
<1>8. RightAt(f)'
  BY <1>1 DEF RightAt, All
<1>9. FilledAt(f)'
  <2>1. PICK n \in Nat : n = Len(slots) /\ DOMAIN slots = 1..n /\ next \in Nat
    BY DEF SlotsInv
  <2>2. tree \notin Shared =>
          \A i \in 1..n : i <= next => i <= Len(All(f)) /\ slots[i] = All(f)[i]
    BY <1>1, <2>1 DEF FilledAt
  <2>3. q = <<>> /\ Len(slots) = Len(All(f)) => \A i \in 1..n : i <= next
    <3>1. CASE next < n
      BY <1>6, <2>1, <3>1
    <3>2. CASE ~ (next < n)
      BY <2>1, <3>2
    <3> QED
      BY <3>1, <3>2
  <2> QED
    BY <1>1, <1>4, <2>1, <2>2, <2>3 DEF FilledAt, All
<1> QED
  BY <1>7, <1>8, <1>9

LEMMA WalkInvNext ==
    ASSUME ChainInv, SlotsInv, WalkInv, Next
    PROVE  WalkInv'
<1>1. tree' = tree
  BY DEF Next, Ask, KidFails, KidLoads, Ascend, Answer, OtherLoads
<1>2. SUFFICES ASSUME Steady, NEW D, Limit(D), NEW f, Lists(f, tree, D)
               PROVE  PlacedAt(f)' /\ RightAt(f)' /\ FilledAt(f)'
  BY <1>1 DEF WalkInv, Steady, Limit, TooDeep
<1>3. PlacedAt(f) /\ RightAt(f) /\ FilledAt(f)
  BY <1>2 DEF WalkInv
<1>4. CASE Ask
  BY <1>2, <1>3, <1>4, AskKeeps
<1>5. CASE KidFails
  BY <1>2, <1>3, <1>5, KidFailsKeeps
<1>6. CASE KidLoads
  BY <1>2, <1>3, <1>6, KidLoadsKeeps
<1>7. CASE Ascend
  BY <1>2, <1>3, <1>7, AscendKeeps
<1>8. CASE Answer
  <2>1. path = <<>> /\ path' = <<>> /\ slots' = slots /\ asked' = Nothing
    BY <1>8 DEF Answer
  <2>2. PlacedAt(f)'
    BY <2>1 DEF PlacedAt
  <2>3. RightAt(f)'
    BY <1>3, <2>1 DEF RightAt, All
  <2>4. FilledAt(f)'
    BY <2>1 DEF FilledAt, Nothing
  <2> QED
    BY <2>2, <2>3, <2>4
<1>9. CASE OtherLoads
  <2>1. UNCHANGED <<tree, slots, path, next, asked>>
    BY <1>9 DEF OtherLoads
  <2> QED
    BY <1>3, <2>1 DEF PlacedAt, RightAt, FilledAt, All, Nothing
<1> QED
  BY <1>4, <1>5, <1>6, <1>7, <1>8, <1>9 DEF Next

LEMMA WalkAlways == Spec => [](ChainInv /\ SlotsInv /\ WalkInv)
<1>1. Init /\ SlotsInv => WalkInv
  <2> SUFFICES ASSUME Init, SlotsInv, NEW f
               PROVE  PlacedAt(f) /\ RightAt(f) /\ FilledAt(f)
    BY DEF WalkInv
  <2>1. path = <<>> /\ asked = Nothing /\ slots = [i \in 1..PageCount(tree) |-> None]
    BY DEF Init
  <2> QED
    BY <2>1 DEF PlacedAt, RightAt, FilledAt, Nothing
<1>2. ChainInv /\ SlotsInv /\ WalkInv /\ [Next]_vars => WalkInv'
  <2> SUFFICES ASSUME ChainInv, SlotsInv, WalkInv, [Next]_vars PROVE WalkInv'
    OBVIOUS
  <2>1. CASE Next
    BY <2>1, WalkInvNext
  <2>2. CASE UNCHANGED vars
    <3>1. UNCHANGED <<tree, slots, path, next, asked>>
      BY <2>2 DEF vars
    <3>2. SUFFICES ASSUME Steady, NEW D, Limit(D), NEW f, Lists(f, tree, D)
                   PROVE  PlacedAt(f)' /\ RightAt(f)' /\ FilledAt(f)'
      BY <3>1 DEF WalkInv, Steady, Limit, TooDeep
    <3>3. PlacedAt(f) /\ RightAt(f) /\ FilledAt(f)
      BY <3>2 DEF WalkInv
    <3> QED
      BY <3>1, <3>3 DEF PlacedAt, RightAt, FilledAt, All, Nothing
  <2> QED
    BY <2>1, <2>2
<1> QED
  BY <1>1, <1>2, SlotsAlways, PTL DEF Spec

----------------------------------------------------------------------------
(* The theorems.                                                           *)

\* Where nothing is too deep, Pages is what is listed.
LEMMA ShallowLimit ==
    ASSUME tree \in Trees, ~TooDeep
    PROVE  /\ Limit(Cardinality(Nodes)) /\ Lists(PagesUnder(tree), tree, Cardinality(Nodes))
           /\ All(PagesUnder(tree)) = Pages
  BY PagesListed DEF Limit, All, Pages

\* No slot holds a page that belongs at another index: a kid that will not load
\* costs the slot that its page would have had.  OnePageBranches is about the
\* trees of Shared alone, and holds where nothing is shared.
THEOREM RightPageCorrect ==
    ASSUME OnePageBranches
    PROVE  Spec => []RightPageOrHole
<1>1. ChainInv /\ WalkInv => RightPageOrHole
  <2> SUFFICES ASSUME ChainInv, WalkInv, ~TooDeep
               PROVE  \A i \in DOMAIN slots :
                         slots[i] # None => i <= Len(Pages) /\ slots[i] = Pages[i]
    BY DEF RightPageOrHole
  <2>1. RightAt(PagesUnder(tree)) /\ All(PagesUnder(tree)) = Pages
    BY ShallowLimit DEF WalkInv, Steady, ChainInv
  <2> QED
    BY <2>1 DEF RightAt
<1> QED
  BY <1>1, WalkAlways, PTL

\* A page that was given out for an index stays the page at that index, though
\* every later walk fills the slots again, and also in a tree that is too deep.
THEOREM PageStaysCorrect ==
    ASSUME OnePageBranches
    PROVE  Spec => PageStays
<1>1. ASSUME ChainInv, SlotsInv, WalkInv, WalkInv', [Next]_vars
      PROVE  [\A i \in DOMAIN slots : slots[i] # None => slots'[i] = slots[i]]_vars
  <2> SUFFICES ASSUME NEW i \in DOMAIN slots, slots[i] # None
               PROVE  slots'[i] = slots[i]
    OBVIOUS
  <2>1. PICK n \in Nat : n = Len(slots) /\ DOMAIN slots = 1..n /\ slots \in Seq(Entry)
    BY <1>1 DEF SlotsInv
  <2>2. tree \in Trees /\ tree' = tree
    BY <1>1 DEF ChainInv, Next, Ask, KidFails, KidLoads, Ascend, Answer, OtherLoads, vars
  <2>3. PICK f : Lists(f, tree, MaxDepth)
    BY <2>2, ListsExist
  <2>4. Steady /\ Steady' /\ Limit(MaxDepth) /\ Limit(MaxDepth)'
    BY DEF Steady, Limit
  <2>5. RightAt(f)
    BY <2>3, <2>4, <1>1 DEF WalkInv
  <2>6. RightAt(f)'
    BY <1>1, <2>2, <2>3, <2>4 DEF WalkInv
  <2>7. slots' = slots \/ \E j \in Nat, k \in Nodes :
                             j < n /\ slots' = [slots EXCEPT ![j + 1] = k]
    <3>1. CASE Ask
      <4>1. PICK h \in 0..Len(slots) - 1 :
              slots' = slots \/ slots' = [slots EXCEPT ![1] = Root]
        BY <3>1 DEF Ask
      <4>2. 0 + 1 = 1 /\ 0 < n /\ 0 \in Nat /\ Root \in Nodes
        BY <2>1, <4>1, ConstantsTyped
      <4> QED
        BY <4>1, <4>2
    <3>2. CASE KidLoads
      <4>1. Going /\ (slots' = slots \/ slots' = [slots EXCEPT ![next + 1] = Kid])
        BY <3>2 DEF KidLoads
      <4>2. Kid \in Nodes /\ next \in Nat /\ next < n
        BY <1>1, <2>1, <4>1, GoingOn DEF ChainInv, SlotsInv
      <4> QED
        BY <4>1, <4>2
    <3>3. CASE ~Ask /\ ~KidLoads
      BY <1>1, <3>3 DEF Next, KidFails, Ascend, Answer, OtherLoads, vars
    <3> QED
      BY <3>1, <3>2, <3>3
  <2>8. CASE slots' # slots
    <3>1. PICK j \in Nat, k \in Nodes : j < n /\ slots' = [slots EXCEPT ![j + 1] = k]
      BY <2>7, <2>8
    <3>2. /\ DOMAIN slots' = DOMAIN slots /\ slots'[j + 1] = k
          /\ \A h \in DOMAIN slots : h # j + 1 => slots'[h] = slots[h]
      <4>1. LET s == [slots EXCEPT ![j + 1] = k] IN
              /\ s \in Seq(Entry) /\ Len(s) = Len(slots) /\ DOMAIN s = DOMAIN slots
              /\ s[j + 1] = k /\ \A h \in DOMAIN slots : h # j + 1 => s[h] = slots[h]
        BY <2>1, <3>1, SlotFilled
      <4> QED
        BY <3>1, <4>1
    <3>3. k # None
      BY ConstantsTyped
    <3>4. slots[i] = All(f)[i]
      BY <2>5 DEF RightAt
    <3>5. slots'[i] # None => slots'[i] = All(f)[i]
      BY <2>6, <3>2 DEF RightAt, All
    <3> QED
      BY <3>2, <3>3, <3>4, <3>5
  <2> QED
    BY <2>8
<1>2. ChainInv /\ SlotsInv /\ WalkInv /\ WalkInv' /\ [Next]_vars
        => [\A i \in DOMAIN slots : slots[i] # None => slots'[i] = slots[i]]_vars
  BY <1>1
<1> QED
  BY <1>2, WalkAlways, PTL DEF Spec, PageStays

\* In a document that nothing else reads and whose /Count is true, an index that
\* is asked for gives its page, whatever was asked for before.
THEOREM TrueCountCorrect == Spec => TrueCountFindsAll
<1>1. ASSUME ChainInv, SlotsInv, WalkInv, [Next]_vars
      PROVE  [(/\ asked # Nothing /\ asked' = Nothing
               /\ tree \notin Shared
               /\ ~TooDeep /\ Len(slots) = Len(Pages)) =>
                slots'[asked + 1] = Pages[asked + 1]]_vars
  <2> SUFFICES ASSUME asked # Nothing, asked' = Nothing, tree \notin Shared,
                      ~TooDeep, Len(slots) = Len(Pages)
               PROVE  slots'[asked + 1] = Pages[asked + 1]
    OBVIOUS
  <2>1. PICK n \in Nat : /\ n = Len(slots) /\ DOMAIN slots = 1..n /\ n <= MaxPages
                         /\ asked \in 0..n - 1
    BY <1>1 DEF SlotsInv
  <2>2. Answer
    <3>1. asked' # asked
      OBVIOUS
    <3>2. ~Ask
      <4>1. Ask => \E i \in 0..n - 1 : asked' = i
        BY <2>1 DEF Ask
      <4>2. \A i \in 0..n - 1 : i # MaxPages
        BY <2>1, ConstantsTyped
      <4> QED
        BY <4>1, <4>2 DEF Nothing
    <3> QED
      BY <1>1, <3>1, <3>2 DEF Next, KidFails, KidLoads, Ascend, OtherLoads, vars
  <2>3. path = <<>> /\ slots' = slots
    BY <2>2 DEF Answer
  <2>4. FilledAt(PagesUnder(tree)) /\ All(PagesUnder(tree)) = Pages
    BY <1>1, ShallowLimit DEF WalkInv, Steady, ChainInv
  <2>5. \A i \in DOMAIN slots : slots[i] = Pages[i]
    BY <2>3, <2>4 DEF FilledAt
  <2>6. asked + 1 \in DOMAIN slots
    BY <2>1
  <2> QED
    BY <2>3, <2>5, <2>6
<1>2. ChainInv /\ SlotsInv /\ WalkInv /\ [Next]_vars
        => [(/\ asked # Nothing /\ asked' = Nothing
             /\ tree \notin Shared
             /\ ~TooDeep /\ Len(slots) = Len(Pages)) =>
              slots'[asked + 1] = Pages[asked + 1]]_vars
  BY <1>1
<1> QED
  BY <1>2, WalkAlways, PTL DEF Spec, TrueCountFindsAll
=============================================================================
