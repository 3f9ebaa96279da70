----------------------------- MODULE FoldProofs -----------------------------
(***************************************************************************)
(* What the proofs share.  Of finite sets: induction, stated on a set of   *)
(* sets in place of a predicate; sums, that taking any member first gives  *)
(* the same; how many come before the n-th.  Of recursive functions: that  *)
(* they exist.  Of sequences: what is made of each element, end to end.    *)
(***************************************************************************)
EXTENDS Integers, SequencesExt, FiniteSetTheorems, SequenceTheorems, WellFoundedInduction, TLAPS

\* A family of subsets of a finite set has a smallest one.
LEMMA SmallestSet ==
    ASSUME NEW S, IsFiniteSet(S), NEW F \in SUBSET SUBSET S, F # {}
    PROVE  \E T \in F : \A U \in F : U \subseteq T => U = T
<1>1. IsWellFoundedOn(StrictSubsetOrdering(S), SUBSET S)
  BY FS_StrictSubsetOrderingWellFounded, FS_FiniteSubsetsOfFinite
<1>2. PICK T \in F : \A U \in F : ~ (<<U, T>> \in StrictSubsetOrdering(S))
  BY <1>1, WFMin
<1> QED
  BY <1>2 DEF StrictSubsetOrdering

\* What holds of the empty set, and of a set when it holds of the set with
\* some element taken out, holds of the subsets of a finite set.
LEMMA SetInduction ==
    ASSUME NEW S, IsFiniteSet(S), NEW G, {} \in G,
           \A T \in SUBSET S : T # {} => \E x \in T : T \ {x} \in G => T \in G
    PROVE  SUBSET S \subseteq G
<1> DEFINE F == {T \in SUBSET S : T \notin G}
<1>1. SUFFICES ASSUME F # {} PROVE FALSE
  OBVIOUS
<1>2. F \in SUBSET SUBSET S /\ \A T : T \in F <=> T \in SUBSET S /\ T \notin G
  OBVIOUS
<1> HIDE DEF F
<1>3. PICK T \in F : \A U \in F : U \subseteq T => U = T
  BY <1>1, <1>2, SmallestSet
<1>4. T \in SUBSET S /\ T # {} /\ T \notin G
  <2>1. T \in SUBSET S /\ T \notin G
    BY <1>2, Zenon
  <2> QED
    BY <2>1
<1>5. PICK x \in T : T \ {x} \in G => T \in G
  BY <1>4
<1> QED
  BY <1>2, <1>3, <1>4, <1>5

\* The least of some natural numbers.
LEMMA LeastNatural ==
    ASSUME NEW N \in SUBSET Nat, N # {}
    PROVE  \E m \in N : \A n \in N : m <= n
<1>1. PICK k \in N : TRUE
  OBVIOUS
<1> DEFINE S == 0..k
           F == {0..m : m \in N \intersect S}
<1>2. IsFiniteSet(S)
  BY FS_Interval
<1>6. \A m \in N \intersect S : 0..m \subseteq S
  OBVIOUS
<1>7. F \in SUBSET SUBSET S
  BY <1>6
<1>8. F # {}
  BY k \in 0..k
<1>9. \A n \in N : n <= k => 0..n \in F
  OBVIOUS
<1>10. \A T \in F : \E m \in N \intersect S : T = 0..m
  OBVIOUS
<1> HIDE DEF F, S
<1>3. PICK T \in F : \A U \in F : U \subseteq T => U = T
  BY <1>2, <1>7, <1>8, SmallestSet
<1>4. PICK m \in N \intersect S : T = 0..m
  BY <1>10
<1>5. ASSUME NEW n \in N, n < m PROVE FALSE
  <2>1. 0..n \in F /\ 0..n \subseteq T
    BY <1>4, <1>5, <1>9 DEF S
  <2>2. 0..n = 0..m
    BY <1>3, <1>4, <2>1
  <2>3. m \in 0..m /\ m \notin 0..n
    BY <1>4, <1>5
  <2> QED
    BY <2>2, <2>3
<1> QED
  BY <1>4, <1>5

\* The largest of some numbers, as FiniteSetsExt's Max takes it.
LEMMA LargestNatural ==
    ASSUME NEW N \in Nat, NEW s \in SUBSET (0..N), s # {}
    PROVE  LET max == CHOOSE x \in s : \A y \in s : x >= y IN
           max \in s /\ \A y \in s : max >= y
<1> DEFINE U == {n \in Nat : \A y \in s : y <= n}
<1>1. N \in U /\ U \in SUBSET Nat
  OBVIOUS
<1>2. PICK m \in U : \A n \in U : m <= n
  BY <1>1, LeastNatural
<1>3. \A y \in s : y <= m /\ y \in Nat
  BY <1>2
<1>4. m \in s
  <2> SUFFICES ASSUME m \notin s PROVE FALSE
    OBVIOUS
  <2>1. \A y \in s : y < m
    BY <1>2, <1>3
  <2>2. PICK y \in s : TRUE
    OBVIOUS
  <2>3. m - 1 \in U
    BY <1>2, <1>3, <2>1, <2>2
  <2> QED
    BY <1>2, <2>3
<1>5. \E x \in s : \A y \in s : x >= y
  BY <1>3, <1>4
<1> QED
  BY <1>5

\* A function on the numbers to N that starts at b, each value made from the
\* one before by a step.
Stepped(f, N, b, step) ==
    f[0] = b /\ \A k \in 1..N : f[k] = step[<<k, f[k - 1]>>]

\* There is such a function.
LEMMA StepsExist ==
    ASSUME NEW T, NEW b \in T, NEW N \in Nat, NEW step \in [(1..N) \X T -> T]
    PROVE  \E f \in [0..N -> T] : Stepped(f, N, b, step)
<1> USE DEF Stepped
<1> DEFINE Runs(f, n) == f[0] = b /\ \A k \in 1..n : f[k] = step[<<k, f[k - 1]>>]
           U == {n \in 0..N : ~ \E f \in [0..n -> T] : Runs(f, n)}
<1>1. SUFFICES ASSUME U # {} PROVE FALSE
  <2>1. N \notin U
    BY <1>1
  <2> QED
    BY <2>1
<1>2. PICK m \in U : \A n \in U : m <= n
  <2>1. U \in SUBSET Nat
    OBVIOUS
  <2> HIDE DEF U
  <2> QED
    BY <1>1, <2>1, LeastNatural
<1>3. m \in 0..N /\ ~ \E f \in [0..m -> T] : Runs(f, m)
  BY <1>2
<1>4. m # 0
  <2> DEFINE f == [n \in 0..0 |-> b]
  <2>1. f \in [0..0 -> T] /\ Runs(f, 0)
    OBVIOUS
  <2> QED
    BY <1>3, <2>1
<1>5. PICK f \in [0..(m - 1) -> T] : Runs(f, m - 1)
  <2>1. m - 1 \in 0..N /\ ~ (m <= m - 1)
    BY <1>3, <1>4
  <2>2. m - 1 \notin U
    <3> HIDE DEF U
    <3> QED
      BY <1>2, <2>1
  <2> QED
    BY <2>1, <2>2
<1> DEFINE g == [n \in 0..m |-> IF n = m THEN step[<<m, f[m - 1]>>] ELSE f[n]]
<1>6. m \in 1..N /\ f[m - 1] \in T /\ step[<<m, f[m - 1]>>] \in T
  BY <1>3, <1>4, <1>5
<1>7. g \in [0..m -> T]
  BY <1>5, <1>6
<1>8. Runs(g, m)
  <2>1. g[0] = b
    BY <1>5, <1>6
  <2>2. ASSUME NEW k \in 1..m PROVE g[k] = step[<<k, g[k - 1]>>]
    <3>1. k - 1 \in 0..(m - 1) /\ g[k - 1] = f[k - 1]
      BY <1>6, <2>2
    <3>2. CASE k = m
      <4>1. g[m] = step[<<m, f[m - 1]>>]
        BY <1>6
      <4> QED
        BY <3>1, <3>2, <4>1
    <3>3. CASE k # m
      <4>1. k \in 1..(m - 1) /\ g[k] = f[k]
        BY <1>6, <2>2, <3>3
      <4> QED
        BY <1>5, <3>1, <4>1
    <3> QED
      BY <3>2, <3>3
  <2> QED
    BY <2>1, <2>2
<1> QED
  BY <1>3, <1>7, <1>8

----------------------------------------------------------------------------

\* A fold over the subsets of S takes out the element that is picked.
Folds(g, S, base, pick, step) ==
    \A s \in SUBSET S :
        g[s] = IF s = {} THEN base ELSE step[<<pick[s], g[s \ {pick[s]}]>>]

\* There is such a function: the smallest relation closed under the equation.
LEMMA FoldExists ==
    ASSUME NEW S, IsFiniteSet(S), NEW V, NEW base \in V, NEW pick,
           \A s \in SUBSET S : s # {} => pick[s] \in s,
           NEW step \in [S \X V -> V]
    PROVE  \E g \in [SUBSET S -> V] : Folds(g, S, base, pick, step)
<1> DEFINE P == (SUBSET S) \X V
           less(s) == s \ {pick[s]}
           Closed(Q) == /\ <<{}, base>> \in Q
                        /\ \A s \in SUBSET S : \A v \in V :
                              s # {} /\ <<less(s), v>> \in Q => <<s, step[<<pick[s], v>>]>> \in Q
           R == {p \in P : \A Q \in SUBSET P : Closed(Q) => p \in Q}
<1>1. \A s \in SUBSET S : s # {} => /\ pick[s] \in S /\ less(s) \in SUBSET S
                                    /\ \A v \in V : step[<<pick[s], v>>] \in V
  OBVIOUS
<1>2. R \in SUBSET P /\ Closed(R)
  <2>1. R \in SUBSET P
    OBVIOUS
  <2>2. <<{}, base>> \in R
    OBVIOUS
  <2>3. ASSUME NEW s \in SUBSET S, NEW v \in V, s # {}, <<less(s), v>> \in R
        PROVE  <<s, step[<<pick[s], v>>]>> \in R
    <3>1. <<s, step[<<pick[s], v>>]>> \in P
      BY <1>1, <2>3
    <3>2. ASSUME NEW Q \in SUBSET P, Closed(Q) PROVE <<s, step[<<pick[s], v>>]>> \in Q
      BY <2>3, <3>2
    <3> QED
      BY <3>1, <3>2
  <2> QED
    BY <2>1, <2>2, <2>3
<1>3. \A Q \in SUBSET P : Closed(Q) => R \subseteq Q
  OBVIOUS
<1>4. \A s \in SUBSET S : \A v \in V : <<s, v>> \in R =>
         \/ s = {} /\ v = base
         \/ /\ s # {}
            /\ \E w \in V : <<less(s), w>> \in R /\ v = step[<<pick[s], w>>]
  <2> HIDE DEF R
  <2> SUFFICES ASSUME NEW s \in SUBSET S, NEW v \in V, <<s, v>> \in R,
                      ~ (s = {} /\ v = base),
                      ~ (s # {} /\ \E w \in V : <<less(s), w>> \in R /\ v = step[<<pick[s], w>>])
               PROVE  FALSE
    BY Zenon
  <2> DEFINE Q == R \ {<<s, v>>}
  <2>1. Q \in SUBSET P
    BY <1>2
  <2>2. <<{}, base>> \in Q
    BY <1>2
  <2>3. ASSUME NEW t \in SUBSET S, NEW w \in V, t # {}, <<less(t), w>> \in Q
        PROVE  <<t, step[<<pick[t], w>>]>> \in Q
    <3>1. <<less(t), w>> \in R /\ <<t, step[<<pick[t], w>>]>> \in R
      BY <1>2, <2>3
    <3>2. t = s => v # step[<<pick[t], w>>]
      BY <2>3, <3>1
    <3> QED
      BY <3>1, <3>2
  <2>4. R \subseteq Q
    BY <1>3, <2>1, <2>2, <2>3
  <2> QED
    BY <2>4
<1> HIDE DEF R
<1> DEFINE G == {s \in SUBSET S : \E v \in V : \A w \in V : <<s, w>> \in R <=> w = v}
<1>5. SUBSET S \subseteq G
  <2>1. {} \in G
    <3>1. \A w \in V : <<{}, w>> \in R <=> w = base
      BY <1>2, <1>4
    <3> QED
      BY <3>1
  <2>2. ASSUME NEW T \in SUBSET S, T # {}, less(T) \in G PROVE T \in G
    <3>1. PICK v \in V : \A w \in V : <<less(T), w>> \in R <=> w = v
      BY <2>2
    <3>2. step[<<pick[T], v>>] \in V
      BY <1>1, <2>2
    <3>3. \A w \in V : <<T, w>> \in R <=> w = step[<<pick[T], v>>]
      BY <1>2, <1>4, <2>2, <3>1, <3>2
    <3> QED
      BY <3>2, <3>3
  <2>3. \A T \in SUBSET S : T # {} => \E x \in T : T \ {x} \in G => T \in G
    BY <2>2
  <2> HIDE DEF G
  <2> QED
    BY <2>1, <2>3, SetInduction
<1> DEFINE g == [s \in SUBSET S |-> CHOOSE v \in V : <<s, v>> \in R]
<1>6. \A s \in SUBSET S : g[s] \in V /\ \A w \in V : <<s, w>> \in R <=> w = g[s]
  <2> TAKE s \in SUBSET S
  <2>1. PICK v \in V : \A w \in V : <<s, w>> \in R <=> w = v
    BY <1>5
  <2>2. (CHOOSE x \in V : <<s, x>> \in R) = v
    BY <2>1
  <2> QED
    BY <2>1, <2>2
<1>7. g \in [SUBSET S -> V]
  BY <1>6
<1> HIDE DEF g, G
<1>8. ASSUME NEW s \in SUBSET S
      PROVE  g[s] = IF s = {} THEN base ELSE step[<<pick[s], g[less(s)]>>]
  <2>1. CASE s = {}
    BY <1>2, <1>6, <2>1
  <2>2. CASE s # {}
    <3>1. less(s) \in SUBSET S /\ g[less(s)] \in V /\ step[<<pick[s], g[less(s)]>>] \in V
      BY <1>1, <1>6, <2>2
    <3>2. <<less(s), g[less(s)]>> \in R
      BY <1>6, <3>1
    <3>3. <<s, step[<<pick[s], g[less(s)]>>]>> \in R
      BY <1>2, <2>2, <3>1, <3>2
    <3> QED
      BY <1>6, <2>2, <3>1, <3>3
  <2> QED
    BY <2>1, <2>2
<1> QED
  BY <1>7, <1>8 DEF Folds

----------------------------------------------------------------------------
(* The sum of a function over a finite set.                                *)

Picked(s) == CHOOSE x \in s : TRUE

Adds(g, f, S) ==
    g = [s \in SUBSET S |-> IF s = {} THEN 0 ELSE f[Picked(s)] + g[s \ {Picked(s)}]]

Adder(f, S) == CHOOSE g : Adds(g, f, S)

LEMMA AddsType ==
    ASSUME NEW S, IsFiniteSet(S), NEW f, \A x \in S : f[x] \in Int, NEW a, Adds(a, f, S)
    PROVE  \A s \in SUBSET S : a[s] \in Int
<1> DEFINE G == {s \in SUBSET S : a[s] \in Int}
<1>1. /\ a[{}] = 0
      /\ \A s \in SUBSET S : s # {} => a[s] = f[Picked(s)] + a[s \ {Picked(s)}]
  BY DEF Adds
<1>2. {} \in G
  BY <1>1
<1>3. ASSUME NEW T \in SUBSET S, T # {}, T \ {Picked(T)} \in G PROVE T \in G
  <2>1. f[Picked(T)] \in Int
    BY <1>3 DEF Picked
  <2>2. a[T \ {Picked(T)}] \in Int /\ a[T] = f[Picked(T)] + a[T \ {Picked(T)}]
    BY <1>1, <1>3
  <2> QED
    BY <2>1, <2>2
<1>4. \A T \in SUBSET S : T # {} => \E x \in T : T \ {x} \in G => T \in G
  BY <1>3 DEF Picked
<1> HIDE DEF G
<1>5. SUBSET S \subseteq G
  BY <1>2, <1>4, SetInduction
<1> QED
  BY <1>5 DEF G

LEMMA AdderAdds ==
    ASSUME NEW S, IsFiniteSet(S), NEW f, \A x \in S : f[x] \in Int
    PROVE  /\ SumFunctionOnSet(f, S) = Adder(f, S)[S]
           /\ Adds(Adder(f, S), f, S)
           /\ \A s \in SUBSET S : Adder(f, S)[s] \in Int
<1>1. SumFunctionOnSet(f, S) = Adder(f, S)[S]
  BY DEF SumFunctionOnSet, FoldFunctionOnSet, MapThenFoldSet, Adder, Adds, Picked
<1>2. \A s \in SUBSET S : s # {} => Picked(s) \in s
  BY DEF Picked
<1> DEFINE pick == [s \in SUBSET S |-> Picked(s)]
           step == [p \in S \X Int |-> f[p[1]] + p[2]]
<1>3. /\ \A s \in SUBSET S : s # {} => pick[s] \in s
      /\ step \in [S \X Int -> Int]
      /\ \A x \in S : \A v \in Int : step[<<x, v>>] = f[x] + v
  BY <1>2
<1>4. \A s \in SUBSET S : pick[s] = Picked(s)
  OBVIOUS
<1> HIDE DEF pick, step
<1>5. PICK g \in [SUBSET S -> Int] : Folds(g, S, 0, pick, step)
  BY <1>3, FoldExists, 0 \in Int
<1>6. ASSUME NEW s \in SUBSET S
      PROVE  g[s] = IF s = {} THEN 0 ELSE f[Picked(s)] + g[s \ {Picked(s)}]
  <2>1. CASE s = {}
    BY <1>5, <2>1 DEF Folds
  <2>2. CASE s # {}
    <3>1. g[s] = step[<<pick[s], g[s \ {pick[s]}]>>]
      BY <1>5, <2>2 DEF Folds
    <3>2. Picked(s) \in S /\ g[s \ {Picked(s)}] \in Int
      BY <1>2, <1>5, <2>2
    <3> QED
      BY <1>3, <1>4, <2>2, <3>1, <3>2
  <2> QED
    BY <2>1, <2>2
<1>7. Adds(g, f, S)
  BY <1>5, <1>6 DEF Adds
<1>8. Adds(Adder(f, S), f, S)
  BY <1>7 DEF Adder
<1>9. \A s \in SUBSET S : Adder(f, S)[s] \in Int
  BY <1>8, AddsType
<1> QED
  BY <1>1, <1>8, <1>9

\* The sums over the subsets of a set are all in one function.
AllSums(g, f, S) ==
    /\ \A T \in SUBSET S : g[T] = SumFunctionOnSet(f, T) /\ g[T] \in Int
    /\ g[{}] = 0
    /\ \A T \in SUBSET S : T # {} => g[T] = f[Picked(T)] + g[T \ {Picked(T)}]

LEMMA OneAdder ==
    ASSUME NEW S, IsFiniteSet(S), NEW f, \A x \in S : f[x] \in Int
    PROVE  \E g : AllSums(g, f, S)
<1>0. PICK g : g = Adder(f, S)
  OBVIOUS
<1>1. (\A s \in SUBSET S : g[s] \in Int) /\ Adds(g, f, S)
  BY <1>0, AdderAdds
<1>3. \A s \in SUBSET S : g[s] = IF s = {} THEN 0 ELSE f[Picked(s)] + g[s \ {Picked(s)}]
  BY <1>1 DEF Adds
<1>2. ASSUME NEW T \in SUBSET S PROVE g[T] = SumFunctionOnSet(f, T)
  <2>0. PICK h : h = Adder(f, T)
    OBVIOUS
  <2> DEFINE G == {s \in SUBSET T : h[s] = g[s]}
  <2>1. IsFiniteSet(T) /\ \A x \in T : f[x] \in Int
    BY FS_Subset
  <2>2. SumFunctionOnSet(f, T) = h[T] /\ Adds(h, f, T)
    BY <2>0, <2>1, AdderAdds
  <2>3. \A s \in SUBSET T : h[s] = IF s = {} THEN 0 ELSE f[Picked(s)] + h[s \ {Picked(s)}]
    BY <2>2 DEF Adds
  <2>4. {} \in G
    BY <1>3, <2>3
  <2>5. ASSUME NEW s \in SUBSET T, s # {}
        PROVE  \E x \in s : s \ {x} \in G => s \in G
    <3>1. Picked(s) \in s
      BY <2>5 DEF Picked
    <3>2. s \ {Picked(s)} \in G => s \in G
      BY <1>3, <2>3, <2>5
    <3> QED
      BY <3>1, <3>2
  <2> HIDE DEF G
  <2>6. T \in G
    BY <2>1, <2>4, <2>5, SetInduction
  <2> QED
    BY <2>2, <2>6 DEF G
<1>4. /\ g[{}] = 0
      /\ \A T \in SUBSET S : T # {} => g[T] = f[Picked(T)] + g[T \ {Picked(T)}]
  BY <1>3
<1> QED
  BY <1>1, <1>2, <1>4 DEF AllSums

\* Any element may be taken out of a sum first.
LEMMA SumTake ==
    ASSUME NEW S, IsFiniteSet(S), NEW f, \A x \in S : f[x] \in Int
    PROVE  /\ SumFunctionOnSet(f, {}) = 0
           /\ \A T \in SUBSET S : SumFunctionOnSet(f, T) \in Int
           /\ \A T \in SUBSET S : \A x \in T :
                 SumFunctionOnSet(f, T) = f[x] + SumFunctionOnSet(f, T \ {x})
<1>0. PICK g : AllSums(g, f, S)
  BY OneAdder
<1>1. /\ \A T \in SUBSET S : g[T] = SumFunctionOnSet(f, T) /\ g[T] \in Int
      /\ g[{}] = 0
      /\ \A T \in SUBSET S : T # {} => g[T] = f[Picked(T)] + g[T \ {Picked(T)}]
  BY <1>0 DEF AllSums
<1> DEFINE F == {T \in SUBSET S : \E x \in T : g[T] # f[x] + g[T \ {x}]}
<1>2. F = {}
  <2>1. SUFFICES ASSUME F # {} PROVE FALSE
    OBVIOUS
  <2>2. F \in SUBSET SUBSET S
    OBVIOUS
  <2>3. PICK T \in F : \A U \in F : U \subseteq T => U = T
    <3> HIDE DEF F
    <3> QED
      BY <2>1, <2>2, SmallestSet
  <2>4. T \in SUBSET S
    OBVIOUS
  <2>5. PICK x \in T : g[T] # f[x] + g[T \ {x}]
    OBVIOUS
  <2> DEFINE p == Picked(T)
  <2>6. p \in T /\ g[T] = f[p] + g[T \ {p}]
    BY <1>1, <2>5 DEF Picked
  <2> HIDE DEF p
  <2>7. p # x
    BY <2>5, <2>6
  <2>8. T \ {p} \notin F /\ T \ {x} \notin F
    BY <2>3, <2>5, <2>6
  <2>9. g[T \ {p}] = f[x] + g[(T \ {p}) \ {x}]
    BY <2>4, <2>5, <2>7, <2>8
  <2>10. g[T \ {x}] = f[p] + g[(T \ {x}) \ {p}]
    BY <2>4, <2>6, <2>7, <2>8
  <2>11. (T \ {x}) \ {p} = (T \ {p}) \ {x}
    OBVIOUS
  <2>12. f[p] \in Int /\ f[x] \in Int /\ g[(T \ {p}) \ {x}] \in Int
    BY <1>1, <2>4, <2>5, <2>6
  <2>13. g[T] = f[p] + (f[x] + g[(T \ {p}) \ {x}])
    BY <2>6, <2>9
  <2>14. g[T] # f[x] + (f[p] + g[(T \ {p}) \ {x}])
    BY <2>5, <2>10, <2>11
  <2> QED
    BY <2>12, <2>13, <2>14
<1>3. ASSUME NEW T \in SUBSET S, NEW x \in T PROVE g[T] = f[x] + g[T \ {x}]
  BY <1>2
<1>4. \A T \in SUBSET S : \A x \in T : T \ {x} \in SUBSET S
  OBVIOUS
<1> HIDE DEF F
<1> QED
  BY <1>1, <1>3, <1>4

\* The sum depends on the summands alone.
LEMMA SumSame ==
    ASSUME NEW S, IsFiniteSet(S), NEW f, NEW g,
           \A x \in S : f[x] \in Int /\ g[x] = f[x]
    PROVE  SumFunctionOnSet(g, S) = SumFunctionOnSet(f, S)
<1> DEFINE G == {T \in SUBSET S : SumFunctionOnSet(g, T) = SumFunctionOnSet(f, T)}
<1>1. /\ SumFunctionOnSet(f, {}) = 0
      /\ \A T \in SUBSET S : \A x \in T :
            SumFunctionOnSet(f, T) = f[x] + SumFunctionOnSet(f, T \ {x})
  BY SumTake
<1>2. /\ SumFunctionOnSet(g, {}) = 0
      /\ \A T \in SUBSET S : \A x \in T :
            SumFunctionOnSet(g, T) = g[x] + SumFunctionOnSet(g, T \ {x})
  BY SumTake
<1>3. {} \in G
  BY <1>1, <1>2
<1>4. ASSUME NEW T \in SUBSET S, NEW x \in T, T \ {x} \in G PROVE T \in G
  <2>1. SumFunctionOnSet(f, T) = f[x] + SumFunctionOnSet(f, T \ {x})
    BY <1>1
  <2>2. SumFunctionOnSet(g, T) = f[x] + SumFunctionOnSet(g, T \ {x})
    BY <1>2
  <2> QED
    BY <1>4, <2>1, <2>2
<1>5. \A T \in SUBSET S : T # {} => \E x \in T : T \ {x} \in G => T \in G
  BY <1>4
<1> HIDE DEF G
<1>6. SUBSET S \subseteq G
  BY <1>3, <1>5, SetInduction
<1> QED
  BY <1>6 DEF G

\* A set may be summed in two parts.
LEMMA SumParts ==
    ASSUME NEW S, IsFiniteSet(S), NEW f, \A x \in S : f[x] \in Int, NEW L \in SUBSET S
    PROVE  SumFunctionOnSet(f, S) = SumFunctionOnSet(f, L) + SumFunctionOnSet(f, S \ L)
<1> DEFINE sum(T) == SumFunctionOnSet(f, T)
           G == {T \in SUBSET S : sum(S) = sum(T) + sum(S \ T)}
<1>1. /\ sum({}) = 0
      /\ \A T \in SUBSET S : sum(T) \in Int
      /\ \A T \in SUBSET S : \A x \in T : sum(T) = f[x] + sum(T \ {x})
  BY SumTake
<1> HIDE DEF sum
<1>2. {} \in G
  <2>1. S \ {} = S
    OBVIOUS
  <2> QED
    BY <1>1, <2>1
<1>3. ASSUME NEW T \in SUBSET S, NEW x \in T, T \ {x} \in G PROVE T \in G
  <2>1. sum(T) = f[x] + sum(T \ {x})
    BY <1>1
  <2>2. /\ S \ (T \ {x}) \in SUBSET S /\ x \in S \ (T \ {x})
        /\ (S \ (T \ {x})) \ {x} = S \ T
    OBVIOUS
  <2>3. sum(S \ (T \ {x})) = f[x] + sum(S \ T)
    BY <1>1, <2>2
  <2>4. sum(S) = sum(T \ {x}) + (f[x] + sum(S \ T))
    BY <1>3, <2>3
  <2>5. f[x] \in Int /\ sum(T \ {x}) \in Int /\ sum(S \ T) \in Int
    BY <1>1
  <2> QED
    BY <2>1, <2>4, <2>5
<1>4. \A T \in SUBSET S : T # {} => \E x \in T : T \ {x} \in G => T \in G
  BY <1>3
<1> HIDE DEF G
<1>5. SUBSET S \subseteq G
  BY <1>2, <1>4, SetInduction
<1> QED
  BY <1>5 DEF G, sum

\* A sum of naturals is one.
LEMMA SumNat ==
    ASSUME NEW S, IsFiniteSet(S), NEW f, \A x \in S : f[x] \in Nat
    PROVE  SumFunctionOnSet(f, S) \in Nat
<1> DEFINE G == {T \in SUBSET S : SumFunctionOnSet(f, T) \in Nat}
<1>1. /\ SumFunctionOnSet(f, {}) = 0
      /\ \A T \in SUBSET S : \A x \in T :
            SumFunctionOnSet(f, T) = f[x] + SumFunctionOnSet(f, T \ {x})
  BY SumTake
<1>2. {} \in G
  BY <1>1
<1>3. ASSUME NEW T \in SUBSET S, NEW x \in T, T \ {x} \in G PROVE T \in G
  <2>1. SumFunctionOnSet(f, T) = f[x] + SumFunctionOnSet(f, T \ {x})
    BY <1>1
  <2>2. f[x] \in Nat /\ SumFunctionOnSet(f, T \ {x}) \in Nat
    BY <1>3
  <2> QED
    BY <2>1, <2>2
<1>4. \A T \in SUBSET S : T # {} => \E x \in T : T \ {x} \in G => T \in G
  BY <1>3
<1> HIDE DEF G
<1>5. SUBSET S \subseteq G
  BY <1>2, <1>4, SetInduction
<1> QED
  BY <1>5 DEF G
----------------------------------------------------------------------------
(* The elements of a finite set in the order of some numbers, all distinct. *)

Before(f, S, x) == {y \in S : f[y] < f[x]}
First(f, S, n)  == {x \in S : Cardinality(Before(f, S, x)) < n}

LEMMA FirstCount ==
    ASSUME NEW S, IsFiniteSet(S), NEW f, \A x \in S : f[x] \in Nat,
           \A x, y \in S : f[x] = f[y] => x = y,
           NEW n \in 0..Cardinality(S)
    PROVE  Cardinality(First(f, S, n)) = n
<1> DEFINE rank(x) == Cardinality(Before(f, S, x))
           N == {k \in Nat : k <= Cardinality(S) /\ Cardinality(First(f, S, k)) # k}
<1>1. Cardinality(S) \in Nat
  BY FS_CardinalityType
<1>2. \A x \in S : rank(x) \in Nat
  BY FS_Subset, FS_CardinalityType DEF Before
<1>3. \A x, y \in S : f[x] <= f[y] => rank(x) <= rank(y)
  <2> TAKE x, y \in S
  <2> HAVE f[x] <= f[y]
  <2>1. Before(f, S, x) \subseteq Before(f, S, y)
    BY DEF Before
  <2>2. IsFiniteSet(Before(f, S, y))
    BY FS_Subset DEF Before
  <2> QED
    BY <2>1, <2>2, FS_Subset
<1>4. \A x, y \in S : f[x] < f[y] => rank(x) < rank(y)
  <2> TAKE x, y \in S
  <2> HAVE f[x] < f[y]
  <2>1. Before(f, S, x) \subseteq Before(f, S, y) /\ x \in Before(f, S, y) /\ x \notin Before(f, S, x)
    BY DEF Before
  <2>2. IsFiniteSet(Before(f, S, y)) /\ IsFiniteSet(Before(f, S, x))
    BY FS_Subset DEF Before
  <2>3. rank(x) <= rank(y) /\ rank(x) # rank(y)
    BY <2>1, <2>2, FS_Subset
  <2> QED
    BY <1>2, <2>3
<1> SUFFICES ASSUME N # {} PROVE FALSE
  BY <1>1
<1>5. PICK k \in N : \A m \in N : k <= m
  BY LeastNatural
<1>6. k # 0
  <2>1. First(f, S, 0) = {}
    BY <1>2 DEF First
  <2> QED
    BY <1>5, <2>1, FS_EmptySet
<1> DEFINE F == First(f, S, k - 1)
<1>7. k - 1 \in Nat /\ k - 1 < Cardinality(S) /\ Cardinality(F) = k - 1
  BY <1>1, <1>5, <1>6
<1>8. F \subseteq S /\ IsFiniteSet(F)
  BY FS_Subset DEF First
<1>9. S \ F # {}
  BY <1>7, <1>8, <1>1
\* The one used first of the rest.
<1>10. PICK m \in S \ F : \A x \in S \ F : f[m] <= f[x]
  <2> DEFINE M == {f[x] : x \in S \ F}
  <2>1. M \in SUBSET Nat /\ M # {}
    BY <1>9
  <2> HIDE DEF M
  <2>2. PICK v \in M : \A w \in M : v <= w
    BY <2>1, LeastNatural
  <2> QED
    BY <2>2 DEF M
<1>11. Before(f, S, m) = F
  <2>1. \A x \in F : f[x] < f[m]
    <3> TAKE x \in F
    <3>1. rank(x) < k - 1 /\ ~(rank(m) < k - 1)
      BY <1>10 DEF First
    <3>2. x \in S /\ m \in S /\ f[x] \in Nat /\ f[m] \in Nat
      BY <1>8
    <3>3. f[m] <= f[x] => rank(m) <= rank(x)
      BY <1>3, <3>2
    <3> QED
      BY <1>2, <1>7, <3>1, <3>2, <3>3
  <2>2. \A x \in Before(f, S, m) : x \in F
    BY <1>10 DEF Before
  <2> QED
    BY <1>8, <2>1, <2>2 DEF Before
<1>12. rank(m) = k - 1
  BY <1>7, <1>11
<1>13. First(f, S, k) = F \union {m}
  <2>1. \A x \in S : rank(x) = k - 1 => x = m
    <3> TAKE x \in S
    <3> HAVE rank(x) = k - 1
    <3>1. ~(f[x] < f[m]) /\ ~(f[m] < f[x])
      BY <1>4, <1>10, <1>12, <1>7
    <3> QED
      BY <1>10, <3>1
  <2>2. \A x \in S : rank(x) < k <=> rank(x) < k - 1 \/ rank(x) = k - 1
    BY <1>2, <1>7
  <2> QED
    BY <1>10, <1>12, <2>1, <2>2 DEF First
<1>14. Cardinality(First(f, S, k)) = k
  <2> HIDE DEF F
  <2>1. Cardinality(F \union {m}) = Cardinality(F) + 1
    BY <1>8, <1>10, FS_AddElement
  <2> QED
    BY <1>7, <1>13, <2>1
<1> QED
  BY <1>5, <1>14
\* Induction on a rank.
LEMMA RankInduction ==
    ASSUME NEW P, NEW rank \in [P -> Nat], NEW S,
           \A p \in P : (\A q \in P : rank[q] < rank[p] => q \in S) => p \in S
    PROVE  P \subseteq S
<1> DEFINE Bad == {k \in Nat : \E p \in P \ S : rank[p] = k}
<1>1. SUFFICES ASSUME NEW b \in P \ S PROVE FALSE
  OBVIOUS
<1>2. rank[b] \in Bad /\ Bad \in SUBSET Nat
  OBVIOUS
<1>3. PICK k \in Bad : \A j \in Bad : k <= j
  <2> HIDE DEF Bad
  <2> QED
    BY <1>2, LeastNatural
<1>4. PICK p \in P \ S : rank[p] = k
  BY <1>3
<1>5. ASSUME NEW q \in P, rank[q] < rank[p] PROVE q \in S
  <2> SUFFICES ASSUME q \notin S PROVE FALSE
    OBVIOUS
  <2>1. rank[q] \in Bad /\ rank[q] \in Nat /\ k \in Nat
    OBVIOUS
  <2> QED
    BY <1>3, <1>4, <1>5, <2>1
<1> QED
  BY <1>4, <1>5

\* Induction up to a number.
LEMMA CountInduction ==
    ASSUME NEW N \in Nat, NEW S, 0 \in S, \A k \in 1..N : k - 1 \in S => k \in S
    PROVE  0..N \subseteq S
<1> DEFINE Bad == {k \in 0..N : k \notin S}
<1>1. SUFFICES ASSUME Bad # {} PROVE FALSE
  OBVIOUS
<1>2. Bad \in SUBSET Nat
  OBVIOUS
<1>3. PICK k \in Bad : \A j \in Bad : k <= j
  <2> HIDE DEF Bad
  <2> QED
    BY <1>1, <1>2, LeastNatural
<1>4. k \in 1..N /\ k \notin S
  BY <1>3
<1>5. k - 1 \in 0..N /\ ~ (k <= k - 1)
  BY <1>4
<1> QED
  BY <1>3, <1>4, <1>5

\* A function each of whose values is made from those of lower rank.
MadeBy(f, P, step) == \A p \in P : f[p] = step[<<p, f>>]

FromBelow(P, T, rank, step) ==
    \A p \in P : \A f, g \in [P -> T] :
        (\A q \in P : rank[q] < rank[p] => f[q] = g[q]) => step[<<p, f>>] = step[<<p, g>>]

LEMMA RecursionExists ==
    ASSUME NEW P, NEW T, T # {}, NEW N \in Nat, NEW rank \in [P -> 0..N],
           NEW step \in [P \X [P -> T] -> T], FromBelow(P, T, rank, step)
    PROVE  \E f \in [P -> T] : MadeBy(f, P, step)
<1> DEFINE F == [P -> T]
           Upto(f, n) == \A p \in P : rank[p] < n => f[p] = step[<<p, f>>]
           U == {n \in 0..(N + 1) : ~ \E f \in F : Upto(f, n)}
<1>1. SUFFICES ASSUME U # {} PROVE FALSE
  <2>1. N + 1 \notin U
    BY <1>1
  <2>2. PICK f \in F : Upto(f, N + 1)
    <3>1. N + 1 \in 0..(N + 1)
      OBVIOUS
    <3> HIDE DEF Upto, F
    <3> QED
      BY <2>1, <3>1
  <2>3. \A p \in P : rank[p] < N + 1
    OBVIOUS
  <2> QED
    BY <2>2, <2>3 DEF MadeBy
<1>2. PICK m \in U : \A n \in U : m <= n
  <2>1. U \in SUBSET Nat
    OBVIOUS
  <2> HIDE DEF U
  <2> QED
    BY <1>1, <2>1, LeastNatural
<1>3. m \in 0..(N + 1) /\ ~ \E f \in F : Upto(f, m)
  BY <1>2
<1>4. m # 0
  <2>4. PICK t \in T : TRUE
    OBVIOUS
  <2> DEFINE f == [p \in P |-> t]
  <2>1. f \in F
    OBVIOUS
  <2>2. \A p \in P : ~ (rank[p] < 0)
    OBVIOUS
  <2>3. Upto(f, 0)
    BY <2>2
  <2> QED
    BY <1>3, <2>1, <2>3
<1>5. m - 1 \in 0..N /\ m - 1 \in 0..(N + 1) /\ ~ (m <= m - 1)
  BY <1>3, <1>4
<1>6. PICK f \in F : Upto(f, m - 1)
  <2>1. m - 1 \notin U
    <3> HIDE DEF U
    <3> QED
      BY <1>2, <1>5
  <2> QED
    BY <1>5, <2>1
<1> DEFINE g == [p \in P |-> IF rank[p] = m - 1 THEN step[<<p, f>>] ELSE f[p]]
<1>7. g \in F
  OBVIOUS
<1>8. ASSUME NEW p \in P, rank[p] < m PROVE g[p] = step[<<p, g>>]
  <2>0. rank[p] \in 0..N /\ m \in 0..(N + 1)
    BY <1>3
  <2>1. rank[p] \in Nat /\ (rank[p] = m - 1 \/ rank[p] < m - 1)
    <3> HIDE DEF U, F, g
    <3>1. PICK r \in Nat, k \in Nat : r = rank[p] /\ k = m
      BY <2>0
    <3>2. r < k
      BY <1>8, <3>1
    <3> QED
      BY <3>1, <3>2
  <2>2. \A q \in P : rank[q] < rank[p] => rank[q] # m - 1
    <3> SUFFICES ASSUME NEW q \in P, rank[q] < rank[p], rank[q] = m - 1 PROVE FALSE
      OBVIOUS
    <3>1. rank[q] \in 0..N
      OBVIOUS
    <3> QED
      BY <2>0, <2>1, <3>1
  <2>3. \A q \in P : rank[q] < rank[p] => g[q] = f[q]
    BY <2>2
  <2>4. g[p] = step[<<p, f>>]
    BY <1>5, <1>6, <2>1
  <2> HIDE DEF g
  <2>5. step[<<p, g>>] = step[<<p, f>>]
    BY <1>7, <2>3 DEF FromBelow
  <2> QED
    BY <2>4, <2>5
<1> HIDE DEF g
<1> QED
  BY <1>3, <1>7, <1>8

\* A finite relation in which no set of elements each has one below it in the
\* set gives its elements ranks.
LEMMA RankExists ==
    ASSUME NEW P, IsFiniteSet(P), NEW below, \A n \in P : below[n] \in SUBSET P,
           \A S \in SUBSET P : S # {} => \E n \in S : below[n] \intersect S = {}
    PROVE  \E N \in Nat : \E r \in [P -> 0..N] : \A n \in P : \A k \in below[n] : r[k] < r[n]
<1> DEFINE Fits(D, N, r) == /\ r \in [D -> 0..N]
                            /\ \A n \in D : \A k \in below[n] : k \in D /\ r[k] < r[n]
           Ranked(D) == \E N \in Nat : \E r : Fits(D, N, r)
           F == {U \in SUBSET P : Ranked(P \ U)}
<1>1. P \in F
  <2>1. Fits({}, 0, [n \in {} |-> 0])
    OBVIOUS
  <2>2. Ranked({})
    BY <2>1
  <2>3. P \ P = {}
    OBVIOUS
  <2> HIDE DEF Ranked
  <2> QED
    BY <2>2, <2>3
<1>2. PICK T \in F : \A U \in F : U \subseteq T => U = T
  <2>1. F \in SUBSET SUBSET P /\ F # {}
    BY <1>1
  <2> HIDE DEF F
  <2> QED
    BY <2>1, SmallestSet
<1>3. T \in SUBSET P /\ Ranked(P \ T)
  BY <1>2
<1>0. PICK N \in Nat : \E r : Fits(P \ T, N, r)
  BY <1>3
<1>4. PICK r : Fits(P \ T, N, r)
  BY <1>0
<1>5. CASE T = {}
  <2>1. Fits(P, N, r)
    BY <1>4, <1>5
  <2> QED
    BY <2>1
<1>6. CASE T # {}
  <2>1. PICK n \in T : below[n] \intersect T = {}
    BY <1>3, <1>6
  <2> DEFINE D == P \ T
             s == [q \in D \union {n} |-> IF q = n THEN N + 1 ELSE r[q]]
  <2>2. below[n] \subseteq D /\ n \notin D
    BY <1>3, <2>1
  <2>3. s[n] = N + 1 /\ \A q \in D : s[q] = r[q] /\ r[q] \in 0..N
    BY <1>4, <2>2
  <2>4. s \in [D \union {n} -> 0..N + 1]
    <3>1. \A m \in 0..N : m \in 0..N + 1
      OBVIOUS
    <3>2. N + 1 \in 0..N + 1
      OBVIOUS
    <3> QED
      BY <1>4, <3>1, <3>2
  <2> HIDE DEF s, Ranked
  <2>5. ASSUME NEW m \in D \union {n}, NEW k \in below[m] PROVE k \in D \union {n} /\ s[k] < s[m]
    <3>1. CASE m = n
      <4>1. k \in D /\ s[k] = r[k] /\ r[k] \in 0..N
        BY <2>2, <2>3, <2>5, <3>1
      <4>2. \A j \in 0..N : j < N + 1
        OBVIOUS
      <4> QED
        BY <2>3, <3>1, <4>1, <4>2
    <3>2. CASE m \in D
      <4>1. k \in D /\ r[k] < r[m]
        BY <1>4, <2>5, <3>2
      <4> QED
        BY <2>3, <3>2, <4>1
    <3> QED
      BY <3>1, <3>2
  <2>6. Fits(D \union {n}, N + 1, s)
    BY <2>4, <2>5
  <2>7. Ranked(D \union {n})
    <3>1. N + 1 \in Nat
      OBVIOUS
    <3> HIDE DEF Fits
    <3> QED
      BY <2>6, <3>1 DEF Ranked
  <2>8. D \union {n} = P \ (T \ {n})
    BY <1>3, <2>1
  <2>9. T \ {n} \in F
    BY <1>3, <2>7, <2>8
  <2>10. T \ {n} \subseteq T /\ T \ {n} # T
    BY <2>1
  <2> HIDE DEF F
  <2> QED
    BY <1>2, <2>9, <2>10
<1> QED
  BY <1>5, <1>6

----------------------------------------------------------------------------
(* Sequences made of sequences.                                            *)

\* f[j] is the first j parts, one after another.
Joins(f, parts, N, T) ==
    /\ f \in [0..N -> Seq(T)]
    /\ f[0] = <<>>
    /\ \A k \in 1..N : f[k] = f[k - 1] \o parts[k]

LEMMA JoinsExist ==
    ASSUME NEW T, NEW N \in Nat, NEW parts \in [1..N -> Seq(T)]
    PROVE  \E f : Joins(f, parts, N, T)
<1> DEFINE step == [p \in (1..N) \X Seq(T) |-> p[2] \o parts[p[1]]]
<1>1. step \in [(1..N) \X Seq(T) -> Seq(T)] /\ <<>> \in Seq(T)
  OBVIOUS
<1>2. \A k \in 1..N, s \in Seq(T) : step[<<k, s>>] = s \o parts[k]
  OBVIOUS
<1> HIDE DEF step
<1>3. PICK f \in [0..N -> Seq(T)] : Stepped(f, N, <<>>, step)
  BY <1>1, StepsExist
<1>4. \A k \in 1..N : k - 1 \in 0..N
  OBVIOUS
<1>5. \A k \in 1..N : f[k] = f[k - 1] \o parts[k]
  <2> TAKE k \in 1..N
  <2>1. f[k] = step[<<k, f[k - 1]>>] /\ f[k - 1] \in Seq(T)
    BY <1>3, <1>4 DEF Stepped
  <2> QED
    BY <1>2, <2>1
<1>6. f[0] = <<>>
  BY <1>3 DEF Stepped
<1>7. Joins(f, parts, N, T)
  BY <1>5, <1>6 DEF Joins
<1> QED
  BY <1>7

LEMMA JoinsFlatten ==
    ASSUME NEW T, NEW N \in Nat \ {0}, NEW parts \in [1..N -> Seq(T)], Len(parts) = N,
           NEW f, Joins(f, parts, N, T)
    PROVE  FlattenSeq(parts) = f[N]
<1> DEFINE Flat(u) == u = [i \in 1..N |-> IF i = 1 THEN parts[i] ELSE u[i - 1] \o parts[i]]
           Made(u) == \A i \in 1..N : u[i] = IF i = 1 THEN parts[i] ELSE u[i - 1] \o parts[i]
<1>1. 1 \in 1..N /\ N \in 1..N /\ N # 0
  OBVIOUS
<1>2. f[1] = parts[1]
  <2>1. \A k \in 1..N : k = 1 => k - 1 = 0
    OBVIOUS
  <2>2. \A k \in 1..N : k = 1 => f[k] = f[0] \o parts[k] /\ f[0] = <<>>
    BY <2>1 DEF Joins
  <2>3. f[1] = <<>> \o parts[1]
    BY <1>1, <2>2
  <2>4. parts[1] \in Seq(T)
    BY <1>1
  <2> QED
    BY <2>3, <2>4, ConcatEmptySeq
<1>3. Made([i \in 1..N |-> f[i]])
  <2> DEFINE u == [i \in 1..N |-> f[i]]
  <2>1. \A i \in 1..N : i # 1 => i - 1 \in 1..N
    OBVIOUS
  <2> QED
    BY <1>2, <2>1 DEF Joins
<1>4. \E u : Flat(u)
  <2> DEFINE u == [i \in 1..N |-> f[i]]
  <2>1. u = [i \in 1..N |-> u[i]]
    OBVIOUS
  <2>2. Made(u)
    BY <1>3
  <2> HIDE DEF u
  <2>3. Flat(u)
    BY <2>1, <2>2
  <2> QED
    BY <2>3
<1>5. FlattenSeq(parts) = (CHOOSE u : Flat(u))[N]
  BY <1>1 DEF FlattenSeq
<1>6. PICK u : u = CHOOSE v : Flat(v)
  OBVIOUS
<1>7. Flat(u)
  BY <1>4, <1>6
<1>8. Made(u)
  BY <1>7
<1> HIDE DEF Flat
<1> DEFINE S == {i \in 0..N : i = 0 \/ u[i] = f[i]}
<1>9. 0 \in S
  OBVIOUS
<1>10. ASSUME NEW i \in 1..N, i - 1 \in S PROVE i \in S
  <2>1. CASE i = 1
    BY <1>1, <1>2, <1>8, <2>1
  <2>2. CASE i # 1
    <3>1. u[i - 1] = f[i - 1]
      BY <1>10, <2>2
    <3>2. u[i] = u[i - 1] \o parts[i] /\ f[i] = f[i - 1] \o parts[i]
      BY <1>8, <2>2 DEF Joins
    <3>3. u[i] = f[i] /\ i \in 0..N
      BY <3>1, <3>2
    <3> QED
      BY <3>3
  <2> QED
    BY <2>1, <2>2
<1> HIDE DEF S, Made
<1>11. 0..N \subseteq S
  BY <1>9, <1>10, CountInduction
<1>12. N \in 0..N /\ N # 0
  OBVIOUS
<1> QED
  BY <1>5, <1>6, <1>11, <1>12 DEF S

LEMMA FlattenJoined ==
    ASSUME NEW T, NEW N \in Nat, NEW parts \in [1..N -> Seq(T)], NEW f, Joins(f, parts, N, T)
    PROVE  FlattenSeq(parts) = f[N]
<1>1. Len(parts) = N
  OBVIOUS
<1>2. CASE N = 0
  <2>1. parts = <<>>
    BY <1>2
  <2> QED
    BY <1>2, <2>1 DEF FlattenSeq, Joins
<1> QED
  BY <1>1, <1>2, JoinsFlatten

\* What f makes of each element of s, one after another.
Bind(s, f) == FlattenSeq([i \in DOMAIN s |-> f[s[i]]])

\* Taking sequences from the left.
LEMMA SeqInduction ==
    ASSUME NEW A, NEW G, <<>> \in G, \A s \in Seq(A) : \A e \in A : s \in G => Append(s, e) \in G
    PROVE  Seq(A) \subseteq G
<1> SUFFICES ASSUME NEW s \in Seq(A) PROVE s \in G
  OBVIOUS
<1>0. PICK N \in Nat : N = Len(s)
  OBVIOUS
<1> DEFINE S == {k \in 0..N : SubSeq(s, 1, k) \in G}
<1>1. 0 \in S
  <2>1. SubSeq(s, 1, 0) = <<>>
    BY SubSeqEmpty
  <2>2. SubSeq(s, 1, 0) \in G
    BY <2>1
  <2>3. 0 \in 0..N
    OBVIOUS
  <2> QED
    BY <2>2, <2>3
<1>2. ASSUME NEW k \in 1..N, k - 1 \in S PROVE k \in S
  <2>1. SubSeq(s, 1, k - 1) \in Seq(A) /\ s[k] \in A
    BY <1>0
  <2>2. SubSeq(s, 1, k) = Append(SubSeq(s, 1, k - 1), s[k])
    <3>1. Len(SubSeq(s, 1, k)) = k /\ SubSeq(s, 1, k) \in Seq(A)
      BY <1>0
    <3>2. Len(SubSeq(s, 1, k - 1)) = k - 1
      BY <1>0
    <3> QED
      BY <1>0, <2>1, <3>1, <3>2
  <2>3. SubSeq(s, 1, k) \in G
    BY <1>2, <2>1, <2>2
  <2> QED
    BY <2>3
<1> HIDE DEF S
<1>3. 0..N \subseteq S
  BY <1>1, <1>2, CountInduction
<1>4. N \in S
  BY <1>3
<1>5. SubSeq(s, 1, N) = s
  BY <1>0
<1> QED
  BY <1>4, <1>5 DEF S

\* It is made from the left, an element at a time.
BoundLeft(f, A, B) ==
    /\ Bind(<<>>, f) = <<>>
    /\ \A s \in Seq(A) : Bind(s, f) \in Seq(B)
    /\ \A s \in Seq(A) : \A e \in A : Bind(Append(s, e), f) = Bind(s, f) \o f[e]

LEMMA BindOne ==
    ASSUME NEW A, NEW B, NEW f \in [A -> Seq(B)]
    PROVE  BoundLeft(f, A, B)
<1>1. Bind(<<>>, f) = <<>>
  <2>1. [i \in DOMAIN <<>> |-> f[<<>>[i]]] = <<>>
    OBVIOUS
  <2> QED
    BY <2>1 DEF Bind, FlattenSeq
<1>2. ASSUME NEW s \in Seq(A) PROVE Bind(s, f) \in Seq(B)
  <2>0. PICK N \in Nat : N = Len(s)
    OBVIOUS
  <2> DEFINE parts == [i \in 1..N |-> f[s[i]]]
  <2>1. parts \in [1..N -> Seq(B)] /\ Bind(s, f) = FlattenSeq(parts)
    <3>1. DOMAIN s = 1..N /\ \A i \in 1..N : s[i] \in A
      BY <2>0
    <3> QED
      BY <3>1 DEF Bind
  <2> HIDE DEF parts
  <2>2. PICK j : Joins(j, parts, N, B)
    BY <2>1, JoinsExist
  <2>3. FlattenSeq(parts) = j[N] /\ j[N] \in Seq(B)
    <3>1. N \in 0..N
      OBVIOUS
    <3> QED
      BY <2>1, <2>2, <3>1, FlattenJoined DEF Joins
  <2> QED
    BY <2>1, <2>3
<1>3. ASSUME NEW s \in Seq(A), NEW e \in A PROVE Bind(Append(s, e), f) = Bind(s, f) \o f[e]
  <2>0. PICK N \in Nat : N = Len(s)
    OBVIOUS
  <2> DEFINE parts == [i \in 1..N |-> f[s[i]]]
             more  == [i \in 1..N + 1 |-> IF i = N + 1 THEN f[e] ELSE f[s[i]]]
  <2>1. DOMAIN s = 1..N /\ \A i \in 1..N : s[i] \in A
    BY <2>0
  <2>2. parts \in [1..N -> Seq(B)] /\ Bind(s, f) = FlattenSeq(parts)
    BY <2>1 DEF Bind
  <2>3. more \in [1..N + 1 -> Seq(B)]
    <3>1. \A i \in 1..N + 1 : i = N + 1 \/ i \in 1..N
      OBVIOUS
    <3> QED
      BY <2>1, <3>1
  <2>4. Bind(Append(s, e), f) = FlattenSeq(more)
    <3>1. /\ Append(s, e) \in Seq(A) /\ Len(Append(s, e)) = N + 1
          /\ \A i \in 1..N : Append(s, e)[i] = s[i]
          /\ Append(s, e)[N + 1] = e
      BY <2>0, AppendProperties
    <3>2. DOMAIN Append(s, e) = 1..N + 1
      BY <3>1
    <3>3. \A i \in 1..N + 1 : f[Append(s, e)[i]] = IF i = N + 1 THEN f[e] ELSE f[s[i]]
      <4>1. \A i \in 1..N + 1 : i = N + 1 \/ (i \in 1..N /\ i # N + 1)
        OBVIOUS
      <4> QED
        BY <3>1, <4>1, Zenon
    <3> QED
      BY <3>2, <3>3 DEF Bind
  <2>5. more[N + 1] = f[e] /\ \A i \in 1..N : more[i] = parts[i]
    OBVIOUS
  <2> HIDE DEF parts, more
  <2>6. PICK j : Joins(j, more, N + 1, B)
    <3>1. N + 1 \in Nat
      OBVIOUS
    <3> QED
      BY <2>3, <3>1, JoinsExist
  <2>7. FlattenSeq(more) = j[N + 1] /\ j[N + 1] = j[N] \o f[e]
    <3>1. N + 1 \in Nat /\ N + 1 \in 1..N + 1 /\ (N + 1) - 1 = N
      OBVIOUS
    <3>2. j[N + 1] = j[(N + 1) - 1] \o more[N + 1]
      BY <2>6, <3>1 DEF Joins
    <3> QED
      BY <2>3, <2>5, <2>6, <3>1, <3>2, FlattenJoined
  <2>8. Joins([k \in 0..N |-> j[k]], parts, N, B)
    <3>1. \A k \in 0..N : k \in 0..N + 1
      OBVIOUS
    <3>2. \A k \in 1..N : k \in 1..N + 1 /\ k - 1 \in 0..N /\ k \in 0..N
      OBVIOUS
    <3>3. 0 \in 0..N
      OBVIOUS
    <3> QED
      BY <2>5, <2>6, <3>1, <3>2, <3>3 DEF Joins
  <2>9. FlattenSeq(parts) = j[N]
    <3>1. N \in 0..N
      OBVIOUS
    <3> QED
      BY <2>2, <2>8, <3>1, FlattenJoined
  <2> QED
    BY <2>2, <2>4, <2>7, <2>9
<1> QED
  BY <1>1, <1>2, <1>3 DEF BoundLeft

LEMMA SetOfConcat ==
    ASSUME NEW A, NEW s \in Seq(A), NEW t \in Seq(A)
    PROVE  ToSet(s \o t) = ToSet(s) \union ToSet(t)
<1>1. Range(s \o t) = Range(s) \union Range(t)
  BY RangeConcatenation
<1> QED
  BY <1>1 DEF ToSet, Range

LEMMA SetOfAppend ==
    ASSUME NEW A, NEW s \in Seq(A), NEW e \in A
    PROVE  ToSet(Append(s, e)) = ToSet(s) \union {e}
<1>1. Append(s, e) = s \o <<e>> /\ <<e>> \in Seq(A)
  OBVIOUS
<1>2. ToSet(<<e>>) = {e}
  <2>1. DOMAIN <<e>> = {1} /\ <<e>>[1] = e
    OBVIOUS
  <2>2. ToSet(<<e>>) = {<<e>>[i] : i \in {1}}
    BY <2>1 DEF ToSet
  <2> QED
    BY <2>1, <2>2
<1>3. ToSet(s \o <<e>>) = ToSet(s) \union ToSet(<<e>>)
  BY <1>1, SetOfConcat
<1> QED
  BY <1>1, <1>2, <1>3

LEMMA BindSingle ==
    ASSUME NEW A, NEW B, NEW f \in [A -> Seq(B)], NEW e \in A
    PROVE  Bind(<<e>>, f) = f[e]
<1>0. BoundLeft(f, A, B)
  BY BindOne
<1>1. <<>> \in Seq(A) /\ Append(<<>>, e) = <<e>> /\ f[e] \in Seq(B)
  OBVIOUS
<1>2. Bind(<<e>>, f) = <<>> \o f[e]
  BY <1>1, <1>0 DEF BoundLeft
<1> QED
  BY <1>1, <1>2, ConcatEmptySeq

\* What is laid before and after is laid before and after.
LEMMA BindConcat ==
    ASSUME NEW A, NEW B, NEW f \in [A -> Seq(B)], NEW s \in Seq(A), NEW t \in Seq(A)
    PROVE  Bind(s \o t, f) = Bind(s, f) \o Bind(t, f)
<1>0. BoundLeft(f, A, B)
  BY BindOne
<1> DEFINE G == {u \in Seq(A) : Bind(s \o u, f) = Bind(s, f) \o Bind(u, f)}
<1>1. <<>> \in G
  <2>1. s \o <<>> = s /\ <<>> \in Seq(A)
    BY ConcatEmptySeq
  <2>2. Bind(s, f) \in Seq(B) /\ Bind(<<>>, f) = <<>>
    BY <1>0 DEF BoundLeft
  <2>3. Bind(s, f) \o <<>> = Bind(s, f)
    BY <2>2, ConcatEmptySeq
  <2> QED
    BY <2>1, <2>2, <2>3
<1>2. ASSUME NEW u \in Seq(A), NEW e \in A, u \in G PROVE Append(u, e) \in G
  <2>1. s \o Append(u, e) = Append(s \o u, e) /\ s \o u \in Seq(A) /\ Append(u, e) \in Seq(A)
    OBVIOUS
  <2>2. Bind(s \o Append(u, e), f) = (Bind(s, f) \o Bind(u, f)) \o f[e]
    BY <1>2, <2>1, <1>0 DEF BoundLeft
  <2>3. Bind(Append(u, e), f) = Bind(u, f) \o f[e]
    BY <1>0 DEF BoundLeft
  <2>4. Bind(s, f) \in Seq(B) /\ Bind(u, f) \in Seq(B) /\ f[e] \in Seq(B)
    BY <1>0 DEF BoundLeft
  <2>5. (Bind(s, f) \o Bind(u, f)) \o f[e] = Bind(s, f) \o (Bind(u, f) \o f[e])
    BY <2>4, ConcatAssociative
  <2> QED
    BY <2>1, <2>2, <2>3, <2>5
<1> HIDE DEF G
<1>3. Seq(A) \subseteq G
  BY <1>1, <1>2, SeqInduction
<1> QED
  BY <1>3 DEF G

\* Making something of what was made is making it at once.
Composed(h, f, g, A, B, C) ==
    /\ f \in [A -> Seq(B)] /\ g \in [B -> Seq(C)] /\ h \in [A -> Seq(C)]
    /\ \A e \in A : h[e] = Bind(f[e], g)

LEMMA BindBind ==
    ASSUME NEW A, NEW B, NEW C, NEW f, NEW g, NEW h, Composed(h, f, g, A, B, C), NEW s \in Seq(A)
    PROVE  Bind(Bind(s, f), g) = Bind(s, h)
<1>4. /\ f \in [A -> Seq(B)] /\ g \in [B -> Seq(C)] /\ h \in [A -> Seq(C)]
      /\ \A e \in A : h[e] = Bind(f[e], g)
  BY DEF Composed
<1>0. BoundLeft(f, A, B) /\ BoundLeft(g, B, C) /\ BoundLeft(h, A, C)
  BY <1>4, BindOne
<1> DEFINE G == {u \in Seq(A) : Bind(Bind(u, f), g) = Bind(u, h)}
<1>1. <<>> \in G
  BY <1>0 DEF BoundLeft
<1>2. ASSUME NEW u \in Seq(A), NEW e \in A, u \in G PROVE Append(u, e) \in G
  <2>1. Bind(Append(u, e), f) = Bind(u, f) \o f[e] /\ Bind(u, f) \in Seq(B) /\ f[e] \in Seq(B)
    <3>1. f[e] \in Seq(B)
      BY <1>4
    <3> QED
      BY <1>0, <3>1 DEF BoundLeft
  <2>4. Bind(Bind(u, f) \o f[e], g) = Bind(Bind(u, f), g) \o Bind(f[e], g)
    <3>1. PICK p \in Seq(B), q \in Seq(B) : p = Bind(u, f) /\ q = f[e]
      BY <2>1
    <3>2. Bind(p \o q, g) = Bind(p, g) \o Bind(q, g)
      BY <1>4, BindConcat
    <3> QED
      BY <3>1, <3>2
  <2>2. Bind(Bind(Append(u, e), f), g) = Bind(Bind(u, f), g) \o Bind(f[e], g)
    BY <2>1, <2>4
  <2>3. Bind(Append(u, e), h) = Bind(u, h) \o h[e] /\ Append(u, e) \in Seq(A)
    BY <1>0 DEF BoundLeft
  <2> QED
    BY <1>2, <1>4, <2>2, <2>3
<1> HIDE DEF G
<1>3. Seq(A) \subseteq G
  BY <1>1, <1>2, SeqInduction
<1> QED
  BY <1>3 DEF G

\* What is made is made of something.
LEMMA BindElements ==
    ASSUME NEW A, NEW B, NEW f \in [A -> Seq(B)], NEW s \in Seq(A)
    PROVE  \A x \in ToSet(Bind(s, f)) : \E e \in ToSet(s) : x \in ToSet(f[e])
<1>0. BoundLeft(f, A, B)
  BY BindOne
<1> DEFINE Made(u) == \A x \in ToSet(Bind(u, f)) : \E e \in ToSet(u) : x \in ToSet(f[e])
           G == {u \in Seq(A) : Made(u)}
<1>1. <<>> \in G
  <2>1. ToSet(<<>>) = {}
    BY DEF ToSet
  <2> QED
    BY <2>1, <1>0 DEF BoundLeft
<1>2. ASSUME NEW u \in Seq(A), NEW e \in A, u \in G PROVE Append(u, e) \in G
  <2>1. Bind(Append(u, e), f) = Bind(u, f) \o f[e] /\ Bind(u, f) \in Seq(B) /\ f[e] \in Seq(B)
    BY <1>0 DEF BoundLeft
  <2>2. ToSet(Bind(u, f) \o f[e]) = ToSet(Bind(u, f)) \union ToSet(f[e])
    BY <2>1, SetOfConcat
  <2>3. ToSet(Append(u, e)) = ToSet(u) \union {e}
    BY SetOfAppend
  <2>4. Made(u)
    BY <1>2
  <2>5. Made(Append(u, e))
    BY <2>1, <2>2, <2>3, <2>4
  <2>6. Append(u, e) \in Seq(A)
    OBVIOUS
  <2> QED
    BY <2>5, <2>6
<1> HIDE DEF G
<1>3. Seq(A) \subseteq G
  BY <1>1, <1>2, SeqInduction
<1> QED
  BY <1>3 DEF G
=============================================================================
