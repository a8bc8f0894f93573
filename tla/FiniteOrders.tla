---------------------------- MODULE FiniteOrders ----------------------------
(***************************************************************************)
(* Facts the other proofs rest on, about no program in particular: least     *)
(* members of finite sets, induction and recursion over an interval, the    *)
(* walk from a node of a finite forest to its root, and sorting.            *)
(*                                                                         *)
(* The library states induction with an operator as parameter.  Here the     *)
(* property is the set of the numbers that have it, so that a least number    *)
(* without it can be taken.                                                 *)
(***************************************************************************)
EXTENDS FiniteSetsExt, WellFoundedInduction, FiniteSetTheorems, TLAPS

\* An order without cycles has a least element in a finite set: the set of what is
\* below it is least among such sets.
LEMMA LeastExists ==
  ASSUME NEW S, S # {}, IsFiniteSet(S), NEW R,
         \A x \in S : <<x, x>> \notin R,
         \A x, y, z \in S : <<x, y>> \in R /\ <<y, z>> \in R => <<x, z>> \in R
  PROVE  \E x \in S : \A y \in S : <<y, x>> \notin R
<1> DEFINE Lower(x) == {n \in S : <<n, x>> \in R}
<1> DEFINE T == {Lower(x) : x \in S}
<1>1. IsWellFoundedOn(StrictSubsetOrdering(S), SUBSET S)
  BY FS_StrictSubsetOrderingWellFounded, FS_FiniteSubsetsOfFinite
<1>2. T \subseteq SUBSET S /\ T # {}
  <2>1. \A x \in S : Lower(x) \in SUBSET S
    OBVIOUS
  <2>2. PICK x \in S : TRUE
    OBVIOUS
  <2>3. Lower(x) \in T
    BY <2>2
  <2> HIDE DEF Lower
  <2> QED
    BY <2>1, <2>3
<1>3. \E t \in T : \A u \in T : ~(<<u, t>> \in StrictSubsetOrdering(S))
  <2> HIDE DEF T
  <2> QED
    BY <1>1, <1>2, WFMin
<1>4. PICK x \in S : \A y \in S : ~(<<Lower(y), Lower(x)>> \in StrictSubsetOrdering(S))
  <2> HIDE DEF Lower
  <2>1. PICK t \in T : \A u \in T : ~(<<u, t>> \in StrictSubsetOrdering(S))
    BY <1>3
  <2>2. PICK x \in S : t = Lower(x)
    BY <2>1
  <2>3. \A y \in S : Lower(y) \in T
    OBVIOUS
  <2> HIDE DEF T
  <2> QED
    BY <2>1, <2>2, <2>3
<1>5. ASSUME NEW y \in S, <<y, x>> \in R PROVE FALSE
  <2>1. \A n \in S : <<n, y>> \in R => <<n, x>> \in R
    BY <1>4, <1>5
  <2>2. y \in Lower(x) /\ y \notin Lower(y)
    BY <1>5
  <2>3. <<Lower(y), Lower(x)>> \in StrictSubsetOrdering(S)
    BY <2>1, <2>2 DEF StrictSubsetOrdering
  <2> QED
    BY <1>4, <2>3
<1> QED
  BY <1>4, <1>5

LEMMA MinIsLeast ==
  ASSUME NEW S, S \subseteq Nat, S # {}, IsFiniteSet(S)
  PROVE  Min(S) \in S /\ \A y \in S : Min(S) <= y
<1> DEFINE R == {r \in S \X S : r[1] < r[2]}
<1>1. \A x, y \in S : <<x, y>> \in R <=> x < y
  OBVIOUS
<1>2. /\ \A x \in S : <<x, x>> \notin R
      /\ \A x, y, z \in S : <<x, y>> \in R /\ <<y, z>> \in R => <<x, z>> \in R
  BY <1>1
<1>3. PICK x \in S : \A y \in S : <<y, x>> \notin R
  <2> HIDE DEF R
  <2> QED
    BY <1>2, LeastExists
<1>4. ASSUME NEW y \in S PROVE x <= y
  <2> HIDE DEF R
  <2>1. ~(y < x)
    BY <1>1, <1>3
  <2>2. x \in Nat /\ y \in Nat
    OBVIOUS
  <2> QED
    BY <2>1, <2>2
<1> QED
  BY <1>4 DEF Min

LEMMA MaxIsGreatest ==
  ASSUME NEW S, S \subseteq Nat, S # {}, IsFiniteSet(S)
  PROVE  Max(S) \in S /\ \A y \in S : y <= Max(S)
<1> DEFINE R == {r \in S \X S : r[1] > r[2]}
<1>1. \A x, y \in S : <<x, y>> \in R <=> x > y
  OBVIOUS
<1>2. /\ \A x \in S : <<x, x>> \notin R
      /\ \A x, y, z \in S : <<x, y>> \in R /\ <<y, z>> \in R => <<x, z>> \in R
  BY <1>1
<1>3. PICK x \in S : \A y \in S : <<y, x>> \notin R
  <2> HIDE DEF R
  <2> QED
    BY <1>2, LeastExists
<1>4. ASSUME NEW y \in S PROVE x >= y
  <2> HIDE DEF R
  <2>1. ~(y > x)
    BY <1>1, <1>3
  <2>2. x \in Nat /\ y \in Nat
    OBVIOUS
  <2> QED
    BY <2>1, <2>2
<1>5. Max(S) \in S /\ \A y \in S : Max(S) >= y
  BY <1>4 DEF Max
<1> QED
  BY <1>5

\* What holds of 0, and of the next number with each one, holds up to N.
LEMMA IntervalInduction ==
  ASSUME NEW N \in Nat, NEW S,
         0 \in S,
         \A n \in 0..N : n < N /\ n \in S => n + 1 \in S
  PROVE  \A n \in 0..N : n \in S
<1> DEFINE Missing == (0..N) \ S
<1>1. SUFFICES ASSUME Missing # {} PROVE FALSE
  OBVIOUS
<1>2. Missing \subseteq Nat /\ IsFiniteSet(Missing)
  <2>1. IsFiniteSet(0..N)
    BY FS_Interval
  <2> QED
    BY <2>1, FS_Subset
<1> DEFINE m == Min(Missing)
<1>3. m \in Missing /\ \A y \in Missing : m <= y
  <2> HIDE DEF Missing
  <2> QED
    BY <1>1, <1>2, MinIsLeast
<1> HIDE DEF m
<1>4. m \in 1..N
  BY <1>3
<1>5. m - 1 \in 0..N /\ m - 1 < N /\ (m - 1) + 1 = m
  BY <1>4
<1>6. m - 1 \in S
  BY <1>3, <1>5
<1> QED
  BY <1>3, <1>5, <1>6

-----------------------------------------------------------------------------
(* Recursion                                                                *)

\* f starts at d and goes on by the steps step[1], step[2], ..., step[N] within D.
IsRecursion(f, N, D, d, step) ==
    /\ f \in [0..N -> D]
    /\ f[0] = d
    /\ \A k \in 1..N : f[k] = step[k][f[k - 1]]

\* Such a function exists: one of n steps is the beginning of one of n + 1.
LEMMA RecursionExists ==
  ASSUME NEW N \in Nat, NEW D, NEW d \in D, NEW step \in [1..N -> [D -> D]]
  PROVE  \E f : IsRecursion(f, N, D, d, step)
<1> DEFINE S == {n \in 0..N : \E f : IsRecursion(f, n, D, d, step)}
<1>1. 0 \in S
  <2>1. IsRecursion([k \in 0..0 |-> d], 0, D, d, step)
    BY DEF IsRecursion
  <2>2. 0 \in 0..N
    OBVIOUS
  <2> QED
    BY <2>1, <2>2
<1>2. ASSUME NEW n \in 0..N, n < N, n \in S PROVE n + 1 \in S
  <2>0. PICK f : IsRecursion(f, n, D, d, step)
    BY <1>2
  <2>1. /\ f \in [0..n -> D] /\ f[0] = d
        /\ \A k \in 1..n : f[k] = step[k][f[k - 1]]
    BY <2>0 DEF IsRecursion
  <2> DEFINE g == [k \in 0..(n + 1) |-> IF k <= n THEN f[k] ELSE step[n + 1][f[n]]]
  <2>2. n + 1 \in 1..N /\ f[n] \in D
    BY <1>2, <2>1
  <2>3. step[n + 1][f[n]] \in D
    BY <2>2
  <2>4. g \in [0..(n + 1) -> D]
    <3>1. \A k \in 0..(n + 1) : k <= n => k \in 0..n
      OBVIOUS
    <3> QED
      BY <2>1, <2>3, <3>1
  <2>5. g[0] = d
    BY <2>1
  <2>6. ASSUME NEW k \in 1..(n + 1) PROVE g[k] = step[k][g[k - 1]]
    <3>1. k - 1 \in 0..(n + 1) /\ k - 1 <= n /\ k \in 0..(n + 1)
      BY <2>6
    <3>2. g[k - 1] = f[k - 1]
      BY <3>1
    <3>3. CASE k <= n
      <4>1. k \in 1..n /\ g[k] = f[k]
        BY <3>3
      <4> QED
        BY <2>1, <3>2, <4>1
    <3>4. CASE ~(k <= n)
      <4>1. k = n + 1 /\ k - 1 = n
        BY <3>4
      <4>2. g[k] = step[n + 1][f[n]]
        BY <3>1, <3>4
      <4> QED
        BY <3>2, <4>1, <4>2
    <3> QED
      BY <3>3, <3>4
  <2> HIDE DEF g
  <2>7. IsRecursion(g, n + 1, D, d, step)
    BY <2>4, <2>5, <2>6 DEF IsRecursion
  <2>8. n + 1 \in 0..N
    BY <2>2
  <2> QED
    BY <2>7, <2>8
<1>3. N \in S
  <2> HIDE DEF S
  <2>1. \A n \in 0..N : n \in S
    BY <1>1, <1>2, IntervalInduction
  <2> QED
    BY <2>1
<1> QED
  BY <1>3

-----------------------------------------------------------------------------
(* Walks                                                                    *)

\* A walk of N steps from p: to the parent while it belongs to T.
IsWalk(w, par, T, N, p) ==
    w = [k \in 0..N |->
            IF k = 0 THEN p
            ELSE IF par[w[k - 1]] \in T THEN par[w[k - 1]] ELSE w[k - 1]]

LEMMA WalkExists ==
  ASSUME NEW N \in Nat, NEW par, NEW T, NEW p
  PROVE  \E w : IsWalk(w, par, T, N, p)
<1> DEFINE D == T \cup {p}
<1> DEFINE go == [x \in D |-> IF par[x] \in T THEN par[x] ELSE x]
<1> DEFINE step == [k \in 1..N |-> go]
<1>1. step \in [1..N -> [D -> D]] /\ p \in D
  <2>1. go \in [D -> D]
    OBVIOUS
  <2> HIDE DEF go, D
  <2>2. step \in [1..N -> [D -> D]]
    BY <2>1
  <2> QED
    BY <2>2 DEF D
<1>w. PICK w : IsRecursion(w, N, D, p, step)
  <2> HIDE DEF step, go, D
  <2> QED
    BY <1>1, RecursionExists
<1>2. /\ w \in [0..N -> D] /\ w[0] = p
      /\ \A k \in 1..N : w[k] = step[k][w[k - 1]]
  <2> HIDE DEF step, go, D
  <2> QED
    BY <1>w DEF IsRecursion
<1>3. ASSUME NEW k \in 1..N
      PROVE  w[k] = IF par[w[k - 1]] \in T THEN par[w[k - 1]] ELSE w[k - 1]
  <2>1. k - 1 \in 0..N
    OBVIOUS
  <2>2. w[k - 1] \in D
    BY <1>2, <2>1
  <2>3. w[k] = go[w[k - 1]]
    BY <1>2
  <2> HIDE DEF D
  <2> QED
    BY <2>2, <2>3
<1>4. \A k \in 0..N : k # 0 => k \in 1..N
  OBVIOUS
<1>5. w = [k \in 0..N |-> w[k]]
  BY <1>2
<1> HIDE DEF step, D
<1>6. IsWalk(w, par, T, N, p)
  BY <1>2, <1>3, <1>4, <1>5 DEF IsWalk
<1> QED
  BY <1>6

\* In a finite forest the walk of a node of T passes each of its ancestors once
\* before it stops: the number of its steps is the number of its ancestors,
\* whether these are collected by walking or as the least closed set.
LEMMA StepsAreAncestors ==
  ASSUME NEW T, IsFiniteSet(T), NEW par, NEW p \in T, NEW w,
         \A S \in SUBSET T : (\A x \in S : par[x] \in S) => S = {},
         IsWalk(w, par, T, Cardinality(T), p)
  PROVE  Cardinality({k \in 1..Cardinality(T) : w[k] # w[k - 1]}) =
         Cardinality({q \in T \ {p} :
            \A S \in SUBSET T :
               p \in S /\ (\A r \in S : par[r] \in T => par[r] \in S) => q \in S})
<1> DEFINE N == Cardinality(T)
<1> DEFINE Moved == {k \in 1..N : w[k] # w[k - 1]}
<1> DEFINE Closed(S) == p \in S /\ (\A r \in S : par[r] \in T => par[r] \in S)
<1> DEFINE A == {q \in T \ {p} : \A S \in SUBSET T : Closed(S) => q \in S}
<1> DEFINE C == {w[k] : k \in 0..N}
<1>n. N \in Nat
  BY FS_CardinalityType
<1>i. \A i \in 0..N : i # 0 => i - 1 \in 0..N /\ (i - 1) + 1 = i
  BY <1>n
<1> HIDE DEF N
<1>0. w[0] = p
  BY <1>n DEF IsWalk, N
<1>s. ASSUME NEW k \in 0..N, k < N
      PROVE  w[k + 1] = IF par[w[k]] \in T THEN par[w[k]] ELSE w[k]
  <2>1. k + 1 \in 0..N /\ k + 1 # 0 /\ (k + 1) - 1 = k
    BY <1>n, <1>s
  <2> QED
    BY <2>1 DEF IsWalk, N
<1>1. \A k \in 0..N : w[k] \in T
  <2> DEFINE S == {k \in 0..N : w[k] \in T}
  <2>1. 0 \in S
    BY <1>0, <1>n
  <2>2. ASSUME NEW k \in 0..N, k < N, k \in S PROVE k + 1 \in S
    BY <2>2, <1>s, <1>n
  <2>3. \A k \in 0..N : k \in S
    <3> HIDE DEF S
    <3> QED
      BY <2>1, <2>2, <1>n, IntervalInduction
  <2> QED
    BY <2>3
\* A walk that has arrived stays.
<1>2. \A m \in 0..N : \A k \in 0..m : par[w[k]] \notin T => w[m] = w[k]
  <2> DEFINE S == {m \in 0..N : \A k \in 0..m : par[w[k]] \notin T => w[m] = w[k]}
  <2>1. 0 \in S
    BY <1>n
  <2>2. ASSUME NEW m \in 0..N, m < N, m \in S PROVE m + 1 \in S
    <3>1. m + 1 \in 0..N
      BY <2>2, <1>n
    <3>2. ASSUME NEW k \in 0..(m + 1), par[w[k]] \notin T PROVE w[m + 1] = w[k]
      <4>1. CASE k = m + 1
        BY <4>1
      <4>2. CASE k # m + 1
        <5>1. k \in 0..m
          BY <4>2
        <5>2. w[m] = w[k]
          BY <2>2, <3>2, <5>1
        <5> QED
          BY <2>2, <3>2, <5>2, <1>s
      <4> QED
        BY <4>1, <4>2
    <3> QED
      BY <3>1, <3>2
  <2>3. \A m \in 0..N : m \in S
    <3> HIDE DEF S
    <3> QED
      BY <2>1, <2>2, <1>n, IntervalInduction
  <2> QED
    BY <2>3
\* One that is still moving has not been there before: there is no cycle.
<1>3. ASSUME NEW i \in 0..N, NEW j \in Moved, i < j PROVE w[i] # w[j]
  <2>1. SUFFICES ASSUME w[i] = w[j] PROVE FALSE
    OBVIOUS
  <2> DEFINE S == {w[k] : k \in i..(j - 1)}
  <2>2. j \in 1..N /\ w[j] # w[j - 1] /\ j - 1 \in 0..N /\ i \in i..(j - 1)
    BY <1>3, <1>n
  <2>3. S \subseteq T /\ S # {}
    <3>1. \A k \in i..(j - 1) : k \in 0..N
      BY <2>2, <1>n
    <3> QED
      BY <1>1, <2>2, <3>1
  <2>4. ASSUME NEW k \in i..(j - 1) PROVE par[w[k]] \in S
    <3>1. k \in 0..N /\ k < N /\ k \in 0..(j - 1) /\ k \in 0..j /\ j \in 0..N
      BY <2>2, <1>n
    <3>2. par[w[k]] \in T
      <4>1. SUFFICES ASSUME par[w[k]] \notin T PROVE FALSE
        OBVIOUS
      <4> QED
        BY <1>2, <2>2, <3>1, <4>1
    <3>3. w[k + 1] = par[w[k]]
      BY <1>s, <3>1, <3>2
    <3>4. CASE k = j - 1
      <4>1. k + 1 = j
        BY <3>4, <2>2
      <4> QED
        BY <2>1, <2>2, <3>3, <4>1
    <3>5. CASE k # j - 1
      <4>1. k + 1 \in i..(j - 1)
        BY <3>5, <2>2
      <4> QED
        BY <3>3, <4>1
    <3> QED
      BY <3>4, <3>5
  <2>5. \A x \in S : par[x] \in S
    BY <2>4
  <2> HIDE DEF S
  <2> QED
    BY <2>3, <2>5
\* It arrives within as many steps as there are nodes.
<1>4. par[w[N]] \notin T
  <2>1. SUFFICES ASSUME par[w[N]] \in T PROVE FALSE
    OBVIOUS
  <2>2. ASSUME NEW k \in 0..N PROVE par[w[k]] \in T
    <3>1. k \in 0..N /\ N \in 0..N
      BY <1>n
    <3> QED
      BY <1>2, <2>1, <3>1
  <2>3. ASSUME NEW j \in 1..N PROVE j \in Moved
    <3>1. j - 1 \in 0..N /\ j - 1 < N /\ (j - 1) + 1 = j
      BY <1>n
    <3>2. w[j] = par[w[j - 1]]
      BY <1>s, <2>2, <3>1
    <3>3. w[j] # w[j - 1]
      <4>1. SUFFICES ASSUME w[j] = w[j - 1] PROVE FALSE
        OBVIOUS
      <4>2. {w[j]} \in SUBSET T /\ \A x \in {w[j]} : par[x] \in {w[j]}
        BY <1>1, <3>1, <3>2, <4>1
      <4>3. {w[j]} = {}
        BY <4>2
      <4> QED
        BY <4>3
    <3> QED
      BY <3>3
  <2> DEFINE f == [k \in 0..N |-> w[k]]
  <2>4. f \in Injection(0..N, T)
    <3>1. f \in [0..N -> T]
      BY <1>1
    <3>2. ASSUME NEW i \in 0..N, NEW j \in 0..N, i # j PROVE w[i] # w[j]
      <4>1. CASE i < j
        <5>1. j \in 1..N
          BY <4>1, <1>n
        <5> QED
          BY <1>3, <2>3, <4>1, <5>1
      <4>2. CASE j < i
        <5>1. i \in 1..N
          BY <4>2, <1>n
        <5> QED
          BY <1>3, <2>3, <4>2, <5>1
      <4> QED
        BY <3>2, <4>1, <4>2, <1>n
    <3> QED
      BY <3>1, <3>2 DEF Injection, IsInjective
  <2>5. Cardinality(0..N) <= N
    <3> HIDE DEF f
    <3> QED
      BY <2>4, FS_Injection DEF N
  <2>6. Cardinality(0..N) = N + 1
    BY FS_Interval, <1>n
  <2> QED
    BY <2>5, <2>6, <1>n
<1>5. C \in SUBSET T /\ Closed(C)
  <2>1. ASSUME NEW k \in 0..N, par[w[k]] \in T PROVE par[w[k]] \in C
    <3>1. k # N
      BY <1>4, <2>1
    <3>2. k < N /\ k + 1 \in 0..N
      BY <3>1, <1>n
    <3> QED
      BY <1>s, <2>1, <3>2
  <2>2. 0 \in 0..N
    BY <1>n
  <2> QED
    BY <1>0, <1>1, <2>1, <2>2
<1>6. ASSUME NEW S \in SUBSET T, Closed(S) PROVE \A k \in 0..N : w[k] \in S
  <2> DEFINE U == {k \in 0..N : w[k] \in S}
  <2>1. 0 \in U
    BY <1>0, <1>n, <1>6
  <2>2. ASSUME NEW k \in 0..N, k < N, k \in U PROVE k + 1 \in U
    BY <1>6, <2>2, <1>s, <1>n
  <2>3. \A k \in 0..N : k \in U
    <3> HIDE DEF U
    <3> QED
      BY <2>1, <2>2, <1>n, IntervalInduction
  <2> QED
    BY <2>3
<1>7. A = C \ {p}
  <2>1. ASSUME NEW q \in A PROVE q \in C \ {p}
    BY <1>5, <2>1
  <2>2. ASSUME NEW q \in C \ {p} PROVE q \in A
    BY <1>1, <1>6, <2>2
  <2> QED
    BY <2>1, <2>2
<1> DEFINE g == [k \in Moved |-> w[k]]
<1>8. g \in Bijection(Moved, A)
  <2> HIDE DEF A
  <2>1. ASSUME NEW k \in Moved PROVE w[k] \in A
    <3>1. k \in 0..N /\ 0 \in 0..N /\ 0 < k
      BY <1>n
    <3>2. w[k] # p
      BY <1>0, <1>3, <3>1
    <3> QED
      BY <1>7, <3>1, <3>2
  <2>2. ASSUME NEW i \in Moved, NEW j \in Moved, i # j PROVE w[i] # w[j]
    <3>1. i \in 0..N /\ j \in 0..N /\ (i < j \/ j < i)
      BY <2>2, <1>n
    <3> QED
      BY <1>3, <3>1
  <2>3. ASSUME NEW a \in A PROVE \E k \in Moved : w[k] = a
    <3> DEFINE V == {k \in 0..N : w[k] = a}
    <3>1. a # p /\ V # {}
      BY <1>7
    <3>2. V \subseteq Nat /\ IsFiniteSet(V)
      <4>1. IsFiniteSet(0..N) /\ V \in SUBSET (0..N)
        BY FS_Interval, <1>n
      <4> QED
        BY <4>1, <1>n, FS_Subset
    <3> DEFINE k == Min(V)
    <3>3. k \in V /\ \A y \in V : k <= y
      <4> HIDE DEF V
      <4> QED
        BY <3>1, <3>2, MinIsLeast
    <3> HIDE DEF k
    <3>4. k \in 0..N /\ w[k] = a /\ k # 0
      BY <1>0, <3>1, <3>3
    <3>5. k \in 1..N /\ k - 1 \in 0..N /\ ~(k <= k - 1)
      BY <3>4, <1>n
    <3>6. w[k - 1] # a
      BY <3>3, <3>5
    <3> QED
      BY <3>4, <3>5, <3>6
  <2>4. g \in [Moved -> A]
    BY <2>1
  <2> QED
    BY <2>2, <2>3, <2>4 DEF Bijection, Injection, Surjection, IsInjective
<1>9. IsFiniteSet(Moved)
  <2>1. IsFiniteSet(1..N) /\ Moved \in SUBSET (1..N)
    BY FS_Interval, <1>n
  <2> QED
    BY <2>1, FS_Subset
<1>10. Cardinality(A) = Cardinality(Moved)
  <2> HIDE DEF A, Moved, g
  <2>1. ExistsBijection(Moved, A)
    BY <1>8 DEF ExistsBijection
  <2> QED
    BY <1>9, <2>1, FS_Bijection
<1> QED
  BY <1>10 DEF N

-----------------------------------------------------------------------------
(* Sorting                                                                  *)

\* The members of a finite set can be listed in any strict total order: each one has
\* its rank, the number of those before it.
LEMMA SortedListExists ==
  ASSUME NEW S, IsFiniteSet(S), NEW R,
         \A x \in S : <<x, x>> \notin R,
         \A x, y, z \in S : <<x, y>> \in R /\ <<y, z>> \in R => <<x, z>> \in R,
         \A x, y \in S : x # y => <<x, y>> \in R \/ <<y, x>> \in R
  PROVE  \E list \in [1..Cardinality(S) -> S] :
            \A i, j \in 1..Cardinality(S) : i < j => <<list[i], list[j]>> \in R
<1> DEFINE N == Cardinality(S)
<1> DEFINE Before(x) == {y \in S : <<y, x>> \in R}
<1> DEFINE rank == [x \in S |-> Cardinality(Before(x)) + 1]
<1>n. N \in Nat
  BY FS_CardinalityType
<1>1. ASSUME NEW x \in S PROVE Cardinality(Before(x)) \in 0..(N - 1)
  <2>1. IsFiniteSet(S \ {x}) /\ Cardinality(S \ {x}) = N - 1
    BY FS_RemoveElement
  <2>2. Before(x) \in SUBSET (S \ {x})
    OBVIOUS
  <2> HIDE DEF Before, N
  <2>3. IsFiniteSet(Before(x)) /\ Cardinality(Before(x)) <= N - 1
    BY <2>1, <2>2, FS_Subset
  <2>4. Cardinality(Before(x)) \in Nat
    BY <2>3, FS_CardinalityType
  <2> QED
    BY <2>3, <2>4, <1>n
<1>2. ASSUME NEW x \in S, NEW y \in S, <<x, y>> \in R PROVE rank[x] < rank[y]
  <2>1. Before(x) \in SUBSET Before(y) /\ Before(x) # Before(y)
    BY <1>2
  <2>2. IsFiniteSet(Before(y))
    BY FS_Subset
  <2> DEFINE A == Before(x) B == Before(y)
  <2>3. Cardinality(A) \in 0..(N - 1) /\ Cardinality(B) \in 0..(N - 1)
    BY <1>1
  <2>4. Cardinality(A) <= Cardinality(B) /\ Cardinality(A) # Cardinality(B)
    <3>1. A \in SUBSET B /\ A # B /\ IsFiniteSet(B)
      BY <2>1, <2>2
    <3> HIDE DEF A, B
    <3> QED
      BY <3>1, FS_Subset
  <2>5. rank[x] = Cardinality(A) + 1 /\ rank[y] = Cardinality(B) + 1
    OBVIOUS
  <2> HIDE DEF A, B, rank, N
  <2> QED
    BY <2>3, <2>4, <2>5, <1>n
<1>3. rank \in [S -> 1..N]
  <2>1. \A x \in S : Cardinality(Before(x)) + 1 \in 1..N
    <3> HIDE DEF Before, N
    <3> QED
      BY <1>1, <1>n
  <2> QED
    BY <2>1
<1>4. rank \in Injection(S, 1..N)
  <2>1. ASSUME NEW x \in S, NEW y \in S, x # y PROVE rank[x] # rank[y]
    <3>1. rank[x] \in Nat /\ rank[y] \in Nat
      <4> HIDE DEF rank
      <4> QED
        BY <1>3
    <3> HIDE DEF rank, N
    <3>2. rank[x] < rank[y] \/ rank[y] < rank[x]
      <4>1. CASE <<x, y>> \in R
        BY <1>2, <4>1
      <4>2. CASE <<y, x>> \in R
        BY <1>2, <4>2
      <4> QED
        BY <2>1, <4>1, <4>2
    <3> QED
      BY <3>1, <3>2
  <2> HIDE DEF rank, N
  <2> QED
    BY <1>3, <2>1 DEF Injection, IsInjective
<1>5. rank \in Surjection(S, 1..N)
  <2>1. IsFiniteSet(1..N) /\ Cardinality(1..N) = N
    BY FS_Interval, <1>n
  <2> HIDE DEF rank
  <2> QED
    BY <1>4, <2>1, FS_Injection
<1> DEFINE list == [i \in 1..N |-> CHOOSE x \in S : rank[x] = i]
<1>6. ASSUME NEW i \in 1..N PROVE list[i] \in S /\ rank[list[i]] = i
  <2> HIDE DEF rank, N
  <2>1. \E x \in S : rank[x] = i
    BY <1>5 DEF Surjection
  <2> QED
    BY <2>1
<1>7. list \in [1..N -> S]
  <2> HIDE DEF rank, N
  <2> QED
    BY <1>6
<1>8. ASSUME NEW i \in 1..N, NEW j \in 1..N, i < j PROVE <<list[i], list[j]>> \in R
  <2> HIDE DEF rank, list, N
  <2>1. /\ list[i] \in S /\ rank[list[i]] = i
        /\ list[j] \in S /\ rank[list[j]] = j
    BY <1>6
  <2>2. list[i] # list[j]
    BY <1>8, <2>1
  <2>3. ~(<<list[j], list[i]>> \in R)
    <3>1. SUFFICES ASSUME <<list[j], list[i]>> \in R PROVE FALSE
      OBVIOUS
    <3>2. j < i
      BY <1>2, <2>1, <3>1
    <3> QED
      BY <1>8, <3>2, <1>n
  <2> QED
    BY <2>1, <2>2, <2>3
<1> QED
  <2> HIDE DEF list
  <2> QED
    BY <1>7, <1>8
=============================================================================
