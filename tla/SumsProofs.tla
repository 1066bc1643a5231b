----------------------------- MODULE SumsProofs -----------------------------
(***************************************************************************)
(* What the sums come to: they can be taken in any order, one element at a *)
(* time.  A fold over a finite set is a recursive function on its subsets; *)
(* that it exists, and that it does not depend on the element that is      *)
(* chosen, is proved by the smallest subset for which it fails.            *)
(***************************************************************************)
EXTENDS Sums, FiniteSetTheorems, WellFoundedInduction, TLAPS

-----------------------------------------------------------------------------
(* Induction without an operator: a set of numbers has a least element, a  *)
(* set of finite sets a smallest one.                                      *)

Below == {p \in Nat \X Nat : p[1] < p[2]}

LEMMA LeastNumber ==
    ASSUME NEW T \in SUBSET Nat, T # {}
    PROVE  \E n \in T : \A m \in T : n <= m
<1>1. IsWellFoundedOn(Below, Nat)
  BY NatLessThanWellFounded, Zenon DEF OpToRel, Below
<1>2. \E n \in T : \A m \in T : ~ (<<m, n>> \in Below)
  BY <1>1, WFMin
<1>3. PICK n \in T : \A m \in T : ~ (<<m, n>> \in Below)
  BY <1>2
<1>4. ASSUME NEW m \in T PROVE n <= m
  <2>1. n \in Nat /\ m \in Nat /\ ~ (<<m, n>> \in Below)
    BY <1>3
  <2> QED
    BY <2>1 DEF Below
<1> QED
  BY <1>4

LEMMA SmallestSet ==
    ASSUME NEW S, IsFiniteSet(S), NEW B \in SUBSET SUBSET S, B # {}
    PROVE  \E s \in B : IsFiniteSet(s) /\ \A t \in B : Cardinality(s) <= Cardinality(t)
<1>1. \A s \in B : IsFiniteSet(s) /\ Cardinality(s) \in Nat
  BY FS_Subset, FS_CardinalityType
<1> DEFINE T == {Cardinality(s) : s \in B}
<1>2. T \in SUBSET Nat /\ T # {}
  BY <1>1
<1>3. PICK n \in T : \A m \in T : n <= m
  BY <1>2, LeastNumber
<1> QED
  BY <1>1, <1>3

\* Taking an element out makes a finite set smaller.
LEMMA OneLess ==
    ASSUME NEW S, IsFiniteSet(S), NEW s \in SUBSET S, NEW x \in s
    PROVE  /\ IsFiniteSet(s) /\ IsFiniteSet(s \ {x}) /\ s \ {x} \in SUBSET S
           /\ Cardinality(s) \in Nat /\ Cardinality(s \ {x}) \in Nat
           /\ Cardinality(s \ {x}) = Cardinality(s) - 1
<1>1. IsFiniteSet(s)
  BY FS_Subset
<1> QED
  BY <1>1, FS_RemoveElement, FS_CardinalityType

-----------------------------------------------------------------------------
(* Folds.                                                                  *)

Pick(s) == CHOOSE x \in s : TRUE

\* g is the fold of the values of f, combined by M from e on, over the subsets of S.
IsFold(g, M, e, f, S) ==
    \A s \in SUBSET S :
        g[s] = IF s = {} THEN e ELSE M[<<f[Pick(s)], g[s \ {Pick(s)}]>>]

\* M combines elements of T in any order.
Combines(M, e, T) ==
    /\ M \in [T \X T -> T] /\ e \in T
    /\ \A x, y, z \in T : M[<<x, M[<<y, z>>]>>] = M[<<y, M[<<x, z>>]>>]

LEMMA FoldExists ==
    ASSUME NEW S, IsFiniteSet(S), NEW M, NEW e, NEW T, Combines(M, e, T),
           NEW f, \A x \in S : f[x] \in T
    PROVE  \E g \in [SUBSET S -> T] : IsFold(g, M, e, f, S)
<1> DEFINE Right(g, s) ==
               g[s] = IF s = {} THEN e ELSE M[<<f[Pick(s)], g[s \ {Pick(s)}]>>]
           Upto(n) == \E g \in [SUBSET S -> T] :
                         \A s \in SUBSET S : Cardinality(s) <= n => Right(g, s)
           Bad == {n \in Nat : ~ Upto(n)}
<1>1. Pick({}) = Pick({}) /\ \A s \in SUBSET S : s # {} => Pick(s) \in s
  BY DEF Pick
<1>2. \A s \in SUBSET S : IsFiniteSet(s) /\ Cardinality(s) \in Nat
                          /\ (Cardinality(s) = 0 <=> s = {})
  BY FS_Subset, FS_CardinalityType, FS_EmptySet
<1>3. Upto(0)
  <2>1. [s \in SUBSET S |-> e] \in [SUBSET S -> T]
    BY DEF Combines
  <2>2. \A s \in SUBSET S : Cardinality(s) <= 0 => Right([t \in SUBSET S |-> e], s)
    BY <1>2
  <2> QED
    BY <2>1, <2>2
<1>4. ASSUME NEW n \in Nat, Upto(n) PROVE Upto(n + 1)
  <2>1. PICK g \in [SUBSET S -> T] : \A s \in SUBSET S : Cardinality(s) <= n => Right(g, s)
    BY <1>4
  <2> DEFINE h == [s \in SUBSET S |-> IF Cardinality(s) <= n THEN g[s]
                                     ELSE M[<<f[Pick(s)], g[s \ {Pick(s)}]>>]]
  <2>2. ASSUME NEW s \in SUBSET S, s # {}
        PROVE  /\ s \ {Pick(s)} \in SUBSET S /\ Cardinality(s \ {Pick(s)}) = Cardinality(s) - 1
               /\ f[Pick(s)] \in T /\ g[s \ {Pick(s)}] \in T
    BY <1>1, <2>2, OneLess
  <2>3. \A s \in SUBSET S : h[s] \in T
    <3> SUFFICES ASSUME NEW s \in SUBSET S PROVE h[s] \in T
      OBVIOUS
    <3>1. CASE Cardinality(s) <= n
      BY <3>1
    <3>2. CASE ~ (Cardinality(s) <= n)
      <4>1. s # {}
        BY <1>2, <3>2
      <4> QED
        BY <2>2, <3>2, <4>1 DEF Combines
    <3> QED
      BY <3>1, <3>2
  <2>4. h \in [SUBSET S -> T]
    BY <2>3
  <2>5. ASSUME NEW s \in SUBSET S, Cardinality(s) <= n + 1
        PROVE  Right(h, s)
    <3>1. CASE s = {}
      <4>1. Cardinality(s) = 0 /\ Right(g, s)
        <5>1. Cardinality(s) = 0
          BY <1>2, <3>1
        <5>2. Cardinality(s) <= n
          BY <5>1
        <5> QED
          BY <2>1, <5>1, <5>2
      <4> QED
        BY <1>4, <3>1, <4>1
    <3>2. CASE s # {}
      <4> DEFINE r == s \ {Pick(s)}
      <4>1. r \in SUBSET S /\ Cardinality(r) = Cardinality(s) - 1 /\ Cardinality(s) \in Nat
        BY <1>2, <2>2, <3>2
      <4>2. h[r] = g[r]
        BY <2>5, <4>1
      <4>3. CASE Cardinality(s) <= n
        <5>1. Right(g, s) /\ h[s] = g[s]
          BY <2>1, <4>3
        <5> QED
          BY <3>2, <4>2, <5>1
      <4>4. CASE ~ (Cardinality(s) <= n)
        <5>1. h[s] = M[<<f[Pick(s)], g[r]>>]
          BY <4>4
        <5> QED
          BY <3>2, <4>2, <5>1
      <4> QED
        BY <4>3, <4>4
    <3> QED
      BY <3>1, <3>2
  <2> HIDE DEF h, Right
  <2> QED
    BY <2>4, <2>5
<1> HIDE DEF Upto
<1>5. \A n \in Nat : Upto(n)
  <2> SUFFICES ASSUME Bad # {} PROVE FALSE
    OBVIOUS
  <2>1. PICK n \in Bad : \A m \in Bad : n <= m
    BY LeastNumber
  <2>2. n # 0 /\ n - 1 \in Nat /\ ~ (n <= n - 1) /\ (n - 1) + 1 = n
    BY <1>3, <2>1
  <2>3. Upto(n - 1)
    BY <2>1, <2>2
  <2>4. Upto((n - 1) + 1)
    BY <1>4, <2>2, <2>3
  <2> QED
    BY <2>1, <2>2, <2>4
<1>6. Upto(Cardinality(S)) /\ \A s \in SUBSET S : Cardinality(s) <= Cardinality(S)
  BY <1>2, <1>5, FS_Subset
<1> QED
  BY <1>6 DEF Upto, IsFold

\* A fold has its values in T, and any element may be taken out first.
LEMMA FoldAnyOrder ==
    ASSUME NEW S, IsFiniteSet(S), NEW M, NEW e, NEW T, Combines(M, e, T),
           NEW f, \A x \in S : f[x] \in T, NEW g, IsFold(g, M, e, f, S)
    PROVE  \A s \in SUBSET S :
              g[s] \in T /\ \A x \in s : g[s] = M[<<f[x], g[s \ {x}]>>]
<1> DEFINE Good(s) == g[s] \in T /\ \A x \in s : g[s] = M[<<f[x], g[s \ {x}]>>]
           B == {s \in SUBSET S : ~ Good(s)}
<1> SUFFICES ASSUME B # {} PROVE FALSE
  OBVIOUS
<1>1. PICK s \in B : \A t \in B : Cardinality(s) <= Cardinality(t)
  BY SmallestSet
<1>2. s \in SUBSET S /\ ~ Good(s)
  OBVIOUS
<1>3. ASSUME NEW x \in s PROVE Good(s \ {x}) /\ s \ {x} \in SUBSET S
  <2>1. /\ s \ {x} \in SUBSET S /\ Cardinality(s) \in Nat
        /\ Cardinality(s \ {x}) = Cardinality(s) - 1
    BY <1>2, OneLess
  <2>2. ~ (Cardinality(s) <= Cardinality(s \ {x}))
    BY <2>1
  <2> QED
    BY <1>1, <2>1, <2>2
<1>4. CASE s = {}
  BY <1>2, <1>4 DEF IsFold, Combines
<1>5. CASE s # {}
  <2> DEFINE y == Pick(s)
  <2>1. y \in s
    BY <1>5 DEF Pick
  <2>2. g[s] = M[<<f[y], g[s \ {y}]>>]
    BY <1>2, <1>5 DEF IsFold
  <2> HIDE DEF y
  <2>3. g[s] \in T
    BY <1>2, <1>3, <2>1, <2>2 DEF Combines
  <2>4. ASSUME NEW x \in s, x # y PROVE g[s] = M[<<f[x], g[s \ {x}]>>]
    <3> DEFINE r == s \ {x, y}
    <3>1. r = (s \ {x}) \ {y} /\ r = (s \ {y}) \ {x} /\ y \in s \ {x} /\ x \in s \ {y}
      BY <2>1, <2>4
    <3>2. g[s \ {y}] = M[<<f[x], g[r]>>] /\ g[s \ {x}] = M[<<f[y], g[r]>>]
      <4>1. /\ \A z \in s \ {y} : g[s \ {y}] = M[<<f[z], g[(s \ {y}) \ {z}]>>]
            /\ \A z \in s \ {x} : g[s \ {x}] = M[<<f[z], g[(s \ {x}) \ {z}]>>]
        BY <1>3, <2>1
      <4>2. g[s \ {y}] = M[<<f[x], g[(s \ {y}) \ {x}]>>]
        BY ONLY <3>1, <4>1
      <4>3. g[s \ {x}] = M[<<f[y], g[(s \ {x}) \ {y}]>>]
        BY ONLY <3>1, <4>1
      <4>4. r = (s \ {x}) \ {y} /\ r = (s \ {y}) \ {x}
        BY <3>1
      <4> HIDE DEF r
      <4> QED
        BY ONLY <4>2, <4>3, <4>4
    <3>3. Good((s \ {x}) \ {y})
      <4>1. /\ s \ {x} \in SUBSET S /\ Cardinality(s) \in Nat /\ Cardinality(s \ {x}) \in Nat
            /\ Cardinality(s \ {x}) = Cardinality(s) - 1
        BY <1>2, OneLess
      <4>2. /\ (s \ {x}) \ {y} \in SUBSET S
            /\ Cardinality((s \ {x}) \ {y}) = Cardinality(s \ {x}) - 1
        BY <3>1, <4>1, OneLess
      <4>3. ~ (Cardinality(s) <= Cardinality((s \ {x}) \ {y}))
        BY <4>1, <4>2
      <4> QED
        BY <1>1, <4>2, <4>3
    <3>4. g[r] \in T /\ f[x] \in T /\ f[y] \in T
      BY <1>2, <2>1, <3>1, <3>3
    <3> QED
      BY <2>2, <3>2, <3>4 DEF Combines
  <2> QED
    BY <1>2, <2>2, <2>3, <2>4
<1> QED
  BY <1>4, <1>5

\* Folds of the same values are equal.
LEMMA FoldUnique ==
    ASSUME NEW S, IsFiniteSet(S), NEW M, NEW e, NEW f, NEW k, \A x \in S : f[x] = k[x],
           NEW g, IsFold(g, M, e, f, S), NEW h, IsFold(h, M, e, k, S)
    PROVE  \A s \in SUBSET S : g[s] = h[s]
<1> DEFINE B == {s \in SUBSET S : g[s] # h[s]}
<1> SUFFICES ASSUME B # {} PROVE FALSE
  OBVIOUS
<1>1. PICK s \in B : \A t \in B : Cardinality(s) <= Cardinality(t)
  BY SmallestSet
<1>2. CASE s = {}
  BY <1>1, <1>2 DEF IsFold
<1>3. CASE s # {}
  <2>1. Pick(s) \in s
    BY <1>3 DEF Pick
  <2> DEFINE r == s \ {Pick(s)}
  <2>2. /\ r \in SUBSET S /\ Cardinality(s) \in Nat /\ Cardinality(r) = Cardinality(s) - 1
    BY <2>1, OneLess
  <2>3. g[r] = h[r]
    BY <1>1, <2>2
  <2>4. /\ g[s] = M[<<f[Pick(s)], g[r]>>] /\ h[s] = M[<<k[Pick(s)], h[r]>>]
    BY <1>3 DEF IsFold
  <2> QED
    BY <2>1, <2>3, <2>4
<1> QED
  BY <1>2, <1>3

-----------------------------------------------------------------------------
(* Sums of natural numbers.                                                *)

AddNat == [p \in Nat \X Nat |-> p[1] + p[2]]

LEMMA AddNatCombines == Combines(AddNat, 0, Nat)
<1>1. AddNat \in [Nat \X Nat -> Nat]
  BY DEF AddNat
<1>2. \A x, y \in Nat : AddNat[<<x, y>>] = x + y
  BY DEF AddNat
<1>3. ASSUME NEW x \in Nat, NEW y \in Nat, NEW z \in Nat
      PROVE  AddNat[<<x, AddNat[<<y, z>>]>>] = AddNat[<<y, AddNat[<<x, z>>]>>]
  <2>1. y + z \in Nat /\ x + z \in Nat /\ x + (y + z) = y + (x + z)
    OBVIOUS
  <2> QED
    BY <1>2, <2>1
<1> QED
  BY <1>1, <1>3 DEF Combines

LEMMA TotalIsFold ==
    ASSUME NEW S, IsFiniteSet(S), NEW f, \A x \in S : f[x] \in Nat
    PROVE  \E g : IsFold(g, AddNat, 0, f, S) /\ Total(f, S) = g[S]
<1> DEFINE Is(g) == g = [s \in SUBSET S |->
                           IF s = {} THEN 0 ELSE f[Pick(s)] + g[s \ {Pick(s)}]]
<1>1. PICK g \in [SUBSET S -> Nat] : IsFold(g, AddNat, 0, f, S)
  BY AddNatCombines, FoldExists
<1>2. Is(g)
  <2>1. ASSUME NEW s \in SUBSET S
        PROVE  g[s] = IF s = {} THEN 0 ELSE f[Pick(s)] + g[s \ {Pick(s)}]
    <3>1. CASE s = {}
      BY <1>1, <3>1 DEF IsFold
    <3>2. CASE s # {}
      <4>1. Pick(s) \in S /\ s \ {Pick(s)} \in SUBSET S
        BY <3>2 DEF Pick
      <4>2. f[Pick(s)] \in Nat /\ g[s \ {Pick(s)}] \in Nat
        BY <1>1, <4>1
      <4>3. g[s] = AddNat[<<f[Pick(s)], g[s \ {Pick(s)}]>>]
        BY <1>1, <3>2 DEF IsFold
      <4> QED
        BY <3>2, <4>2, <4>3 DEF AddNat
    <3> QED
      BY <3>1, <3>2
  <2> QED
    BY <1>1, <2>1
<1>3. Total(f, S) = (CHOOSE h : Is(h))[S]
  BY DEF Total, MapThenSumSet, MapThenFoldSet, Pick
<1> DEFINE h == CHOOSE k : Is(k)
<1>4. Is(h)
  BY <1>2
<1>5. Total(f, S) = h[S]
  BY <1>3
<1> HIDE DEF h
<1>6. \A s \in SUBSET S : h[s] = IF s = {} THEN 0 ELSE f[Pick(s)] + h[s \ {Pick(s)}]
  BY <1>4
<1>7. \A s \in SUBSET S : h[s] = g[s]
  <2> DEFINE B == {s \in SUBSET S : h[s] # g[s]}
  <2> SUFFICES ASSUME B # {} PROVE FALSE
    OBVIOUS
  <2>1. PICK s \in B : \A t \in B : Cardinality(s) <= Cardinality(t)
    BY SmallestSet
  <2>2. \A t \in SUBSET S : g[t] = IF t = {} THEN 0 ELSE f[Pick(t)] + g[t \ {Pick(t)}]
    BY <1>2
  <2>3. s # {}
    BY <1>6, <2>1, <2>2
  <2>4. Pick(s) \in s
    BY <2>3 DEF Pick
  <2>5. /\ s \ {Pick(s)} \in SUBSET S /\ Cardinality(s) \in Nat
        /\ Cardinality(s \ {Pick(s)}) = Cardinality(s) - 1
    BY <2>4, OneLess
  <2>6. h[s \ {Pick(s)}] = g[s \ {Pick(s)}]
    BY <2>1, <2>5
  <2> QED
    BY <1>6, <2>1, <2>2, <2>3, <2>6
<1>8. IsFold(h, AddNat, 0, f, S)
  BY <1>1, <1>7 DEF IsFold
<1> QED
  BY <1>5, <1>8

LEMMA TotalEmpty == ASSUME NEW f PROVE Total(f, {}) = 0
<1>1. IsFiniteSet({}) /\ \A x \in {} : f[x] \in Nat
  BY FS_EmptySet
<1>2. PICK g : IsFold(g, AddNat, 0, f, {}) /\ Total(f, {}) = g[{}]
  BY <1>1, TotalIsFold
<1> QED
  BY <1>2 DEF IsFold

\* A sum is a number, and any element can be taken out of it.
LEMMA TotalStep ==
    ASSUME NEW S, IsFiniteSet(S), NEW f, \A x \in S : f[x] \in Nat
    PROVE  /\ Total(f, S) \in Nat
           /\ \A x \in S : Total(f, S) = f[x] + Total(f, S \ {x})
<1>1. PICK g : IsFold(g, AddNat, 0, f, S) /\ Total(f, S) = g[S]
  BY TotalIsFold
<1>2. \A s \in SUBSET S : g[s] \in Nat /\ \A x \in s : g[s] = AddNat[<<f[x], g[s \ {x}]>>]
  BY <1>1, AddNatCombines, FoldAnyOrder
<1>3. ASSUME NEW x \in S PROVE Total(f, S) = f[x] + Total(f, S \ {x})
  <2> DEFINE r == S \ {x}
  <2>1. IsFiniteSet(r) /\ r \in SUBSET S
    BY FS_RemoveElement
  <2>2. PICK h : IsFold(h, AddNat, 0, f, r) /\ Total(f, r) = h[r]
    BY <2>1, TotalIsFold
  <2>3. IsFold(g, AddNat, 0, f, r)
    BY <1>1, <2>1 DEF IsFold
  <2>4. g[r] = h[r]
    BY <2>1, <2>2, <2>3, FoldUnique
  <2>5. g[S] = AddNat[<<f[x], g[r]>>] /\ g[r] \in Nat
    BY <1>2, <2>1
  <2> QED
    BY <1>1, <2>2, <2>4, <2>5 DEF AddNat
<1> QED
  BY <1>1, <1>2, <1>3

\* Equal values have equal sums.
LEMMA TotalSame ==
    ASSUME NEW S, IsFiniteSet(S), NEW f, NEW k, \A x \in S : f[x] \in Nat /\ k[x] = f[x]
    PROVE  Total(f, S) = Total(k, S)
<1>1. PICK g : IsFold(g, AddNat, 0, f, S) /\ Total(f, S) = g[S]
  BY TotalIsFold
<1>2. PICK h : IsFold(h, AddNat, 0, k, S) /\ Total(k, S) = h[S]
  BY TotalIsFold
<1> QED
  BY <1>1, <1>2, FoldUnique

\* No value is above the sum.
LEMMA TotalBounds ==
    ASSUME NEW S, IsFiniteSet(S), NEW f, \A x \in S : f[x] \in Nat, NEW x \in S
    PROVE  f[x] <= Total(f, S)
<1>1. IsFiniteSet(S \ {x}) /\ \A y \in S \ {x} : f[y] \in Nat
  BY FS_RemoveElement
<1>2. Total(f, S \ {x}) \in Nat /\ Total(f, S) = f[x] + Total(f, S \ {x})
  BY <1>1, TotalStep
<1> QED
  BY <1>2

LEMMA TotalZero ==
    ASSUME NEW S, IsFiniteSet(S), NEW f, \A x \in S : f[x] = 0
    PROVE  Total(f, S) = 0
<1> DEFINE B == {s \in SUBSET S : Total(f, s) # 0}
<1> SUFFICES ASSUME B # {} PROVE FALSE
  OBVIOUS
<1>1. PICK s \in B : \A t \in B : Cardinality(s) <= Cardinality(t)
  BY SmallestSet
<1>2. PICK x \in s : TRUE
  BY <1>1, TotalEmpty
<1>3. /\ IsFiniteSet(s) /\ s \ {x} \in SUBSET S /\ Cardinality(s) \in Nat
      /\ Cardinality(s \ {x}) = Cardinality(s) - 1
  BY <1>1, OneLess
<1>4. Total(f, s \ {x}) = 0
  BY <1>1, <1>3
<1>5. Total(f, s) = f[x] + Total(f, s \ {x})
  BY <1>1, <1>3, TotalStep
<1> QED
  BY <1>1, <1>4, <1>5

\* One more of one element.
LEMMA TotalBump ==
    ASSUME NEW S, IsFiniteSet(S), NEW f \in [S -> Nat], NEW x \in S
    PROVE  Total([f EXCEPT ![x] = @ + 1], S) = Total(f, S) + 1
<1> DEFINE k == [f EXCEPT ![x] = @ + 1]
           r == S \ {x}
<1>1. /\ k \in [S -> Nat] /\ k[x] = f[x] + 1 /\ \A y \in r : k[y] = f[y] /\ f[y] \in Nat
      /\ IsFiniteSet(r)
  BY FS_RemoveElement
<1> HIDE DEF k
<1>2. Total(k, r) = Total(f, r) /\ Total(f, r) \in Nat
  BY <1>1, TotalSame, TotalStep
<1>3. Total(k, S) = k[x] + Total(k, r) /\ Total(f, S) = f[x] + Total(f, r)
  BY <1>1, TotalStep
<1>4. Total(k, S) = Total(f, S) + 1
  BY <1>1, <1>2, <1>3
<1> QED
  BY <1>4 DEF k

-----------------------------------------------------------------------------
(* Fractions.                                                              *)

Ratio == Int \X (Nat \ {0})

\* b is a denominator of n / d.
Denominates(b, n, d) == b \in Nat \ {0} /\ \E k \in Int : n * b = k * d

LEMMA Cancel ==
    ASSUME NEW x \in Int, NEW y \in Int, NEW d \in Int, d # 0, x * d = y * d
    PROVE  x = y
BY Z3

\* x <= y if x q <= y q.
LEMMA CancelLeq ==
    ASSUME NEW x \in Int, NEW y \in Int, NEW q \in Nat, q > 0, x * q <= y * q
    PROVE  x <= y
<1>1. ASSUME x >= y + 1 PROVE FALSE
  <2>1. PICK z \in Nat : x = y + 1 + z
    <3>1. x - y - 1 \in Nat /\ x = y + 1 + (x - y - 1)
      BY <1>1
    <3> QED
      BY <3>1
  <2>2. x * q = y * q + q + z * q
    BY <2>1
  <2>3. z * q >= 0
    OBVIOUS
  <2> QED
    BY <2>2, <2>3
<1> QED
  BY <1>1

LEMMA DivMod ==
    ASSUME NEW a \in Int, NEW d \in Nat, d > 0
    PROVE  /\ a \div d \in Int /\ a % d \in Nat /\ a % d < d /\ a = d * (a \div d) + (a % d)
           /\ \A k \in Int : a = d * k => a % d = 0 /\ a \div d = k
<1>1. /\ a \div d \in Int /\ a % d \in Int /\ 0 <= a % d /\ a % d < d
      /\ a = d * (a \div d) + (a % d)
  BY Z3
<1>2. ASSUME NEW k \in Int, a = d * k PROVE a % d = 0 /\ a \div d = k
  <2> DEFINE q == a \div d
             r == a % d
  <2>1. q \in Int /\ r \in Int /\ 0 <= r /\ r < d /\ d * k = d * q + r
    BY <1>1, <1>2
  <2> HIDE DEF q, r
  <2>2. d * (k - q) = r
    BY <2>1
  <2>3. ~ (k - q >= 1)
    <3> SUFFICES ASSUME k - q >= 1 PROVE FALSE
      OBVIOUS
    <3>1. PICK z \in Nat : k - q = 1 + z
      <4>1. k - q - 1 \in Nat /\ k - q = 1 + (k - q - 1)
        BY <2>1
      <4> QED
        BY <4>1
    <3>2. r = d + d * z /\ d * z >= 0
      BY <2>1, <2>2, <3>1
    <3> QED
      BY <2>1, <3>2
  <2>4. ~ (k - q <= -1)
    <3> SUFFICES ASSUME k - q <= -1 PROVE FALSE
      OBVIOUS
    <3>1. PICK z \in Nat : k - q = -1 - z
      <4>1. q - k - 1 \in Nat /\ k - q = -1 - (q - k - 1)
        BY <2>1
      <4> QED
        BY <4>1
    <3>2. r = 0 - d - d * z /\ d * z >= 0
      BY <2>1, <2>2, <3>1
    <3> QED
      BY <2>1, <3>2
  <2>5. k = q
    BY <2>1, <2>3, <2>4
  <2>6. r = 0
    BY <2>1, <2>5
  <2> QED
    BY <2>5, <2>6 DEF q, r
<1> QED
  BY <1>1, <1>2

LEMMA MulLeq ==
    ASSUME NEW x \in Int, NEW y \in Int, NEW q \in Nat, x <= y
    PROVE  x * q <= y * q
<1>1. PICK z \in Nat : y = x + z
  <2>1. y - x \in Nat /\ y = x + (y - x)
    OBVIOUS
  <2> QED
    BY <2>1
<1>2. y * q = x * q + z * q /\ z * q >= 0
  BY <1>1
<1> QED
  BY <1>2

LEMMA GcdFacts ==
    ASSUME NEW n \in Int, NEW d \in Nat \ {0}
    PROVE  /\ Gcd(n, d) \in 1..d /\ n % Gcd(n, d) = 0 /\ d % Gcd(n, d) = 0
           /\ \A h \in 1..d : n % h = 0 /\ d % h = 0 => h <= Gcd(n, d)
<1> DEFINE C == {h \in 1..d : n % h = 0 /\ d % h = 0}
           T == {m \in Nat : \E h \in C : m = d - h}
<1>1. 1 \in C
  <2>1. n = 1 * n /\ d = 1 * d
    OBVIOUS
  <2>2. n % 1 = 0 /\ d % 1 = 0
    BY <2>1, DivMod
  <2> QED
    BY <2>2
<1>2. d - 1 \in T
  BY <1>1
<1>3. PICK m \in T : \A l \in T : m <= l
  BY <1>2, LeastNumber
<1>4. PICK g \in C : m = d - g
  OBVIOUS
<1>5. \A h \in C : h <= g
  <2> TAKE h \in C
  <2>1. d - h \in T
    OBVIOUS
  <2>2. m <= d - h
    BY <1>3, <2>1
  <2> QED
    BY <1>4, <2>2
<1> DEFINE Is(x) == /\ n % x = 0 /\ d % x = 0
                    /\ \A h \in (x + 1)..d : n % h # 0 \/ d % h # 0
<1>6. g \in 1..d /\ Is(g)
  <2>1. ASSUME NEW h \in (g + 1)..d PROVE n % h # 0 \/ d % h # 0
    <3>1. h \in 1..d /\ ~ (h <= g)
      BY <1>4
    <3> QED
      BY <1>5, <3>1
  <2> QED
    BY <1>4, <2>1
<1>7. Gcd(n, d) = CHOOSE x \in 1..d : Is(x)
  BY DEF Gcd
<1> HIDE DEF Is
<1>8. Gcd(n, d) \in 1..d /\ Is(Gcd(n, d))
  BY <1>6, <1>7
<1> DEFINE G == Gcd(n, d)
<1>9. ASSUME NEW h \in 1..d, n % h = 0, d % h = 0 PROVE h <= G
  <2>1. ASSUME ~ (h <= G) PROVE FALSE
    <3>1. h \in (G + 1)..d
      BY <1>8, <2>1
    <3> QED
      BY <1>8, <1>9, <3>1 DEF Is
  <2> QED
    BY <2>1
<1> QED
  BY <1>8, <1>9 DEF Is

LEMMA FracLeast ==
    ASSUME NEW n \in Int, NEW d \in Nat \ {0}
    PROVE  \E a \in Int, b \in Nat \ {0} :
              /\ Frac(n, d) = <<a, b>> /\ a * d = n * b
              /\ \A c : Denominates(c, n, d) => b <= c
<1> DEFINE g == Gcd(n, d)
           a == n \div g
           b == d \div g
<1>1. /\ g \in Nat /\ g > 0 /\ n % g = 0 /\ d % g = 0
      /\ \A h \in 1..d : n % h = 0 /\ d % h = 0 => h <= g
  BY GcdFacts
<1>2. Frac(n, d) = <<a, b>>
  BY DEF Frac
<1> HIDE DEF g
<1>3. a \in Int /\ b \in Int /\ n = g * a /\ d = g * b
  BY <1>1, DivMod
<1> HIDE DEF a, b
<1>4. b > 0
  <2>1. ASSUME b <= 0 PROVE FALSE
    <3>1. g * b <= 0
      <4>1. -b \in Nat /\ g * (-b) >= 0 /\ g * b = -(g * (-b))
        BY <1>1, <1>3, <2>1
      <4>2. g * b \in Int /\ g * (-b) \in Int
        BY <1>1, <1>3
      <4> QED
        BY <4>1, <4>2
    <3> QED
      BY <1>3, <3>1
  <2> QED
    BY <1>3, <2>1
<1>5. a * d = n * b
  BY <1>1, <1>3
<1> DEFINE D == {c \in Nat : Denominates(c, n, d)}
<1>6. b \in D
  BY <1>3, <1>4, <1>5 DEF Denominates
<1>7. PICK b0 \in D : \A c \in D : b0 <= c
  BY <1>6, LeastNumber
<1>8. PICK k0 \in Int : n * b0 = k0 * d
  BY <1>7 DEF Denominates
<1>9. b0 \in Nat /\ b0 > 0
  BY <1>7 DEF Denominates
<1> DEFINE q == d \div b0
           r == d % b0
<1>10. q \in Int /\ r \in Nat /\ r < b0 /\ d = b0 * q + r
  BY <1>9, DivMod
<1> HIDE DEF q, r, D
<1>11. n * r = (n - k0 * q) * d
  <2>1. n * r = n * d - (n * b0) * q
    BY <1>8, <1>9, <1>10
  <2>2. n * r = n * d - (k0 * d) * q
    BY <1>8, <2>1
  <2> QED
    BY <1>8, <1>10, <2>2
<1>12. r = 0
  <2>1. ASSUME r # 0 PROVE FALSE
    <3>1. n - k0 * q \in Int
      BY <1>8, <1>10
    <3>2. r \in D
      BY <1>10, <1>11, <2>1, <3>1 DEF D, Denominates
    <3> QED
      BY <1>7, <1>9, <1>10, <3>2
  <2> QED
    BY <2>1
<1>13. d = b0 * q
  BY <1>9, <1>10, <1>12
<1>14. n = k0 * q
  <2>1. n * b0 = (k0 * q) * b0
    BY <1>8, <1>9, <1>10, <1>13
  <2>2. k0 * q \in Int
    BY <1>8, <1>10
  <2> QED
    BY <1>9, <2>1, <2>2, Cancel
<1>15. q > 0
  <2>1. ASSUME q <= 0 PROVE FALSE
    <3>1. -q \in Nat /\ b0 * (-q) >= 0 /\ b0 * q = -(b0 * (-q))
      BY <1>9, <1>10, <2>1
    <3>2. b0 * q \in Int /\ b0 * (-q) \in Int
      BY <1>9, <1>10
    <3> QED
      BY <1>13, <3>1, <3>2
  <2> QED
    BY <1>10, <2>1
<1>16. q <= d
  <2>1. 1 * q <= b0 * q
    BY <1>9, <1>10, <1>15, MulLeq
  <2> QED
    BY <1>10, <1>13, <2>1
<1>17. q <= g
  <2>1. d % q = 0 /\ n % q = 0
    <3>1. d = q * b0 /\ n = q * k0
      BY <1>8, <1>9, <1>10, <1>13, <1>14
    <3> QED
      BY <1>8, <1>9, <1>10, <1>15, <3>1, DivMod
  <2> QED
    BY <1>1, <1>10, <1>15, <1>16, <2>1
<1>18. b <= b0
  <2>1. q * b0 <= g * b0
    BY <1>1, <1>9, <1>10, <1>17, MulLeq
  <2>2. b * g <= b0 * g
    BY <1>1, <1>3, <1>9, <1>10, <1>13, <2>1
  <2> QED
    BY <1>1, <1>3, <1>9, <2>2, CancelLeq
<1>19. \A c : Denominates(c, n, d) => b <= c
  <2> SUFFICES ASSUME NEW c, Denominates(c, n, d) PROVE b <= c
    OBVIOUS
  <2>1. c \in D /\ c \in Nat
    BY DEF D, Denominates
  <2>2. b0 <= c
    BY <1>7, <2>1
  <2> QED
    BY <1>3, <1>9, <1>18, <2>1, <2>2
<1> QED
  BY <1>2, <1>3, <1>4, <1>5, <1>19

\* Fractions of the same value are written the same.
LEMMA FracSame ==
    ASSUME NEW n \in Int, NEW d \in Nat \ {0}, NEW m \in Int, NEW e \in Nat \ {0},
           n * e = m * d
    PROVE  Frac(n, d) = Frac(m, e)
<1>1. PICK a \in Int, b \in Nat \ {0} :
         /\ Frac(n, d) = <<a, b>> /\ a * d = n * b
         /\ \A c : Denominates(c, n, d) => b <= c
  BY FracLeast
<1>2. PICK a2 \in Int, b2 \in Nat \ {0} :
         /\ Frac(m, e) = <<a2, b2>> /\ a2 * e = m * b2
         /\ \A c : Denominates(c, m, e) => b2 <= c
  BY FracLeast
<1>3. n * b2 = a2 * d
  <2>1. (n * b2) * e = (n * e) * b2
    OBVIOUS
  <2>2. (a2 * d) * e = (m * d) * b2
    <3>1. (a2 * d) * e = (a2 * e) * d
      OBVIOUS
    <3>2. (a2 * e) * d = (m * b2) * d
      BY <1>2
    <3> QED
      BY <3>1, <3>2
  <2>3. (n * b2) * e = (a2 * d) * e
    BY <2>1, <2>2
  <2>4. n * b2 \in Int /\ a2 * d \in Int
    OBVIOUS
  <2> QED
    BY <2>3, <2>4, Cancel
<1>4. m * b = a * e
  <2>1. (m * b) * d = (m * d) * b
    OBVIOUS
  <2>2. (a * e) * d = (n * e) * b
    <3>1. (a * e) * d = (a * d) * e
      OBVIOUS
    <3>2. (a * d) * e = (n * b) * e
      BY <1>1
    <3> QED
      BY <3>1, <3>2
  <2>3. (m * b) * d = (a * e) * d
    BY <2>1, <2>2
  <2>4. m * b \in Int /\ a * e \in Int
    OBVIOUS
  <2> QED
    BY <2>3, <2>4, Cancel
<1>5. Denominates(b2, n, d) /\ Denominates(b, m, e)
  BY <1>3, <1>4 DEF Denominates
<1>6. b = b2
  BY <1>1, <1>2, <1>5
<1>7. a = a2
  <2>1. a * d = a2 * d
    BY <1>1, <1>3, <1>6
  <2> QED
    BY <2>1, Cancel
<1> QED
  BY <1>1, <1>2, <1>6, <1>7

\* The fractions in lowest terms.
Fraction == {x \in Ratio : Frac(x[1], x[2]) = x}

\* Frac keeps the value, and its result is in lowest terms.
LEMMA FracFacts ==
    ASSUME NEW n \in Int, NEW d \in Nat \ {0}
    PROVE  /\ Frac(n, d) \in Fraction
           /\ Frac(n, d)[1] \in Int /\ Frac(n, d)[2] \in Nat \ {0}
           /\ Frac(n, d)[1] * d = n * Frac(n, d)[2]
           /\ Frac(n, d) = <<Frac(n, d)[1], Frac(n, d)[2]>>
<1>1. PICK a \in Int, b \in Nat \ {0} : Frac(n, d) = <<a, b>> /\ a * d = n * b
  BY FracLeast
<1>2. Frac(a, b) = Frac(n, d)
  BY <1>1, FracSame
<1> QED
  BY <1>1, <1>2 DEF Fraction, Ratio

\* A fraction is written as its own numerator over its own denominator.
LEMMA FractionFrac ==
    ASSUME NEW x \in Fraction
    PROVE  x[1] \in Int /\ x[2] \in Nat \ {0} /\ x = Frac(x[1], x[2]) /\ x = <<x[1], x[2]>>
BY DEF Fraction, Ratio

LEMMA FracOne ==
    ASSUME NEW n \in Int
    PROVE  /\ Frac(n, 1) = Whole(n) /\ Whole(n) \in Fraction
           /\ Whole(n)[1] = n /\ Whole(n)[2] = 1
<1>1. PICK d \in Nat \ {0} : d = 1
  OBVIOUS
<1>2. PICK a \in Int, b \in Nat \ {0} :
         /\ Frac(n, d) = <<a, b>> /\ a * d = n * b
         /\ \A c : Denominates(c, n, d) => b <= c
  BY FracLeast
<1>3. Denominates(1, n, d)
  BY <1>1 DEF Denominates
<1>4. b = 1 /\ a = n
  BY <1>1, <1>2, <1>3
<1>5. Frac(n, d) \in Fraction
  BY FracFacts
<1> QED
  BY <1>1, <1>2, <1>4, <1>5 DEF Whole

LEMMA FracZero ==
    ASSUME NEW d \in Nat \ {0}
    PROVE  Frac(0, d) = Whole(0)
<1>1. 0 * 1 = 0 * d
  OBVIOUS
<1>2. Frac(0, d) = Frac(0, 1)
  BY <1>1, FracSame
<1> QED
  BY <1>2, FracOne

LEMMA FracSign ==
    ASSUME NEW n \in Int, NEW d \in Nat \ {0}
    PROVE  (n >= 0 <=> Frac(n, d)[1] >= 0) /\ (n > 0 <=> Frac(n, d)[1] > 0)
<1> DEFINE a == Frac(n, d)[1]
           b == Frac(n, d)[2]
<1>1. a \in Int /\ b \in Nat /\ b > 0 /\ a * d = n * b /\ d > 0
  BY FracFacts
<1> HIDE DEF a, b
<1>2. ASSUME NEW x \in Int, NEW y \in Int, NEW p \in Nat, NEW q \in Nat, p > 0, q > 0,
             x * p = y * q
      PROVE  (x >= 0 => y >= 0) /\ (x > 0 => y > 0)
  <2>1. ASSUME x >= 0, y < 0 PROVE FALSE
    <3>1. -y \in Nat /\ x * p >= 0 /\ y * q = -((-y) * q)
      BY <1>2, <2>1
    <3>2. y + 1 <= 0
      BY <2>1
    <3>3. (y + 1) * q <= 0 * q
      BY <3>2, MulLeq
    <3>4. (y + 1) * q = y * q + q
      OBVIOUS
    <3>5. y * q \in Int /\ x * p \in Int /\ 0 * q = 0
      OBVIOUS
    <3> QED
      BY <1>2, <3>1, <3>3, <3>4, <3>5
  <2>2. ASSUME x > 0, y <= 0 PROVE FALSE
    <3>1. y * q <= 0 * q
      BY <2>2, MulLeq
    <3>2. 1 * p <= x * p
      BY <2>2, MulLeq
    <3>3. y * q \in Int /\ x * p \in Int /\ 0 * q = 0 /\ 1 * p = p
      OBVIOUS
    <3> QED
      BY <1>2, <3>1, <3>2, <3>3
  <2> QED
    BY <2>1, <2>2
<1>3. (a >= 0 => n >= 0) /\ (a > 0 => n > 0)
  BY <1>1, <1>2
<1>4. (n >= 0 => a >= 0) /\ (n > 0 => a > 0)
  BY <1>1, <1>2
<1> QED
  BY <1>3, <1>4 DEF a

-----------------------------------------------------------------------------
(* Arithmetic on fractions is arithmetic on what they stand for.           *)

LEMMA PlusFrac ==
    ASSUME NEW n \in Int, NEW d \in Nat \ {0}, NEW m \in Int, NEW e \in Nat \ {0}
    PROVE  Plus(Frac(n, d), Frac(m, e)) = Frac(n * e + m * d, d * e)
<1> DEFINE a == Frac(n, d)[1]
           b == Frac(n, d)[2]
           p == Frac(m, e)[1]
           q == Frac(m, e)[2]
<1>1. a \in Int /\ b \in Nat \ {0} /\ a * d = n * b
  BY FracFacts
<1>2. p \in Int /\ q \in Nat \ {0} /\ p * e = m * q
  BY FracFacts
<1>3. Plus(Frac(n, d), Frac(m, e)) = Frac(a * q + p * b, b * q)
  BY DEF Plus
<1> HIDE DEF a, b, p, q
<1>4. b * q \in Nat \ {0} /\ d * e \in Nat \ {0}
  BY <1>1, <1>2
<1>5. (a * q + p * b) * (d * e) = (n * e + m * d) * (b * q)
  <2>1. (a * q) * (d * e) = (a * d) * (q * e)
    BY <1>1, <1>2
  <2>2. (n * b) * (q * e) = (n * e) * (b * q)
    BY <1>1, <1>2
  <2>3. (p * b) * (d * e) = (p * e) * (b * d)
    BY <1>1, <1>2
  <2>4. (m * q) * (b * d) = (m * d) * (b * q)
    BY <1>1, <1>2
  <2>5. (a * q + p * b) * (d * e) = (a * q) * (d * e) + (p * b) * (d * e)
    BY <1>1, <1>2
  <2>6. (n * e + m * d) * (b * q) = (n * e) * (b * q) + (m * d) * (b * q)
    BY <1>1, <1>2
  <2>7. (a * d) * (q * e) = (n * b) * (q * e) /\ (p * e) * (b * d) = (m * q) * (b * d)
    BY <1>1, <1>2
  <2> QED
    BY <2>1, <2>2, <2>3, <2>4, <2>5, <2>6, <2>7
<1>6. a * q + p * b \in Int /\ n * e + m * d \in Int
  BY <1>1, <1>2
<1> QED
  BY <1>3, <1>4, <1>5, <1>6, FracSame

LEMMA TimesFrac ==
    ASSUME NEW n \in Int, NEW d \in Nat \ {0}, NEW m \in Int, NEW e \in Nat \ {0}
    PROVE  Times(Frac(n, d), Frac(m, e)) = Frac(n * m, d * e)
<1> DEFINE a == Frac(n, d)[1]
           b == Frac(n, d)[2]
           p == Frac(m, e)[1]
           q == Frac(m, e)[2]
<1>1. a \in Int /\ b \in Nat \ {0} /\ a * d = n * b
  BY FracFacts
<1>2. p \in Int /\ q \in Nat \ {0} /\ p * e = m * q
  BY FracFacts
<1>3. Times(Frac(n, d), Frac(m, e)) = Frac(a * p, b * q)
  BY DEF Times
<1> HIDE DEF a, b, p, q
<1>4. b * q \in Nat \ {0} /\ d * e \in Nat \ {0} /\ a * p \in Int /\ n * m \in Int
  BY <1>1, <1>2
<1>5. (a * p) * (d * e) = (n * m) * (b * q)
  <2>1. (a * p) * (d * e) = (a * d) * (p * e)
    BY <1>1, <1>2
  <2>2. (n * b) * (m * q) = (n * m) * (b * q)
    BY <1>1, <1>2
  <2>3. (a * d) * (p * e) = (n * b) * (m * q)
    BY <1>1, <1>2
  <2> QED
    BY <2>1, <2>2, <2>3
<1> QED
  BY <1>3, <1>4, <1>5, FracSame

LEMMA MinusFrac ==
    ASSUME NEW n \in Int, NEW d \in Nat \ {0}, NEW m \in Int, NEW e \in Nat \ {0}
    PROVE  Minus(Frac(n, d), Frac(m, e)) = Frac(n * e - m * d, d * e)
<1> DEFINE a == Frac(n, d)[1]
           b == Frac(n, d)[2]
           p == Frac(m, e)[1]
           q == Frac(m, e)[2]
<1>1. a \in Int /\ b \in Nat \ {0} /\ a * d = n * b
  BY FracFacts
<1>2. p \in Int /\ q \in Nat \ {0} /\ p * e = m * q
  BY FracFacts
<1>3. Minus(Frac(n, d), Frac(m, e)) = Frac(a * q - p * b, b * q)
  BY DEF Minus
<1> HIDE DEF a, b, p, q
<1>5. b * q \in Nat \ {0} /\ d * e \in Nat \ {0}
  BY <1>1, <1>2
<1>6. (a * q - p * b) * (d * e) = (n * e - m * d) * (b * q)
  <2>1. (a * q) * (d * e) = (a * d) * (q * e)
    BY <1>1, <1>2
  <2>2. (n * b) * (q * e) = (n * e) * (b * q)
    BY <1>1, <1>2
  <2>3. (p * b) * (d * e) = (p * e) * (b * d)
    BY <1>1, <1>2
  <2>4. (m * q) * (b * d) = (m * d) * (b * q)
    BY <1>1, <1>2
  <2>5. (a * q - p * b) * (d * e) = (a * q) * (d * e) - (p * b) * (d * e)
    BY <1>1, <1>2
  <2>6. (n * e - m * d) * (b * q) = (n * e) * (b * q) - (m * d) * (b * q)
    BY <1>1, <1>2
  <2>7. (a * d) * (q * e) = (n * b) * (q * e) /\ (p * e) * (b * d) = (m * q) * (b * d)
    BY <1>1, <1>2
  <2> QED
    BY <2>1, <2>2, <2>3, <2>4, <2>5, <2>6, <2>7
<1>7. a * q - p * b \in Int /\ n * e - m * d \in Int
  BY <1>1, <1>2
<1> QED
  BY <1>3, <1>5, <1>6, <1>7, FracSame

LEMMA PlusFacts ==
    ASSUME NEW x \in Fraction, NEW y \in Fraction
    PROVE  /\ Plus(x, y) \in Fraction
           /\ Plus(x, y) = Plus(y, x)
           /\ Plus(x, Whole(0)) = x
<1>1. /\ x[1] \in Int /\ x[2] \in Nat \ {0} /\ x = Frac(x[1], x[2])
      /\ y[1] \in Int /\ y[2] \in Nat \ {0} /\ y = Frac(y[1], y[2])
  BY FractionFrac
<1> DEFINE n == x[1] * y[2] + y[1] * x[2]
           m == y[1] * x[2] + x[1] * y[2]
           d == x[2] * y[2]
           e == y[2] * x[2]
<1>2. Plus(x, y) = Frac(n, d) /\ Plus(y, x) = Frac(m, e)
  BY DEF Plus
<1>3. n \in Int /\ d \in Nat \ {0} /\ n = m /\ d = e
  BY <1>1
<1>4. Frac(n, d) \in Fraction
  BY <1>3, FracFacts
<1>5. Plus(x, Whole(0)) = Frac(x[1] * 1 + 0 * x[2], x[2] * 1)
  BY DEF Plus, Whole
<1>6. x[1] * 1 + 0 * x[2] = x[1] /\ x[2] * 1 = x[2]
  BY <1>1
<1>7. Plus(x, Whole(0)) = x
  BY <1>1, <1>5, <1>6
<1> HIDE DEF n, m, d, e
<1> QED
  BY <1>2, <1>3, <1>4, <1>7

LEMMA PlusSwap ==
    ASSUME NEW x \in Fraction, NEW y \in Fraction, NEW z \in Fraction
    PROVE  Plus(x, Plus(y, z)) = Plus(y, Plus(x, z))
<1> DEFINE a == x[1] b == x[2] n == y[1] d == y[2] m == z[1] e == z[2]
<1>1. /\ a \in Int /\ b \in Nat \ {0} /\ x = Frac(a, b)
      /\ n \in Int /\ d \in Nat \ {0} /\ y = Frac(n, d)
      /\ m \in Int /\ e \in Nat \ {0} /\ z = Frac(m, e)
  BY FractionFrac
<1> HIDE DEF a, b, n, d, m, e
<1>2. /\ n * e + m * d \in Int /\ d * e \in Nat \ {0}
      /\ a * e + m * b \in Int /\ b * e \in Nat \ {0}
  BY <1>1
<1>3. Plus(y, z) = Frac(n * e + m * d, d * e) /\ Plus(x, z) = Frac(a * e + m * b, b * e)
  <2>1. Plus(Frac(n, d), Frac(m, e)) = Frac(n * e + m * d, d * e)
    BY ONLY <1>1, PlusFrac
  <2>2. Plus(Frac(a, b), Frac(m, e)) = Frac(a * e + m * b, b * e)
    BY ONLY <1>1, PlusFrac
  <2> QED
    BY ONLY <1>1, <2>1, <2>2
<1>4. Plus(x, Plus(y, z)) = Frac(a * (d * e) + (n * e + m * d) * b, b * (d * e))
  <2>1. \A s \in Int, t \in Nat \ {0} : Plus(x, Frac(s, t)) = Frac(a * t + s * b, b * t)
    BY <1>1, PlusFrac
  <2> QED
    BY <1>2, <1>3, <2>1
<1>6. Plus(y, Plus(x, z)) = Frac(n * (b * e) + (a * e + m * b) * d, d * (b * e))
  <2>1. \A s \in Int, t \in Nat \ {0} : Plus(y, Frac(s, t)) = Frac(n * t + s * d, d * t)
    BY <1>1, PlusFrac
  <2> QED
    BY <1>2, <1>3, <2>1
<1>5. /\ a * (d * e) + (n * e + m * d) * b = n * (b * e) + (a * e + m * b) * d
      /\ b * (d * e) = d * (b * e)
  BY <1>1
<1> QED
  BY <1>4, <1>5, <1>6

LEMMA TimesFacts ==
    ASSUME NEW x \in Fraction, NEW y \in Fraction
    PROVE  /\ Times(x, y) \in Fraction
           /\ Times(x, y) = Times(y, x)
           /\ Times(Whole(0), x) = Whole(0)
           /\ Times(Whole(1), x) = x
<1> DEFINE a == x[1] b == x[2] n == y[1] d == y[2]
<1>1. /\ a \in Int /\ b \in Nat \ {0} /\ x = Frac(a, b)
      /\ n \in Int /\ d \in Nat \ {0} /\ y = Frac(n, d)
  BY FractionFrac
<1>2. /\ Times(x, y) = Frac(a * n, b * d) /\ Times(y, x) = Frac(n * a, d * b)
      /\ Times(Whole(0), x) = Frac(0 * a, 1 * b)
      /\ Times(Whole(1), x) = Frac(1 * a, 1 * b)
  BY DEF Times, Whole
<1> HIDE DEF a, b, n, d
<1>3. a * n = n * a /\ b * d = d * b /\ 0 * a = 0 /\ 1 * b = b /\ 1 * a = a
  BY <1>1
<1>4. a * n \in Int /\ b * d \in Nat \ {0}
  BY <1>1
<1>5. Frac(a * n, b * d) \in Fraction
  BY <1>4, FracFacts
<1> QED
  BY <1>1, <1>2, <1>3, <1>5, FracZero

LEMMA TimesPlus ==
    ASSUME NEW x \in Fraction, NEW y \in Fraction, NEW z \in Fraction
    PROVE  Times(Plus(x, y), z) = Plus(Times(x, z), Times(y, z))
<1> DEFINE a == x[1] b == x[2] n == y[1] d == y[2] m == z[1] e == z[2]
<1>1. /\ a \in Int /\ b \in Nat \ {0} /\ x = Frac(a, b)
      /\ n \in Int /\ d \in Nat \ {0} /\ y = Frac(n, d)
      /\ m \in Int /\ e \in Nat \ {0} /\ z = Frac(m, e)
  BY FractionFrac
<1> HIDE DEF a, b, n, d, m, e
<1>2. /\ a * d + n * b \in Int /\ b * d \in Nat \ {0}
      /\ a * m \in Int /\ b * e \in Nat \ {0} /\ n * m \in Int /\ d * e \in Nat \ {0}
  BY <1>1
<1>3. /\ Plus(x, y) = Frac(a * d + n * b, b * d)
      /\ Times(x, z) = Frac(a * m, b * e) /\ Times(y, z) = Frac(n * m, d * e)
  <2>1. Plus(x, y) = Frac(a * d + n * b, b * d)
    BY <1>1, PlusFrac
  <2>2. Times(x, z) = Frac(a * m, b * e)
    BY <1>1, TimesFrac
  <2>3. Times(y, z) = Frac(n * m, d * e)
    BY <1>1, TimesFrac
  <2> QED
    BY <2>1, <2>2, <2>3
<1>4. /\ Times(Plus(x, y), z) = Frac((a * d + n * b) * m, (b * d) * e)
      /\ Plus(Times(x, z), Times(y, z))
           = Frac((a * m) * (d * e) + (n * m) * (b * e), (b * e) * (d * e))
  <2>1. \A s \in Int, t \in Nat \ {0} : Times(Frac(s, t), z) = Frac(s * m, t * e)
    BY <1>1, TimesFrac
  <2>2. \A s, u \in Int, t, v \in Nat \ {0} :
           Plus(Frac(s, t), Frac(u, v)) = Frac(s * v + u * t, t * v)
    BY PlusFrac
  <2> DEFINE s1 == a * m t1 == b * e u1 == n * m v1 == d * e
  <2>3. s1 \in Int /\ u1 \in Int /\ t1 \in Nat \ {0} /\ v1 \in Nat \ {0}
    BY <1>2
  <2>4. Times(x, z) = Frac(s1, t1) /\ Times(y, z) = Frac(u1, v1)
    BY <1>3
  <2> HIDE DEF s1, t1, u1, v1
  <2>5. Plus(Times(x, z), Times(y, z)) = Frac(s1 * v1 + u1 * t1, t1 * v1)
    BY <2>2, <2>3, <2>4
  <2>6. Times(Plus(x, y), z) = Frac((a * d + n * b) * m, (b * d) * e)
    BY <1>2, <1>3, <2>1
  <2> QED
    BY <2>5, <2>6 DEF s1, t1, u1, v1
<1>5. ((a * d + n * b) * m) * ((b * e) * (d * e))
        = ((a * m) * (d * e) + (n * m) * (b * e)) * ((b * d) * e)
  <2> DEFINE k == (b * d) * e
  <2>1. (b * e) * (d * e) = e * k
    BY <1>1
  <2>2. (a * m) * (d * e) + (n * m) * (b * e) = e * ((a * d + n * b) * m)
    BY <1>1
  <2>3. k \in Int /\ (a * d + n * b) * m \in Int
    BY <1>1
  <2> DEFINE l == (a * d + n * b) * m
  <2> HIDE DEF k, l
  <2>4. l * (e * k) = (e * l) * k
    BY <1>1, <2>3 DEF l
  <2> QED
    BY <2>1, <2>2, <2>4 DEF k, l
<1>6. /\ (a * d + n * b) * m \in Int /\ (b * d) * e \in Nat \ {0}
      /\ (a * m) * (d * e) + (n * m) * (b * e) \in Int /\ (b * e) * (d * e) \in Nat \ {0}
  BY <1>1
<1> QED
  BY <1>4, <1>5, <1>6, FracSame

\* What was added can be taken away.
LEMMA MinusPlus ==
    ASSUME NEW x \in Fraction, NEW y \in Fraction
    PROVE  Minus(Plus(x, y), x) = y /\ Minus(x, x) = Whole(0)
<1> DEFINE a == x[1] b == x[2] n == y[1] d == y[2]
<1>1. /\ a \in Int /\ b \in Nat \ {0} /\ x = Frac(a, b)
      /\ n \in Int /\ d \in Nat \ {0} /\ y = Frac(n, d)
  BY FractionFrac
<1> HIDE DEF a, b, n, d
<1>2. a * d + n * b \in Int /\ b * d \in Nat \ {0}
  BY <1>1
<1>3. Plus(x, y) = Frac(a * d + n * b, b * d)
  BY <1>1, PlusFrac
<1>4. Minus(Plus(x, y), x) = Frac((a * d + n * b) * b - a * (b * d), (b * d) * b)
  BY <1>1, <1>2, <1>3, MinusFrac
<1>5. ((a * d + n * b) * b - a * (b * d)) * d = n * ((b * d) * b)
  BY <1>1
<1>6. (a * d + n * b) * b - a * (b * d) \in Int /\ (b * d) * b \in Nat \ {0}
  BY <1>1
<1>7. Minus(Plus(x, y), x) = y
  BY <1>1, <1>4, <1>5, <1>6, FracSame
<1>8. Minus(x, x) = Frac(a * b - a * b, b * b)
  BY <1>1, MinusFrac
<1>9. a * b - a * b = 0 /\ b * b \in Nat \ {0}
  BY <1>1
<1> QED
  BY <1>7, <1>8, <1>9, FracZero

LEMMA TimesFour ==
    ASSUME NEW x \in Fraction, NEW y \in Fraction, NEW z \in Fraction
    PROVE  Times(Times(x, y), z) = Times(Times(x, z), y)
<1> DEFINE a == x[1] b == x[2] n == y[1] d == y[2] m == z[1] e == z[2]
<1>1. /\ a \in Int /\ b \in Nat \ {0} /\ x = Frac(a, b)
      /\ n \in Int /\ d \in Nat \ {0} /\ y = Frac(n, d)
      /\ m \in Int /\ e \in Nat \ {0} /\ z = Frac(m, e)
  BY FractionFrac
<1> HIDE DEF a, b, n, d, m, e
<1>2. /\ a * n \in Int /\ b * d \in Nat \ {0} /\ a * m \in Int /\ b * e \in Nat \ {0}
  BY <1>1
<1>3. Times(x, y) = Frac(a * n, b * d)
  BY <1>1, TimesFrac
<1>4. Times(x, z) = Frac(a * m, b * e)
  BY <1>1, TimesFrac
<1>5. Times(Times(x, y), z) = Frac((a * n) * m, (b * d) * e)
  <2>1. \A s \in Int, t \in Nat \ {0} : Times(Frac(s, t), z) = Frac(s * m, t * e)
    BY <1>1, TimesFrac
  <2> QED
    BY <1>2, <1>3, <2>1
<1>6. Times(Times(x, z), y) = Frac((a * m) * n, (b * e) * d)
  <2>1. \A s \in Int, t \in Nat \ {0} : Times(Frac(s, t), y) = Frac(s * n, t * d)
    BY <1>1, TimesFrac
  <2> QED
    BY <1>2, <1>4, <2>1
<1>7. (a * n) * m = (a * m) * n /\ (b * d) * e = (b * e) * d
  BY <1>1
<1> QED
  BY <1>5, <1>6, <1>7

-----------------------------------------------------------------------------
(* Sums of fractions.                                                      *)

AddFrac == [p \in Fraction \X Fraction |-> Plus(p[1], p[2])]

LEMMA AddFracCombines == Combines(AddFrac, Whole(0), Fraction)
<1>1. AddFrac \in [Fraction \X Fraction -> Fraction]
  BY PlusFacts DEF AddFrac
<1>2. \A x, y \in Fraction : AddFrac[<<x, y>>] = Plus(x, y) /\ Plus(x, y) \in Fraction
  BY PlusFacts DEF AddFrac
<1>3. ASSUME NEW x \in Fraction, NEW y \in Fraction, NEW z \in Fraction
      PROVE  AddFrac[<<x, AddFrac[<<y, z>>]>>] = AddFrac[<<y, AddFrac[<<x, z>>]>>]
  BY <1>2, PlusSwap
<1>4. Whole(0) \in Fraction
  BY FracOne
<1> QED
  BY <1>1, <1>3, <1>4 DEF Combines

LEMMA SumOfIsFold ==
    ASSUME NEW S, IsFiniteSet(S), NEW f, \A x \in S : f[x] \in Fraction
    PROVE  \E g : IsFold(g, AddFrac, Whole(0), f, S) /\ SumOf(f, S) = g[S]
<1> DEFINE Is(g) == g = [s \in SUBSET S |->
                           IF s = {} THEN Whole(0) ELSE Plus(f[Pick(s)], g[s \ {Pick(s)}])]
<1>1. PICK g \in [SUBSET S -> Fraction] : IsFold(g, AddFrac, Whole(0), f, S)
  BY AddFracCombines, FoldExists
<1>2. Is(g)
  <2>1. ASSUME NEW s \in SUBSET S
        PROVE  g[s] = IF s = {} THEN Whole(0) ELSE Plus(f[Pick(s)], g[s \ {Pick(s)}])
    <3>1. CASE s = {}
      BY <1>1, <3>1 DEF IsFold
    <3>2. CASE s # {}
      <4>1. Pick(s) \in S /\ s \ {Pick(s)} \in SUBSET S
        BY <3>2 DEF Pick
      <4>2. f[Pick(s)] \in Fraction /\ g[s \ {Pick(s)}] \in Fraction
        BY <1>1, <4>1
      <4>3. g[s] = AddFrac[<<f[Pick(s)], g[s \ {Pick(s)}]>>]
        BY <1>1, <3>2 DEF IsFold
      <4> QED
        BY <3>2, <4>2, <4>3 DEF AddFrac
    <3> QED
      BY <3>1, <3>2
  <2> QED
    BY <1>1, <2>1
<1>3. SumOf(f, S) = (CHOOSE h : Is(h))[S]
  BY DEF SumOf, MapThenFoldSet, Pick
<1> DEFINE h == CHOOSE k : Is(k)
<1>4. Is(h)
  BY <1>2
<1>5. SumOf(f, S) = h[S]
  BY <1>3
<1> HIDE DEF h
<1>6. \A s \in SUBSET S :
         h[s] = IF s = {} THEN Whole(0) ELSE Plus(f[Pick(s)], h[s \ {Pick(s)}])
  BY <1>4
<1>7. \A s \in SUBSET S : h[s] = g[s]
  <2> DEFINE B == {s \in SUBSET S : h[s] # g[s]}
  <2> SUFFICES ASSUME B # {} PROVE FALSE
    OBVIOUS
  <2>1. PICK s \in B : \A t \in B : Cardinality(s) <= Cardinality(t)
    BY SmallestSet
  <2>2. \A t \in SUBSET S :
           g[t] = IF t = {} THEN Whole(0) ELSE Plus(f[Pick(t)], g[t \ {Pick(t)}])
    BY <1>2
  <2>3. s # {}
    BY <1>6, <2>1, <2>2
  <2>4. Pick(s) \in s
    BY <2>3 DEF Pick
  <2>5. /\ s \ {Pick(s)} \in SUBSET S /\ Cardinality(s) \in Nat
        /\ Cardinality(s \ {Pick(s)}) = Cardinality(s) - 1
    BY <2>4, OneLess
  <2>6. h[s \ {Pick(s)}] = g[s \ {Pick(s)}]
    BY <2>1, <2>5
  <2> QED
    BY <1>6, <2>1, <2>2, <2>3, <2>6
<1>8. IsFold(h, AddFrac, Whole(0), f, S)
  BY <1>1, <1>7 DEF IsFold
<1> QED
  BY <1>5, <1>8

LEMMA SumEmpty == ASSUME NEW f PROVE SumOf(f, {}) = Whole(0)
<1>1. IsFiniteSet({}) /\ \A x \in {} : f[x] \in Fraction
  BY FS_EmptySet
<1>2. PICK g : IsFold(g, AddFrac, Whole(0), f, {}) /\ SumOf(f, {}) = g[{}]
  BY <1>1, SumOfIsFold
<1> QED
  BY <1>2 DEF IsFold

LEMMA SumStep ==
    ASSUME NEW S, IsFiniteSet(S), NEW f, \A x \in S : f[x] \in Fraction
    PROVE  /\ SumOf(f, S) \in Fraction
           /\ \A x \in S : SumOf(f, S) = Plus(f[x], SumOf(f, S \ {x}))
<1>1. PICK g : IsFold(g, AddFrac, Whole(0), f, S) /\ SumOf(f, S) = g[S]
  BY SumOfIsFold
<1>2. \A s \in SUBSET S :
         g[s] \in Fraction /\ \A x \in s : g[s] = AddFrac[<<f[x], g[s \ {x}]>>]
  BY <1>1, AddFracCombines, FoldAnyOrder
<1>3. ASSUME NEW x \in S PROVE SumOf(f, S) = Plus(f[x], SumOf(f, S \ {x}))
  <2> DEFINE r == S \ {x}
  <2>1. IsFiniteSet(r) /\ r \in SUBSET S
    BY FS_RemoveElement
  <2>2. PICK h : IsFold(h, AddFrac, Whole(0), f, r) /\ SumOf(f, r) = h[r]
    BY <2>1, SumOfIsFold
  <2>3. IsFold(g, AddFrac, Whole(0), f, r)
    BY <1>1, <2>1 DEF IsFold
  <2>4. g[r] = h[r]
    BY <2>1, <2>2, <2>3, FoldUnique
  <2>5. g[S] = AddFrac[<<f[x], g[r]>>] /\ g[r] \in Fraction
    BY <1>2, <2>1
  <2> QED
    BY <1>1, <2>2, <2>4, <2>5 DEF AddFrac
<1> QED
  BY <1>1, <1>2, <1>3

LEMMA SumSame ==
    ASSUME NEW S, IsFiniteSet(S), NEW f, NEW k, \A x \in S : f[x] \in Fraction /\ k[x] = f[x]
    PROVE  SumOf(f, S) = SumOf(k, S)
<1>1. PICK g : IsFold(g, AddFrac, Whole(0), f, S) /\ SumOf(f, S) = g[S]
  BY SumOfIsFold
<1>2. PICK h : IsFold(h, AddFrac, Whole(0), k, S) /\ SumOf(k, S) = h[S]
  BY SumOfIsFold
<1> QED
  BY <1>1, <1>2, FoldUnique

\* One more term.
LEMMA SumAdd ==
    ASSUME NEW S, IsFiniteSet(S), NEW x, x \notin S, NEW f, \A y \in S \cup {x} : f[y] \in Fraction
    PROVE  SumOf(f, S \cup {x}) = Plus(SumOf(f, S), f[x])
<1>1. IsFiniteSet(S \cup {x}) /\ (S \cup {x}) \ {x} = S
  BY FS_AddElement
<1>2. SumOf(f, S \cup {x}) = Plus(f[x], SumOf(f, S)) /\ SumOf(f, S) \in Fraction
  BY <1>1, SumStep
<1> QED
  BY <1>2, PlusFacts

\* One term that grows.
LEMMA SumGrow ==
    ASSUME NEW S, IsFiniteSet(S), NEW f, NEW k, NEW x \in S, NEW c \in Fraction,
           \A y \in S : f[y] \in Fraction,
           \A y \in S \ {x} : k[y] = f[y],
           k[x] = Plus(f[x], c)
    PROVE  SumOf(k, S) = Plus(SumOf(f, S), c)
<1> DEFINE r == S \ {x}
<1>1. IsFiniteSet(r)
  BY FS_RemoveElement
<1>2. k[x] \in Fraction /\ \A y \in S : k[y] \in Fraction
  BY PlusFacts
<1>3. SumOf(f, r) = SumOf(k, r)
  BY <1>1, SumSame
<1>4. SumOf(f, r) \in Fraction
  BY <1>1, SumStep
<1>5. SumOf(k, S) = Plus(k[x], SumOf(k, r)) /\ SumOf(f, S) = Plus(f[x], SumOf(f, r))
  BY <1>2, SumStep
<1> HIDE DEF r
<1> DEFINE a == f[x]
           b == SumOf(f, r)
<1>6. a \in Fraction /\ b \in Fraction
  BY <1>4
<1>7. SumOf(k, S) = Plus(Plus(c, a), b) /\ SumOf(f, S) = Plus(a, b)
  BY <1>3, <1>5, <1>6, PlusFacts
<1> HIDE DEF a, b
<1>8. Plus(b, Plus(c, a)) = Plus(c, Plus(b, a))
  BY <1>6, PlusSwap
<1>9. Plus(Plus(c, a), b) = Plus(Plus(a, b), c)
  BY <1>6, <1>8, PlusFacts
<1> QED
  BY <1>7, <1>9

LEMMA SumZero ==
    ASSUME NEW S, IsFiniteSet(S), NEW f, \A x \in S : f[x] = Whole(0)
    PROVE  SumOf(f, S) = Whole(0)
<1> DEFINE B == {s \in SUBSET S : SumOf(f, s) # Whole(0)}
<1> SUFFICES ASSUME B # {} PROVE FALSE
  OBVIOUS
<1>1. PICK s \in B : \A t \in B : Cardinality(s) <= Cardinality(t)
  BY SmallestSet
<1>2. PICK x \in s : TRUE
  BY <1>1, SumEmpty
<1>3. /\ IsFiniteSet(s) /\ s \ {x} \in SUBSET S /\ Cardinality(s) \in Nat
      /\ Cardinality(s \ {x}) = Cardinality(s) - 1
  BY <1>1, OneLess
<1>4. SumOf(f, s \ {x}) = Whole(0)
  BY <1>1, <1>3
<1>5. Whole(0) \in Fraction
  BY FracOne
<1>6. SumOf(f, s) = Plus(f[x], SumOf(f, s \ {x}))
  BY <1>1, <1>3, <1>5, SumStep
<1> QED
  BY <1>1, <1>4, <1>5, <1>6, PlusFacts

\* Terms that are zero can be left out of a sum.
LEMMA SumWithout ==
    ASSUME NEW S, IsFiniteSet(S), NEW T \in SUBSET S, NEW f,
           \A x \in S : f[x] \in Fraction, \A x \in S \ T : f[x] = Whole(0)
    PROVE  SumOf(f, S) = SumOf(f, T)
<1> DEFINE B == {s \in SUBSET (S \ T) : SumOf(f, T \cup s) # SumOf(f, T)}
<1>0. IsFiniteSet(S \ T) /\ IsFiniteSet(T)
  BY FS_Subset
<1>1. B = {}
  <2> SUFFICES ASSUME B # {} PROVE FALSE
    OBVIOUS
  <2>1. PICK s \in B : \A t \in B : Cardinality(s) <= Cardinality(t)
    BY <1>0, SmallestSet
  <2>2. PICK x \in s : TRUE
    <3>1. ASSUME s = {} PROVE FALSE
      <4>1. T \cup s = T
        BY <3>1
      <4> QED
        BY <2>1, <4>1
    <3> QED
      BY <3>1
  <2> DEFINE r == s \ {x}
  <2>3. /\ r \in SUBSET (S \ T) /\ Cardinality(s) \in Nat /\ Cardinality(r) = Cardinality(s) - 1
    BY <1>0, <2>1, OneLess
  <2>4. r \notin B
    BY <2>1, <2>3
  <2>5. SumOf(f, T \cup r) = SumOf(f, T)
    BY <2>3, <2>4
  <2>6. s \in SUBSET (S \ T)
    BY <2>1
  <2>7. /\ T \cup s = (T \cup r) \cup {x} /\ x \notin T \cup r /\ x \in S \ T
        /\ T \cup r \in SUBSET S
    BY <2>2, <2>6
  <2>8. IsFiniteSet(T \cup r) /\ \A y \in (T \cup r) \cup {x} : f[y] \in Fraction
    BY <2>7, FS_Subset
  <2>9. SumOf(f, T \cup s) = Plus(SumOf(f, T \cup r), f[x])
    BY <2>7, <2>8, SumAdd
  <2>10. SumOf(f, T \cup r) \in Fraction /\ f[x] = Whole(0)
    BY <2>7, <2>8, SumStep
  <2>11. Plus(SumOf(f, T \cup r), Whole(0)) = SumOf(f, T \cup r)
    BY <2>10, FracOne, PlusFacts
  <2>12. SumOf(f, T \cup s) = SumOf(f, T)
    BY <2>5, <2>9, <2>10, <2>11
  <2> QED
    BY <2>1, <2>12
<1>2. S \ T \notin B
  BY <1>1
<1>3. T \cup (S \ T) = S
  OBVIOUS
<1> QED
  BY <1>2, <1>3

\* A sum over the part of a set where the terms are those of w.
LEMMA SumOver ==
    ASSUME NEW S, IsFiniteSet(S), NEW T \in SUBSET S, NEW f, NEW w,
           \A x \in S : w[x] \in Fraction,
           \A x \in S : f[x] = IF x \in T THEN w[x] ELSE Whole(0)
    PROVE  SumOf(f, S) = SumOf(w, T) /\ SumOf(w, T) \in Fraction
<1>1. Whole(0) \in Fraction
  BY FracOne
<1>2. /\ \A x \in S : f[x] \in Fraction
      /\ \A x \in S \ T : f[x] = Whole(0)
  BY <1>1
<1>3. SumOf(f, S) = SumOf(f, T)
  BY <1>2, SumWithout
<1>4. IsFiniteSet(T) /\ \A x \in T : w[x] \in Fraction /\ f[x] = w[x]
  BY FS_Subset
<1>5. SumOf(w, T) = SumOf(f, T) /\ SumOf(w, T) \in Fraction
  BY <1>4, SumSame, SumStep
<1> QED
  BY <1>3, <1>5

\* The same terms under other names.
LEMMA SumRename ==
    ASSUME NEW S, IsFiniteSet(S), NEW T, IsFiniteSet(T), NEW f, NEW k, NEW h,
           \A x \in S : f[x] \in Fraction /\ h[x] \in T /\ k[h[x]] = f[x],
           \A x, y \in S : h[x] = h[y] => x = y,
           \A z \in T : \E x \in S : h[x] = z
    PROVE  SumOf(f, S) = SumOf(k, T)
<1> DEFINE Onto(s) == {h[x] : x \in s}
           B == {s \in SUBSET S : SumOf(f, s) # SumOf(k, Onto(s))}
<1>1. Onto(S) = T
  OBVIOUS
<1>2. B = {}
  <2> SUFFICES ASSUME B # {} PROVE FALSE
    OBVIOUS
  <2>1. PICK s \in B : \A t \in B : Cardinality(s) <= Cardinality(t)
    BY SmallestSet
  <2>2. s # {}
    <3>1. ASSUME s = {} PROVE FALSE
      <4>1. Onto(s) = {}
        BY <3>1
      <4> QED
        BY <2>1, <3>1, <4>1, SumEmpty
    <3> QED
      BY <3>1
  <2>3. PICK x \in s : TRUE
    BY <2>2
  <2>4. /\ IsFiniteSet(s) /\ s \ {x} \in SUBSET S /\ Cardinality(s) \in Nat
        /\ Cardinality(s \ {x}) = Cardinality(s) - 1
    BY <2>1, OneLess
  <2>5. SumOf(f, s \ {x}) = SumOf(k, Onto(s \ {x}))
    BY <2>1, <2>4
  <2>6. Onto(s \ {x}) = Onto(s) \ {h[x]} /\ h[x] \in Onto(s) /\ Onto(s) \in SUBSET T
    BY <2>1
  <2>7. SumOf(f, s) = Plus(f[x], SumOf(f, s \ {x}))
    BY <2>1, <2>4, SumStep
  <2>8. SumOf(k, Onto(s)) = Plus(k[h[x]], SumOf(k, Onto(s) \ {h[x]}))
    <3>1. IsFiniteSet(Onto(s)) /\ \A z \in Onto(s) : k[z] \in Fraction
      BY <2>1, <2>6, FS_Subset
    <3> HIDE DEF Onto
    <3> QED
      BY <2>6, <3>1, SumStep
  <2> QED
    BY <2>1, <2>5, <2>6, <2>7, <2>8
<1> QED
  BY <1>1, <1>2

-----------------------------------------------------------------------------
(* Fractions over one denominator, for longer computations.                *)

LEMMA FracExpand ==
    ASSUME NEW a \in Int, NEW d \in Nat \ {0}, NEW k \in Nat \ {0}
    PROVE  Frac(a * k, d * k) = Frac(a, d) /\ Frac(a, d) \in Fraction
<1> DEFINE n == a * k
           e == d * k
<1>1. n \in Int /\ e \in Nat \ {0} /\ n * d = a * e
  OBVIOUS
<1> HIDE DEF n, e
<1>2. Frac(n, e) = Frac(a, d)
  BY <1>1, FracSame
<1> QED
  BY <1>2, FracFacts DEF n, e

LEMMA FracSums ==
    ASSUME NEW a \in Int, NEW b \in Int, NEW d \in Nat \ {0}
    PROVE  /\ Plus(Frac(a, d), Frac(b, d)) = Frac(a + b, d)
           /\ Minus(Frac(a, d), Frac(b, d)) = Frac(a - b, d)
<1>1. /\ Plus(Frac(a, d), Frac(b, d)) = Frac(a * d + b * d, d * d)
      /\ Minus(Frac(a, d), Frac(b, d)) = Frac(a * d - b * d, d * d)
  BY PlusFrac, MinusFrac
<1>2. a * d + b * d = (a + b) * d /\ a * d - b * d = (a - b) * d
  OBVIOUS
<1>3. a + b \in Int /\ a - b \in Int
  OBVIOUS
<1> DEFINE s == a + b
           t == a - b
<1> HIDE DEF s, t
<1>4. s \in Int /\ t \in Int
  BY <1>3 DEF s, t
<1>5. Frac(s * d, d * d) = Frac(s, d) /\ Frac(t * d, d * d) = Frac(t, d)
  BY <1>4, FracExpand
<1> QED
  BY <1>1, <1>2, <1>5 DEF s, t

LEMMA FracMultiples ==
    ASSUME NEW k \in Int, NEW a \in Int, NEW d \in Nat \ {0}
    PROVE  Times(Whole(k), Frac(a, d)) = Frac(k * a, d)
<1>1. Times(Frac(k, 1), Frac(a, d)) = Frac(k * a, 1 * d)
  BY TimesFrac
<1> QED
  BY <1>1, FracOne

LEMMA WholePlus ==
    ASSUME NEW n \in Int, NEW m \in Int
    PROVE  Plus(Whole(n), Whole(m)) = Whole(n + m)
<1>1. Plus(Frac(n, 1), Frac(m, 1)) = Frac(n + m, 1)
  BY FracSums
<1>2. \A k \in Int : Frac(k, 1) = Whole(k)
  BY FracOne
<1>3. n + m \in Int
  OBVIOUS
<1> QED
  BY <1>1, <1>2, <1>3

LEMMA FracDivided ==
    ASSUME NEW a \in Int, NEW d \in Nat \ {0}, NEW k \in Nat \ {0}
    PROVE  DividedBy(Frac(a, d), k) = Frac(a, d * k)
<1> DEFINE p == Frac(a, d)[1]
           q == Frac(a, d)[2]
<1>1. p \in Int /\ q \in Nat \ {0} /\ p * d = a * q
  BY FracFacts
<1>2. DividedBy(Frac(a, d), k) = Frac(p, q * k)
  BY DEF DividedBy
<1> HIDE DEF p, q
<1>3. q * k \in Nat \ {0} /\ d * k \in Nat \ {0}
  BY <1>1
<1>4. p * (d * k) = a * (q * k)
  <2>1. p * (d * k) = (p * d) * k
    BY <1>1
  <2>2. a * (q * k) = (a * q) * k
    BY <1>1
  <2> QED
    BY <1>1, <2>1, <2>2
<1> DEFINE e == q * k
           g == d * k
<1>5. p \in Int /\ e \in Nat \ {0} /\ a \in Int /\ g \in Nat \ {0} /\ p * g = a * e
  BY <1>1, <1>3, <1>4
<1> HIDE DEF e, g
<1>6. Frac(p, e) = Frac(a, g)
  BY ONLY <1>5, FracSame
<1> QED
  BY <1>2, <1>6 DEF e, g

\* A fraction whose denominator is a multiple of d's.
Over(x, d) == \E a \in Int : x = Frac(a, d)

LEMMA OverOne ==
    ASSUME NEW x \in Fraction, NEW y \in Fraction, NEW z \in Fraction
    PROVE  \E d \in Nat \ {0} : Over(x, d) /\ Over(y, d) /\ Over(z, d)
<1> DEFINE a == x[1] b == x[2] n == y[1] d == y[2] m == z[1] e == z[2]
<1>1. /\ a \in Int /\ b \in Nat \ {0} /\ x = Frac(a, b)
      /\ n \in Int /\ d \in Nat \ {0} /\ y = Frac(n, d)
      /\ m \in Int /\ e \in Nat \ {0} /\ z = Frac(m, e)
  BY FractionFrac
<1> HIDE DEF a, b, n, d, m, e
<1>2. d * e \in Nat \ {0} /\ b * e \in Nat \ {0} /\ b * d \in Nat \ {0}
      /\ b * (d * e) = d * (b * e) /\ b * (d * e) = e * (b * d)
      /\ b * (d * e) \in Nat \ {0}
      /\ a * (d * e) \in Int /\ n * (b * e) \in Int /\ m * (b * d) \in Int
  BY <1>1
<1>3. \A s \in Int, t \in Nat \ {0}, k \in Nat \ {0} : Frac(s * k, t * k) = Frac(s, t)
  BY FracExpand
<1>4. /\ Frac(a * (d * e), b * (d * e)) = x
      /\ Frac(n * (b * e), d * (b * e)) = y
      /\ Frac(m * (b * d), e * (b * d)) = z
  BY <1>1, <1>2, <1>3
<1>5. Over(x, b * (d * e)) /\ Over(y, b * (d * e)) /\ Over(z, b * (d * e))
  BY <1>2, <1>4 DEF Over
<1> QED
  BY <1>2, <1>5

LEMMA MinusFacts ==
    ASSUME NEW x \in Fraction, NEW y \in Fraction
    PROVE  Minus(x, y) \in Fraction
<1>1. x[1] \in Int /\ x[2] \in Nat \ {0} /\ y[1] \in Int /\ y[2] \in Nat \ {0}
  BY FractionFrac
<1>2. x[1] * y[2] - y[1] * x[2] \in Int /\ x[2] * y[2] \in Nat \ {0}
  BY <1>1
<1>3. Frac(x[1] * y[2] - y[1] * x[2], x[2] * y[2]) \in Fraction
  BY <1>2, FracFacts
<1> QED
  BY <1>3 DEF Minus

LEMMA PlusFour ==
    ASSUME NEW a \in Fraction, NEW b \in Fraction, NEW c \in Fraction, NEW d \in Fraction
    PROVE  /\ Plus(Plus(a, b), c) = Plus(a, Plus(b, c))
           /\ Plus(Plus(a, b), Plus(c, d)) = Plus(Plus(a, c), Plus(b, d))
<1>1. \A x, y \in Fraction : Plus(x, y) \in Fraction /\ Plus(x, y) = Plus(y, x)
  BY PlusFacts
<1>2. \A x, y, z \in Fraction : Plus(x, Plus(y, z)) = Plus(y, Plus(x, z))
  BY PlusSwap
<1>3. \A x, y, z \in Fraction : Plus(Plus(x, y), z) = Plus(x, Plus(y, z))
  <2> SUFFICES ASSUME NEW x \in Fraction, NEW y \in Fraction, NEW z \in Fraction
               PROVE  Plus(Plus(x, y), z) = Plus(x, Plus(y, z))
    OBVIOUS
  <2>1. Plus(Plus(x, y), z) = Plus(z, Plus(x, y))
    BY <1>1
  <2>2. Plus(z, Plus(x, y)) = Plus(x, Plus(z, y))
    BY <1>2
  <2> QED
    BY <1>1, <2>1, <2>2
<1>4. Plus(Plus(a, b), Plus(c, d)) = Plus(a, Plus(b, Plus(c, d)))
  BY <1>1, <1>3
<1>5. Plus(Plus(a, c), Plus(b, d)) = Plus(a, Plus(c, Plus(b, d)))
  BY <1>1, <1>3
<1>6. Plus(b, Plus(c, d)) = Plus(c, Plus(b, d))
  BY <1>2
<1> QED
  BY <1>3, <1>4, <1>5, <1>6

\* Sums of sums, of multiples, and of whole numbers.
LEMMA SumPlus ==
    ASSUME NEW S, IsFiniteSet(S), NEW f, NEW k, NEW h,
           \A x \in S : f[x] \in Fraction /\ k[x] \in Fraction /\ h[x] = Plus(f[x], k[x])
    PROVE  SumOf(h, S) = Plus(SumOf(f, S), SumOf(k, S))
<1> DEFINE B == {s \in SUBSET S : SumOf(h, s) # Plus(SumOf(f, s), SumOf(k, s))}
<1> SUFFICES ASSUME B # {} PROVE FALSE
  OBVIOUS
<1>1. PICK s \in B : \A t \in B : Cardinality(s) <= Cardinality(t)
  BY SmallestSet
<1>2. PICK x \in s : TRUE
  <2>1. ASSUME s = {} PROVE FALSE
    <3>1. Whole(0) \in Fraction
      BY FracOne
    <3> QED
      BY <1>1, <2>1, <3>1, SumEmpty, PlusFacts
  <2> QED
    BY <2>1
<1>3. /\ IsFiniteSet(s) /\ s \ {x} \in SUBSET S /\ Cardinality(s) \in Nat
      /\ IsFiniteSet(s \ {x}) /\ Cardinality(s \ {x}) = Cardinality(s) - 1
  BY <1>1, OneLess
<1> DEFINE r == s \ {x}
<1>4. SumOf(h, r) = Plus(SumOf(f, r), SumOf(k, r))
  BY <1>1, <1>3
<1>5. \A y \in s : f[y] \in Fraction /\ k[y] \in Fraction /\ h[y] \in Fraction
  BY <1>1, PlusFacts
<1>6. SumOf(f, r) \in Fraction /\ SumOf(k, r) \in Fraction
  BY <1>3, <1>5, SumStep
<1>7. SumOf(f, s) = Plus(f[x], SumOf(f, r)) /\ SumOf(k, s) = Plus(k[x], SumOf(k, r))
      /\ SumOf(h, s) = Plus(h[x], SumOf(h, r))
  BY <1>3, <1>5, SumStep
<1> HIDE DEF r
<1>8. Plus(Plus(f[x], k[x]), Plus(SumOf(f, r), SumOf(k, r)))
        = Plus(Plus(f[x], SumOf(f, r)), Plus(k[x], SumOf(k, r)))
  BY <1>5, <1>6, PlusFour
<1> QED
  BY <1>1, <1>4, <1>7, <1>8

LEMMA SumMultiple ==
    ASSUME NEW S, IsFiniteSet(S), NEW f, NEW h, NEW c \in Fraction,
           \A x \in S : f[x] \in Fraction /\ h[x] = Times(f[x], c)
    PROVE  SumOf(h, S) = Times(SumOf(f, S), c)
<1> DEFINE B == {s \in SUBSET S : SumOf(h, s) # Times(SumOf(f, s), c)}
<1> SUFFICES ASSUME B # {} PROVE FALSE
  OBVIOUS
<1>1. PICK s \in B : \A t \in B : Cardinality(s) <= Cardinality(t)
  BY SmallestSet
<1>2. PICK x \in s : TRUE
  <2>1. ASSUME s = {} PROVE FALSE
    BY <1>1, <2>1, SumEmpty, TimesFacts
  <2> QED
    BY <2>1
<1>3. /\ IsFiniteSet(s) /\ s \ {x} \in SUBSET S /\ Cardinality(s) \in Nat
      /\ IsFiniteSet(s \ {x}) /\ Cardinality(s \ {x}) = Cardinality(s) - 1
  BY <1>1, OneLess
<1> DEFINE r == s \ {x}
<1>4. SumOf(h, r) = Times(SumOf(f, r), c)
  BY <1>1, <1>3
<1>5. \A y \in s : f[y] \in Fraction /\ h[y] \in Fraction
  BY <1>1, TimesFacts
<1>6. SumOf(f, r) \in Fraction
  BY <1>3, <1>5, SumStep
<1>7. SumOf(f, s) = Plus(f[x], SumOf(f, r)) /\ SumOf(h, s) = Plus(h[x], SumOf(h, r))
  BY <1>3, <1>5, SumStep
<1> HIDE DEF r
<1>8. Times(Plus(f[x], SumOf(f, r)), c) = Plus(Times(f[x], c), Times(SumOf(f, r), c))
  BY <1>5, <1>6, TimesPlus
<1> QED
  BY <1>1, <1>4, <1>7, <1>8

LEMMA SumWhole ==
    ASSUME NEW S, IsFiniteSet(S), NEW f, NEW h,
           \A x \in S : f[x] \in Nat /\ h[x] = Whole(f[x])
    PROVE  SumOf(h, S) = Whole(Total(f, S))
<1> DEFINE B == {s \in SUBSET S : SumOf(h, s) # Whole(Total(f, s))}
<1> SUFFICES ASSUME B # {} PROVE FALSE
  OBVIOUS
<1>1. PICK s \in B : \A t \in B : Cardinality(s) <= Cardinality(t)
  BY SmallestSet
<1>2. PICK x \in s : TRUE
  <2>1. ASSUME s = {} PROVE FALSE
    BY <1>1, <2>1, SumEmpty, TotalEmpty
  <2> QED
    BY <2>1
<1>3. /\ IsFiniteSet(s) /\ s \ {x} \in SUBSET S /\ Cardinality(s) \in Nat
      /\ IsFiniteSet(s \ {x}) /\ Cardinality(s \ {x}) = Cardinality(s) - 1
  BY <1>1, OneLess
<1> DEFINE r == s \ {x}
<1>4. SumOf(h, r) = Whole(Total(f, r))
  BY <1>1, <1>3
<1>5. \A y \in s : f[y] \in Nat /\ h[y] \in Fraction
  BY <1>1, FracOne
<1>6. Total(f, r) \in Nat /\ Total(f, s) = f[x] + Total(f, r)
  BY <1>3, <1>5, TotalStep
<1>7. SumOf(h, s) = Plus(h[x], SumOf(h, r))
  BY <1>3, <1>5, SumStep
<1> HIDE DEF r
<1> DEFINE n == f[x]
           m == Total(f, r)
<1>8. n \in Nat /\ m \in Nat /\ h[x] = Whole(n)
  BY <1>1, <1>5, <1>6
<1> HIDE DEF n, m
<1>9. Plus(Whole(n), Whole(m)) = Whole(n + m)
  BY <1>8, WholePlus
<1> QED
  BY <1>1, <1>4, <1>6, <1>7, <1>8, <1>9 DEF n, m

\* A part of a sum of smaller numbers is smaller.
LEMMA TotalLeq ==
    ASSUME NEW S, IsFiniteSet(S), NEW T \in SUBSET S, NEW f, NEW k,
           \A x \in S : f[x] \in Nat /\ k[x] \in Nat /\ f[x] <= k[x]
    PROVE  Total(f, T) <= Total(k, S)
<1> DEFINE B == {s \in SUBSET S : ~ Total(f, s \cap T) <= Total(k, s)}
<1>0. B = {}
  <2> SUFFICES ASSUME B # {} PROVE FALSE
    OBVIOUS
  <2>1. PICK s \in B : \A t \in B : Cardinality(s) <= Cardinality(t)
    BY SmallestSet
  <2>2. PICK x \in s : TRUE
    <3>1. ASSUME s = {} PROVE FALSE
      <4>1. s \cap T = {}
        BY <3>1
      <4> QED
        BY <2>1, <3>1, <4>1, TotalEmpty
    <3> QED
      BY <3>1
  <2>3. /\ IsFiniteSet(s) /\ s \ {x} \in SUBSET S /\ Cardinality(s) \in Nat
        /\ IsFiniteSet(s \ {x}) /\ Cardinality(s \ {x}) = Cardinality(s) - 1
    BY <2>1, OneLess
  <2>4. Total(f, (s \ {x}) \cap T) <= Total(k, s \ {x})
    BY <2>1, <2>3
  <2>5. /\ Total(k, s \ {x}) \in Nat /\ Total(k, s) = k[x] + Total(k, s \ {x})
    BY <2>1, <2>3, TotalStep
  <2>6. IsFiniteSet(s \cap T) /\ IsFiniteSet((s \ {x}) \cap T)
    BY <2>3, FS_Intersection
  <2>7. Total(f, (s \ {x}) \cap T) \in Nat
    BY <2>1, <2>6, TotalStep
  <2>8. CASE x \in T
    <3>1. x \in s \cap T /\ (s \cap T) \ {x} = (s \ {x}) \cap T
      BY <2>8
    <3>2. Total(f, s \cap T) = f[x] + Total(f, (s \ {x}) \cap T)
      BY <2>1, <2>6, <3>1, TotalStep
    <3> QED
      BY <2>1, <2>4, <2>5, <2>7, <3>2
  <2>9. CASE x \notin T
    <3>1. s \cap T = (s \ {x}) \cap T
      BY <2>9
    <3> QED
      BY <2>1, <2>4, <2>5, <2>7, <3>1
  <2> QED
    BY <2>8, <2>9
<1>1. S \notin B /\ S \cap T = T
  BY <1>0
<1> QED
  BY <1>1

\* More of one element.
LEMMA TotalGrow ==
    ASSUME NEW S, IsFiniteSet(S), NEW f, NEW k, NEW x \in S, NEW c \in Nat,
           \A y \in S : f[y] \in Nat, \A y \in S \ {x} : k[y] = f[y], k[x] = f[x] + c
    PROVE  Total(k, S) = Total(f, S) + c
<1> DEFINE r == S \ {x}
<1>1. IsFiniteSet(r)
  BY FS_RemoveElement
<1>2. Total(k, r) = Total(f, r) /\ Total(f, r) \in Nat
  BY <1>1, TotalSame, TotalStep
<1>3. Total(k, S) = k[x] + Total(k, r) /\ Total(f, S) = f[x] + Total(f, r)
  BY <1>1, TotalStep
<1> QED
  BY <1>2, <1>3

\* h names each term of f over S once among the terms of k over T.
Renames(h, f, S, k, T) ==
    /\ IsFiniteSet(S) /\ IsFiniteSet(T)
    /\ \A x \in S : f[x] \in Nat /\ h[x] \in T /\ k[h[x]] = f[x]
    /\ \A x, y \in S : h[x] = h[y] => x = y
    /\ \A z \in T : \E x \in S : h[x] = z

\* The same terms under other names have the same sum.
LEMMA TotalRename ==
    ASSUME NEW S, NEW T, NEW f, NEW k, NEW h, Renames(h, f, S, k, T)
    PROVE  Total(f, S) = Total(k, T)
<1> USE DEF Renames
<1> DEFINE Onto(s) == {h[x] : x \in s}
           B == {s \in SUBSET S : Total(f, s) # Total(k, Onto(s))}
<1>1. Onto(S) = T
  OBVIOUS
<1>2. B = {}
  <2> SUFFICES ASSUME B # {} PROVE FALSE
    OBVIOUS
  <2>1. PICK s \in B : \A t \in B : Cardinality(s) <= Cardinality(t)
    BY SmallestSet
  <2>2. PICK x \in s : TRUE
    <3>1. ASSUME s = {} PROVE FALSE
      <4>1. Onto(s) = {}
        BY <3>1
      <4> QED
        BY <2>1, <3>1, <4>1, TotalEmpty
    <3> QED
      BY <3>1
  <2>3. /\ IsFiniteSet(s) /\ s \ {x} \in SUBSET S /\ Cardinality(s) \in Nat
        /\ Cardinality(s \ {x}) = Cardinality(s) - 1
    BY <2>1, OneLess
  <2>4. Total(f, s \ {x}) = Total(k, Onto(s \ {x}))
    BY <2>1, <2>3
  <2>5. Onto(s \ {x}) = Onto(s) \ {h[x]} /\ h[x] \in Onto(s) /\ Onto(s) \in SUBSET T
    BY <2>1
  <2>6. Total(f, s) = f[x] + Total(f, s \ {x})
    BY <2>1, <2>3, TotalStep
  <2>7. Total(k, Onto(s)) = k[h[x]] + Total(k, Onto(s) \ {h[x]})
    <3>1. IsFiniteSet(Onto(s)) /\ \A z \in Onto(s) : k[z] \in Nat
      BY <2>1, <2>5, FS_Subset
    <3> HIDE DEF Onto
    <3> QED
      BY <2>5, <3>1, TotalStep
  <2> QED
    BY <2>1, <2>4, <2>5, <2>6, <2>7
<1> QED
  BY <1>1, <1>2

\* A sum of numbers that are at least c.
LEMMA TotalAtLeast ==
    ASSUME NEW S, IsFiniteSet(S), NEW c \in Nat, NEW f, \A x \in S : f[x] \in Nat /\ f[x] >= c
    PROVE  Total(f, S) >= c * Cardinality(S)
<1> DEFINE B == {s \in SUBSET S : ~ (Total(f, s) >= c * Cardinality(s))}
<1>0. B = {}
  <2> SUFFICES ASSUME B # {} PROVE FALSE
    OBVIOUS
  <2>1. PICK s \in B : \A t \in B : Cardinality(s) <= Cardinality(t)
    BY SmallestSet
  <2>2. PICK x \in s : TRUE
    <3>1. ASSUME s = {} PROVE FALSE
      <4>1. Cardinality(s) = 0 /\ c * 0 = 0
        BY <3>1, FS_EmptySet
      <4> QED
        BY <2>1, <3>1, <4>1, TotalEmpty
    <3> QED
      BY <3>1
  <2>3. /\ IsFiniteSet(s) /\ s \ {x} \in SUBSET S /\ Cardinality(s) \in Nat
        /\ Cardinality(s \ {x}) = Cardinality(s) - 1 /\ Cardinality(s \ {x}) \in Nat
    BY <2>1, OneLess, FS_CardinalityType, FS_RemoveElement
  <2>4. Total(f, s \ {x}) >= c * Cardinality(s \ {x})
    BY <2>1, <2>3
  <2>5. Total(f, s) = f[x] + Total(f, s \ {x}) /\ Total(f, s) \in Nat /\ f[x] \in Nat /\ f[x] >= c
    BY <2>1, <2>3, TotalStep
  <2>6. Total(f, s \ {x}) \in Nat
    BY <2>1, <2>3, TotalStep, FS_RemoveElement
  <2> DEFINE n == Cardinality(s)
             m == Cardinality(s \ {x})
             a == Total(f, s \ {x})
             b == f[x]
             t == Total(f, s)
  <2>7. n \in Nat /\ m \in Nat /\ n = m + 1 /\ a \in Nat /\ b \in Nat /\ b >= c /\ a >= c * m /\ t = b + a
    BY <2>3, <2>4, <2>5, <2>6
  <2>8. ~ (t >= c * n)
    BY <2>1
  <2> HIDE DEF n, m, a, b, t
  <2>9. c * n = c * m + c /\ c * m \in Nat
    BY <2>7
  <2> QED
    BY <2>7, <2>8, <2>9
<1>1. S \notin B
  BY <1>0
<1> QED
  BY <1>1

\* Every value is at most c.
LEMMA TotalAtMost ==
    ASSUME NEW S, IsFiniteSet(S), NEW c \in Nat, NEW f, \A x \in S : f[x] \in Nat /\ f[x] <= c
    PROVE  Total(f, S) <= c * Cardinality(S)
<1> DEFINE B == {s \in SUBSET S : ~ (Total(f, s) <= c * Cardinality(s))}
<1>0. B = {}
  <2> SUFFICES ASSUME B # {} PROVE FALSE
    OBVIOUS
  <2>1. PICK s \in B : \A t \in B : Cardinality(s) <= Cardinality(t)
    BY SmallestSet
  <2>2. PICK x \in s : TRUE
    <3>1. ASSUME s = {} PROVE FALSE
      <4>1. Cardinality(s) = 0 /\ c * 0 = 0
        BY <3>1, FS_EmptySet
      <4> QED
        BY <2>1, <3>1, <4>1, TotalEmpty
    <3> QED
      BY <3>1
  <2>3. /\ IsFiniteSet(s) /\ s \ {x} \in SUBSET S /\ Cardinality(s) \in Nat
        /\ Cardinality(s \ {x}) = Cardinality(s) - 1 /\ Cardinality(s \ {x}) \in Nat
    BY <2>1, OneLess, FS_CardinalityType, FS_RemoveElement
  <2>4. Total(f, s \ {x}) <= c * Cardinality(s \ {x})
    BY <2>1, <2>3
  <2>5. Total(f, s) = f[x] + Total(f, s \ {x}) /\ Total(f, s) \in Nat /\ f[x] \in Nat /\ f[x] <= c
    BY <2>1, <2>3, TotalStep
  <2>6. Total(f, s \ {x}) \in Nat
    BY <2>1, <2>3, TotalStep, FS_RemoveElement
  <2> DEFINE n == Cardinality(s)
             m == Cardinality(s \ {x})
             a == Total(f, s \ {x})
             b == f[x]
             t == Total(f, s)
  <2>7. n \in Nat /\ m \in Nat /\ n = m + 1 /\ a \in Nat /\ b \in Nat /\ b <= c /\ a <= c * m /\ t = b + a
    BY <2>3, <2>4, <2>5, <2>6
  <2>8. ~ (t <= c * n)
    BY <2>1
  <2> HIDE DEF n, m, a, b, t
  <2>9. c * n = c * m + c /\ c * m \in Nat
    BY <2>7
  <2> QED
    BY <2>7, <2>8, <2>9
<1>1. S \notin B
  BY <1>0
<1> QED
  BY <1>1

\* A sum in two parts.
LEMMA TotalParts ==
    ASSUME NEW S, IsFiniteSet(S), NEW T \in SUBSET S, NEW f, \A x \in S : f[x] \in Nat
    PROVE  Total(f, S) = Total(f, T) + Total(f, S \ T)
<1> DEFINE B == {s \in SUBSET (S \ T) : Total(f, T \cup s) # Total(f, T) + Total(f, s)}
<1>0. IsFiniteSet(S \ T) /\ IsFiniteSet(T) /\ Total(f, T) \in Nat
  BY FS_Subset, TotalStep
<1>1. B = {}
  <2> SUFFICES ASSUME B # {} PROVE FALSE
    OBVIOUS
  <2>1. PICK s \in B : \A t \in B : Cardinality(s) <= Cardinality(t)
    BY <1>0, SmallestSet
  <2>2. PICK x \in s : TRUE
    <3>1. ASSUME s = {} PROVE FALSE
      <4>1. T \cup s = T
        BY <3>1
      <4>2. Total(f, s) = 0
        BY <3>1, TotalEmpty
      <4>3. Total(f, T \cup s) # Total(f, T) + Total(f, s)
        BY <2>1
      <4>4. Total(f, T \cup s) = Total(f, T)
        BY <4>1
      <4> QED
        BY <1>0, <4>2, <4>3, <4>4
    <3> QED
      BY <3>1
  <2> DEFINE r == s \ {x}
  <2>3. /\ IsFiniteSet(s) /\ r \in SUBSET (S \ T) /\ Cardinality(s) \in Nat
        /\ Cardinality(r) = Cardinality(s) - 1
    BY <1>0, <2>1, OneLess
  <2>4. r \notin B
    BY <2>1, <2>3
  <2>5. Total(f, T \cup r) = Total(f, T) + Total(f, r)
    BY <2>3, <2>4
  <2>6. s \in SUBSET S /\ T \cup s \in SUBSET S /\ x \in T \cup s /\ (T \cup s) \ {x} = T \cup r
    BY <2>1, <2>2
  <2>7. IsFiniteSet(T \cup s) /\ \A y \in T \cup s : f[y] \in Nat
    BY <2>6, FS_Subset
  <2>8. Total(f, T \cup s) = f[x] + Total(f, T \cup r)
    BY <2>6, <2>7, TotalStep
  <2>9. Total(f, s) = f[x] + Total(f, r)
    BY <2>2, <2>3, <2>6, TotalStep
  <2>10. Total(f, r) \in Nat /\ f[x] \in Nat
    <3>1. IsFiniteSet(r) /\ \A y \in r : f[y] \in Nat
      BY <2>3, <2>6, FS_Subset
    <3>2. f[x] \in Nat
      BY <2>6, <2>7
    <3> QED
      BY <3>1, <3>2, TotalStep
  <2>11. Total(f, T \cup s) # Total(f, T) + Total(f, s)
    BY <2>1
  <2> QED
    BY <1>0, <2>5, <2>8, <2>9, <2>10, <2>11
<1>2. S \ T \notin B /\ T \cup (S \ T) = S
  BY <1>1
<1> QED
  BY <1>2
=============================================================================
