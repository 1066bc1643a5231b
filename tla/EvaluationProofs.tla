-------------------------- MODULE EvaluationProofs --------------------------
(***************************************************************************)
(* The marks of one query, for any scores, numbering, ks and files that    *)
(* runs of any length leave behind.  What the metrics are worth comes down *)
(* to counting: how many items are relevant, and how many of them a        *)
(* ranking can reach.                                                      *)
(***************************************************************************)
EXTENDS Evaluation, SumsProofs, SequenceTheorems

-----------------------------------------------------------------------------
(* Largest and smallest numbers.                                           *)

LEMMA MinMaxOfTwo ==
    ASSUME NEW a \in Int, NEW b \in Int
    PROVE  Min({a, b}) = (IF a <= b THEN a ELSE b)
<1>1. \E x \in {a, b} : \A y \in {a, b} : x <= y
  BY a <= b \/ b <= a
<1>2. Min({a, b}) \in {a, b} /\ \A y \in {a, b} : Min({a, b}) <= y
  BY <1>1 DEF Min
<1> QED
  BY <1>2

LEMMA MinOfNumbers ==
    ASSUME NEW T \in SUBSET Nat, T # {}
    PROVE  Min(T) \in T /\ \A y \in T : Min(T) <= y
BY LeastNumber DEF Min

\* A finite set of numbers has a greatest one: take a smallest subset that is not
\* empty and has none.
LEMMA MaxOfNumbers ==
    ASSUME NEW T \in SUBSET Nat, T # {}, IsFiniteSet(T)
    PROVE  Max(T) \in T /\ \A y \in T : y <= Max(T)
<1> DEFINE B == {s \in SUBSET T : s # {} /\ ~ \E x \in s : \A y \in s : y <= x}
<1>1. ASSUME B # {} PROVE FALSE
  <2>1. PICK s \in B : IsFiniteSet(s) /\ \A t \in B : Cardinality(s) <= Cardinality(t)
    <3> HIDE DEF B
    <3>1. B \in SUBSET SUBSET T
      BY DEF B
    <3> QED
      BY <1>1, <3>1, SmallestSet
  <2>2. s \in SUBSET T /\ s # {}
    BY DEF B
  <2>3. PICK x \in s : TRUE
    BY <2>2
  <2>4. Cardinality(s \ {x}) = Cardinality(s) - 1 /\ s \ {x} \in SUBSET T /\ Cardinality(s) \in Nat
    BY <2>2, <2>3, OneLess
  <2>5. s \ {x} \notin B
    <3>1. ASSUME s \ {x} \in B PROVE FALSE
      <4>1. Cardinality(s) <= Cardinality(s \ {x})
        BY <2>1, <3>1
      <4> QED
        BY <2>4, <4>1
    <3> QED
      BY <3>1
  <2>6. CASE s \ {x} = {}
    <3>1. \A y \in s : y <= x
      BY <2>2, <2>3, <2>6
    <3> QED
      BY <2>3, <3>1
  <2>7. CASE s \ {x} # {}
    <3>1. PICK z \in s \ {x} : \A y \in s \ {x} : y <= z
      BY <2>4, <2>5, <2>7
    <3>2. z \in Nat /\ x \in Nat /\ \A y \in s : y \in Nat
      BY <2>2, <2>3, <3>1
    <3>3. \A y \in s : y <= (IF x <= z THEN z ELSE x)
      BY <3>1, <3>2
    <3> QED
      BY <2>3, <3>1, <3>3
  <2> QED
    BY <2>6, <2>7
<1>2. \E x \in T : \A y \in T : y <= x
  BY <1>1
<1>3. \E x \in T : \A y \in T : x >= y
  BY <1>2
<1>4. Max(T) \in T /\ \A y \in T : Max(T) >= y
  BY <1>3 DEF Max
<1> QED
  BY <1>4
-----------------------------------------------------------------------------
(* Counting.                                                               *)

LEMMA Images ==
    ASSUME NEW P, IsFiniteSet(P), NEW f
    PROVE  /\ IsFiniteSet({f[p] : p \in P}) /\ Cardinality({f[p] : p \in P}) <= Cardinality(P)
           /\ (\A p, q \in P : f[p] = f[q] => p = q)
                 => Cardinality({f[p] : p \in P}) = Cardinality(P)
<1> DEFINE T == {f[p] : p \in P}
           g == [p \in P |-> f[p]]
<1>1. g \in Surjection(P, T)
  BY DEF Surjection
<1>2. /\ IsFiniteSet(T) /\ Cardinality(T) <= Cardinality(P)
      /\ Cardinality(T) = Cardinality(P) <=> g \in Injection(P, T)
  <2> HIDE DEF g, T
  <2> QED
    BY <1>1, FS_Surjection
<1>3. ASSUME \A p, q \in P : f[p] = f[q] => p = q
      PROVE  g \in Injection(P, T)
  BY <1>3 DEF Injection, IsInjective
<1> QED
  BY <1>2, <1>3

\* The weights fall, so no c ranks are worth more than the first c, and no others as
\* much.
LEMMA FirstRanksBest ==
    ASSUME NEW n \in Nat, NEW f \in [1..n -> Nat \ {0}],
           \A p, q \in 1..n : p < q => f[p] > f[q],
           NEW c \in 1..n, NEW S \in SUBSET (1..n), Cardinality(S) <= c
    PROVE  /\ Total(f, S) \in Nat /\ Total(f, 1..c) \in Nat /\ Total(f, 1..c) > 0
           /\ Total(f, S) <= Total(f, 1..c)
           /\ Total(f, S) = Total(f, 1..c) => S = 1..c
<1> DEFINE C == 1..c
           A == S \ C
           B == C \ S
           d == f[c]
<1>0. n \in Int /\ c \in Int /\ 1 \in Int
  OBVIOUS
<1>1. IsFiniteSet(1..n) /\ IsFiniteSet(C) /\ Cardinality(C) = c
  BY <1>0, FS_Interval
<1>2. C \in SUBSET (1..n) /\ A \in SUBSET (1..n) /\ B \in SUBSET (1..n)
  OBVIOUS
<1>3. \A x \in 1..n : f[x] \in Nat /\ f[x] >= 1
  OBVIOUS
<1>4. /\ IsFiniteSet(S) /\ IsFiniteSet(A) /\ IsFiniteSet(B) /\ IsFiniteSet(S \cap C)
      /\ Cardinality(S) \in Nat /\ Cardinality(A) \in Nat /\ Cardinality(B) \in Nat
      /\ Cardinality(S \cap C) \in Nat
  BY <1>1, <1>2, FS_Subset, FS_CardinalityType, FS_Intersection
<1>5. Cardinality(A) <= Cardinality(B)
  <2>1. Cardinality(A) = Cardinality(S) - Cardinality(S \cap C)
    BY <1>4, FS_Difference
  <2>2. Cardinality(B) = Cardinality(C) - Cardinality(C \cap S)
    BY <1>1, FS_Difference
  <2>3. C \cap S = S \cap C
    OBVIOUS
  <2>4. Cardinality(C \cap S) = Cardinality(S \cap C)
    BY <2>3
  <2> QED
    BY <1>1, <1>4, <2>1, <2>2, <2>4
<1>6. Total(f, S) = Total(f, S \cap C) + Total(f, A)
  <2>1. S \cap C \in SUBSET S /\ S \ (S \cap C) = A /\ \A x \in S : f[x] \in Nat
    BY <1>3
  <2>2. Total(f, S) = Total(f, S \cap C) + Total(f, S \ (S \cap C))
    BY <1>4, <2>1, TotalParts
  <2> QED
    BY <2>1, <2>2
<1>7. Total(f, C) = Total(f, S \cap C) + Total(f, B)
  <2>1. S \cap C \in SUBSET C /\ C \ (S \cap C) = B /\ \A x \in C : f[x] \in Nat
    BY <1>2, <1>3
  <2>2. Total(f, C) = Total(f, S \cap C) + Total(f, C \ (S \cap C))
    BY <1>1, <2>1, TotalParts
  <2> QED
    BY <2>1, <2>2
<1>8. /\ Total(f, S) \in Nat /\ Total(f, C) \in Nat /\ Total(f, S \cap C) \in Nat
      /\ Total(f, A) \in Nat /\ Total(f, B) \in Nat
  BY <1>1, <1>2, <1>3, <1>4, TotalStep
<1>9. d \in Nat /\ d >= 1 /\ d - 1 \in Nat
  BY <1>3
<1>10. Total(f, A) <= (d - 1) * Cardinality(A)
  <2>1. \A x \in A : f[x] \in Nat /\ f[x] <= d - 1
    <3> TAKE x \in A
    <3>1. x \in 1..n /\ c \in 1..n /\ c < x
      OBVIOUS
    <3>2. f[c] > f[x] /\ f[x] \in Nat /\ f[c] \in Nat
      BY <1>3, <3>1
    <3> QED
      BY <3>2
  <2> DEFINE e == d - 1
  <2>2. e \in Nat /\ \A x \in A : f[x] \in Nat /\ f[x] <= e
    BY <1>9, <2>1
  <2> HIDE DEF e
  <2>3. Total(f, A) <= e * Cardinality(A)
    BY <1>4, <2>2, TotalAtMost
  <2> QED
    BY <2>3 DEF e
<1>11. Total(f, B) >= d * Cardinality(B)
  <2>1. \A x \in B : f[x] \in Nat /\ f[x] >= d
    <3> TAKE x \in B
    <3>1. x \in 1..n /\ c \in 1..n /\ (x = c \/ x < c)
      OBVIOUS
    <3>2. x < c => f[x] > f[c]
      BY <3>1
    <3> QED
      BY <1>3, <3>1, <3>2
  <2> QED
    BY <1>4, <1>9, <2>1, TotalAtLeast
<1> DEFINE a == Cardinality(A)
           b == Cardinality(B)
           ta == Total(f, A)
           tb == Total(f, B)
<1>12. /\ a \in Nat /\ b \in Nat /\ a <= b /\ ta \in Nat /\ tb \in Nat /\ d \in Nat /\ d >= 1
       /\ ta <= (d - 1) * a /\ tb >= d * b
  BY <1>4, <1>5, <1>8, <1>9, <1>10, <1>11
<1>13. ta <= tb /\ (ta = tb => b = 0)
  <2> HIDE DEF a, b, ta, tb, d
  <2>1. (d - 1) * a = d * a - a
    BY <1>12
  <2>2. a * d <= b * d /\ a * d = d * a /\ b * d = d * b
    BY <1>12, MulLeq
  <2>3. d * a \in Nat /\ d * b \in Nat
    BY <1>12
  <2>4. ta <= tb
    BY <1>12, <2>1, <2>2, <2>3
  <2>5. ASSUME ta = tb, b > 0 PROVE FALSE
    <3>1. a = 0
      BY <1>12, <2>1, <2>2, <2>3, <2>5
    <3>2. (d - 1) * a = 0 /\ 1 * b <= d * b
      BY <1>12, <3>1, MulLeq
    <3> QED
      BY <1>12, <2>5, <3>2
  <2> QED
    BY <1>12, <2>4, <2>5
<1>14. Total(f, S) = Total(f, C) => S = C
  <2> SUFFICES ASSUME Total(f, S) = Total(f, C) PROVE S = C
    OBVIOUS
  <2>1. ta = tb
    BY <1>6, <1>7, <1>8
  <2>2. Cardinality(B) = 0 /\ Cardinality(A) = 0
    BY <1>12, <1>13, <2>1
  <2>3. A = {} /\ B = {}
    BY <1>4, <2>2, FS_EmptySet
  <2> QED
    BY <2>3
<1>15. Total(f, C) > 0
  <2>1. 1 \in C /\ \A x \in C : f[x] \in Nat
    BY <1>2, <1>3
  <2>2. f[1] <= Total(f, C)
    BY <1>1, <2>1, TotalBounds
  <2>3. f[1] \in Nat /\ f[1] >= 1
    BY <1>3
  <2> QED
    BY <1>8, <2>2, <2>3
<1> QED
  BY <1>6, <1>7, <1>8, <1>13, <1>14, <1>15
-----------------------------------------------------------------------------
(* The metrics, for any file and ranking.                                  *)

LEMMA Parameters ==
    /\ TopK \in Nat /\ NumItems \in Nat /\ MaxLines \in Nat /\ Ext \in Nat
    /\ \A k \in Ks : k \in Nat /\ k >= 1 /\ k + Ext < TopK
    /\ IsFiniteSet(Item) /\ IsFiniteSet(Other) /\ Other \in SUBSET Item /\ Vq \in Item
<1>1. Ks \in SUBSET Nat /\ Ks # {} /\ IsFiniteSet(Ks) /\ \A k \in Ks : k \in Nat /\ k >= 1
  BY ParametersOK
<1>2. Max(Ks) \in Ks /\ \A k \in Ks : k <= Max(Ks)
  BY <1>1, MaxOfNumbers
<1>3. Ext \in Nat /\ NumItems \in Nat /\ MaxLines \in Nat /\ Vq \in Item
  BY ParametersOK
<1> DEFINE m == Max(Ks)
<1>4. TopK = 1 + Ext + m /\ m \in Nat
  BY <1>1, <1>2 DEF TopK
<1>5. \A k \in Ks : k <= m
  BY <1>2
<1> HIDE DEF m
<1>6. TopK \in Nat /\ \A k \in Ks : k + Ext < TopK
  BY <1>1, <1>3, <1>4, <1>5
<1>7. 0 \in Int /\ NumItems - 1 \in Int
  BY <1>3
<1>8. IsFiniteSet(Item)
  BY <1>7, FS_Interval DEF Item
<1>9. Other \in SUBSET Item
  BY DEF Other
<1>10. IsFiniteSet(Other)
  BY <1>8, <1>9, FS_Subset
<1> QED
  BY <1>1, <1>3, <1>6, <1>8, <1>9, <1>10

\* A ground truth names no item twice and has no value 0; a ranking has TopK items, each
\* of them once.
IsTruth(gt) ==
    /\ gt \in Seq(Other \X Nat) /\ gt # << >>
    /\ \A k, l \in 1..Len(gt) : gt[k][1] = gt[l][1] => k = l
    /\ \A k \in 1..Len(gt) : gt[k][2] > 0

Ranks(s) == s \in [1..TopK -> Other] /\ \A k, l \in 1..TopK : s[k] = s[l] => k = l

LEMMA TruthLines ==
    ASSUME NEW gt, IsTruth(gt), NEW k \in Ks
    PROVE  /\ Len(gt) \in Nat /\ Len(gt) >= 1
           /\ \A p \in 1..Len(gt) : gt[p] \in Other \X Nat /\ gt[p][1] \in Other
                                      /\ gt[p][2] \in Nat /\ gt[p][2] > 0
           /\ CurK(gt, k) = (IF k <= Len(gt) THEN k ELSE Len(gt))
           /\ CurK(gt, k) \in 1..Len(gt) /\ CurK(gt, k) \in 1..k
<1>1. gt \in Seq(Other \X Nat) /\ gt # << >> /\ \A p \in 1..Len(gt) : gt[p][2] > 0
  BY DEF IsTruth
<1>2. Len(gt) \in Nat /\ Len(gt) >= 1
  BY <1>1, LenProperties, EmptySeq
<1>3. \A p \in 1..Len(gt) : gt[p] \in Other \X Nat
  BY <1>1, ElementOfSeq
<1>4. \A p \in 1..Len(gt) : gt[p] \in Other \X Nat /\ gt[p][1] \in Other
                              /\ gt[p][2] \in Nat /\ gt[p][2] > 0
  BY <1>1, <1>3
<1>5. k \in Nat /\ k >= 1
  BY Parameters
<1>6. CurK(gt, k) = (IF k <= Len(gt) THEN k ELSE Len(gt))
  BY <1>2, <1>5, MinMaxOfTwo DEF CurK
<1>7. CurK(gt, k) \in 1..Len(gt) /\ CurK(gt, k) \in 1..k
  BY <1>2, <1>5, <1>6
<1> QED
  BY <1>2, <1>4, <1>6, <1>7

\* As many items are relevant as lines count, or more; but never more than there are
\* lines.
LEMMA RelevantItems ==
    ASSUME NEW gt, IsTruth(gt), NEW k \in Ks
    PROVE  /\ IsFiniteSet(GtSet(gt, k)) /\ GtSet(gt, k) \in SUBSET Other
           /\ Cardinality(GtSet(gt, k)) \in CurK(gt, k)..Len(gt)
           /\ Min({k, Cardinality(GtSet(gt, k))}) = CurK(gt, k)
<1> DEFINE n == Len(gt)
           c == CurK(gt, k)
           G == GtSet(gt, k)
           f == [p \in 1..n |-> gt[p][1]]
           R == {q \in 1..n : Relevant(gt, k, q)}
<1>1. /\ n \in Nat /\ n >= 1 /\ c \in 1..n /\ c \in 1..k /\ c = (IF k <= n THEN k ELSE n)
      /\ \A p \in 1..n : gt[p][1] \in Other
  BY TruthLines
<1>2. k \in Nat /\ k >= 1
  BY Parameters
<1>3. G = {f[p] : p \in R}
  BY DEF GtSet
<1>4. R \in SUBSET (1..n) /\ 1..c \in SUBSET R
  BY <1>1, <1>2 DEF Relevant
<1>5. \A p, q \in 1..n : f[p] = f[q] => p = q
  BY DEF IsTruth
<1>6. n \in Int /\ c \in Int /\ 1 \in Int /\ c >= 1
  BY <1>1
<1>7. IsFiniteSet(1..n) /\ Cardinality(1..n) = n /\ IsFiniteSet(1..c) /\ Cardinality(1..c) = c
  <2> HIDE DEF n, c
  <2>1. /\ IsFiniteSet(1..n) /\ Cardinality(1..n) = (IF 1 > n THEN 0 ELSE n - 1 + 1)
        /\ IsFiniteSet(1..c) /\ Cardinality(1..c) = (IF 1 > c THEN 0 ELSE c - 1 + 1)
    BY <1>6, FS_Interval
  <2> QED
    BY <1>1, <1>6, <2>1
<1>8. IsFiniteSet(R) /\ Cardinality(R) \in Nat /\ Cardinality(R) <= n /\ c <= Cardinality(R)
  <2>1. IsFiniteSet(R) /\ Cardinality(R) <= Cardinality(1..n)
    <3> HIDE DEF R
    <3> QED
      BY <1>4, <1>7, FS_Subset
  <2>2. Cardinality(1..c) <= Cardinality(R)
    <3> HIDE DEF R
    <3> QED
      BY <1>4, <2>1, FS_Subset
  <2>3. Cardinality(R) \in Nat
    <3> HIDE DEF R
    <3> QED
      BY <2>1, FS_CardinalityType
  <2> QED
    BY <1>7, <2>1, <2>2, <2>3
<1>9. IsFiniteSet(G) /\ Cardinality(G) = Cardinality(R)
  <2>1. \A p, q \in R : f[p] = f[q] => p = q
    BY <1>4, <1>5
  <2> HIDE DEF f, R, G
  <2> QED
    BY <1>3, <1>8, <2>1, Images
<1>10. G \in SUBSET Other
  BY <1>1 DEF GtSet
<1> DEFINE g == Cardinality(G)
<1>11. g \in Nat /\ c <= g /\ g <= n
  BY <1>8, <1>9
<1>12. Min({k, g}) = (IF k <= g THEN k ELSE g)
  <2> HIDE DEF g
  <2>1. g \in Int /\ k \in Int
    BY <1>2, <1>11
  <2> QED
    BY <2>1, MinMaxOfTwo
<1>13. Min({k, g}) = c
  <2> HIDE DEF g, c, n
  <2> QED
    BY <1>1, <1>2, <1>11, <1>12
<1>14. g \in c..n
  <2> HIDE DEF g, c, n
  <2> QED
    BY <1>1, <1>11
<1> QED
  BY <1>9, <1>10, <1>13, <1>14

LEMMA RankLength ==
    ASSUME Ranks(est) PROVE Len(est) = TopK
<1>1. est \in [1..TopK -> Other] /\ TopK \in Nat
  BY Parameters DEF Ranks
<1>2. est \in Seq(Other)
  BY <1>1, SeqDef
<1> QED
  BY <1>1, <1>2, LenProperties

\* The hits are among the ranks that are looked at, and no item is hit twice.
LEMMA HitRanks ==
    ASSUME NEW gt, IsTruth(gt), Ranks(est), NEW k \in Ks, NEW m \in {k, k + Ext}
    PROVE  /\ m \in Nat /\ m <= TopK /\ 1..m \in SUBSET (1..TopK)
           /\ Hits(gt, k, m) = {p \in 1..m : est[p] \in GtSet(gt, k)}
           /\ IsFiniteSet(Hits(gt, k, m)) /\ Cardinality(Hits(gt, k, m)) \in Nat
           /\ Cardinality(Hits(gt, k, m)) <= m
           /\ Cardinality(Hits(gt, k, m)) <= Cardinality(GtSet(gt, k))
<1> DEFINE H == Hits(gt, k, m)
           G == GtSet(gt, k)
<1>1. TopK \in Nat /\ Ext \in Nat /\ k \in Nat /\ k + Ext < TopK /\ Len(est) = TopK
  BY Parameters, RankLength
<1>2. m \in Nat /\ m <= TopK /\ 1..m \in SUBSET (1..TopK)
  BY <1>1
<1>3. Min({m, Len(est)}) = m
  <2>1. m \in Int /\ Len(est) \in Int /\ m <= Len(est)
    BY <1>1, <1>2
  <2> QED
    BY <2>1, MinMaxOfTwo
<1>4. H = {p \in 1..m : est[p] \in G}
  BY <1>3 DEF Hits
<1>5. m \in Int /\ 1 \in Int
  BY <1>2
<1>6. IsFiniteSet(1..m) /\ Cardinality(1..m) = m
  BY <1>2, <1>5, FS_Interval
<1>7. H \in SUBSET (1..m)
  BY <1>4
<1>8. IsFiniteSet(H) /\ Cardinality(H) <= m /\ Cardinality(H) \in Nat
  <2> HIDE DEF H
  <2>1. IsFiniteSet(H) /\ Cardinality(H) <= Cardinality(1..m)
    BY <1>6, <1>7, FS_Subset
  <2> QED
    BY <1>6, <2>1, FS_CardinalityType
<1>9. {est[p] : p \in H} \in SUBSET G
  BY <1>4
<1>10. \A p, q \in H : est[p] = est[q] => p = q
  BY <1>2, <1>7 DEF Ranks
<1>11. Cardinality({est[p] : p \in H}) = Cardinality(H)
  <2> HIDE DEF H
  <2> QED
    BY <1>8, <1>10, Images
<1>12. IsFiniteSet(G)
  BY RelevantItems
<1>13. Cardinality({est[p] : p \in H}) <= Cardinality(G)
  <2> HIDE DEF H, G
  <2> QED
    BY <1>9, <1>12, FS_Subset
<1> QED
  BY <1>2, <1>4, <1>8, <1>11, <1>13
\* Fractions of natural numbers compared with 1 and with each other.
LEMMA AgainstOne ==
    ASSUME NEW n \in Nat, NEW d \in Nat \ {0}
    PROVE  /\ Less(Whole(1), Frac(n, d)) <=> d < n
           /\ Frac(n, d) = Whole(1) <=> n = d
<1> DEFINE a == Frac(n, d)[1]
           b == Frac(n, d)[2]
<1>1. a \in Int /\ b \in Nat \ {0} /\ a * d = n * b /\ Frac(n, d) = <<a, b>>
  BY FracFacts
<1>2. Whole(1)[1] = 1 /\ Whole(1)[2] = 1 /\ Frac(1, 1) = Whole(1) /\ Whole(1) = <<1, 1>>
  <2>1. 1 \in Int /\ Whole(1) = <<1, 1>>
    BY DEF Whole
  <2> QED
    BY <2>1, FracOne
<1>3. Less(Whole(1), Frac(n, d)) <=> 1 * b < a * 1
  BY <1>2 DEF Less
<1>4. n = d => Frac(n, d) = Whole(1)
  <2> SUFFICES ASSUME n = d PROVE Frac(n, d) = Whole(1)
    OBVIOUS
  <2>1. 1 \in Int /\ 1 \in Nat \ {0} /\ n \in Int /\ n * 1 = 1 * d
    OBVIOUS
  <2>2. Frac(n, d) = Frac(1, 1)
    BY <2>1, FracSame
  <2> QED
    BY <1>2, <2>2
<1> HIDE DEF a, b
<1>5. Frac(n, d) = Whole(1) => n = d
  <2> SUFFICES ASSUME Frac(n, d) = Whole(1) PROVE n = d
    OBVIOUS
  <2>1. a = 1 /\ b = 1
    BY <1>1, <1>2
  <2> QED
    BY <1>1, <2>1
<1>6. ASSUME n <= d PROVE a <= b
  <2>1. n * b <= d * b /\ d * b = b * d
    BY <1>1, <1>6, MulLeq
  <2>2. a * d <= b * d /\ d > 0
    BY <1>1, <2>1
  <2> QED
    BY <1>1, <2>2, CancelLeq
<1>7. ASSUME a <= b PROVE n <= d
  <2>1. a * d <= b * d /\ b * d = d * b
    BY <1>1, <1>7, MulLeq
  <2>2. n * b <= d * b /\ b > 0
    BY <1>1, <2>1
  <2> QED
    BY <1>1, <2>2, CancelLeq
<1>8. 1 * b < a * 1 <=> d < n
  BY <1>1, <1>6, <1>7
<1> QED
  BY <1>3, <1>4, <1>5, <1>8

LEMMA SameDenominator ==
    ASSUME NEW m \in Nat, NEW n \in Nat, NEW d \in Nat \ {0}, n <= m
    PROVE  ~ Less(Frac(m, d), Frac(n, d))
<1> DEFINE a == Frac(m, d)[1]
           b == Frac(m, d)[2]
           x == Frac(n, d)[1]
           y == Frac(n, d)[2]
<1>1. /\ a \in Int /\ b \in Nat \ {0} /\ a * d = m * b
      /\ x \in Int /\ y \in Nat \ {0} /\ x * d = n * y
  BY FracFacts
<1>2. Less(Frac(m, d), Frac(n, d)) <=> a * y < x * b
  BY DEF Less
<1> HIDE DEF a, b, x, y
<1> DEFINE q == b * y
<1>3. q \in Nat
  BY <1>1
<1>4. (x * b) * d = n * q
  <2>1. (x * b) * d = (x * d) * b
    BY <1>1
  <2>2. (n * y) * b = n * q
    BY <1>1
  <2> QED
    BY <1>1, <2>1, <2>2
<1>5. (a * y) * d = m * q
  <2>1. (a * y) * d = (a * d) * y
    BY <1>1
  <2>2. (m * b) * y = m * q
    BY <1>1
  <2> QED
    BY <1>1, <2>1, <2>2
<1>6. n * q <= m * q
  <2> HIDE DEF q
  <2> QED
    BY <1>3, MulLeq
<1>7. x * b \in Int /\ a * y \in Int /\ d > 0
  BY <1>1
<1> DEFINE l == x * b
           r == a * y
<1>8. l \in Int /\ r \in Int /\ l * d <= r * d /\ d > 0
  BY <1>4, <1>5, <1>6, <1>7
<1>9. l <= r
  <2> HIDE DEF l, r
  <2> QED
    BY <1>8, CancelLeq
<1>10. ~ (r < l)
  <2> HIDE DEF l, r
  <2> QED
    BY <1>8, <1>9
<1> QED
  BY <1>2, <1>10

LEMMA MarksBounded ==
    ASSUME NEW gt, IsTruth(gt), Ranks(est), NEW k \in Ks
    PROVE  /\ ~ Less(Whole(1), Precision(gt, k)) /\ ~ Less(Whole(1), Recall(gt, k))
           /\ ~ Less(Whole(1), Ndcg(gt, k))
           /\ ~ Less(Recall(gt, k), Precision(gt, k))
           /\ Ndcg(gt, k) = Whole(1) => Precision(gt, k) = Whole(1)
<1> DEFINE c == CurK(gt, k)
           H == Hits(gt, k, k)
           E == Hits(gt, k, k + Ext)
           h == Cardinality(H)
           e == Cardinality(E)
           G == GtSet(gt, k)
<1>1. /\ c \in Nat /\ c \in Nat \ {0} /\ c <= k /\ k \in Nat /\ Ext \in Nat
      /\ c = (IF k <= Len(gt) THEN k ELSE Len(gt)) /\ Len(gt) \in Nat
  BY TruthLines, Parameters
<1>2. /\ k <= TopK /\ 1..k \in SUBSET (1..TopK)
      /\ H = {p \in 1..k : est[p] \in G}
      /\ IsFiniteSet(H) /\ h \in Nat /\ h <= k /\ h <= Cardinality(G)
  BY HitRanks
<1>3. /\ E = {p \in 1..(k + Ext) : est[p] \in G} /\ IsFiniteSet(E) /\ e \in Nat
  BY HitRanks
<1>4. Cardinality(G) \in c..Len(gt) /\ Min({k, Cardinality(G)}) = c
  BY RelevantItems
<1>5. h <= c
  <2> DEFINE g == Cardinality(G)
  <2>1. g \in c..Len(gt) /\ h <= g
    BY <1>2, <1>4
  <2> HIDE DEF g, h, c
  <2> QED
    BY <1>1, <1>2, <2>1
<1>6. h <= e
  <2>1. H \in SUBSET E
    BY <1>1, <1>2, <1>3
  <2> HIDE DEF H, E
  <2> QED
    BY <1>3, <2>1, FS_Subset
<1>7. Precision(gt, k) = Frac(h, c)
  BY DEF Precision, Reach
<1>8. ~ Less(Whole(1), Precision(gt, k)) /\ (Precision(gt, k) = Whole(1) <=> h = c)
  <2> HIDE DEF h, c
  <2> QED
    BY <1>1, <1>2, <1>5, <1>7, AgainstOne
<1>9. Recall(gt, k) = IF Less(Whole(1), Frac(e, c)) THEN Whole(1) ELSE Frac(e, c)
  BY DEF Recall
<1>10. ~ Less(Whole(1), Whole(1))
  BY DEF Less, Whole
<1>11. ~ Less(Whole(1), Recall(gt, k)) /\ ~ Less(Recall(gt, k), Precision(gt, k))
  <2>1. ~ Less(Frac(e, c), Frac(h, c))
    <3> HIDE DEF e, h, c
    <3> QED
      BY <1>1, <1>2, <1>3, <1>6, SameDenominator
  <2> HIDE DEF e, h, c
  <2> QED
    BY <1>7, <1>8, <1>9, <1>10, <2>1
<1>12. /\ TopK \in Nat /\ Discount \in [1..TopK -> Nat \ {0}]
       /\ \A p, q \in 1..TopK : p < q => Discount[p] > Discount[q]
  BY ParametersOK, Parameters
<1>13. c \in 1..TopK /\ H \in SUBSET (1..TopK)
  <2>1. H \in SUBSET (1..TopK)
    BY <1>2
  <2> HIDE DEF c
  <2>2. c \in 1..TopK
    BY <1>1, <1>2, <1>12
  <2> QED
    BY <2>1, <2>2
<1>14. /\ Total(Discount, H) \in Nat /\ Total(Discount, 1..c) \in Nat \ {0}
       /\ Total(Discount, H) <= Total(Discount, 1..c)
       /\ Total(Discount, H) = Total(Discount, 1..c) => H = 1..c
  <2> HIDE DEF c, H
  <2>1. Cardinality(H) <= c
    BY <1>5 DEF h
  <2>2. /\ Total(Discount, H) \in Nat /\ Total(Discount, 1..c) \in Nat /\ Total(Discount, 1..c) > 0
        /\ Total(Discount, H) <= Total(Discount, 1..c)
        /\ Total(Discount, H) = Total(Discount, 1..c) => H = 1..c
    BY <1>12, <1>13, <2>1, FirstRanksBest
  <2> QED
    BY <2>2
<1>15. Ndcg(gt, k) = Frac(Total(Discount, H), Total(Discount, 1..c))
  BY <1>4 DEF Ndcg, Reach, Gains
<1>16. /\ ~ Less(Whole(1), Ndcg(gt, k))
       /\ Ndcg(gt, k) = Whole(1) => Total(Discount, H) = Total(Discount, 1..c)
  <2> DEFINE x == Total(Discount, H)
             y == Total(Discount, 1..c)
  <2>1. x \in Nat /\ y \in Nat \ {0} /\ x <= y /\ Ndcg(gt, k) = Frac(x, y)
    BY <1>14, <1>15
  <2> HIDE DEF x, y
  <2>2. ~ Less(Whole(1), Ndcg(gt, k)) /\ (Ndcg(gt, k) = Whole(1) => x = y)
    BY <2>1, AgainstOne
  <2> QED
    BY <2>2 DEF x, y
<1>17. H = 1..c => h = c
  <2> SUFFICES ASSUME H = 1..c PROVE h = c
    OBVIOUS
  <2>1. h = Cardinality(1..c)
    OBVIOUS
  <2> HIDE DEF h, H, c
  <2>2. 1 \in Int /\ c \in Int /\ c >= 1
    BY <1>1
  <2>3. Cardinality(1..c) = (IF 1 > c THEN 0 ELSE c - 1 + 1)
    BY <2>2, FS_Interval
  <2> QED
    BY <2>1, <2>2, <2>3
<1> QED
  BY <1>8, <1>11, <1>14, <1>16, <1>17
-----------------------------------------------------------------------------
(* The metrics of exact scores.                                            *)

\* A file without a cut value has the exact scores as they are written, best first; an
\* exact ranking has the best items.
TruthOfScores(gt) ==
    /\ IsTruth(gt)
    /\ \A p \in 1..Len(gt) : gt[p][2] = Stored(score[gt[p][1]])
    /\ \A p, q \in 1..Len(gt) : p < q => score[gt[p][1]] >= score[gt[q][1]]

RanksScores(s) ==
    /\ Ranks(s)
    /\ \A k, l \in 1..TopK : k < l => score[s[k]] >= score[s[l]]
    /\ \A x \in Other : (\E l \in 1..TopK : s[l] = x) \/ \A l \in 1..TopK : score[x] <= score[s[l]]

LEMMA StoredFacts ==
    ASSUME score \in Scores
    PROVE  /\ score \in [Item -> Nat] /\ \A x \in Other : score[x] \in Nat
           /\ \A x \in Other : Stored(score[x]) \in Nat
           /\ \A x, y \in Other : score[x] <= score[y] => Stored(score[x]) <= Stored(score[y])
<1>1. Other \in SUBSET Item
  BY Parameters
<1>2. score \in [Item -> Nat]
  BY ParametersOK
<1>3. \A x \in Item : Stored(score[x]) \in Nat
                     /\ \A y \in Item : score[x] <= score[y] => Stored(score[x]) <= Stored(score[y])
  BY ParametersOK
<1> QED
  BY <1>1, <1>2, <1>3

\* The relevant items are those with the value of the last line that counts, or more.
LEMMA RelevantByValue ==
    ASSUME score \in Scores, NEW gt, TruthOfScores(gt), NEW k \in Ks, Covers(gt, k)
    PROVE  GtSet(gt, k) = {x \in Other : Stored(score[x]) >= gt[CurK(gt, k)][2]}
<1> DEFINE n == Len(gt)
           c == CurK(gt, k)
           v == gt[c][2]
<1>1. IsTruth(gt)
  BY DEF TruthOfScores
<1>2. /\ n \in Nat /\ n >= 1 /\ c \in 1..n /\ c \in 1..k /\ c = (IF k <= n THEN k ELSE n)
      /\ \A p \in 1..n : gt[p][1] \in Other /\ gt[p][2] \in Nat
  BY <1>1, TruthLines
<1>3. k \in Nat /\ k >= 1 /\ c \in Nat
  BY <1>2, Parameters
<1>4. \A p, q \in 1..n : p <= q => gt[p][2] >= gt[q][2]
  <2> TAKE p \in 1..n
  <2> TAKE q \in 1..n
  <2> HAVE p <= q
  <2>1. CASE p = q
    BY <1>2, <2>1
  <2>2. CASE p < q
    <3>1. score[gt[q][1]] <= score[gt[p][1]]
      <4>1. score[gt[p][1]] >= score[gt[q][1]]
        BY <2>2 DEF TruthOfScores
      <4>2. score[gt[p][1]] \in Nat /\ score[gt[q][1]] \in Nat
        BY <1>2, StoredFacts
      <4> QED
        BY <4>1, <4>2
    <3>2. Stored(score[gt[q][1]]) <= Stored(score[gt[p][1]])
      BY <1>2, <3>1, StoredFacts
    <3>3. gt[p][2] = Stored(score[gt[p][1]]) /\ gt[q][2] = Stored(score[gt[q][1]])
      BY DEF TruthOfScores
    <3>4. gt[q][2] <= gt[p][2] /\ gt[q][2] \in Nat /\ gt[p][2] \in Nat
      BY <1>2, <3>2, <3>3
    <3> QED
      BY <3>4
  <2> QED
    BY <2>1, <2>2
<1>5. \A p \in 1..n : Relevant(gt, k, p) <=> gt[p][2] >= v
  <2> TAKE p \in 1..n
  <2>1. CASE p <= k
    <3>1. p <= c
      <4> HIDE DEF c, n
      <4> QED
        BY <1>2, <1>3, <2>1
    <3>2. gt[p][2] >= v
      BY <1>2, <1>4, <3>1
    <3>3. Relevant(gt, k, p)
      BY <2>1 DEF Relevant
    <3> QED
      BY <3>2, <3>3
  <2>2. CASE p > k
    <3>1. k <= n /\ c = k /\ k \in 1..n
      <4> HIDE DEF c, n
      <4> QED
        BY <1>2, <1>3, <2>2
    <3>2. Relevant(gt, k, p) <=> \A l \in k..p : gt[l][2] = gt[k][2]
      BY <1>3, <2>2 DEF Relevant
    <3>3. ASSUME gt[p][2] >= v, NEW l \in k..p PROVE gt[l][2] = gt[k][2]
      <4>1. l \in 1..n /\ k <= l /\ l <= p
        <5> HIDE DEF c, n
        <5> QED
          BY <1>2, <1>3, <3>1, <3>3
      <4>2. gt[k][2] >= gt[l][2] /\ gt[l][2] >= gt[p][2] /\ gt[p][2] >= gt[k][2]
        BY <1>4, <3>1, <3>3, <4>1
      <4>3. gt[k][2] \in Nat /\ gt[l][2] \in Nat /\ gt[p][2] \in Nat
        BY <1>2, <3>1, <4>1
      <4> QED
        BY <4>2, <4>3
    <3>4. ASSUME \A l \in k..p : gt[l][2] = gt[k][2] PROVE gt[p][2] >= v
      <4>1. p \in k..p
        BY <1>3, <2>2
      <4>2. gt[p][2] = v /\ v \in Nat
        BY <1>2, <3>1, <3>4, <4>1
      <4> QED
        BY <4>2
    <3> QED
      BY <3>2, <3>3, <3>4
  <2>3. p <= k \/ p > k
    BY <1>3
  <2> QED
    BY <2>1, <2>2, <2>3
<1>6. ASSUME NEW x \in GtSet(gt, k) PROVE x \in Other /\ Stored(score[x]) >= v
  <2>1. PICK p \in 1..n : Relevant(gt, k, p) /\ x = gt[p][1]
    BY <1>6 DEF GtSet
  <2>2. gt[p][2] >= v
    BY <1>5, <2>1
  <2>3. gt[p][2] = Stored(score[x])
    BY <2>1 DEF TruthOfScores
  <2> QED
    BY <1>2, <2>1, <2>2, <2>3
<1>7. ASSUME NEW x \in Other, Stored(score[x]) >= v PROVE x \in GtSet(gt, k)
  <2>1. PICK p \in 1..n : gt[p][1] = x
    BY <1>7 DEF Covers
  <2>2. gt[p][2] = Stored(score[x])
    BY <2>1 DEF TruthOfScores
  <2>3. Relevant(gt, k, p)
    BY <1>5, <1>7, <2>2
  <2> QED
    BY <2>1, <2>3 DEF GtSet
<1> QED
  BY <1>6, <1>7

\* If a rank within the lines that count were missed, all relevant items would have
\* to be ranked before it, and there are too many of them.
LEMMA ExactRanksHit ==
    ASSUME score \in Scores, NEW gt, TruthOfScores(gt), NEW k \in Ks, Covers(gt, k),
           RanksScores(est), NEW p \in 1..CurK(gt, k)
    PROVE  est[p] \in GtSet(gt, k)
<1> DEFINE c == CurK(gt, k)
           v == gt[c][2]
           G == GtSet(gt, k)
<1>1. IsTruth(gt) /\ Ranks(est)
  BY DEF TruthOfScores, RanksScores
<1>2. /\ c \in Nat /\ c <= k /\ k \in Nat /\ k + Ext < TopK /\ Ext \in Nat /\ TopK \in Nat
      /\ c \in 1..Len(gt) /\ \A q \in 1..Len(gt) : gt[q][2] \in Nat
  BY <1>1, TruthLines, Parameters
<1>3. p \in Nat /\ 1 <= p /\ p <= c /\ p \in 1..TopK
  <2>1. p \in 1..c
    OBVIOUS
  <2> HIDE DEF c
  <2> QED
    BY <1>2, <2>1
<1>4. G = {x \in Other : Stored(score[x]) >= v}
  BY RelevantByValue
<1>5. est[p] \in Other /\ v \in Nat
  BY <1>1, <1>2, <1>3 DEF Ranks
<1> SUFFICES ASSUME est[p] \notin G PROVE FALSE
  OBVIOUS
<1> DEFINE before == {est[l] : l \in 1..(p - 1)}
<1>6. ASSUME NEW x \in G PROVE x \in before
  <2>1. x \in Other /\ Stored(score[x]) >= v
    BY <1>4
  <2>2. ~ (Stored(score[est[p]]) >= v)
    BY <1>4, <1>5
  <2>3. ~ (score[x] <= score[est[p]])
    <3>1. Stored(score[x]) \in Nat /\ Stored(score[est[p]]) \in Nat
      BY <1>5, <2>1, StoredFacts
    <3>2. ~ (Stored(score[x]) <= Stored(score[est[p]]))
      BY <1>5, <2>1, <2>2, <3>1
    <3> QED
      BY <1>5, <2>1, <3>2, StoredFacts
  <2>4. PICK l \in 1..TopK : est[l] = x
    BY <1>3, <2>1, <2>3 DEF RanksScores
  <2>5. ~ (p < l)
    <3>1. score[x] \in Nat /\ score[est[p]] \in Nat
      BY <1>5, <2>1, StoredFacts
    <3>2. p < l => score[est[p]] >= score[x]
      BY <1>3, <2>4 DEF RanksScores
    <3> QED
      BY <2>3, <3>1, <3>2
  <2>6. l # p
    BY <2>4
  <2>7. l \in 1..(p - 1)
    BY <1>3, <2>4, <2>5, <2>6
  <2> QED
    BY <2>4, <2>7
<1>7. p - 1 \in Int /\ 1 \in Int /\ p >= 1
  BY <1>3
<1>8. IsFiniteSet(1..(p - 1)) /\ Cardinality(1..(p - 1)) = p - 1
  <2> DEFINE m == p - 1
  <2>1. m \in Int /\ 1 \in Int /\ m >= 0
    BY <1>7, <1>3
  <2> HIDE DEF m
  <2>2. IsFiniteSet(1..m) /\ Cardinality(1..m) = (IF 1 > m THEN 0 ELSE m - 1 + 1)
    BY <2>1, FS_Interval
  <2>3. Cardinality(1..m) = m
    BY <2>1, <2>2
  <2> QED
    BY <2>2, <2>3 DEF m
<1>9. IsFiniteSet(before) /\ Cardinality(before) <= p - 1
  <2>1. IsFiniteSet(before) /\ Cardinality(before) <= Cardinality(1..(p - 1))
    BY <1>8, Images
  <2> QED
    BY <1>8, <2>1
<1>10. Cardinality(G) <= Cardinality(before) /\ Cardinality(before) \in Nat
  <2>1. G \in SUBSET before
    BY <1>6
  <2> HIDE DEF before, G
  <2> QED
    BY <1>9, <2>1, FS_Subset, FS_CardinalityType
<1>11. Cardinality(G) \in c..Len(gt) /\ Len(gt) \in Nat
  BY <1>1, RelevantItems, TruthLines
<1> DEFINE g == Cardinality(G)
           b == Cardinality(before)
<1>12. g \in c..Len(gt) /\ g <= b /\ b <= p - 1 /\ b \in Nat /\ Len(gt) \in Nat
  BY <1>9, <1>10, <1>11
<1> HIDE DEF g, b, c
<1> QED
  BY <1>2, <1>3, <1>12
LEMMA ExactMarks ==
    ASSUME score \in Scores, NEW gt, TruthOfScores(gt), NEW k \in Ks, Covers(gt, k),
           RanksScores(est), \A x \in Other : Estimate(x) = score[x]
    PROVE  /\ Precision(gt, k) = Whole(1) /\ Recall(gt, k) = Whole(1)
           /\ Ndcg(gt, k) = Whole(1) /\ AvgError(gt, k) = Rounding(gt, k)
<1> DEFINE c == CurK(gt, k)
           H == Hits(gt, k, k)
           E == Hits(gt, k, k + Ext)
           G == GtSet(gt, k)
           h == Cardinality(H)
           e == Cardinality(E)
           g == Cardinality(G)
<1>1. IsTruth(gt) /\ Ranks(est)
  BY DEF TruthOfScores, RanksScores
<1>2. /\ c \in Nat /\ c \in Nat \ {0} /\ c <= k /\ k \in Nat /\ Ext \in Nat
      /\ c = (IF k <= Len(gt) THEN k ELSE Len(gt)) /\ Len(gt) \in Nat
      /\ \A p \in 1..Len(gt) : gt[p][1] \in Other
  BY <1>1, TruthLines, Parameters
<1>3. /\ k <= TopK /\ H = {p \in 1..k : est[p] \in G}
      /\ IsFiniteSet(H) /\ h \in Nat /\ h <= k /\ h <= g
  BY <1>1, HitRanks
<1>4. E = {p \in 1..(k + Ext) : est[p] \in G} /\ IsFiniteSet(E) /\ e \in Nat
  BY <1>1, HitRanks
<1>5. g \in c..Len(gt) /\ Min({k, g}) = c
  BY <1>1, RelevantItems
<1>6. 1..c \in SUBSET (1..k) /\ 1..c \in SUBSET (1..(k + Ext))
  <2> HIDE DEF c
  <2> QED
    BY <1>2
<1>7. \A p \in 1..c : est[p] \in G
  BY ExactRanksHit
<1>8. 1..c \in SUBSET H /\ 1..c \in SUBSET E
  BY <1>3, <1>4, <1>6, <1>7
<1>9. IsFiniteSet(1..c) /\ Cardinality(1..c) = c
  <2> HIDE DEF c
  <2>1. 1 \in Int /\ c \in Int /\ c >= 1
    BY <1>2
  <2>2. IsFiniteSet(1..c) /\ Cardinality(1..c) = (IF 1 > c THEN 0 ELSE c - 1 + 1)
    BY <2>1, FS_Interval
  <2> QED
    BY <2>1, <2>2
<1>10. h <= c
  <2> HIDE DEF h, c, g
  <2> QED
    BY <1>2, <1>3, <1>5
<1>11. c <= h /\ c <= e
  <2> HIDE DEF H, E, c
  <2>1. Cardinality(1..c) <= Cardinality(H)
    BY <1>3, <1>8, FS_Subset
  <2>2. Cardinality(1..c) <= Cardinality(E)
    BY <1>4, <1>8, FS_Subset
  <2> QED
    BY <1>9, <2>1, <2>2
<1>12. h = c
  <2> HIDE DEF h, c
  <2> QED
    BY <1>2, <1>3, <1>10, <1>11
<1>13. H = 1..c
  <2>1. Cardinality(H) = Cardinality(1..c)
    BY <1>9, <1>12
  <2> HIDE DEF H, c, h
  <2> QED
    BY <1>3, <1>8, <2>1, FS_Subset
<1>14. Precision(gt, k) = Whole(1)
  <2>1. Precision(gt, k) = Frac(h, c)
    BY DEF Precision, Reach
  <2> HIDE DEF h, c
  <2> QED
    BY <1>2, <1>3, <1>12, <2>1, AgainstOne
<1>15. Recall(gt, k) = Whole(1)
  <2>1. Recall(gt, k) = IF Less(Whole(1), Frac(e, c)) THEN Whole(1) ELSE Frac(e, c)
    BY DEF Recall
  <2> HIDE DEF e, c
  <2>2. Less(Whole(1), Frac(e, c)) <=> c < e
    BY <1>2, <1>4, AgainstOne
  <2>3. e = c => Frac(e, c) = Whole(1)
    BY <1>2, <1>4, AgainstOne
  <2> QED
    BY <1>2, <1>4, <1>11, <2>1, <2>2, <2>3
<1>16. /\ TopK \in Nat /\ Discount \in [1..TopK -> Nat \ {0}]
       /\ \A p, q \in 1..TopK : p < q => Discount[p] > Discount[q]
  BY ParametersOK, Parameters
<1>17. Ndcg(gt, k) = Whole(1)
  <2> DEFINE y == Total(Discount, 1..c)
  <2>1. c \in 1..TopK /\ 1..c \in SUBSET (1..TopK) /\ Cardinality(1..c) <= c
    <3> HIDE DEF c
    <3> QED
      BY <1>2, <1>3, <1>9, <1>16
  <2>2. y \in Nat /\ y > 0
    <3> HIDE DEF c
    <3> QED
      BY <1>16, <2>1, FirstRanksBest
  <2>3. Ndcg(gt, k) = Frac(y, y)
    BY <1>5, <1>13 DEF Ndcg, Reach, Gains
  <2> HIDE DEF y
  <2> QED
    BY <2>2, <2>3, AgainstOne
<1>18. AvgError(gt, k) = Rounding(gt, k)
  <2> DEFINE lost(s) == Frac(Abs(Stored(s) - s), Stored(s))
             f == [p \in 1..Len(gt) |-> Frac(Abs(gt[p][2] - Estimate(gt[p][1])), gt[p][2])]
             r == [p \in 1..Len(gt) |-> lost(score[gt[p][1]])]
  <2>1. \A p \in 1..Len(gt) : /\ gt[p][2] = Stored(score[gt[p][1]])
                              /\ Estimate(gt[p][1]) = score[gt[p][1]]
    BY <1>2 DEF TruthOfScores
  <2>2. \A p \in 1..Len(gt) :
           Frac(Abs(gt[p][2] - Estimate(gt[p][1])), gt[p][2]) = lost(score[gt[p][1]])
    BY <2>1
  <2>3. f = r
    BY <2>2
  <2>4. AvgError(gt, k) = MeanOf(f, gt, k)
    BY DEF AvgError
  <2>5. Rounding(gt, k) = MeanOf(r, gt, k)
    BY DEF Rounding
  <2> QED
    BY <2>3, <2>4, <2>5
<1> QED
  BY <1>14, <1>15, <1>17, <1>18

-----------------------------------------------------------------------------
(* The invariant.                                                          *)

\* A ranking of the truth run, once there is one.
OrderRanks == order # << >> => order \in [1..MaxLines -> Other] /\ IsRanking(order, MaxLines, score)

\* The file has the written lines of the last ranking, in turn, and perhaps one more
\* whose value was cut.
FileFollows ==
    /\ Len(file) = (IF cut THEN written + 1 ELSE written)
    /\ Len(file) <= Len(order) /\ Len(order) <= MaxLines
    /\ \A p \in 1..Len(file) : file[p][1] = order[p]
    /\ \A p \in 1..written : file[p][2] = Stored(score[order[p]])
    /\ pc = "none" => order = << >>
    /\ pc = "write" => ~ cut /\ Len(order) = MaxLines

\* The scores of the evaluated run by item, and its ranking by them.
Estimates == [x \in Item |-> IF x = Vq THEN 0 ELSE Estimate(x)]

EstimatesRank ==
    pc \in {"metrics", "done"} =>
        /\ exact => swing = [i \in Item |-> score[oriIndex[i]]]
        /\ est \in [1..TopK -> Other] /\ IsRanking(est, TopK, Estimates)

RecordFits ==
    record # NoRecord =>
        /\ pc = "done" /\ GroundTruth # << >>
        /\ record = [k \in Ks |-> [precision |-> Precision(GroundTruth, k),
                                   recall    |-> Recall(GroundTruth, k),
                                   ndcg      |-> Ndcg(GroundTruth, k),
                                   error     |-> AvgError(GroundTruth, k)]]

EvalInv == TypeOK /\ OrderRanks /\ FileFollows /\ EstimatesRank /\ RecordFits
\* The ground truth that is read of a file.
LEMMA TruthOfFile ==
    ASSUME TypeOK, GroundTruth # << >>
    PROVE  /\ IsTruth(GroundTruth) /\ Len(GroundTruth) <= Len(file)
           /\ \A p \in 1..Len(GroundTruth) : GroundTruth[p] = file[p]
<1> DEFINE zeros == {k \in 1..Len(file) : file[k][2] = 0}
           gt == GroundTruth
<1>1. /\ file \in Seq(Other \X Nat) /\ Len(file) \in Nat
      /\ \A k, l \in 1..Len(file) : file[k][1] = file[l][1] => k = l
      /\ \A k \in 1..Len(file) : file[k] \in Other \X Nat
  BY LenProperties, ElementOfSeq DEF TypeOK
<1>2. /\ gt \in Seq(Other \X Nat) /\ Len(gt) <= Len(file) /\ Len(gt) \in Nat
      /\ \A p \in 1..Len(gt) : gt[p] = file[p] /\ file[p][2] # 0
  <2>1. CASE zeros = {}
    <3>1. gt = file
      BY <2>1 DEF GroundTruth
    <3> QED
      BY <1>1, <2>1, <3>1
  <2>2. CASE zeros # {}
    <3>1. zeros \in SUBSET Nat
      OBVIOUS
    <3>2. Min(zeros) \in zeros /\ \A y \in zeros : Min(zeros) <= y
      <4> HIDE DEF zeros
      <4> QED
        BY <2>2, <3>1, MinOfNumbers
    <3> DEFINE m == Min(zeros)
               n == m - 1
    <3>3. m \in 1..Len(file) /\ \A y \in zeros : m <= y
      BY <3>2
    <3>4. gt = SubSeq(file, 1, n)
      BY <2>2 DEF GroundTruth
    <3> HIDE DEF m
    <3>5. n \in 0..Len(file) /\ n \in Nat /\ 1 \in 1..(Len(file) + 1)
      BY <1>1, <3>3
    <3>6. /\ gt \in Seq(Other \X Nat)
          /\ Len(gt) = (IF 1 <= n THEN n - 1 + 1 ELSE 0)
          /\ \A p \in 1..(n - 1 + 1) : gt[p] = file[1 + p - 1]
      <4> HIDE DEF n
      <4> QED
        BY <1>1, <3>4, <3>5, SubSeqProperties
    <3>7. Len(gt) = n
      BY <3>3, <3>6
    <3>8. \A p \in 1..n : gt[p] = file[p] /\ p \in 1..Len(file) /\ p < m
      BY <3>3, <3>6
    <3>9. \A p \in 1..n : file[p][2] # 0
      <4> TAKE p \in 1..n
      <4>1. p \in 1..Len(file) /\ p < m /\ p \in Nat /\ m \in Nat
        BY <3>3, <3>8
      <4>2. p \notin zeros
        BY <3>3, <4>1
      <4> QED
        BY <4>1, <4>2
    <3> HIDE DEF n, zeros
    <3> QED
      BY <1>1, <3>5, <3>6, <3>7, <3>8, <3>9
  <2> QED
    BY <2>1, <2>2
<1>3. \A p \in 1..Len(gt) : p \in 1..Len(file)
  BY <1>1, <1>2
<1>4. \A p \in 1..Len(gt) : gt[p][2] > 0
  <2> TAKE p \in 1..Len(gt)
  <2>1. file[p] \in Other \X Nat /\ gt[p] = file[p] /\ file[p][2] # 0
    BY <1>1, <1>2, <1>3
  <2> QED
    BY <2>1
<1>5. \A k, l \in 1..Len(gt) : gt[k][1] = gt[l][1] => k = l
  BY <1>1, <1>2, <1>3
<1> QED
  BY <1>2, <1>4, <1>5 DEF IsTruth
LEMMA EstimateFound ==
    ASSUME oriIndex \in Numberings, NEW value, swing = [i \in Item |-> value[oriIndex[i]]]
    PROVE  \A x \in Item : Estimate(x) = value[x]
<1> TAKE x \in Item
<1>1. \E i \in Item : ItemOf(i) = x
  BY ParametersOK DEF ItemOf
<1> DEFINE j == CHOOSE i \in Item : ItemOf(i) = x
<1>2. j \in Item /\ oriIndex[j] = x
  BY <1>1 DEF ItemOf
<1>3. Estimate(x) = swing[j]
  BY DEF Estimate
<1> HIDE DEF j
<1> QED
  BY <1>2, <1>3

LEMMA RecordedTruth ==
    ASSUME EvalInv, record # NoRecord
    PROVE  IsTruth(GroundTruth) /\ Ranks(est)
<1>1. TypeOK /\ GroundTruth # << >> /\ pc = "done"
  BY DEF EvalInv, RecordFits
<1>2. est \in [1..TopK -> Other] /\ IsRanking(est, TopK, Estimates)
  BY <1>1 DEF EvalInv, EstimatesRank
<1>3. \A k, l \in 1..TopK : k < l => est[k] # est[l]
  BY <1>2 DEF IsRanking
<1>4. \A k, l \in 1..TopK : est[k] = est[l] => k = l
  <2> TAKE k, l \in 1..TopK
  <2>1. k < l \/ l < k \/ k = l
    BY Parameters
  <2> QED
    BY <1>3, <2>1
<1> QED
  BY <1>1, <1>2, <1>4, TruthOfFile DEF Ranks

LEMMA RecordedMarks ==
    ASSUME EvalInv, record # NoRecord, NEW k \in Ks
    PROVE  record[k] = [precision |-> Precision(GroundTruth, k),
                        recall    |-> Recall(GroundTruth, k),
                        ndcg      |-> Ndcg(GroundTruth, k),
                        error     |-> AvgError(GroundTruth, k)]
BY DEF EvalInv, RecordFits

LEMMA InvBounded ==
    ASSUME EvalInv PROVE MetricsBounded
<1> SUFFICES ASSUME record # NoRecord, NEW k \in Ks
             PROVE  /\ ~ Less(Whole(1), record[k].precision) /\ ~ Less(Whole(1), record[k].recall)
                    /\ ~ Less(Whole(1), record[k].ndcg)
                    /\ ~ Less(record[k].recall, record[k].precision)
                    /\ record[k].ndcg = Whole(1) => record[k].precision = Whole(1)
  BY DEF MetricsBounded
<1> DEFINE gt == GroundTruth
<1>1. IsTruth(gt) /\ Ranks(est)
  BY RecordedTruth
<1>2. /\ record[k].precision = Precision(gt, k) /\ record[k].recall = Recall(gt, k)
      /\ record[k].ndcg = Ndcg(gt, k)
  <2>1. record[k] = [precision |-> Precision(gt, k), recall |-> Recall(gt, k),
                     ndcg |-> Ndcg(gt, k), error |-> AvgError(gt, k)]
    BY RecordedMarks
  <2> HIDE DEF gt
  <2> QED
    BY ONLY <2>1
<1> HIDE DEF gt
<1>3. /\ ~ Less(Whole(1), Precision(gt, k)) /\ ~ Less(Whole(1), Recall(gt, k))
      /\ ~ Less(Whole(1), Ndcg(gt, k))
      /\ ~ Less(Recall(gt, k), Precision(gt, k))
      /\ Ndcg(gt, k) = Whole(1) => Precision(gt, k) = Whole(1)
  BY <1>1, MarksBounded
<1> QED
  BY <1>2, <1>3

LEMMA InvPerfect ==
    ASSUME EvalInv PROVE ExactIsPerfect
<1> SUFFICES ASSUME record # NoRecord, exact, ~ cut, NEW k \in Ks, Covers(GroundTruth, k)
             PROVE  record[k] = [precision |-> Whole(1), recall |-> Whole(1),
                                 ndcg |-> Whole(1), error |-> Rounding(GroundTruth, k)]
  BY DEF ExactIsPerfect
<1> DEFINE gt == GroundTruth
<1>1. IsTruth(gt) /\ Ranks(est) /\ Len(gt) \in Nat /\ Len(gt) >= 1
  BY RecordedTruth, TruthLines
<1>2. /\ TypeOK /\ score \in Scores /\ oriIndex \in Numberings /\ pc = "done"
      /\ Len(file) \in Nat /\ written \in Nat /\ GroundTruth # << >>
  BY LenProperties DEF EvalInv, TypeOK, RecordFits
<1>3. Len(gt) <= Len(file) /\ \A p \in 1..Len(gt) : gt[p] = file[p]
  BY <1>2, TruthOfFile
<1>4. /\ Len(file) = written /\ Len(file) <= Len(order) /\ Len(order) <= MaxLines
      /\ \A p \in 1..Len(file) : file[p][1] = order[p] /\ file[p][2] = Stored(score[order[p]])
  BY DEF EvalInv, FileFollows
<1>5. order \in Seq(Other) /\ Len(order) \in Nat /\ MaxLines \in Nat
  BY <1>2, LenProperties, Parameters DEF TypeOK
<1>6. order # << >>
  BY <1>1, <1>3, <1>4, <1>2, <1>5, EmptySeq
<1>7. IsRanking(order, MaxLines, score)
  BY <1>6 DEF EvalInv, OrderRanks
<1>8. \A p \in 1..Len(gt) : p \in 1..Len(file) /\ p \in 1..MaxLines
  BY <1>1, <1>2, <1>3, <1>4, <1>5
<1>9. \A p \in 1..Len(gt) : gt[p][1] = order[p] /\ gt[p][2] = Stored(score[order[p]])
  BY <1>3, <1>4, <1>8
<1>10. \A p, q \in 1..Len(gt) : p < q => score[gt[p][1]] >= score[gt[q][1]]
  BY <1>7, <1>8, <1>9 DEF IsRanking
<1>11. \A p \in 1..Len(gt) : gt[p][2] = Stored(score[gt[p][1]])
  BY <1>9
<1>12. TruthOfScores(gt)
  <2> HIDE DEF gt
  <2> QED
    BY <1>1, <1>10, <1>11 DEF TruthOfScores
<1>13. /\ swing = [i \in Item |-> score[oriIndex[i]]]
       /\ est \in [1..TopK -> Other] /\ IsRanking(est, TopK, Estimates)
  BY <1>2 DEF EvalInv, EstimatesRank
<1>14. \A x \in Item : Estimate(x) = score[x]
  BY <1>2, <1>13, EstimateFound
<1>15. \A x \in Other : x \in Item /\ x # Vq /\ Estimates[x] = score[x] /\ Estimate(x) = score[x]
  BY <1>14 DEF Estimates, Other
<1>16. RanksScores(est)
  <2>1. \A l \in 1..TopK : est[l] \in Other
    BY <1>13
  <2>2. \A p, q \in 1..TopK : p < q => Estimates[est[p]] >= Estimates[est[q]]
    BY <1>13 DEF IsRanking
  <2>3. \A p, q \in 1..TopK : p < q => score[est[p]] >= score[est[q]]
    BY <1>15, <2>1, <2>2
  <2>4. \A x \in Other \ {est[l] : l \in 1..TopK}, l \in 1..TopK : Estimates[x] <= Estimates[est[l]]
    BY <1>13 DEF IsRanking
  <2>5. \A x \in Other : (\E l \in 1..TopK : est[l] = x) \/ \A l \in 1..TopK : score[x] <= score[est[l]]
    <3> TAKE x \in Other
    <3>1. CASE x \in {est[l] : l \in 1..TopK}
      BY <3>1
    <3>2. CASE x \notin {est[l] : l \in 1..TopK}
      <4>1. \A l \in 1..TopK : Estimates[x] <= Estimates[est[l]]
        BY <2>4, <3>2
      <4>2. \A l \in 1..TopK : score[x] <= score[est[l]]
        BY <1>15, <2>1, <4>1
      <4> QED
        BY <4>2
    <3> QED
      BY <3>1, <3>2
  <2> QED
    BY <1>1, <2>3, <2>5 DEF RanksScores
<1>17. record[k] = [precision |-> Precision(gt, k), recall |-> Recall(gt, k),
                    ndcg |-> Ndcg(gt, k), error |-> AvgError(gt, k)]
  BY RecordedMarks
<1>18. Covers(gt, k)
  OBVIOUS
<1>19. /\ Precision(gt, k) = Whole(1) /\ Recall(gt, k) = Whole(1)
       /\ Ndcg(gt, k) = Whole(1) /\ AvgError(gt, k) = Rounding(gt, k)
  <2>1. \A x \in Other : Estimate(x) = score[x]
    BY <1>15
  <2> HIDE DEF gt
  <2> QED
    BY <1>2, <1>12, <1>16, <1>18, <2>1, ExactMarks
<1> QED
  BY <1>17, <1>19
-----------------------------------------------------------------------------
(* The invariant holds at the start and is kept by every action.           *)

LEMMA InitInv == Init => EvalInv
<1> SUFFICES ASSUME Init PROVE EvalInv
  OBVIOUS
<1> USE DEF Init
<1>1. TypeOK
  <2>1. Len(<< >>) = 0 /\ << >> \in Seq(Other) /\ << >> \in Seq(Other \X Nat)
    BY EmptySeq
  <2>2. MaxLines \in Nat /\ 0 \in 0..MaxLines
    BY Parameters
  <2>3. swing \in [Item -> Nat]
    OBVIOUS
  <2>4. Len(file) = 0 /\ Len(file) <= MaxLines /\ \A k \in 1..Len(file) : FALSE
    BY <2>1, <2>2
  <2>5. \A k, l \in 1..Len(file) : file[k][1] = file[l][1] => k = l
    BY <2>4
  <2>6. /\ score \in Scores /\ oriIndex \in Numberings /\ exact \in BOOLEAN /\ cut \in BOOLEAN
        /\ pc = "none" /\ order \in Seq(Other) /\ written \in 0..MaxLines
        /\ file \in Seq(Other \X Nat) /\ est \in Seq(Other) /\ record = NoRecord
    BY <2>1, <2>2
  <2> QED
    BY ONLY <2>3, <2>4, <2>5, <2>6 DEF TypeOK
<1>2. FileFollows
  <2>1. Len(<< >>) = 0 /\ MaxLines \in Nat
    BY EmptySeq, Parameters
  <2> QED
    BY <2>1 DEF FileFollows
<1> QED
  BY <1>1, <1>2 DEF EvalInv, OrderRanks, EstimatesRank, RecordFits

\* A record stays true while neither file nor ranking changes.
LEMMA SameRecord ==
    ASSUME RecordFits, UNCHANGED <<score, oriIndex, file, swing, est, record>>,
           record # NoRecord => pc' = "done"
    PROVE  RecordFits'
<1>1. GroundTruth' = GroundTruth
  BY DEF GroundTruth
<1>2. \A gt, k : /\ Precision(gt, k)' = Precision(gt, k) /\ Recall(gt, k)' = Recall(gt, k)
                 /\ Ndcg(gt, k)' = Ndcg(gt, k) /\ AvgError(gt, k)' = AvgError(gt, k)
  BY DEF Precision, Recall, Ndcg, AvgError, MeanOf, Estimate, ItemOf, Hits, GtSet, Relevant, Gains,
         CurK, Reach
<1> QED
  BY <1>1, <1>2 DEF RecordFits

LEMMA StartTruthInv == ASSUME EvalInv, StartTruth PROVE EvalInv'
<1> USE DEF StartTruth
<1>1. /\ order' \in [1..MaxLines -> Other] /\ IsRanking(order', MaxLines, score)
      /\ file' = << >> /\ cut' = FALSE /\ written' = 0 /\ pc' = "write"
      /\ UNCHANGED <<score, oriIndex, exact, swing, est, record>>
  BY DEF Reopen
<1>2. order' \in Seq(Other) /\ Len(order') = MaxLines /\ MaxLines \in Nat
  BY <1>1, Parameters, SeqDef, LenProperties
<1>3. Len(<< >>) = 0 /\ << >> \in Seq(Other \X Nat)
  BY EmptySeq
<1>4. record = NoRecord
  BY DEF EvalInv, RecordFits
<1>5. TypeOK'
  <2>1. Len(file') = 0 /\ Len(file') <= MaxLines /\ \A k \in 1..Len(file') : FALSE
    BY <1>1, <1>2, <1>3
  <2>2. \A k, l \in 1..Len(file') : file'[k][1] = file'[l][1] => k = l
    BY <2>1
  <2>3. TypeOK
    BY DEF EvalInv
  <2>4. written' \in 0..MaxLines /\ file' \in Seq(Other \X Nat)
    BY <1>1, <1>2, <1>3
  <2> QED
    BY ONLY <1>1, <1>2, <1>4, <2>1, <2>2, <2>3, <2>4 DEF TypeOK
<1>6. OrderRanks'
  BY <1>1 DEF OrderRanks, IsRanking
<1>7. FileFollows'
  BY <1>1, <1>2, <1>3 DEF FileFollows
<1>8. EstimatesRank'
  BY <1>1 DEF EstimatesRank
<1>9. RecordFits'
  BY <1>1, <1>4 DEF RecordFits
<1> QED
  BY <1>5, <1>6, <1>7, <1>8, <1>9 DEF EvalInv

\* A line for the next item of the ranking.
LEMMA LineAppended ==
    ASSUME EvalInv, pc = "write", written < MaxLines, NEW value \in Nat,
           file' = Append(file, <<order[written + 1], value>>),
           UNCHANGED <<score, order>>
    PROVE  /\ written \in Nat /\ Len(file) = written /\ Len(file') = written + 1
           /\ Len(order) = MaxLines /\ MaxLines \in Nat /\ order[written + 1] \in Other
           /\ file' \in Seq(Other \X Nat)
           /\ \A p \in 1..Len(file') : file'[p][1] = order[p]
           /\ \A p \in 1..written : file'[p][2] = Stored(score[order[p]])
           /\ file'[written + 1][2] = value
           /\ \A k, l \in 1..Len(file') : file'[k][1] = file'[l][1] => k = l
<1>1. /\ written \in 0..MaxLines /\ file \in Seq(Other \X Nat) /\ order \in Seq(Other)
      /\ MaxLines \in Nat
  BY Parameters DEF EvalInv, TypeOK
<1>2. /\ written \in Nat /\ Len(file) = written /\ Len(order) = MaxLines
      /\ \A p \in 1..Len(file) : file[p][1] = order[p]
      /\ \A p \in 1..written : file[p][2] = Stored(score[order[p]])
  BY <1>1 DEF EvalInv, FileFollows
<1>3. order # << >>
  BY <1>1, <1>2, EmptySeq
<1>4. order \in [1..MaxLines -> Other] /\ IsRanking(order, MaxLines, score)
  BY <1>3 DEF EvalInv, OrderRanks
<1>5. order[written + 1] \in Other
  BY <1>1, <1>2, <1>4
<1> DEFINE line == <<order[written + 1], value>>
<1>6. line \in Other \X Nat
  BY <1>5
<1>7. file' = Append(file, line)
  OBVIOUS
<1>8. /\ Len(file') = written + 1 /\ file' \in Seq(Other \X Nat)
      /\ \A p \in 1..written : file'[p] = file[p]
      /\ file'[written + 1] = line
  <2> HIDE DEF line
  <2> QED
    BY <1>1, <1>2, <1>6, <1>7, AppendProperties
<1>9. \A p \in 1..(written + 1) : p \in 1..written \/ p = written + 1
  BY <1>2
<1>10. \A p \in 1..(written + 1) : file'[p][1] = order[p]
  BY <1>2, <1>8, <1>9
<1>11. \A p, q \in 1..MaxLines : order[p] = order[q] => p = q
  <2>1. \A p, q \in 1..MaxLines : p < q => order[p] # order[q]
    BY <1>4 DEF IsRanking
  <2> TAKE p, q \in 1..MaxLines
  <2>2. p < q \/ q < p \/ p = q
    BY <1>1
  <2> QED
    BY <2>1, <2>2
<1>12. \A p \in 1..(written + 1) : p \in 1..MaxLines
  BY <1>1, <1>2
<1>13. \A k, l \in 1..(written + 1) : file'[k][1] = file'[l][1] => k = l
  <2> TAKE k, l \in 1..(written + 1)
  <2>1. file'[k][1] = order[k] /\ file'[l][1] = order[l] /\ k \in 1..MaxLines /\ l \in 1..MaxLines
    BY <1>10, <1>12
  <2> QED
    BY <1>11, <2>1
<1>14. \A p \in 1..written : file'[p][2] = Stored(score[order[p]])
  BY <1>2, <1>8
<1>15. file'[written + 1][2] = value
  BY <1>8
<1> QED
  BY <1>1, <1>2, <1>5, <1>8, <1>10, <1>13, <1>14, <1>15

LEMMA WriteLineInv == ASSUME EvalInv, WriteLine PROVE EvalInv'
<1> USE DEF WriteLine
<1> DEFINE value == Stored(score[order[written + 1]])
<1>1. /\ pc = "write" /\ written < MaxLines /\ written' = written + 1
      /\ file' = Append(file, <<order[written + 1], value>>)
      /\ UNCHANGED <<score, oriIndex, exact, pc, order, cut, swing, est, record>>
  OBVIOUS
<1>2. value \in Nat
  <2>1. /\ written \in 0..MaxLines /\ MaxLines \in Nat /\ order \in Seq(Other)
        /\ Len(order) = MaxLines /\ score \in Scores
    BY <1>1, Parameters DEF EvalInv, TypeOK, FileFollows
  <2>2. written + 1 \in 1..Len(order)
    BY <1>1, <2>1
  <2>3. order[written + 1] \in Other
    BY <2>1, <2>2, ElementOfSeq
  <2> QED
    BY <2>1, <2>3, StoredFacts
<1>3. /\ written \in Nat /\ Len(file) = written /\ Len(file') = written + 1
      /\ Len(order) = MaxLines /\ MaxLines \in Nat
      /\ file' \in Seq(Other \X Nat)
      /\ \A p \in 1..Len(file') : file'[p][1] = order[p]
      /\ \A p \in 1..written : file'[p][2] = Stored(score[order[p]])
      /\ file'[written + 1][2] = value
      /\ \A k, l \in 1..Len(file') : file'[k][1] = file'[l][1] => k = l
  <2> HIDE DEF value
  <2> QED
    BY <1>1, <1>2, LineAppended
<1>4. record = NoRecord /\ ~ cut
  BY <1>1 DEF EvalInv, RecordFits, FileFollows
<1>5. TypeOK'
  <2>1. written' \in 0..MaxLines /\ Len(file') <= MaxLines
    BY <1>1, <1>3
  <2> QED
    BY <1>1, <1>3, <1>4, <2>1 DEF EvalInv, TypeOK
<1>6. OrderRanks'
  BY <1>1 DEF EvalInv, OrderRanks, IsRanking
<1>7. FileFollows'
  <2>1. \A p \in 1..written' : file'[p][2] = Stored(score[order[p]])
    <3> TAKE p \in 1..written'
    <3>1. p \in 1..written \/ p = written + 1
      BY <1>1, <1>3
    <3> QED
      BY <1>3, <3>1
  <2>2. Len(file') = written' /\ Len(file') <= Len(order) /\ Len(order) <= MaxLines
    BY <1>1, <1>3
  <2> QED
    BY <1>1, <1>3, <1>4, <2>1, <2>2 DEF FileFollows
<1>8. EstimatesRank'
  BY <1>1 DEF EstimatesRank
<1>9. RecordFits'
  BY <1>1, <1>4 DEF RecordFits
<1> QED
  BY <1>5, <1>6, <1>7, <1>8, <1>9 DEF EvalInv

LEMMA CloseFileInv == ASSUME EvalInv, CloseFile PROVE EvalInv'
<1> USE DEF CloseFile
<1>1. /\ pc = "write" /\ pc' = "closed"
      /\ UNCHANGED <<score, oriIndex, exact, order, written, file, cut, swing, est, record>>
  OBVIOUS
<1>2. record = NoRecord
  BY <1>1 DEF EvalInv, RecordFits
<1>3. TypeOK' /\ OrderRanks'
  BY <1>1 DEF EvalInv, TypeOK, OrderRanks, IsRanking
<1>4. FileFollows'
  BY <1>1 DEF EvalInv, FileFollows
<1>5. EstimatesRank' /\ RecordFits'
  BY <1>1, <1>2 DEF EstimatesRank, RecordFits
<1> QED
  BY <1>3, <1>4, <1>5 DEF EvalInv

LEMMA BreakOffInv == ASSUME EvalInv, BreakOff PROVE EvalInv'
<1> USE DEF BreakOff
<1>1. /\ pc = "write" /\ pc' = "broken"
      /\ UNCHANGED <<score, oriIndex, exact, order, written, swing, est, record>>
  OBVIOUS
<1>2. record = NoRecord /\ ~ cut /\ written \in Nat
  BY <1>1 DEF EvalInv, RecordFits, FileFollows, TypeOK
<1>3. OrderRanks' /\ EstimatesRank' /\ RecordFits'
  BY <1>1, <1>2 DEF EvalInv, OrderRanks, IsRanking, EstimatesRank, RecordFits
<1>4. CASE UNCHANGED <<file, cut>>
  <2>1. TypeOK' /\ FileFollows'
    BY <1>1, <1>4 DEF EvalInv, TypeOK, FileFollows
  <2> QED
    BY <1>3, <2>1 DEF EvalInv
<1>5. CASE ~ UNCHANGED <<file, cut>>
  <2>1. PICK value \in 0..Max({score[x] : x \in Item}) :
           /\ written < MaxLines /\ file' = Append(file, <<order[written + 1], value>>) /\ cut'
    BY <1>5
  <2>2. Max({score[x] : x \in Item}) \in Nat
    <3> DEFINE T == {score[x] : x \in Item}
    <3>1. score \in [Item -> Nat]
      BY StoredFacts DEF EvalInv, TypeOK
    <3>2. IsFiniteSet(T)
      BY Parameters, Images
    <3>3. T \in SUBSET Nat /\ T # {}
      BY <3>1, Parameters
    <3> HIDE DEF T
    <3>4. Max(T) \in T
      BY <3>2, <3>3, MaxOfNumbers
    <3>5. Max(T) \in Nat
      BY <3>3, <3>4
    <3> QED
      BY <3>5 DEF T
  <2>3. value \in Nat
    BY <2>2
  <2>4. /\ Len(file) = written /\ Len(file') = written + 1
        /\ Len(order) = MaxLines /\ MaxLines \in Nat
        /\ file' \in Seq(Other \X Nat)
        /\ \A p \in 1..Len(file') : file'[p][1] = order[p]
        /\ \A p \in 1..written : file'[p][2] = Stored(score[order[p]])
        /\ \A k, l \in 1..Len(file') : file'[k][1] = file'[l][1] => k = l
    BY <1>1, <2>1, <2>3, LineAppended
  <2>5. Len(file') <= MaxLines
    BY <1>2, <2>1, <2>4
  <2>6. cut' = TRUE
    BY <1>5
  <2>7. TypeOK'
    BY <1>1, <1>2, <2>4, <2>5, <2>6 DEF EvalInv, TypeOK
  <2>8. FileFollows'
    BY <1>1, <2>1, <2>4, <2>5 DEF FileFollows
  <2> QED
    BY <1>3, <2>7, <2>8 DEF EvalInv
<1> QED
  BY <1>4, <1>5

LEMMA QueryInv == ASSUME EvalInv, Query PROVE EvalInv'
<1> USE DEF Query
<1>1. /\ pc \in {"none", "closed", "broken"} /\ pc' = "metrics"
      /\ swing' = IF exact THEN [i \in Item |-> score[oriIndex[i]]] ELSE [i \in Item |-> 1]
      /\ est' \in [1..TopK -> Other] /\ IsRanking(est', TopK, RealValues)
      /\ UNCHANGED <<score, oriIndex, exact, order, written, file, cut, record>>
  OBVIOUS
<1>2. record = NoRecord
  BY <1>1 DEF EvalInv, RecordFits
<1>3. swing' \in [Item -> Nat]
  <2>1. score \in [Item -> Nat]
    BY StoredFacts DEF EvalInv, TypeOK
  <2>2. oriIndex \in [Item -> Item]
    BY ParametersOK DEF EvalInv, TypeOK
  <2>3. \A i \in Item : score[oriIndex[i]] \in Nat
    BY <2>1, <2>2
  <2> QED
    BY <1>1, <2>3
<1>4. est' \in Seq(Other)
  BY <1>1, Parameters, SeqDef
<1>5. TypeOK'
  BY <1>1, <1>2, <1>3, <1>4 DEF EvalInv, TypeOK
<1>6. OrderRanks'
  BY <1>1 DEF EvalInv, OrderRanks, IsRanking
<1>7. FileFollows'
  <2>1. UNCHANGED <<file, cut, written, order, score>> /\ pc' # "none" /\ pc' # "write"
    BY <1>1
  <2> QED
    BY <2>1 DEF EvalInv, FileFollows
<1>8. EstimatesRank'
  <2>1. RealValues = Estimates'
    BY <1>1 DEF RealValues, Estimates, Estimate, ItemOf
  <2>2. IsRanking(est', TopK, Estimates')
    BY <1>1, <2>1
  <2>3. IsRanking(est, TopK, Estimates)'
    BY <2>2 DEF IsRanking
  <2>4. exact' => swing' = [i \in Item |-> score[oriIndex[i]]]'
    BY <1>1
  <2> QED
    BY <1>1, <2>3, <2>4 DEF EstimatesRank
<1>9. RecordFits'
  BY <1>1, <1>2 DEF RecordFits
<1> QED
  BY <1>5, <1>6, <1>7, <1>8, <1>9 DEF EvalInv

LEMMA MeasureInv == ASSUME EvalInv, Measure PROVE EvalInv'
<1> USE DEF Measure
<1>1. /\ pc = "metrics" /\ pc' = "done"
      /\ UNCHANGED <<score, oriIndex, exact, order, written, file, cut, swing, est>>
  OBVIOUS
<1>2. record' = IF GroundTruth = << >> THEN NoRecord
                ELSE [k \in Ks |-> [precision |-> Precision(GroundTruth, k),
                                    recall    |-> Recall(GroundTruth, k),
                                    ndcg      |-> Ndcg(GroundTruth, k),
                                    error     |-> AvgError(GroundTruth, k)]]
  OBVIOUS
<1>3. record' # NoRecord => DOMAIN record' = Ks
  BY <1>2
<1>4. TypeOK'
  BY <1>1, <1>3 DEF EvalInv, TypeOK
<1>5. OrderRanks'
  BY <1>1 DEF EvalInv, OrderRanks, IsRanking
<1>6. FileFollows'
  BY <1>1 DEF EvalInv, FileFollows
<1>7. EstimatesRank'
  <2>1. Estimates' = Estimates
    BY <1>1 DEF Estimates, Estimate, ItemOf
  <2>2. /\ exact => swing = [i \in Item |-> score[oriIndex[i]]]
        /\ est \in [1..TopK -> Other] /\ IsRanking(est, TopK, Estimates)
    BY <1>1 DEF EvalInv, EstimatesRank
  <2>3. IsRanking(est', TopK, Estimates')
    BY <1>1, <2>1, <2>2
  <2> QED
    BY <1>1, <2>2, <2>3 DEF EstimatesRank, IsRanking
<1>8. RecordFits'
  <2>1. GroundTruth' = GroundTruth
    BY <1>1 DEF GroundTruth
  <2>2. \A gt, k : /\ Precision(gt, k)' = Precision(gt, k) /\ Recall(gt, k)' = Recall(gt, k)
                   /\ Ndcg(gt, k)' = Ndcg(gt, k) /\ AvgError(gt, k)' = AvgError(gt, k)
    BY <1>1 DEF Precision, Recall, Ndcg, AvgError, MeanOf, Estimate, ItemOf, Hits, GtSet, Relevant,
                Gains, CurK, Reach
  <2>3. [k \in Ks |-> [precision |-> Precision(GroundTruth, k),
                       recall    |-> Recall(GroundTruth, k),
                       ndcg      |-> Ndcg(GroundTruth, k),
                       error     |-> AvgError(GroundTruth, k)]]'
        = [k \in Ks |-> [precision |-> Precision(GroundTruth, k),
                         recall    |-> Recall(GroundTruth, k),
                         ndcg      |-> Ndcg(GroundTruth, k),
                         error     |-> AvgError(GroundTruth, k)]]
    BY <2>1, <2>2
  <2> QED
    BY <1>1, <1>2, <2>1, <2>3 DEF RecordFits
<1> QED
  BY <1>4, <1>5, <1>6, <1>7, <1>8 DEF EvalInv

LEMMA StutterInv == ASSUME EvalInv, UNCHANGED vars PROVE EvalInv'
<1>1. UNCHANGED <<score, oriIndex, exact, pc, order, written, file, cut, swing, est, record>>
  BY DEF vars
<1>2. TypeOK' /\ OrderRanks' /\ FileFollows'
  <2>1. TypeOK'
    BY <1>1 DEF EvalInv, TypeOK
  <2>2. OrderRanks'
    BY <1>1 DEF EvalInv, OrderRanks, IsRanking
  <2>3. FileFollows'
    BY <1>1 DEF EvalInv, FileFollows
  <2> QED
    BY ONLY <2>1, <2>2, <2>3
<1>3. EstimatesRank'
  BY <1>1 DEF EvalInv, EstimatesRank, IsRanking, Estimates, Estimate, ItemOf
<1>4. RecordFits'
  BY <1>1, SameRecord DEF EvalInv, RecordFits
<1> QED
  BY <1>2, <1>3, <1>4 DEF EvalInv

\* EvalInv is an invariant: how far the file follows the last ranking of the truth run, by
\* whose scores the evaluated run ranks, and of what a record is made
\* (store_ground_truth, quality_metrics).
THEOREM EvaluationInductive == Spec => []EvalInv
<1>1. Init => EvalInv
  BY InitInv
<1>2. EvalInv /\ [Next]_vars => EvalInv'
  BY StartTruthInv, WriteLineInv, CloseFileInv, BreakOffInv, QueryInv, MeasureInv, StutterInv
     DEF Next, Terminating
<1> QED
  BY <1>1, <1>2, PTL DEF Spec

\* Every variable keeps its type, and no file has an item twice or more lines than one run
\* writes, however often store_ground_truth broke off and was run again.
THEOREM EvaluationTypes == Spec => []TypeOK
<1>1. EvalInv => TypeOK
  BY DEF EvalInv
<1> QED
  BY <1>1, EvaluationInductive, PTL

\* No metric of calc_Precision, calc_Recall and calc_NDCG exceeds 1, for any ranking and any
\* file; recall is not below precision, and NDCG is 1 only if precision is.
THEOREM MetricsFit == Spec => []MetricsBounded
<1>1. EvalInv => MetricsBounded
  BY InvBounded
<1> QED
  BY <1>1, EvaluationInductive, PTL

\* quality_metrics gives exact scores the best marks, whatever ties there are, and for files
\* that lost whole lines.
THEOREM ExactPerfect == Spec => []ExactIsPerfect
<1>1. EvalInv => ExactIsPerfect
  BY InvPerfect
<1> QED
  BY <1>1, EvaluationInductive, PTL
=============================================================================
