-------------------------- MODULE PairSwingProofs --------------------------
(***************************************************************************)
(* Proofs for PairSwing: its types, that the procedures that go over all   *)
(* pairs compute the definition of the score, and what a draw of a slot    *)
(* and a draw of a pair are worth.                                         *)
(***************************************************************************)
EXTENDS PairSwing, SumsProofs

-----------------------------------------------------------------------------
(* The inductive invariant.                                                *)

Exact == {"ExactSwing", "FastExactSwing"}
Drawing == {"direct", "collect"}
Places == IF proc \in Exact THEN At(vq) ELSE KeptAt(vq)

InputOK ==
    /\ edges \in Graphs /\ vq \in Queries /\ mapIndex \in Numberings
    /\ alpha \in Alphas /\ rounds \in Rounds /\ proc \in Procedure

ControlOK ==
    /\ pc = "start" => branch = "none"
    /\ pc = "pairs" => branch = "pairs"
    /\ pc \in {"slots", "slot"} => branch = "slots"
    /\ pc = "direct" => branch = "direct"
    /\ pc \in {"collect", "update"} => branch = "collect"
    /\ pc = "stages" => branch = "stages"
    /\ pc \in {"back", "done"} => branch \in {"return", "pairs", "slots", "direct", "collect"}
    /\ pc \in {"start", "pairs", "slots", "slot", "direct", "collect", "update",
               "stages", "back", "done"}
    /\ proc \in Exact => branch \in {"none", "pairs"}

UsersOK ==
    IF pc = "start" THEN Ustar = << >> ELSE \E f \in Orders(Places) : Ustar = Users(f)

LoopOK ==
    /\ i \in Nat \ {0} /\ j \in Nat \ {0}
    /\ pc = "start" => i = 1 /\ j = 1
    /\ pc = "pairs" => j <= i
    /\ pc \in {"slots", "slot"} => i < j /\ rounds >= 1
    /\ pc = "slot" => /\ j <= Len(Ustar) /\ Isize \in Nat \ {0}
                      /\ hits \in [Slots(Drawee) -> Nat] /\ SlotsDrawn <= Isize

AllPairs == PairsOf(DOMAIN Ustar)

DrawsOK ==
    /\ branch = "return" => Len(Ustar) < 2
    /\ branch \in Drawing \cup {"slots"} => Len(Ustar) >= 2
    /\ IF branch \in Drawing THEN drawn \in [AllPairs -> Nat] /\ RoundsDrawn <= rounds
                             ELSE drawn = Empty
    /\ todo \subseteq {p \in DOMAIN drawn : drawn[p] > 0}
    /\ pc # "update" => todo = {}
    /\ branch \in Drawing /\ pc \in {"update", "back", "done"} => RoundsDrawn = rounds

SwingOK == swing \in [Item -> Fraction] /\ (pc \in {"start", "collect"} \/ branch = "return" => swing = NoScore)

PairsDone == {p \in AllPairs : p[2] < i \/ (p[2] = i /\ p[1] < j)}
Sharing(n) == {p \in AllPairs : n \in Common(Ustar[p[1]], Ustar[p[2]])}
Gains == [p \in AllPairs |-> Gain(Ustar[p[1]], Ustar[p[2]])]

PairsScored ==
    /\ pc = "pairs" => \A n \in Item : swing[n] = SumOf(Gains, Sharing(n) \cap PairsDone)
    /\ pc = "back" /\ branch \in {"pairs", "return"} =>
          \A n \in Item : swing[n] = SumOf(Gains, Sharing(n))

Used(p) == IF pc = "collect" \/ p \in todo THEN 0 ELSE drawn[p]
UsedGains == [p \in AllPairs |-> Times(Whole(Used(p)), Gain(Ustar[p[1]], Ustar[p[2]]))]

DrawsScored ==
    branch \in Drawing /\ pc # "done" =>
       \A n \in Item : Times(swing[n], Whole(rounds)) =
                       Times(SumOf(UsedGains, Sharing(n)), Whole(NumPairs(Len(Ustar))))


Inv == /\ InputOK /\ ControlOK /\ UsersOK /\ LoopOK /\ DrawsOK
       /\ SwingOK /\ PairsScored /\ DrawsScored
       /\ ExactScores /\ DrawScores

-----------------------------------------------------------------------------
(* The graph.                                                              *)

LEMMA Edges ==
    ASSUME InputOK
    PROVE  /\ edges \in Seq(User \X Item) /\ IsFiniteSet(DOMAIN edges)
           /\ \A k \in DOMAIN edges : edges[k][1] \in User /\ edges[k][2] \in Item
           /\ vq \in Item /\ alpha \in Nat /\ rounds \in Nat
           /\ mapIndex \in [Item -> Item]
           /\ \A x, y \in Item : mapIndex[x] = mapIndex[y] => x = y
<1>1. edges \in Seq(User \X Item)
  BY ParametersOK DEF InputOK
<1>2. DOMAIN edges = 1..Len(edges) /\ Len(edges) \in Nat
  BY <1>1
<1>3. IsFiniteSet(DOMAIN edges)
  BY <1>2, FS_Interval
<1>4. \A k \in DOMAIN edges : edges[k] \in User \X Item
  BY <1>1
<1> QED
  BY <1>1, <1>3, <1>4, ParametersOK DEF InputOK

\* Numbers of items are different for different items.
LEMMA Numbers ==
    ASSUME InputOK
    PROVE  /\ \A v \in Item : Number(v) \in Item
           /\ \A x, y \in Item : Number(x) = Number(y) => x = y
BY Edges DEF Number

LEMMA PlacesFinite ==
    ASSUME InputOK, NEW v
    PROVE  /\ At(v) \in SUBSET (DOMAIN edges) /\ IsFiniteSet(At(v))
           /\ KeptAt(v) \in SUBSET At(v) /\ IsFiniteSet(KeptAt(v))
<1>1. At(v) \in SUBSET (DOMAIN edges) /\ KeptAt(v) \in SUBSET At(v)
  BY DEF At, KeptAt
<1> QED
  BY <1>1, Edges, FS_Subset

LEMMA Degrees ==
    ASSUME InputOK, NEW u
    PROVE  /\ UDeg(u) \in Nat
           /\ \A k \in DOMAIN edges : UserAt(k) = u => UDeg(u) >= 1
           /\ \A k, l \in DOMAIN edges : k # l /\ UserAt(k) = u /\ UserAt(l) = u => Kept(u)
<1> DEFINE D == {k \in DOMAIN edges : UserAt(k) = u}
<1>1. IsFiniteSet(D) /\ UDeg(u) = Cardinality(D)
  BY Edges, FS_Subset DEF UDeg
<1> HIDE DEF D
<1>2. Cardinality(D) \in Nat
  BY <1>1, FS_CardinalityType
<1>3. ASSUME NEW k \in D
      PROVE  /\ IsFiniteSet(D \ {k}) /\ Cardinality(D \ {k}) \in Nat
             /\ Cardinality(D) = Cardinality(D \ {k}) + 1
  <2>1. D \in SUBSET D
    OBVIOUS
  <2>2. /\ IsFiniteSet(D \ {k}) /\ Cardinality(D \ {k}) \in Nat
        /\ Cardinality(D \ {k}) = Cardinality(D) - 1
    BY <1>1, <2>1, OneLess
  <2> QED
    BY <1>2, <2>2
<1>4. ASSUME NEW k \in D, NEW l \in D, k # l PROVE Cardinality(D) >= 2
  <2> DEFINE R == D \ {k}
  <2>1. IsFiniteSet(R) /\ l \in R /\ R \in SUBSET R /\ Cardinality(R) \in Nat
    BY <1>3, <1>4
  <2>2. Cardinality(R \ {l}) \in Nat /\ Cardinality(R \ {l}) = Cardinality(R) - 1
    BY <2>1, OneLess
  <2>3. Cardinality(D) = Cardinality(R) + 1
    BY <1>3
  <2> HIDE DEF R
  <2> QED
    BY <1>2, <2>1, <2>2, <2>3
<1>5. ASSUME NEW k \in DOMAIN edges, UserAt(k) = u PROVE UDeg(u) >= 1
  <2>1. k \in D
    BY <1>5 DEF D
  <2>2. Cardinality(D) = Cardinality(D \ {k}) + 1 /\ Cardinality(D \ {k}) \in Nat
    BY <1>3, <2>1
  <2> QED
    BY <1>1, <1>2, <2>2
<1>6. \A k, l \in DOMAIN edges : k # l /\ UserAt(k) = u /\ UserAt(l) = u => Kept(u)
  BY <1>1, <1>4 DEF D, Kept
<1> QED
  BY <1>1, <1>2, <1>5, <1>6

\* The items of a user are finitely many, and their numbers as many.
LEMMA ItemLists ==
    ASSUME InputOK, NEW u
    PROVE  /\ ItemsOf(u) \in SUBSET Item /\ IsFiniteSet(ItemsOf(u))
           /\ N(u) = {Number(v) : v \in ItemsOf(u)}
           /\ N(u) \in SUBSET Item
<1> DEFINE D == {l \in DOMAIN edges : edges[l][1] = u}
           g == [k \in D |-> edges[k][2]]
<1>1. IsFiniteSet(D)
  BY Edges, FS_Subset
<1>2. ItemsOf(u) = {edges[k][2] : k \in D} /\ N(u) = {Number(edges[k][2]) : k \in D}
  BY DEF ItemsOf, N
<1>3. g \in Surjection(D, ItemsOf(u))
  BY <1>2 DEF Surjection
<1>4. IsFiniteSet(ItemsOf(u))
  BY <1>1, <1>3, FS_Surjection
<1>5. ItemsOf(u) \in SUBSET Item
  BY <1>2, Edges
<1>6. N(u) = {Number(v) : v \in ItemsOf(u)}
  BY <1>2
<1>7. N(u) \in SUBSET Item
  BY <1>5, <1>6, Numbers
<1> QED
  BY <1>4, <1>5, <1>6, <1>7

\* What two users have in common, in numbers and in the items' own ids.
LEMMA CommonItems ==
    ASSUME InputOK, NEW u, NEW w
    PROVE  /\ Common(u, w) \in SUBSET Item /\ IsFiniteSet(Common(u, w))
           /\ Cardinality(Common(u, w)) \in Nat
           /\ Common(u, w) # {} => Cardinality(Common(u, w)) >= 1
           /\ \A v \in Item : Number(v) \in Common(u, w) <=> v \in ItemsOf(u) \cap ItemsOf(w)
           /\ Cardinality(Common(u, w)) = Cardinality(ItemsOf(u) \cap ItemsOf(w))
           /\ Common(u, w) = Common(w, u)
<1> DEFINE B == ItemsOf(u) \cap ItemsOf(w)
           g == [v \in B |-> Number(v)]
<1>1. Common(u, w) = {Number(v) : v \in B}
  BY ItemLists, Numbers DEF Common
<1>2. IsFiniteSet(B) /\ B \in SUBSET Item
  BY ItemLists, FS_Subset
<1>3. g \in Bijection(B, Common(u, w))
  <2>1. g \in [B -> Common(u, w)] /\ \A x, y \in B : g[x] = g[y] => x = y
    BY <1>1, <1>2, Numbers
  <2>2. \A z \in Common(u, w) : \E x \in B : g[x] = z
    BY <1>1
  <2> QED
    BY <2>1, <2>2 DEF Bijection, Injection, Surjection, IsInjective
<1>4. IsFiniteSet(Common(u, w)) /\ Cardinality(Common(u, w)) = Cardinality(B)
  BY <1>2, <1>3, FS_Bijection DEF ExistsBijection
<1>5. Cardinality(Common(u, w)) \in Nat /\ (Cardinality(Common(u, w)) = 0 <=> Common(u, w) = {})
  BY <1>4, FS_CardinalityType, FS_EmptySet
<1>6. \A v \in Item : Number(v) \in Common(u, w) <=> v \in B
  BY <1>1, <1>2, Numbers
<1>7. Common(u, w) \in SUBSET Item
  BY <1>1, <1>2, Numbers
<1>8. Common(u, w) = Common(w, u)
  BY DEF Common
<1> QED
  BY <1>4, <1>5, <1>6, <1>7, <1>8

\* A pair's gain is its worth, and a fraction if they share something.
LEMMA Gaining ==
    ASSUME InputOK, NEW u, NEW w
    PROVE  /\ Gain(u, w) = Worth(u, w) /\ Gain(u, w) = Gain(w, u)
           /\ Common(u, w) # {} =>
                /\ alpha + Cardinality(Common(u, w)) \in Nat \ {0}
                /\ Gain(u, w) \in Fraction
<1>1. Gain(u, w) = Worth(u, w) /\ Gain(u, w) = Gain(w, u)
  BY CommonItems DEF Gain, Worth
<1>2. ASSUME Common(u, w) # {} PROVE alpha + Cardinality(Common(u, w)) \in Nat \ {0}
  <2>1. /\ alpha \in Nat /\ Cardinality(Common(u, w)) \in Nat
        /\ Cardinality(Common(u, w)) >= 1
    BY <1>2, CommonItems, Edges
  <2> QED
    BY <2>1
<1> QED
  BY <1>1, <1>2, FracFacts DEF Gain

-----------------------------------------------------------------------------
(* The users of the query item in a list.                                  *)

LEMMA Listed ==
    ASSUME InputOK, NEW S \in SUBSET (DOMAIN edges), NEW f \in Orders(S), NEW us, us = Users(f)
    PROVE  /\ Cardinality(S) \in Nat /\ f \in [1..Cardinality(S) -> S]
           /\ DOMAIN us = 1..Cardinality(S) /\ Len(us) = Cardinality(S)
           /\ us \in Seq(User)
           /\ \A k \in DOMAIN us : f[k] \in S /\ f[k] \in Nat /\ us[k] = UserAt(f[k])
           /\ \A k, l \in DOMAIN us : f[k] = f[l] => k = l
           /\ \A x \in S : \E k \in DOMAIN us : f[k] = x
<1> DEFINE n == Cardinality(S)
<1>1. n \in Nat
  BY Edges, FS_Subset, FS_CardinalityType
<1>2. /\ f \in [1..n -> S] /\ \A k, l \in 1..n : f[k] = f[l] => k = l
      /\ \A x \in S : \E k \in 1..n : f[k] = x
  BY DEF Orders, Bijection, Injection, Surjection, IsInjective
<1>3. \A k \in DOMAIN edges : k \in Nat /\ UserAt(k) \in User
  <2>1. DOMAIN edges = 1..Len(edges) /\ Len(edges) \in Nat
    BY Edges
  <2> QED
    BY <2>1, Edges DEF UserAt
<1> HIDE DEF n
<1>4. us = [k \in 1..n |-> UserAt(f[k])]
  BY <1>2 DEF Users
<1>5. us \in Seq(User) /\ Len(us) = n /\ DOMAIN us = 1..n
  BY <1>1, <1>2, <1>3, <1>4
<1> QED
  BY <1>1, <1>2, <1>3, <1>4, <1>5 DEF n

LEMMA PairsFinite ==
    ASSUME NEW n \in Nat
    PROVE  IsFiniteSet(PairsOf(1..n)) /\ \A p \in PairsOf(1..n) :
              p[1] \in 1..n /\ p[2] \in 1..n /\ p[1] < p[2] /\ p = <<p[1], p[2]>>
<1>1. IsFiniteSet(1..n)
  BY FS_Interval
<1>2. IsFiniteSet((1..n) \X (1..n))
  BY <1>1, FS_Product
<1>3. PairsOf(1..n) \in SUBSET ((1..n) \X (1..n))
  BY DEF PairsOf
<1> QED
  BY <1>2, <1>3, FS_Subset DEF PairsOf

\* Over all pairs of the list, an item gets its score by the definition; vq only
\* if the list leaves nobody out.
LEMMA AllPairsScore ==
    ASSUME InputOK, NEW S, NEW f \in Orders(S), Ustar = Users(f), NEW v \in Item,
           S = At(vq) \/ (S = KeptAt(vq) /\ v # vq)
    PROVE  SumOf(Gains, Sharing(Number(v))) = Definition(v)
<1> DEFINE User2(p) == v \in ItemsOf(UserAt(p[1])) \cap ItemsOf(UserAt(p[2]))
           T == {p \in PairsOf(At(vq)) : User2(p)}
           k == [p \in T |-> Worth(UserAt(p[1]), UserAt(p[2]))]
           R == Sharing(Number(v))
           h == [p \in R |-> IF f[p[1]] < f[p[2]] THEN <<f[p[1]], f[p[2]]>>
                                                  ELSE <<f[p[2]], f[p[1]]>>]
           n == Cardinality(S)
<1>1. S \in SUBSET At(vq) /\ S \in SUBSET (DOMAIN edges) /\ IsFiniteSet(At(vq))
  BY PlacesFinite
<1>2. /\ n \in Nat /\ DOMAIN Ustar = 1..n
      /\ \A l \in 1..n : f[l] \in S /\ f[l] \in Nat /\ Ustar[l] = UserAt(f[l])
      /\ \A l, m \in 1..n : f[l] = f[m] => l = m
      /\ \A x \in S : \E l \in 1..n : f[l] = x
  BY <1>1, Listed
<1> HIDE DEF n
<1>3. /\ R \in SUBSET PairsOf(1..n) /\ IsFiniteSet(R)
      /\ \A p \in R : /\ p[1] \in 1..n /\ p[2] \in 1..n /\ p[1] < p[2] /\ p = <<p[1], p[2]>>
                      /\ Number(v) \in Common(Ustar[p[1]], Ustar[p[2]])
  <2>1. R \in SUBSET PairsOf(1..n) /\ \A p \in R : Number(v) \in Common(Ustar[p[1]], Ustar[p[2]])
    BY <1>2 DEF Sharing, AllPairs
  <2> QED
    BY <1>2, <2>1, PairsFinite, FS_Subset
<1>4. IsFiniteSet(T)
  <2>1. IsFiniteSet(At(vq) \X At(vq)) /\ T \in SUBSET (At(vq) \X At(vq))
    BY <1>1, FS_Product DEF PairsOf
  <2> QED
    BY <2>1, FS_Subset
<1>5. \A p \in R : /\ v \in ItemsOf(UserAt(f[p[1]])) \cap ItemsOf(UserAt(f[p[2]]))
                   /\ Gains[p] = Worth(UserAt(f[p[1]]), UserAt(f[p[2]]))
                   /\ Gains[p] = Worth(UserAt(f[p[2]]), UserAt(f[p[1]]))
                   /\ Gains[p] \in Fraction
  <2> SUFFICES ASSUME NEW p \in R
               PROVE  /\ v \in ItemsOf(UserAt(f[p[1]])) \cap ItemsOf(UserAt(f[p[2]]))
                      /\ Gains[p] = Worth(UserAt(f[p[1]]), UserAt(f[p[2]]))
                      /\ Gains[p] = Worth(UserAt(f[p[2]]), UserAt(f[p[1]]))
                      /\ Gains[p] \in Fraction
    OBVIOUS
  <2> DEFINE u == Ustar[p[1]]
             w == Ustar[p[2]]
  <2>1. u = UserAt(f[p[1]]) /\ w = UserAt(f[p[2]]) /\ Number(v) \in Common(u, w)
    BY <1>2, <1>3
  <2>2. Gains[p] = Gain(u, w)
    BY <1>3, <1>2 DEF Gains, AllPairs
  <2> HIDE DEF u, w
  <2>3. v \in ItemsOf(u) \cap ItemsOf(w)
    BY <2>1, CommonItems
  <2>4. Gain(u, w) = Worth(u, w) /\ Gain(u, w) = Gain(w, u) /\ Gain(w, u) = Worth(w, u)
        /\ Gain(u, w) \in Fraction
    BY <2>1, Gaining
  <2> QED
    BY <2>1, <2>2, <2>3, <2>4
<1>6. \A p \in R : f[p[1]] \in S /\ f[p[2]] \in S /\ f[p[1]] \in Nat /\ f[p[2]] \in Nat /\ f[p[1]] # f[p[2]]
  BY <1>2, <1>3
<1>7. \A p \in R : Gains[p] \in Fraction /\ h[p] \in T /\ k[h[p]] = Gains[p]
  <2> SUFFICES ASSUME NEW p \in R PROVE h[p] \in T /\ k[h[p]] = Gains[p]
    BY <1>5
  <2>1. /\ f[p[1]] \in At(vq) /\ f[p[2]] \in At(vq) /\ f[p[1]] \in Nat /\ f[p[2]] \in Nat
        /\ f[p[1]] # f[p[2]]
    BY <1>1, <1>6
  <2>2. CASE f[p[1]] < f[p[2]]
    <3>1. h[p] = <<f[p[1]], f[p[2]]>>
      BY <2>2
    <3> DEFINE q == h[p]
    <3>2. q[1] = f[p[1]] /\ q[2] = f[p[2]] /\ q \in PairsOf(At(vq))
      BY <2>1, <2>2, <3>1 DEF PairsOf
    <3> HIDE DEF h
    <3>3. q \in T
      BY <1>5, <3>2
    <3> QED
      BY <1>5, <3>2, <3>3
  <2>3. CASE ~ (f[p[1]] < f[p[2]])
    <3>1. h[p] = <<f[p[2]], f[p[1]]>>
      BY <2>3
    <3> DEFINE q == h[p]
    <3>2. q[1] = f[p[2]] /\ q[2] = f[p[1]] /\ q \in PairsOf(At(vq))
      BY <2>1, <2>3, <3>1 DEF PairsOf
    <3> HIDE DEF h
    <3>3. q \in T
      BY <1>5, <3>2
    <3> QED
      BY <1>5, <3>2, <3>3
  <2> QED
    BY <2>2, <2>3
<1>8. \A p, q \in R : h[p] = h[q] => p = q
  <2> SUFFICES ASSUME NEW p \in R, NEW q \in R, h[p] = h[q] PROVE p = q
    OBVIOUS
  <2>1. \/ f[p[1]] = f[q[1]] /\ f[p[2]] = f[q[2]]
        \/ f[p[1]] = f[q[2]] /\ f[p[2]] = f[q[1]]
    BY SMT
  <2>2. \/ p[1] = q[1] /\ p[2] = q[2]
        \/ p[1] = q[2] /\ p[2] = q[1]
    BY <1>2, <1>3, <2>1
  <2> QED
    BY <1>3, <2>2
<1>9. \A z \in T : \E p \in R : h[p] = z
  <2> SUFFICES ASSUME NEW z \in T PROVE \E p \in R : h[p] = z
    OBVIOUS
  <2>1. /\ z[1] \in At(vq) /\ z[2] \in At(vq) /\ z[1] < z[2] /\ z = <<z[1], z[2]>>
        /\ v \in ItemsOf(UserAt(z[1])) /\ v \in ItemsOf(UserAt(z[2]))
    BY DEF PairsOf
  <2>2. ASSUME NEW x \in At(vq), v \in ItemsOf(UserAt(x)), v # vq PROVE x \in KeptAt(vq)
    <3>1. PICK y \in DOMAIN edges : edges[y][1] = UserAt(x) /\ edges[y][2] = v
      BY <2>2 DEF ItemsOf
    <3>2. x \in DOMAIN edges /\ x # y /\ UserAt(y) = UserAt(x)
      BY <2>2, <3>1 DEF At, UserAt
    <3>3. Kept(UserAt(x))
      BY <3>1, <3>2, Degrees
    <3> QED
      BY <3>3 DEF KeptAt
  <2>3. z[1] \in S /\ z[2] \in S
    BY <2>1, <2>2
  <2>4. PICK a \in 1..n, b \in 1..n : f[a] = z[1] /\ f[b] = z[2]
    BY <1>2, <2>3
  <2>5. \A u, w : Number(v) \in Common(u, w) <=> v \in ItemsOf(u) \cap ItemsOf(w)
    BY CommonItems
  <2>6. Ustar[a] = UserAt(z[1]) /\ Ustar[b] = UserAt(z[2]) /\ a # b /\ f[a] \in Nat /\ f[b] \in Nat
    BY <1>2, <2>1, <2>4
  <2>7. CASE a < b
    <3> DEFINE p == <<a, b>>
    <3>1. p \in R
      BY <1>2, <2>1, <2>5, <2>6, <2>7 DEF Sharing, AllPairs, PairsOf
    <3>2. h[p] = z
      BY <2>1, <2>4, <3>1
    <3> QED
      BY <3>1, <3>2
  <2>8. CASE b < a
    <3> DEFINE p == <<b, a>>
    <3>1. p \in R
      BY <1>2, <2>1, <2>5, <2>6, <2>8 DEF Sharing, AllPairs, PairsOf
    <3>2. h[p] = z
      BY <2>1, <2>4, <2>6, <3>1
    <3> QED
      BY <3>1, <3>2
  <2> QED
    BY <2>6, <2>7, <2>8
<1> HIDE DEF h, R
<1>10. SumOf(Gains, R) = SumOf(k, T)
  <2> HIDE DEF k, T
  <2>1. IsFiniteSet(R) /\ IsFiniteSet(T)
    BY <1>3, <1>4
  <2> DEFINE g == Gains
  <2>2. \A x \in R : g[x] \in Fraction /\ h[x] \in T /\ k[h[x]] = g[x]
    BY <1>7
  <2> HIDE DEF g
  <2>3. SumOf(g, R) = SumOf(k, T)
    BY <2>1, <2>2, <1>8, <1>9, SumRename
  <2> QED
    BY <2>3 DEF g
<1>11. Definition(v) = SumOf(k, T)
  BY DEF Definition
<1> QED
  BY <1>10, <1>11 DEF R

\* The numbers of pairs, and what a list of two or more users implies.
LEMMA NumPairsFacts ==
    ASSUME NEW d \in Nat
    PROVE  NumPairs(d) \in Nat /\ (d >= 2 => NumPairs(d) >= 1)
<1>1. d * (d - 1) \in Nat
  BY SMT
<1>2. d >= 2 => d * (d - 1) >= 2
  BY SMT
<1> QED
  BY <1>1, <1>2 DEF NumPairs

LEMMA PayingRounds ==
    ASSUME InputOK, NEW S \in SUBSET (DOMAIN edges), NEW f \in Orders(S), NEW us, us = Users(f),
           Len(us) >= 2, AllPairsPay(us)
    PROVE  rounds >= 1
<1> DEFINE d == Len(us)
           m == VNDeg(us)
           g == [k \in DOMAIN us |-> UDeg(us[k])]
<1>1. d \in Nat /\ d >= 2 /\ DOMAIN us = 1..d /\ \A k \in DOMAIN us : f[k] \in S /\ us[k] = UserAt(f[k])
  BY Listed
<1>2. m \in Nat /\ m >= 1
  <2>1. IsFiniteSet(DOMAIN us) /\ 1 \in DOMAIN us
    BY <1>1, FS_Interval
  <2>2. \A k \in DOMAIN us : g[k] \in Nat
    BY Degrees
  <2>3. g[1] >= 1
    BY <1>1, <2>1, Degrees
  <2>4. m = Total(g, DOMAIN us)
    BY DEF VNDeg
  <2> HIDE DEF g
  <2>5. Total(g, DOMAIN us) \in Nat
    BY <2>1, <2>2, TotalStep
  <2>6. g[1] <= Total(g, DOMAIN us)
    BY <2>1, <2>2, TotalBounds
  <2> QED
    BY <2>1, <2>2, <2>3, <2>4, <2>5, <2>6
<1>3. Less(Times(AdaptRho, Whole(d * (d - 1))), Times(Frac(m + d, m), Whole(2 * rounds)))
  BY DEF AllPairsPay
<1> HIDE DEF d, m
<1>4. ASSUME rounds = 0 PROVE FALSE
  <2>1. m + d \in Int /\ m \in Nat \ {0}
    BY <1>1, <1>2
  <2>2. Frac(m + d, m) \in Fraction
    BY <2>1, FracFacts
  <2>3. Whole(2 * rounds) = Whole(0) /\ Whole(0) \in Fraction
    BY <1>4, FracOne
  <2>4. Times(Frac(m + d, m), Whole(2 * rounds)) = Whole(0)
    BY <2>2, <2>3, TimesFacts
  <2> DEFINE x == Times(AdaptRho, Whole(d * (d - 1)))
             a == AdaptRho[1] * (d * (d - 1))
             b == AdaptRho[2] * 1
  <2>5. AdaptRho[1] \in Nat /\ AdaptRho[2] \in Nat \ {0}
    BY ParametersOK
  <2>6. d * (d - 1) \in Nat
    BY <1>1, SMT
  <2>7. a \in Nat /\ b \in Nat \ {0}
    BY <2>5, <2>6
  <2>8. x = Frac(a, b)
    BY DEF Times, Whole
  <2> HIDE DEF a, b, x
  <2>9. x[1] \in Int /\ x[1] >= 0 /\ x[2] \in Nat
    BY <2>7, <2>8, FracFacts, FracSign
  <2>10. x[1] * 1 < 0 * x[2]
    BY <1>3, <2>4 DEF Less, Whole, x
  <2> QED
    BY <2>9, <2>10
<1> QED
  BY <1>4, Edges

-----------------------------------------------------------------------------
(* What a step leaves alone when it touches neither the input nor the list. *)

LEMMA SameInput ==
    ASSUME UNCHANGED input
    PROVE  /\ \A u : ItemsOf(u)' = ItemsOf(u) /\ N(u)' = N(u) /\ Slots(u)' = Slots(u)
                     /\ Deg(u)' = Deg(u)
           /\ \A u, w : /\ Common(u, w)' = Common(u, w) /\ Gain(u, w)' = Gain(u, w)
                        /\ Worth(u, w)' = Worth(u, w)
           /\ \A f : Users(f)' = Users(f)
           /\ \A v : Number(v)' = Number(v) /\ Definition(v)' = Definition(v)
           /\ Places' = Places
<1>1. /\ edges' = edges /\ vq' = vq /\ mapIndex' = mapIndex /\ alpha' = alpha
      /\ rounds' = rounds /\ proc' = proc
  BY DEF input
<1>2. \A v : Number(v)' = Number(v)
  BY <1>1 DEF Number, Renumbered
<1>3. \A u : ItemsOf(u)' = ItemsOf(u)
  BY <1>1 DEF ItemsOf
<1>4. \A u : N(u)' = N(u)
  BY <1>1 DEF N, Number, Renumbered
<1>5. \A u : Slots(u)' = Slots(u)
  BY <1>1, <1>4 DEF Slots
<1>6. \A u : Deg(u)' = Deg(u)
  BY <1>5 DEF Deg
<1>7. \A u, w : Common(u, w)' = Common(u, w)
  BY <1>4 DEF Common
<1>8. \A u, w : Gain(u, w)' = Gain(u, w)
  BY <1>1, <1>7 DEF Gain
<1>9. \A u, w : Worth(u, w)' = Worth(u, w)
  BY <1>1, <1>3 DEF Worth
<1>10. \A f : Users(f)' = Users(f)
  BY <1>1 DEF Users, UserAt
<1>11. Places' = Places
  BY <1>1 DEF Places, At, KeptAt, Kept, UDeg, UserAt
<1>12. \A v : Definition(v)' = Definition(v)
  BY <1>1 DEF Definition, At, UserAt, Worth, ItemsOf
<1> QED
  BY <1>2, <1>3, <1>4, <1>5, <1>6, <1>7, <1>8, <1>9, <1>10, <1>11, <1>12

LEMMA Carried ==
    ASSUME Inv, UNCHANGED <<input, Ustar>>, pc # "start", pc' # "start"
    PROVE  /\ InputOK' /\ UsersOK' /\ AllPairs' = AllPairs /\ Gains' = Gains
           /\ \A n : Sharing(n)' = Sharing(n)
<1> USE SameInput
<1>1. InputOK'
  BY DEF Inv, InputOK, input
<1>2. UsersOK'
  BY DEF Inv, UsersOK
<1>3. AllPairs' = AllPairs
  BY DEF AllPairs
<1>4. Gains' = Gains
  BY <1>3 DEF Gains
<1>5. \A n : Sharing(n)' = Sharing(n)
  BY <1>3 DEF Sharing
<1> QED
  BY <1>1, <1>2, <1>3, <1>4, <1>5

\* The pairs of a new list, on the same graph.
LEMMA ListNext ==
    ASSUME UNCHANGED input
    PROVE  /\ \A n : Sharing(n)' = {p \in AllPairs' : n \in Common(Ustar'[p[1]], Ustar'[p[2]])}
           /\ UsedGains' = [p \in AllPairs' |->
                              Times(Whole(Used(p)'), Gain(Ustar'[p[1]], Ustar'[p[2]]))]
<1>1. /\ edges' = edges /\ vq' = vq /\ mapIndex' = mapIndex /\ alpha' = alpha
      /\ rounds' = rounds /\ proc' = proc
  BY DEF input
<1>2. \A n : Sharing(n)' = {p \in AllPairs' : n \in Common(Ustar'[p[1]], Ustar'[p[2]])}
  BY <1>1 DEF Sharing, Common, N, Number, Renumbered
<1>3. UsedGains' = [p \in AllPairs' |->
                       Times(Whole(Used(p)'), Gain(Ustar'[p[1]], Ustar'[p[2]]))]
  BY <1>1 DEF UsedGains, Gain, Common, N, Number, Renumbered
<1> QED
  BY <1>2, <1>3

-----------------------------------------------------------------------------
(* The invariant holds at first, and each step keeps it.                   *)

LEMMA NoScores ==
    /\ NoScore \in [Item -> Fraction]
    /\ \A v \in Item : NoScore[v] = Whole(0)
BY FracOne DEF NoScore

LEMMA InitInv == Init => Inv
<1> SUFFICES ASSUME Init PROVE Inv
  OBVIOUS
<1> USE DEF Init
<1>1. InputOK
  BY DEF InputOK
<1>2. ControlOK /\ UsersOK /\ LoopOK
  BY DEF ControlOK, UsersOK, LoopOK
<1>3. DrawsOK
  BY DEF DrawsOK, Drawing
<1>4. SwingOK
  BY NoScores DEF SwingOK
<1>5. PairsScored /\ DrawsScored /\ ExactScores /\ DrawScores
  BY DEF PairsScored, DrawsScored, Drawing, ExactScores, DrawScores
<1> QED
  BY <1>1, <1>2, <1>3, <1>4, <1>5 DEF Inv

LEMMA StartExactKeeps == Inv /\ StartExact => Inv'
<1> SUFFICES ASSUME Inv, StartExact PROVE Inv'
  OBVIOUS
<1> USE SameInput DEF StartExact
<1>0. UNCHANGED input /\ InputOK
  BY DEF Inv
<1>1. InputOK'
  BY DEF Inv, InputOK, input
<1>2. ControlOK'
  BY <1>0 DEF Inv, ControlOK, Exact, input
<1>3. UsersOK'
  <2>1. PICK f \in Orders(At(vq)) : Ustar' = Users(f)
    OBVIOUS
  <2>2. Places' = At(vq)
    BY <1>0 DEF Places, Exact
  <2>3. f \in Orders(Places') /\ Ustar' = Users(f)'
    BY <1>0, <2>1, <2>2
  <2> QED
    BY <2>3 DEF UsersOK
<1>4. LoopOK'
  BY DEF Inv, LoopOK
<1>5. DrawsOK'
  <2>1. drawn = Empty /\ todo = {}
    BY DEF Inv, DrawsOK, ControlOK, Drawing
  <2> QED
    BY <2>1 DEF DrawsOK, Drawing
<1>6. SwingOK' /\ swing' = NoScore
  BY DEF Inv, SwingOK
<1>7. PairsScored'
  <2>1. PICK n \in Nat : DOMAIN Ustar' = 1..n
    <3>1. PICK f \in Orders(At(vq)) : Ustar' = Users(f)
      OBVIOUS
    <3> QED
      BY <1>0, <3>1, Listed, PlacesFinite
  <2>2. i' = 1 /\ j' = 1
    BY DEF Inv, LoopOK
  <2>3. PairsDone' = {}
    <3>1. PairsDone' = {p \in PairsOf(1..n) : p[2] < 1 \/ (p[2] = 1 /\ p[1] < 1)}
      BY <2>1, <2>2 DEF PairsDone, AllPairs
    <3> QED
      BY <2>1, <3>1, PairsFinite
  <2>4. \A m \in Item : swing'[m] = SumOf(Gains', Sharing(m)' \cap PairsDone')
    BY <1>6, <2>3, NoScores, SumEmpty
  <2> QED
    BY <2>4 DEF PairsScored
<1>8. DrawsScored' /\ ExactScores' /\ DrawScores'
  BY DEF DrawsScored, Drawing, ExactScores, DrawScores
<1> QED
  BY <1>1, <1>2, <1>3, <1>4, <1>5, <1>6, <1>7, <1>8 DEF Inv

LEMMA StartKeeps == Inv /\ Start => Inv'
<1> SUFFICES ASSUME Inv, Start PROVE Inv'
  OBVIOUS
<1> DEFINE us == Ustar'
<1>0. UNCHANGED input /\ InputOK /\ pc = "start" /\ proc \in {"PRSwing", "FastASC", "FastKASC"}
  BY DEF Inv, Start
<1>1. PICK f \in Orders(KeptAt(vq)) : us = Users(f)
  BY DEF Start
<1>2. KeptAt(vq) \in SUBSET (DOMAIN edges)
  BY <1>0, PlacesFinite
<1> DEFINE n == Cardinality(KeptAt(vq))
<1>3. n \in Nat /\ DOMAIN us = 1..n /\ Len(us) = n
  BY <1>0, <1>1, <1>2, Listed
<1>4. /\ branch' \in {"return", "pairs", "slots", "direct", "collect", "stages"}
      /\ branch' = "return" <=> n < 2
      /\ branch' = "slots" => AllPairsPay(us)
  <2>1. branch' = Branch(us)
    BY DEF Start
  <2> QED
    BY <1>3, <2>1 DEF Branch
<1>5. /\ pc' = IF branch' = "return" THEN "back" ELSE branch'
      /\ j' = IF branch' = "slots" THEN 2 ELSE 1
      /\ UNCHANGED <<i, Isize, hits, todo, swing>>
      /\ drawn' = IF branch' \in {"direct", "collect"}
                  THEN [p \in PairsOf(DOMAIN us) |-> 0] ELSE Empty
  BY DEF Start
<1> HIDE DEF us, n
<1>6. InputOK'
  BY <1>0 DEF InputOK, input
<1>7. ControlOK'
  BY <1>0, <1>4, <1>5 DEF ControlOK, Exact, input
<1>8. UsersOK'
  <2>1. Places' = KeptAt(vq)
    BY <1>0, SameInput DEF Places, Exact
  <2>2. f \in Orders(Places') /\ Ustar' = Users(f)'
    BY <1>0, <1>1, <2>1, SameInput DEF us
  <2>3. pc' # "start"
    BY <1>4, <1>5
  <2> QED
    BY <2>2, <2>3 DEF UsersOK
<1>9. LoopOK'
  <2>1. i = 1
    BY <1>0 DEF Inv, LoopOK
  <2>2. branch' = "slots" => rounds >= 1 /\ rounds' = rounds
    BY <1>0, <1>1, <1>2, <1>3, <1>4, PayingRounds DEF input
  <2> QED
    BY <1>4, <1>5, <2>1, <2>2 DEF LoopOK
<1>10. todo = {} /\ todo' = {}
  BY <1>0, <1>5 DEF Inv, DrawsOK
<1>11. AllPairs' = PairsOf(1..n) /\ IsFiniteSet(PairsOf(1..n))
  BY <1>3, PairsFinite DEF AllPairs, us
<1>12. ASSUME branch' \in Drawing PROVE DrawsOK' /\ DrawsScored'
  <2>1. drawn' = [p \in PairsOf(1..n) |-> 0]
    BY <1>3, <1>5, <1>12 DEF Drawing
  <2>2. Total(drawn', DOMAIN drawn') = 0
    <3>1. DOMAIN drawn' = PairsOf(1..n) /\ \A p \in PairsOf(1..n) : drawn'[p] = 0
      BY <2>1
    <3> QED
      BY <1>11, <3>1, TotalZero
  <2>3. RoundsDrawn' = 0 /\ rounds' \in Nat
    BY <1>0, <2>2, Edges DEF RoundsDrawn, input
  <2>4. DrawsOK'
    BY <1>3, <1>4, <1>5, <1>10, <1>11, <1>12, <2>1, <2>3 DEF DrawsOK, Drawing, us
  <2>5. DrawsScored'
    <3> SUFFICES ASSUME NEW m \in Item
                 PROVE  Times(swing'[m], Whole(rounds')) =
                        Times(SumOf(UsedGains', Sharing(m)'), Whole(NumPairs(Len(Ustar'))))
      BY DEF DrawsScored
    <3>1. swing'[m] = Whole(0)
      BY <1>0, <1>5, NoScores DEF Inv, SwingOK
    <3>2. NumPairs(n) \in Int /\ Len(Ustar') = n /\ rounds' \in Int
      BY <1>3, <2>3, NumPairsFacts DEF us
    <3>3. Whole(rounds') \in Fraction /\ Whole(NumPairs(n)) \in Fraction
      BY <3>2, FracOne
    <3>4. \A p \in Sharing(m)' : UsedGains'[p] = Whole(0)
      <4> SUFFICES ASSUME NEW p \in Sharing(m)' PROVE UsedGains'[p] = Whole(0)
        OBVIOUS
      <4> DEFINE u == Ustar'[p[1]]
                 w == Ustar'[p[2]]
      <4>1. p \in AllPairs' /\ m \in Common(u, w)
        BY <1>0, ListNext
      <4>2. Used(p)' = 0
        BY <1>10, <1>11, <2>1, <4>1 DEF Used
      <4>3. UsedGains'[p] = Times(Whole(0), Gain(u, w))
        BY <1>0, <4>1, <4>2, ListNext
      <4> HIDE DEF u, w
      <4>4. Common(u, w) # {}
        BY <4>1
      <4>5. Gain(u, w) \in Fraction
        BY <1>0, <4>4, Gaining
      <4> QED
        BY <4>3, <4>4, <4>5, TimesFacts
    <3>5. IsFiniteSet(Sharing(m)')
      <4>1. Sharing(m)' \in SUBSET PairsOf(1..n)
        BY <1>11 DEF Sharing
      <4> QED
        BY <1>11, <4>1, FS_Subset
    <3>6. SumOf(UsedGains', Sharing(m)') = Whole(0)
      BY <3>4, <3>5, SumZero
    <3> QED
      BY <3>1, <3>2, <3>3, <3>6, TimesFacts
  <2> QED
    BY <2>4, <2>5
<1>13. ASSUME branch' \notin Drawing PROVE DrawsOK' /\ DrawsScored'
  <2>1. DrawsOK'
    BY <1>3, <1>4, <1>5, <1>10, <1>13 DEF DrawsOK, Drawing, us
  <2>2. DrawsScored'
    BY <1>13 DEF DrawsScored
  <2> QED
    BY <2>1, <2>2
<1>14. SwingOK' /\ swing' = NoScore
  BY <1>0, <1>5 DEF Inv, SwingOK
<1>15. PairsScored'
  <2>1. CASE branch' = "pairs"
    <3>1. i' = 1 /\ j' = 1 /\ pc' = "pairs"
      BY <1>0, <1>5, <2>1 DEF Inv, LoopOK
    <3>2. PairsDone' = {}
      <4>1. PairsDone' = {p \in PairsOf(1..n) : p[2] < 1 \/ (p[2] = 1 /\ p[1] < 1)}
        BY <1>11, <3>1 DEF PairsDone
      <4> QED
        BY <1>3, <4>1, PairsFinite
    <3>3. \A m \in Item : swing'[m] = SumOf(Gains', Sharing(m)' \cap PairsDone')
      BY <1>14, <3>2, NoScores, SumEmpty
    <3> QED
      BY <3>1, <3>3 DEF PairsScored
  <2>2. CASE branch' = "return"
    <3>1. PairsOf(1..n) = {}
      <4>1. \A p \in PairsOf(1..n) : FALSE
        BY <1>3, <1>4, <2>2, PairsFinite
      <4> QED
        BY <4>1
    <3>2. \A m : Sharing(m)' = {}
      BY <1>11, <3>1 DEF Sharing
    <3>3. \A m \in Item : swing'[m] = SumOf(Gains', Sharing(m)')
      BY <1>14, <3>2, NoScores, SumEmpty
    <3>4. pc' = "back"
      BY <1>5, <2>2
    <3> QED
      BY <3>3, <3>4 DEF PairsScored
  <2>3. CASE branch' \notin {"pairs", "return"}
    BY <1>4, <1>5, <2>3 DEF PairsScored
  <2> QED
    BY <2>1, <2>2, <2>3
<1>16. ExactScores' /\ DrawScores'
  BY <1>4, <1>5 DEF ExactScores, DrawScores
<1> QED
  BY <1>6, <1>7, <1>8, <1>9, <1>12, <1>13, <1>14, <1>15, <1>16 DEF Inv

LEMMA InList ==
    ASSUME Inv, pc # "start"
    PROVE  /\ Ustar \in Seq(User) /\ Len(Ustar) \in Nat /\ DOMAIN Ustar = 1..Len(Ustar)
           /\ \A k \in DOMAIN Ustar : \E x \in DOMAIN edges : Ustar[k] = UserAt(x) /\ x \in At(vq)
           /\ IsFiniteSet(AllPairs)
           /\ \A p \in AllPairs : /\ p[1] \in 1..Len(Ustar) /\ p[2] \in 1..Len(Ustar)
                                  /\ p[1] < p[2] /\ p = <<p[1], p[2]>>
           /\ \A n : IsFiniteSet(Sharing(n)) /\ Sharing(n) \in SUBSET AllPairs
           /\ \A p \in AllPairs : Gains[p] = Gain(Ustar[p[1]], Ustar[p[2]])
           /\ \A n : \A p \in Sharing(n) :
                 /\ Common(Ustar[p[1]], Ustar[p[2]]) # {}
                 /\ Gain(Ustar[p[1]], Ustar[p[2]]) \in Fraction /\ Gains[p] \in Fraction
<1>1. InputOK /\ UsersOK
  BY DEF Inv
<1>2. PICK f \in Orders(Places) : Ustar = Users(f)
  BY <1>1 DEF UsersOK
<1>3. Places \in SUBSET (DOMAIN edges) /\ Places \in SUBSET At(vq)
  BY <1>1, PlacesFinite DEF Places
<1>4. /\ Ustar \in Seq(User) /\ Len(Ustar) \in Nat /\ DOMAIN Ustar = 1..Len(Ustar)
      /\ \A k \in DOMAIN Ustar : f[k] \in Places /\ Ustar[k] = UserAt(f[k])
  BY <1>1, <1>2, <1>3, Listed
<1>5. \A k \in DOMAIN Ustar : \E x \in DOMAIN edges : Ustar[k] = UserAt(x) /\ x \in At(vq)
  BY <1>3, <1>4
<1>6. IsFiniteSet(AllPairs) /\ \A p \in AllPairs :
         p[1] \in 1..Len(Ustar) /\ p[2] \in 1..Len(Ustar) /\ p[1] < p[2] /\ p = <<p[1], p[2]>>
  BY <1>4, PairsFinite DEF AllPairs
<1>7. \A n : Sharing(n) \in SUBSET AllPairs /\ IsFiniteSet(Sharing(n))
  BY <1>6, FS_Subset DEF Sharing
<1>8. \A p \in AllPairs : Gains[p] = Gain(Ustar[p[1]], Ustar[p[2]])
  BY DEF Gains
<1>9. ASSUME NEW n, NEW p \in Sharing(n)
      PROVE  /\ Common(Ustar[p[1]], Ustar[p[2]]) # {}
             /\ Gain(Ustar[p[1]], Ustar[p[2]]) \in Fraction /\ Gains[p] \in Fraction
  <2>1. n \in Common(Ustar[p[1]], Ustar[p[2]]) /\ p \in AllPairs
    BY DEF Sharing
  <2>2. Common(Ustar[p[1]], Ustar[p[2]]) # {}
    BY <2>1
  <2> QED
    BY <1>1, <1>8, <2>1, <2>2, Gaining
<1> QED
  BY <1>4, <1>5, <1>6, <1>7, <1>8, <1>9

\* Adding a fraction to the scores of a set of items keeps them fractions.
LEMMA Adding ==
    ASSUME swing \in [Item -> Fraction], NEW S, NEW c, S # {} => c \in Fraction
    PROVE  /\ Add(S, c) \in [Item -> Fraction]
           /\ \A v \in Item : Add(S, c)[v] = IF v \in S THEN Plus(swing[v], c) ELSE swing[v]
<1>1. \A v \in Item : (IF v \in S THEN Plus(swing[v], c) ELSE swing[v]) \in Fraction
  BY PlusFacts
<1> QED
  BY <1>1 DEF Add

LEMMA AddPairKeeps == Inv /\ AddPair => Inv'
<1> SUFFICES ASSUME Inv, AddPair PROVE Inv'
  OBVIOUS
<1>0. /\ UNCHANGED <<input, pc, branch, Ustar, i, Isize, hits, drawn, todo>>
      /\ pc = "pairs" /\ i <= Len(Ustar) /\ j < i /\ j' = j + 1 /\ branch = "pairs"
      /\ InputOK /\ i \in Nat \ {0} /\ j \in Nat \ {0} /\ UNCHANGED input
      /\ UNCHANGED <<input, Ustar>> /\ pc # "start" /\ pc' # "start"
  BY DEF AddPair, Inv, ControlOK, LoopOK
<1>1. /\ InputOK' /\ UsersOK' /\ AllPairs' = AllPairs /\ Gains' = Gains
      /\ \A n : Sharing(n)' = Sharing(n)
  BY <1>0, Carried
<1>2. /\ Len(Ustar) \in Nat /\ DOMAIN Ustar = 1..Len(Ustar) /\ IsFiniteSet(AllPairs)
      /\ \A p \in AllPairs : /\ p[1] \in 1..Len(Ustar) /\ p[2] \in 1..Len(Ustar)
                             /\ p[1] < p[2] /\ p = <<p[1], p[2]>>
      /\ \A p \in AllPairs : Gains[p] = Gain(Ustar[p[1]], Ustar[p[2]])
      /\ \A n : \A p \in Sharing(n) : Gains[p] \in Fraction
      /\ \A n : IsFiniteSet(Sharing(n))
  BY <1>0, InList
<1>3. ControlOK' /\ LoopOK' /\ DrawsOK'
  <2>1. ControlOK'
    BY <1>0 DEF Inv, ControlOK, input
  <2>2. LoopOK'
    BY <1>0 DEF LoopOK
  <2>3. DrawsOK'
    BY <1>0, <1>1 DEF Inv, DrawsOK, Drawing
  <2> QED
    BY <2>1, <2>2, <2>3
<1> DEFINE u == Ustar[i]
           w == Ustar[j]
           q == <<j, i>>
<1>4. /\ swing' = IF Common(u, w) = {} THEN swing ELSE Add(Common(u, w), Gain(u, w))
  BY DEF AddPair
<1>5. /\ q \in AllPairs /\ q \notin PairsDone /\ PairsDone' = PairsDone \cup {q}
      /\ PairsDone \in SUBSET AllPairs
  <2>1. q \in AllPairs
    BY <1>0, <1>2 DEF AllPairs, PairsOf
  <2>2. q \notin PairsDone
    BY <1>0 DEF PairsDone
  <2>3. PairsDone' = {p \in AllPairs : p[2] < i \/ (p[2] = i /\ p[1] < j + 1)}
    BY <1>0, <1>1 DEF PairsDone
  <2>4. ASSUME NEW p \in AllPairs
        PROVE  (p[2] < i \/ (p[2] = i /\ p[1] < j + 1))
                 <=> (p[2] < i \/ (p[2] = i /\ p[1] < j)) \/ p = q
    BY <1>0, <1>2
  <2> QED
    BY <2>1, <2>2, <2>3, <2>4 DEF PairsDone
<1>6. Gains[q] = Gain(u, w) /\ \A n : q \in Sharing(n) <=> n \in Common(u, w)
  <2>1. Gain(w, u) = Gain(u, w) /\ Common(w, u) = Common(u, w)
    BY <1>0, Gaining, CommonItems
  <2> QED
    BY <1>2, <1>5, <2>1 DEF Sharing
<1> HIDE DEF u, w, q
<1>7. Common(u, w) # {} => Gain(u, w) \in Fraction
  BY <1>0, Gaining
<1>8. /\ swing' \in [Item -> Fraction]
      /\ \A n \in Item : swing'[n] = IF n \in Common(u, w) THEN Plus(swing[n], Gain(u, w))
                                    ELSE swing[n]
  <2>1. swing \in [Item -> Fraction]
    BY DEF Inv, SwingOK
  <2> QED
    BY <1>4, <1>7, <2>1, Adding
<1>9. SwingOK'
  BY <1>0, <1>8 DEF SwingOK
<1>10. PairsScored'
  <2> SUFFICES ASSUME NEW n \in Item
               PROVE  swing'[n] = SumOf(Gains, Sharing(n) \cap PairsDone')
    BY <1>0, <1>1 DEF PairsScored
  <2> DEFINE D == Sharing(n) \cap PairsDone
  <2>1. swing[n] = SumOf(Gains, D)
    BY <1>0 DEF Inv, PairsScored
  <2>2. CASE n \in Common(u, w)
    <3>1. Sharing(n) \cap PairsDone' = D \cup {q}
      BY <1>5, <1>6, <2>2
    <3>2. q \notin D /\ IsFiniteSet(D)
      BY <1>2, <1>5, FS_Subset
    <3>3. \A p \in D \cup {q} : Gains[p] \in Fraction
      BY <1>2, <1>6, <1>7, <2>2
    <3> HIDE DEF D
    <3>4. SumOf(Gains, D \cup {q}) = Plus(SumOf(Gains, D), Gains[q])
      BY <3>2, <3>3, SumAdd
    <3> QED
      BY <1>6, <1>8, <2>1, <2>2, <3>1, <3>4
  <2>3. CASE n \notin Common(u, w)
    <3>1. Sharing(n) \cap PairsDone' = D
      BY <1>5, <1>6, <2>3
    <3> QED
      BY <1>8, <2>1, <2>3, <3>1
  <2> QED
    BY <2>2, <2>3
<1>11. DrawsScored' /\ ExactScores' /\ DrawScores'
  BY <1>0 DEF DrawsScored, Drawing, ExactScores, DrawScores
<1> QED
  BY <1>1, <1>3, <1>9, <1>10, <1>11 DEF Inv

LEMMA NextUserKeeps == Inv /\ NextUser => Inv'
<1> SUFFICES ASSUME Inv, NextUser PROVE Inv'
  OBVIOUS
<1>0. /\ UNCHANGED <<input, pc, branch, Ustar, Isize, hits, drawn, todo, swing>>
      /\ pc = "pairs" /\ j = i /\ i' = i + 1 /\ j' = 1 /\ branch = "pairs"
      /\ i \in Nat \ {0} /\ j \in Nat \ {0}
      /\ UNCHANGED <<input, Ustar>> /\ pc # "start" /\ pc' # "start"
  BY DEF NextUser, Inv, ControlOK, LoopOK
<1>1. /\ InputOK' /\ UsersOK' /\ AllPairs' = AllPairs /\ Gains' = Gains
      /\ \A n : Sharing(n)' = Sharing(n)
  BY <1>0, Carried
<1>2. ControlOK'
  BY <1>0 DEF Inv, ControlOK, input
<1>3. LoopOK'
  BY <1>0 DEF LoopOK
<1>4. DrawsOK'
  BY <1>0, <1>1 DEF Inv, DrawsOK, Drawing
<1>5. PairsDone' = PairsDone
  <2>1. \A p \in AllPairs : p[1] \in Nat /\ p[2] \in Nat /\ p[1] >= 1 /\ p[1] < p[2]
    BY <1>0, InList
  <2>2. PairsDone' = {p \in AllPairs : p[2] < i + 1 \/ (p[2] = i + 1 /\ p[1] < 1)}
    BY <1>0, <1>1 DEF PairsDone
  <2>3. \A p \in AllPairs : (p[2] < i + 1 \/ (p[2] = i + 1 /\ p[1] < 1))
                              <=> (p[2] < i \/ (p[2] = i /\ p[1] < j))
    BY <1>0, <2>1
  <2> QED
    BY <2>2, <2>3 DEF PairsDone
<1>6. SwingOK' /\ PairsScored'
  BY <1>0, <1>1, <1>5 DEF Inv, SwingOK, PairsScored
<1>7. DrawsScored' /\ ExactScores' /\ DrawScores'
  BY <1>0 DEF DrawsScored, Drawing, ExactScores, DrawScores
<1> QED
  BY <1>1, <1>2, <1>3, <1>4, <1>6, <1>7 DEF Inv

-----------------------------------------------------------------------------
(* The loops over the slots of a list.                                     *)

LEMMA SlotLists ==
    ASSUME InputOK, NEW u
    PROVE  /\ IsFiniteSet(Slots(u)) /\ Deg(u) \in Nat
           /\ Slots(u) # {} => Deg(u) >= 1
           /\ \A x \in DOMAIN edges : UserAt(x) = u => Slots(u) # {}
           /\ \A v \in N(u) : BaseOf(v) \in Slots(u)
<1> DEFINE g == [v \in N(u) |-> BaseOf(v)]
           h == [v \in ItemsOf(u) |-> Number(v)]
<1>1. IsFiniteSet(N(u))
  <2>1. h \in Surjection(ItemsOf(u), N(u))
    BY ItemLists DEF Surjection
  <2> QED
    BY <2>1, ItemLists, FS_Surjection
<1>2. g \in Surjection(N(u), Slots(u))
  BY DEF Surjection, Slots
<1>3. IsFiniteSet(Slots(u))
  BY <1>1, <1>2, FS_Surjection
<1>4. Deg(u) \in Nat /\ (Deg(u) = 0 <=> Slots(u) = {})
  BY <1>3, FS_CardinalityType, FS_EmptySet DEF Deg
<1>5. \A v \in N(u) : BaseOf(v) \in Slots(u)
  BY DEF Slots
<1>6. ASSUME NEW x \in DOMAIN edges, UserAt(x) = u PROVE Slots(u) # {}
  <2>1. edges[x][2] \in ItemsOf(u)
    BY <1>6 DEF ItemsOf, UserAt
  <2>2. Number(edges[x][2]) \in N(u)
    BY <2>1, ItemLists
  <2> QED
    BY <1>5, <2>2
<1> QED
  BY <1>3, <1>4, <1>5, <1>6

\* The fractions above zero.
Positive == {x \in Fraction : x[1] > 0}

LEMMA PositiveFrac ==
    ASSUME NEW n \in Nat \ {0}, NEW d \in Nat \ {0}
    PROVE  Frac(n, d) \in Positive /\ Whole(n) \in Positive
<1>1. Frac(n, d) \in Fraction /\ Frac(n, d)[1] > 0
  BY FracFacts, FracSign
<1>2. Whole(n) \in Fraction /\ Whole(n)[1] > 0
  BY FracOne
<1> QED
  BY <1>1, <1>2 DEF Positive

LEMMA PositiveTimes ==
    ASSUME NEW x \in Positive, NEW y \in Positive
    PROVE  Times(x, y) \in Positive
<1>1. x[1] \in Nat \ {0} /\ x[2] \in Nat \ {0} /\ y[1] \in Nat \ {0} /\ y[2] \in Nat \ {0}
  BY FractionFrac DEF Positive
<1>2. x[1] * y[1] \in Nat \ {0} /\ x[2] * y[2] \in Nat \ {0}
  BY <1>1
<1>3. Frac(x[1] * y[1], x[2] * y[2]) \in Positive
  <2> DEFINE n == x[1] * y[1]
             d == x[2] * y[2]
  <2>1. n \in Nat \ {0} /\ d \in Nat \ {0}
    BY <1>2
  <2> HIDE DEF n, d
  <2>2. Frac(n, d) \in Positive
    BY <2>1, PositiveFrac
  <2> QED
    BY <2>2 DEF n, d
<1> QED
  BY <1>3 DEF Times

LEMMA CeilPositive ==
    ASSUME NEW x \in Positive
    PROVE  Ceil(x) \in Nat \ {0}
<1> DEFINE n == x[1]
           d == x[2]
           a == n + d - 1
           q == a \div d
           r == a % d
<1>1. n \in Nat /\ n > 0 /\ d \in Nat /\ d > 0
  BY FractionFrac DEF Positive
<1>2. a \in Int /\ a >= d
  BY <1>1
<1> HIDE DEF n, d
<1>3. q \in Int /\ r \in Nat /\ r < d /\ a = d * q + r
  <2> HIDE DEF a
  <2> QED
    BY <1>1, <1>2, DivMod
<1>4. Ceil(x) = q
  BY DEF Ceil, n, d
<1> HIDE DEF a, q, r
<1>5. ASSUME q <= 0 PROVE FALSE
  <2>1. q * d <= 0 * d
    BY <1>1, <1>3, <1>5, MulLeq
  <2>2. q * d = d * q /\ 0 * d = 0 /\ d * q \in Int
    BY <1>1, <1>3
  <2> QED
    BY <1>1, <1>2, <1>3, <2>1, <2>2
<1> QED
  BY <1>3, <1>4, <1>5

LEMMA SlotsRest ==
    ASSUME Inv, UNCHANGED <<input, Ustar>>, UNCHANGED <<branch, drawn, todo>>,
           pc \in {"slots", "slot"}, pc' \in {"slots", "slot"}
    PROVE  /\ InputOK' /\ ControlOK' /\ UsersOK' /\ DrawsOK'
           /\ PairsScored' /\ DrawsScored' /\ ExactScores' /\ DrawScores'
<1>1. branch = "slots"
  BY DEF Inv, ControlOK
<1>2. InputOK' /\ UsersOK' /\ AllPairs' = AllPairs
  BY Carried
<1>3. ControlOK'
  BY <1>1 DEF Inv, ControlOK, input
<1>4. DrawsOK'
  BY <1>1, <1>2 DEF Inv, DrawsOK, Drawing
<1>5. PairsScored' /\ DrawsScored' /\ ExactScores' /\ DrawScores'
  BY <1>1 DEF PairsScored, DrawsScored, Drawing, ExactScores, DrawScores
<1> QED
  BY <1>2, <1>3, <1>4, <1>5

LEMMA SameDrawee ==
    ASSUME UNCHANGED <<input, Ustar, i, j>>
    PROVE  Drawee' = Drawee /\ Slots(Drawee)' = Slots(Drawee)
<1>1. /\ edges' = edges /\ mapIndex' = mapIndex /\ proc' = proc
      /\ Ustar' = Ustar /\ i' = i /\ j' = j
  BY DEF input
<1> QED
  BY <1>1 DEF Drawee, Deg, Slots, N, Number, Renumbered

\* The user whose slots are drawn, and what is drawn of them.
LEMMA DraweeFacts ==
    ASSUME Inv, pc \in {"slots", "slot"}, j <= Len(Ustar)
    PROVE  /\ i \in DOMAIN Ustar /\ j \in DOMAIN Ustar
           /\ Drawee \in {Ustar[i], Ustar[j]}
           /\ Slots(Drawee) # {} /\ IsFiniteSet(Slots(Drawee)) /\ Deg(Drawee) \in Nat \ {0}
           /\ \A v \in Common(Ustar[i], Ustar[j]) : BaseOf(v) \in Slots(Drawee)
<1>1. InputOK /\ i \in Nat \ {0} /\ j \in Nat \ {0} /\ i < j
  BY DEF Inv, LoopOK
<1>2. /\ Len(Ustar) \in Nat /\ DOMAIN Ustar = 1..Len(Ustar)
      /\ \A k \in DOMAIN Ustar : \E x \in DOMAIN edges : Ustar[k] = UserAt(x)
  BY InList
<1>3. i \in DOMAIN Ustar /\ j \in DOMAIN Ustar
  BY <1>1, <1>2
<1>4. Drawee \in {Ustar[i], Ustar[j]}
  BY DEF Drawee
<1>5. \E x \in DOMAIN edges : UserAt(x) = Drawee
  BY <1>2, <1>3, <1>4
<1>6. Slots(Drawee) # {} /\ IsFiniteSet(Slots(Drawee)) /\ Deg(Drawee) \in Nat \ {0}
  BY <1>1, <1>5, SlotLists
<1>7. \A v \in Common(Ustar[i], Ustar[j]) : v \in N(Drawee)
  BY <1>4 DEF Common
<1> QED
  BY <1>1, <1>3, <1>4, <1>6, <1>7, SlotLists

LEMMA StartSlotsKeeps == Inv /\ StartSlots => Inv'
<1> SUFFICES ASSUME Inv, StartSlots PROVE Inv'
  OBVIOUS
<1> DEFINE d == Deg(Drawee)
           both == Common(Ustar[i], Ustar[j])
           long == Less(Whole(2), Times(Whole(d), Rate(Len(Ustar))))
<1>0. /\ UNCHANGED <<input, Ustar>> /\ UNCHANGED <<branch, drawn, todo>> /\ i' = i /\ swing' = swing
      /\ UNCHANGED input /\ InputOK
      /\ pc = "slots" /\ i < Len(Ustar) /\ j <= Len(Ustar)
      /\ i \in Nat \ {0} /\ j \in Nat \ {0} /\ i < j /\ rounds >= 1 /\ rounds \in Nat
      /\ \/ long /\ both = {} /\ j' = j + 1 /\ UNCHANGED <<pc, Isize, hits>>
         \/ /\ ~ (long /\ both = {})
            /\ Isize' = Ceil(Times(SampleRate(d), Whole(d)))
            /\ hits' = [x \in Slots(Drawee) |-> 0]
            /\ pc' = "slot" /\ j' = j
  BY Edges DEF StartSlots, InSlots, Inv, LoopOK
<1> HIDE DEF d, both, long
<1>1. pc' \in {"slots", "slot"}
  BY <1>0
<1>2. /\ InputOK' /\ ControlOK' /\ UsersOK' /\ DrawsOK'
      /\ PairsScored' /\ DrawsScored' /\ ExactScores' /\ DrawScores'
  BY <1>0, <1>1, SlotsRest
<1>3. SwingOK'
  <2>1. branch # "return"
    BY <1>0 DEF Inv, ControlOK
  <2> QED
    BY <1>0, <1>1, <2>1 DEF Inv, SwingOK
<1>4. CASE j' = j + 1 /\ UNCHANGED <<pc, Isize, hits>>
  <2>1. LoopOK'
    BY <1>0, <1>4 DEF LoopOK, input
  <2> QED
    BY <1>2, <1>3, <2>1 DEF Inv
<1>5. CASE /\ ~ (long /\ both = {})
           /\ Isize' = Ceil(Times(SampleRate(d), Whole(d)))
           /\ hits' = [x \in Slots(Drawee) |-> 0]
           /\ pc' = "slot" /\ j' = j
  <2>1. /\ Slots(Drawee) # {} /\ IsFiniteSet(Slots(Drawee)) /\ d \in Nat \ {0}
        /\ Len(Ustar) \in Nat
    BY <1>0, DraweeFacts, InList DEF d
  <2>2. Rate(Len(Ustar)) \in Positive
    <3> DEFINE m == NumPairs(Len(Ustar))
    <3>1. m \in Nat
      BY <2>1, NumPairsFacts
    <3>2. Rate(Len(Ustar)) = IF rounds >= m THEN Whole(1) ELSE Frac(rounds, m)
      BY DEF Rate
    <3> HIDE DEF m
    <3>3. CASE rounds >= m
      BY <3>2, <3>3, PositiveFrac
    <3>4. CASE ~ (rounds >= m)
      BY <1>0, <3>1, <3>2, <3>4, PositiveFrac
    <3> QED
      BY <3>3, <3>4
  <2>3. SampleRate(d) \in Positive
    <3>1. SampleRate(d) = IF ~ long THEN Rate(Len(Ustar))
                          ELSE Times(Rate(Len(Ustar)), Frac(alpha + 2, alpha + Cardinality(both)))
      BY DEF SampleRate, long, both
    <3>2. CASE ~ long
      BY <2>2, <3>1, <3>2
    <3>3. CASE long
      <4>1. alpha \in Nat /\ Cardinality(both) \in Nat /\ Cardinality(both) >= 1
        BY <1>0, <1>5, <3>3, CommonItems, Edges DEF both
      <4> DEFINE a == alpha + 2
                 b == alpha + Cardinality(both)
      <4>2. a \in Nat \ {0} /\ b \in Nat \ {0}
        BY <4>1
      <4> HIDE DEF a, b
      <4>3. Frac(a, b) \in Positive
        BY <4>2, PositiveFrac
      <4>4. Times(Rate(Len(Ustar)), Frac(a, b)) \in Positive
        BY <2>2, <4>3, PositiveTimes
      <4> QED
        BY <3>1, <3>3, <4>4 DEF a, b
    <3> QED
      BY <3>2, <3>3
  <2>4. Isize' \in Nat \ {0}
    BY <1>5, <2>1, <2>3, PositiveFrac, PositiveTimes, CeilPositive
  <2>5. hits' \in [Slots(Drawee) -> Nat] /\ Slots(Drawee)' = Slots(Drawee)
    BY <1>0, <1>5, SameDrawee
  <2>6. SlotsDrawn' <= Isize'
    <3>1. DOMAIN hits' = Slots(Drawee) /\ \A x \in Slots(Drawee) : hits'[x] = 0
      BY <1>5
    <3>2. Total(hits', DOMAIN hits') = 0
      BY <2>1, <3>1, TotalZero
    <3> QED
      BY <2>4, <3>2 DEF SlotsDrawn
  <2>7. LoopOK'
    BY <1>0, <1>5, <2>4, <2>5, <2>6 DEF LoopOK, input
  <2> QED
    BY <1>2, <1>3, <2>7 DEF Inv
<1> QED
  BY <1>0, <1>4, <1>5

LEMMA DrawSlotKeeps == Inv /\ DrawSlot => Inv'
<1> SUFFICES ASSUME Inv, DrawSlot PROVE Inv'
  OBVIOUS
<1>0. /\ UNCHANGED <<input, Ustar>> /\ UNCHANGED <<branch, drawn, todo>> /\ UNCHANGED <<input, Ustar, i, j>>
      /\ UNCHANGED <<input, pc, branch, Ustar, i, j, Isize, drawn, todo, swing>>
      /\ pc = "slot" /\ SlotsDrawn < Isize
      /\ i \in Nat \ {0} /\ j \in Nat \ {0} /\ i < j /\ rounds >= 1
      /\ j <= Len(Ustar) /\ Isize \in Nat \ {0} /\ hits \in [Slots(Drawee) -> Nat]
  BY DEF DrawSlot, Inv, LoopOK
<1>1. PICK x \in Slots(Drawee) : hits' = [hits EXCEPT ![x] = @ + 1]
  BY <1>0 DEF DrawSlot
<1>2. /\ InputOK' /\ ControlOK' /\ UsersOK' /\ DrawsOK'
      /\ PairsScored' /\ DrawsScored' /\ ExactScores' /\ DrawScores'
  BY <1>0, SlotsRest
<1>3. SwingOK'
  BY <1>0 DEF Inv, SwingOK
<1>4. IsFiniteSet(Slots(Drawee)) /\ Slots(Drawee)' = Slots(Drawee)
  BY <1>0, DraweeFacts, SameDrawee
<1>5. hits' \in [Slots(Drawee) -> Nat]
  BY <1>0, <1>1
<1>6. SlotsDrawn' = SlotsDrawn + 1 /\ SlotsDrawn \in Nat
  <2>1. Total([hits EXCEPT ![x] = @ + 1], Slots(Drawee)) = Total(hits, Slots(Drawee)) + 1
    BY <1>0, <1>4, TotalBump
  <2>2. DOMAIN hits = Slots(Drawee) /\ DOMAIN hits' = Slots(Drawee) /\ \A y \in Slots(Drawee) : hits[y] \in Nat
    BY <1>0, <1>5
  <2>3. Total(hits, Slots(Drawee)) \in Nat
    BY <1>4, <2>2, TotalStep
  <2> QED
    BY <1>1, <2>1, <2>2, <2>3 DEF SlotsDrawn
<1>7. LoopOK'
  BY <1>0, <1>4, <1>5, <1>6 DEF LoopOK, input
<1> QED
  BY <1>2, <1>3, <1>7 DEF Inv

LEMMA NextFirstKeeps == Inv /\ NextFirst => Inv'
<1> SUFFICES ASSUME Inv, NextFirst PROVE Inv'
  OBVIOUS
<1>0. /\ UNCHANGED <<input, Ustar>> /\ UNCHANGED <<branch, drawn, todo>>
      /\ UNCHANGED <<input, pc, branch, Ustar, Isize, hits, drawn, todo, swing>>
      /\ pc = "slots" /\ i' = i + 1 /\ j' = i + 2 /\ i \in Nat \ {0} /\ rounds >= 1
  BY DEF NextFirst, InSlots, Inv, LoopOK
<1>1. /\ InputOK' /\ ControlOK' /\ UsersOK' /\ DrawsOK'
      /\ PairsScored' /\ DrawsScored' /\ ExactScores' /\ DrawScores'
  BY <1>0, SlotsRest
<1>2. SwingOK' /\ LoopOK'
  BY <1>0 DEF Inv, SwingOK, LoopOK, input
<1> QED
  BY <1>1, <1>2 DEF Inv

\* What h draws of a slot add, when I of D slots are drawn: times I, it is D h
\* times the pair's worth 1 / K.
PerDraw(I, D, K) == Frac(Frac(I, D)[2], Frac(I, D)[1] * K)

LEMMA SlotWorth ==
    ASSUME NEW I \in Nat \ {0}, NEW D \in Nat \ {0}, NEW K \in Nat \ {0}, NEW h \in Nat
    PROVE  /\ Times(Whole(h), PerDraw(I, D, K)) \in Fraction
           /\ Times(Times(Whole(h), PerDraw(I, D, K)), Whole(I)) = Times(Frac(1, K), Whole(D * h))
<1> DEFINE g == PerDraw(I, D, K)
           a == Frac(I, D)[1]
           b == Frac(I, D)[2]
           c == a * K
<1>1. a \in Nat \ {0} /\ b \in Nat \ {0} /\ a * D = I * b
  <2>1. a \in Int /\ b \in Nat \ {0} /\ a * D = I * b
    BY FracFacts
  <2>2. a > 0
    BY FracSign
  <2> QED
    BY <2>1, <2>2
<1> HIDE DEF a, b
<1>2. c \in Nat \ {0}
  BY <1>1
<1>3. g = Frac(b, c)
  BY DEF PerDraw, a, b
<1> HIDE DEF c, g
<1>4. g \in Fraction
  BY <1>1, <1>2, <1>3, FracFacts
<1>5. \A n \in Int : Whole(n) = Frac(n, 1) /\ Whole(n) \in Fraction
  BY FracOne
<1>6. 1 \in Nat \ {0} /\ \A x \in Nat : x \in Int
  OBVIOUS
<1>7. \A m, n \in Int, e, f \in Nat \ {0} : Times(Frac(m, e), Frac(n, f)) = Frac(m * n, e * f)
  BY TimesFrac
<1>8. Times(Whole(h), g) = Frac(h * b, 1 * c)
  <2>1. Times(Frac(h, 1), Frac(b, c)) = Frac(h * b, 1 * c)
    BY <1>1, <1>2, <1>6, <1>7
  <2> QED
    BY <1>3, <1>5, <1>6, <2>1
<1> DEFINE m == h * b
           n == D * h
<1>9. m \in Int /\ n \in Int /\ 1 * c = c
  BY <1>1, <1>2
<1> HIDE DEF m, n
<1>10. Times(Frac(m, c), Frac(I, 1)) = Frac(m * I, c * 1)
  BY <1>2, <1>6, <1>7, <1>9
<1>11. Times(Frac(1, K), Frac(n, 1)) = Frac(1 * n, K * 1)
  BY <1>6, <1>7, <1>9
<1>12. c * 1 = c /\ 1 * n = n /\ K * 1 = K
  BY <1>2, <1>9
<1>13. (m * I) * K = n * c
  <2>1. (m * I) * K = h * ((I * b) * K)
    BY <1>1, <1>9 DEF m
  <2>2. n * c = h * ((a * D) * K)
    BY <1>1, <1>9 DEF n, c
  <2> QED
    BY <1>1, <2>1, <2>2
<1>14. Frac(m * I, c) = Frac(n, K)
  <2>1. m * I \in Int
    BY <1>9
  <2> QED
    BY <1>2, <1>9, <1>13, <2>1, FracSame
<1>15. Times(Whole(h), g) = Frac(m, c)
  BY <1>8, <1>9 DEF m
<1>16. Frac(m, c) \in Fraction
  BY <1>2, <1>9, FracFacts
<1>17. Whole(I) = Frac(I, 1) /\ Whole(n) = Frac(n, 1)
  BY <1>5, <1>6, <1>9
<1> QED
  BY <1>4, <1>10, <1>11, <1>12, <1>14, <1>15, <1>16, <1>17 DEF n, g

\* What UseSlots adds to the score of each item.
SlotGained(v) ==
    LET both == ItemsOf(Ustar[i]) \cap ItemsOf(Ustar[j])
    IN  IF v \in both
        THEN Times(Minus(swing'[Number(v)], swing[Number(v)]), Whole(Isize)) =
             Times(Worth(Ustar[i], Ustar[j]), Whole(Deg(Drawee) * hits[BaseOf(Number(v))]))
        ELSE Minus(swing'[Number(v)], swing[Number(v)]) = Whole(0)

LEMMA UsingSlots ==
    ASSUME Inv, UseSlots
    PROVE  /\ swing' \in [Item -> Fraction]
           /\ \A v \in Item : SlotGained(v)
<1> DEFINE u == Ustar[i]
           w == Ustar[j]
           both == Common(u, w)
           D == Deg(Drawee)
           K == alpha + Cardinality(both)
           gain == Frac(Share[2], Share[1] * K)
           found == {v \in both : hits[BaseOf(v)] > 0}
           more(v) == Times(Whole(hits[BaseOf(v)]), gain)
<1>0. /\ InputOK /\ pc = "slot" /\ j <= Len(Ustar) /\ Isize \in Nat \ {0}
      /\ hits \in [Slots(Drawee) -> Nat] /\ swing \in [Item -> Fraction]
  BY DEF Inv, LoopOK, SwingOK, UseSlots
<1>1. swing' = [v \in Item |-> IF v \in found THEN Plus(swing[v], more(v)) ELSE swing[v]]
  BY DEF UseSlots
<1>2. /\ D \in Nat \ {0} /\ \A v \in both : BaseOf(v) \in Slots(Drawee)
  BY <1>0, DraweeFacts
<1>3. /\ both \in SUBSET Item /\ Gain(u, w) = Worth(u, w) /\ Gain(u, w) = Frac(1, K)
      /\ \A v \in Item : Number(v) \in both <=> v \in ItemsOf(u) \cap ItemsOf(w)
      /\ \A v \in Item : Number(v) \in Item
      /\ both # {} => K \in Nat \ {0}
  BY <1>0, CommonItems, Gaining, Numbers DEF Gain
<1>4. Share = Frac(Isize, D)
  BY DEF Share
<1>5. \A v \in both : hits[BaseOf(v)] \in Nat
  BY <1>0, <1>2
<1> HIDE DEF u, w, both, D, K, gain
<1>6. ASSUME NEW v \in both
      PROVE  /\ more(v) \in Fraction
             /\ Times(more(v), Whole(Isize)) = Times(Frac(1, K), Whole(D * hits[BaseOf(v)]))
  <2>1. K \in Nat \ {0}
    BY <1>3
  <2> DEFINE h == hits[BaseOf(v)]
             I == Isize
             g == gain
  <2>2. h \in Nat /\ I \in Nat \ {0} /\ D \in Nat \ {0}
    BY <1>0, <1>2, <1>5
  <2>3. g = PerDraw(I, D, K)
    BY <1>4 DEF PerDraw, gain
  <2> HIDE DEF h, I, g
  <2>4. /\ Times(Whole(h), g) \in Fraction
        /\ Times(Times(Whole(h), g), Whole(I)) = Times(Frac(1, K), Whole(D * h))
    <3>1. /\ Times(Whole(h), PerDraw(I, D, K)) \in Fraction
          /\ Times(Times(Whole(h), PerDraw(I, D, K)), Whole(I)) = Times(Frac(1, K), Whole(D * h))
      BY ONLY <2>1, <2>2, SlotWorth
    <3> QED
      BY ONLY <2>3, <3>1
  <2> QED
    BY <2>4 DEF h, I, g
<1> DEFINE sum(v) == Plus(swing[v], more(v))
<1>7. \A v \in both : more(v) \in Fraction
  BY <1>6
<1> HIDE DEF more
<1>8. \A v \in found : sum(v) \in Fraction
  BY <1>0, <1>3, <1>7, PlusFacts
<1> HIDE DEF sum
<1>9. /\ swing' \in [Item -> Fraction]
      /\ \A v \in Item : swing'[v] = IF v \in found THEN sum(v) ELSE swing[v]
  BY <1>0, <1>1, <1>8 DEF sum
<1>10. ASSUME NEW v \in Item PROVE SlotGained(v)
  <2> DEFINE x == Number(v)
             gained == Minus(swing'[x], swing[x])
             B == ItemsOf(u) \cap ItemsOf(w)
  <2>1. x \in Item /\ swing[x] \in Fraction /\ (x \in both <=> v \in B)
    BY <1>0, <1>3
  <2>2. SlotGained(v) = IF v \in B
                        THEN Times(gained, Whole(Isize)) = Times(Worth(u, w), Whole(D * hits[BaseOf(x)]))
                        ELSE gained = Whole(0)
    BY DEF SlotGained, u, w, D
  <2> HIDE DEF x
  <2>3. CASE x \in found
    <3>1. x \in both /\ swing'[x] = Plus(swing[x], more(x)) /\ more(x) \in Fraction
      BY <1>7, <1>9, <2>1, <2>3 DEF sum
    <3>2. gained = more(x)
      BY <2>1, <3>1, MinusPlus
    <3>3. Times(more(x), Whole(Isize)) = Times(Frac(1, K), Whole(D * hits[BaseOf(x)]))
      BY <1>6, <3>1 DEF more
    <3> QED
      BY <1>3, <2>1, <2>2, <3>1, <3>2, <3>3
  <2>4. CASE x \notin found
    <3>1. gained = Whole(0)
      BY <1>9, <2>1, <2>4, MinusPlus
    <3>2. CASE x \in both
      <4>1. hits[BaseOf(x)] = 0
        BY <1>5, <2>4, <3>2
      <4>2. D * hits[BaseOf(x)] = 0
        BY <1>2, <4>1
      <4>3. Whole(0) \in Fraction /\ Whole(Isize) \in Fraction /\ Worth(u, w) \in Fraction
        BY <1>0, <1>3, <3>2, FracOne, FracFacts
      <4>4. Times(Whole(0), Whole(Isize)) = Whole(0) /\ Times(Worth(u, w), Whole(0)) = Whole(0)
        BY <4>3, TimesFacts
      <4> QED
        BY <2>1, <2>2, <3>1, <3>2, <4>2, <4>4
    <3>3. CASE x \notin both
      BY <2>1, <2>2, <3>1, <3>3
    <3> QED
      BY <3>2, <3>3
  <2> QED
    BY <2>3, <2>4
<1> QED
  BY <1>9, <1>10

LEMMA UseSlotsKeeps == Inv /\ UseSlots => Inv'
<1> SUFFICES ASSUME Inv, UseSlots PROVE Inv'
  OBVIOUS
<1>0. /\ UNCHANGED <<input, Ustar>> /\ UNCHANGED <<branch, drawn, todo>>
      /\ UNCHANGED <<input, branch, Ustar, i, drawn, todo>>
      /\ pc = "slot" /\ pc' = "slots" /\ j' = j + 1
      /\ i \in Nat \ {0} /\ j \in Nat \ {0} /\ i < j /\ rounds >= 1
      /\ branch = "slots"
  BY DEF UseSlots, Inv, LoopOK, ControlOK
<1>1. /\ InputOK' /\ ControlOK' /\ UsersOK' /\ DrawsOK'
      /\ PairsScored' /\ DrawsScored' /\ ExactScores' /\ DrawScores'
  BY <1>0, SlotsRest
<1>2. LoopOK'
  BY <1>0 DEF LoopOK, input
<1>3. SwingOK'
  BY <1>0, UsingSlots DEF SwingOK
<1> QED
  BY <1>1, <1>2, <1>3 DEF Inv

-----------------------------------------------------------------------------
(* Draws of pairs.                                                         *)

\* c draws of a pair, times the number of draws: c times the worth 1 / K of the
\* pair, times the number m of pairs.
LEMMA PairWorth ==
    ASSUME NEW m \in Nat, NEW R \in Nat \ {0}, NEW K \in Nat \ {0}, NEW c \in Nat
    PROVE  /\ Times(Whole(c), Frac(m, R * K)) \in Fraction
           /\ Times(Times(Whole(c), Frac(m, R * K)), Whole(R))
                = Times(Times(Whole(c), Frac(1, K)), Whole(m))
<1> DEFINE d == R * K
<1>1. d \in Nat \ {0} /\ 1 \in Nat \ {0} /\ \A x \in Nat : x \in Int
  OBVIOUS
<1> HIDE DEF d
<1>2. \A n \in Int : Whole(n) = Frac(n, 1) /\ Whole(n) \in Fraction
  BY FracOne
<1>3. \A x, y \in Int, e, f \in Nat \ {0} : Times(Frac(x, e), Frac(y, f)) = Frac(x * y, e * f)
  BY TimesFrac
<1>4. Times(Whole(c), Frac(m, d)) = Frac(c * m, 1 * d)
  <2>1. Times(Frac(c, 1), Frac(m, d)) = Frac(c * m, 1 * d)
    BY <1>1, <1>3
  <2> QED
    BY <1>1, <1>2, <2>1
<1>5. Times(Whole(c), Frac(1, K)) = Frac(c * 1, 1 * K)
  <2>1. Times(Frac(c, 1), Frac(1, K)) = Frac(c * 1, 1 * K)
    BY <1>1, <1>3
  <2> QED
    BY <1>1, <1>2, <2>1
<1> DEFINE a == c * m
<1>6. a \in Int /\ 1 * d = d /\ c * 1 = c /\ 1 * K = K
  BY <1>1
<1> HIDE DEF a
<1>7. Times(Frac(a, d), Frac(R, 1)) = Frac(a * R, d * 1)
  BY <1>1, <1>3, <1>6
<1>8. Times(Frac(c, K), Frac(m, 1)) = Frac(c * m, K * 1)
  BY <1>1, <1>3
<1>9. (a * R) * K = a * d /\ d * 1 = d /\ K * 1 = K /\ a * R \in Int
  BY <1>1, <1>6 DEF d
<1>10. Frac(a * R, d) = Frac(a, K)
  BY <1>1, <1>6, <1>9, FracSame
<1>11. Frac(a, d) \in Fraction
  BY <1>1, <1>6, FracFacts
<1>12. Whole(R) = Frac(R, 1) /\ Whole(m) = Frac(m, 1)
  BY <1>1, <1>2
<1> QED
  BY <1>4, <1>5, <1>6, <1>7, <1>8, <1>9, <1>10, <1>11, <1>12 DEF a, d

\* What a pair of the list adds when it counts c times.
LEMMA UsingPair ==
    ASSUME Inv, pc # "start", NEW p \in AllPairs, NEW c \in Nat, rounds >= 1, UsePair(p, c)
    PROVE  /\ swing' \in [Item -> Fraction]
           /\ \A n \in Item :
                 Times(swing'[n], Whole(rounds)) =
                   IF p \in Sharing(n)
                   THEN Plus(Times(swing[n], Whole(rounds)),
                             Times(Times(Whole(c), Gain(Ustar[p[1]], Ustar[p[2]])),
                                   Whole(NumPairs(Len(Ustar)))))
                   ELSE Times(swing[n], Whole(rounds))
<1> DEFINE both == Common(Ustar[p[1]], Ustar[p[2]])
           m == NumPairs(Len(Ustar))
           K == alpha + Cardinality(both)
           x == Times(Whole(c), DrawGain(p))
           g == Gain(Ustar[p[1]], Ustar[p[2]])
<1>1. /\ InputOK /\ swing \in [Item -> Fraction] /\ Len(Ustar) \in Nat /\ rounds \in Nat \ {0}
  BY InList, Edges DEF Inv, SwingOK
<1>2. m \in Nat
  BY <1>1, NumPairsFacts
<1>3. /\ both # {} => K \in Nat \ {0} /\ g \in Fraction
      /\ g = Frac(1, K) /\ DrawGain(p) = Frac(m, rounds * K)
      /\ \A n : p \in Sharing(n) <=> n \in both
  BY <1>1, Gaining DEF Gain, DrawGain, Sharing
<1>4. swing' = IF both = {} THEN swing ELSE Add(both, x)
  BY DEF UsePair
<1> HIDE DEF both, m, K, g
<1>5. ASSUME both # {}
      PROVE  x \in Fraction /\ Times(x, Whole(rounds)) = Times(Times(Whole(c), g), Whole(m))
  <2> DEFINE R == rounds
  <2>1. R \in Nat \ {0} /\ K \in Nat \ {0}
    BY <1>1, <1>3, <1>5
  <2> HIDE DEF R
  <2>2. /\ Times(Whole(c), Frac(m, R * K)) \in Fraction
        /\ Times(Times(Whole(c), Frac(m, R * K)), Whole(R))
             = Times(Times(Whole(c), Frac(1, K)), Whole(m))
    BY <1>2, <2>1, PairWorth
  <2> QED
    BY <1>3, <2>2 DEF R
<1> HIDE DEF x
<1>6. /\ swing' \in [Item -> Fraction]
      /\ \A n \in Item : swing'[n] = IF n \in both THEN Plus(swing[n], x) ELSE swing[n]
  BY <1>1, <1>4, <1>5, Adding
<1>7. ASSUME NEW n \in Item
      PROVE  Times(swing'[n], Whole(rounds)) =
               IF p \in Sharing(n)
               THEN Plus(Times(swing[n], Whole(rounds)), Times(Times(Whole(c), g), Whole(m)))
               ELSE Times(swing[n], Whole(rounds))
  <2>1. CASE n \in both
    <3>1. x \in Fraction /\ Times(x, Whole(rounds)) = Times(Times(Whole(c), g), Whole(m))
      BY <1>5, <2>1
    <3>2. swing[n] \in Fraction /\ Whole(rounds) \in Fraction
      BY <1>1, FracOne
    <3>3. Times(Plus(swing[n], x), Whole(rounds)) = Plus(Times(swing[n], Whole(rounds)), Times(x, Whole(rounds)))
      BY <3>1, <3>2, TimesPlus
    <3> QED
      BY <1>3, <1>6, <2>1, <3>1, <3>3
  <2>2. CASE n \notin both
    BY <1>3, <1>6, <2>2
  <2> QED
    BY <2>1, <2>2
<1> QED
  BY <1>6, <1>7 DEF g, m

LEMMA MoreTimes ==
    ASSUME NEW a \in Nat, NEW b \in Nat, NEW x \in Fraction
    PROVE  Times(Whole(a + b), x) = Plus(Times(Whole(a), x), Times(Whole(b), x))
<1>1. Whole(a) \in Fraction /\ Whole(b) \in Fraction
  BY FracOne
<1>2. Plus(Whole(a), Whole(b)) = Whole(a + b)
  BY WholePlus
<1> QED
  BY <1>1, <1>2, TimesPlus

\* The sum of what was drawn grows by what the pair adds.
LEMMA PairUsed ==
    ASSUME Inv, UNCHANGED <<input, Ustar>>, pc # "start", pc' # "start", branch \in Drawing, pc # "done",
           NEW p \in AllPairs, NEW c \in Nat, rounds >= 1, UsePair(p, c),
           \A q \in AllPairs : Used(q) \in Nat,
           Used(p)' = Used(p) + c, \A q \in AllPairs \ {p} : Used(q)' = Used(q)
    PROVE  /\ swing' \in [Item -> Fraction]
           /\ \A n \in Item : Times(swing'[n], Whole(rounds')) =
                              Times(SumOf(UsedGains', Sharing(n)'), Whole(NumPairs(Len(Ustar'))))
<1> DEFINE m == NumPairs(Len(Ustar))
           g == Gain(Ustar[p[1]], Ustar[p[2]])
<1>0. UNCHANGED input /\ rounds' = rounds /\ Ustar' = Ustar
  BY DEF input
<1>1. /\ AllPairs' = AllPairs /\ \A n : Sharing(n)' = Sharing(n)
  BY Carried
<1>2. /\ Len(Ustar) \in Nat /\ IsFiniteSet(AllPairs)
      /\ \A n : IsFiniteSet(Sharing(n)) /\ Sharing(n) \in SUBSET AllPairs
      /\ \A n : \A q \in Sharing(n) : Gain(Ustar[q[1]], Ustar[q[2]]) \in Fraction
  BY InList
<1>3. swing \in [Item -> Fraction] /\ rounds \in Nat
  BY Edges DEF Inv, SwingOK
<1>4. /\ swing' \in [Item -> Fraction]
      /\ \A n \in Item :
            Times(swing'[n], Whole(rounds)) =
              IF p \in Sharing(n)
              THEN Plus(Times(swing[n], Whole(rounds)), Times(Times(Whole(c), g), Whole(m)))
              ELSE Times(swing[n], Whole(rounds))
  BY UsingPair
<1>5. /\ UsedGains = [q \in AllPairs |-> Times(Whole(Used(q)), Gain(Ustar[q[1]], Ustar[q[2]]))]
      /\ UsedGains' = [q \in AllPairs |-> Times(Whole(Used(q)'), Gain(Ustar[q[1]], Ustar[q[2]]))]
  BY <1>0, <1>1, ListNext DEF UsedGains
<1> HIDE DEF m, g
<1>6. \A n \in Item : Times(swing[n], Whole(rounds)) = Times(SumOf(UsedGains, Sharing(n)), Whole(m))
  BY DEF Inv, DrawsScored, m
<1>7. ASSUME NEW n \in Item
      PROVE  Times(swing'[n], Whole(rounds)) = Times(SumOf(UsedGains', Sharing(n)), Whole(m))
  <2> DEFINE f == UsedGains
             k == UsedGains'
             S == Sharing(n)
  <2>1. \A q \in S : q \in AllPairs /\ f[q] \in Fraction
    <3> SUFFICES ASSUME NEW q \in S PROVE q \in AllPairs /\ f[q] \in Fraction
      OBVIOUS
    <3>1. q \in AllPairs /\ Gain(Ustar[q[1]], Ustar[q[2]]) \in Fraction
      BY <1>2
    <3>2. Used(q) \in Int
      BY <3>1
    <3>3. Whole(Used(q)) \in Fraction
      BY <3>2, FracOne
    <3>4. f[q] = Times(Whole(Used(q)), Gain(Ustar[q[1]], Ustar[q[2]]))
      BY <1>5, <3>1
    <3> QED
      BY <3>1, <3>3, <3>4, TimesFacts
  <2>2. \A q \in S \ {p} : k[q] = f[q]
    BY <1>5, <2>1
  <2>3. CASE p \in S
    <3> DEFINE x == Times(Whole(c), g)
    <3>1. g \in Fraction /\ Whole(c) \in Fraction /\ Whole(m) \in Fraction
      <4>1. m \in Int
        BY <1>2, NumPairsFacts DEF m
      <4> QED
        BY <1>2, <2>3, <4>1, FracOne DEF g
    <3>2. x \in Fraction
      BY <3>1, TimesFacts
    <3>3. k[p] = Plus(f[p], x)
      <4>1. f[p] = Times(Whole(Used(p)), g) /\ k[p] = Times(Whole(Used(p) + c), g) /\ Used(p) \in Nat
        BY <1>5 DEF g
      <4> QED
        BY <3>1, <4>1, MoreTimes
    <3> HIDE DEF f, k, S, x
    <3>4. IsFiniteSet(S)
      BY <1>2 DEF S
    <3>5. SumOf(k, S) = Plus(SumOf(f, S), x)
      BY <2>1, <2>2, <2>3, <3>2, <3>3, <3>4, SumGrow
    <3>6. SumOf(f, S) \in Fraction
      BY <2>1, <3>4, SumStep
    <3>7. Times(SumOf(k, S), Whole(m)) = Plus(Times(SumOf(f, S), Whole(m)), Times(x, Whole(m)))
      BY <3>1, <3>2, <3>5, <3>6, TimesPlus
    <3> QED
      BY <1>4, <1>6, <2>3, <3>7 DEF f, k, S, x
  <2>4. CASE p \notin S
    <3>1. IsFiniteSet(S) /\ \A q \in S : f[q] \in Fraction /\ k[q] = f[q]
      BY <1>2, <2>1, <2>2, <2>4
    <3> HIDE DEF f, k, S
    <3>2. SumOf(f, S) = SumOf(k, S)
      BY <3>1, SumSame
    <3> QED
      BY <1>4, <1>6, <2>4, <3>2 DEF f, k, S
  <2> QED
    BY <2>3, <2>4
<1> QED
  BY <1>0, <1>1, <1>4, <1>7 DEF m

\* The draws so far.
LEMMA Draws ==
    ASSUME Inv, branch \in Drawing, pc # "start"
    PROVE  /\ InputOK /\ rounds \in Nat /\ rounds \in Int /\ Len(Ustar) >= 2
           /\ drawn \in [AllPairs -> Nat] /\ DOMAIN drawn = AllPairs
           /\ RoundsDrawn = Total(drawn, AllPairs) /\ RoundsDrawn \in Nat /\ RoundsDrawn <= rounds
           /\ \A p \in AllPairs : drawn[p] \in Nat /\ drawn[p] <= RoundsDrawn /\ Used(p) \in Nat
           /\ \A p \in AllPairs : Total([drawn EXCEPT ![p] = @ + 1], AllPairs) = RoundsDrawn + 1
<1>1. /\ InputOK /\ rounds \in Nat /\ rounds \in Int /\ Len(Ustar) >= 2
      /\ drawn \in [AllPairs -> Nat] /\ DOMAIN drawn = AllPairs /\ RoundsDrawn <= rounds
      /\ IsFiniteSet(AllPairs)
  BY Edges, InList DEF Inv, DrawsOK
<1> DEFINE f == drawn
           S == AllPairs
<1>2. f \in [S -> Nat] /\ IsFiniteSet(S) /\ \A p \in S : f[p] \in Nat
  BY <1>1
<1>3. RoundsDrawn = Total(f, S)
  BY <1>1 DEF RoundsDrawn
<1> HIDE DEF f, S
<1>4. Total(f, S) \in Nat
  BY <1>2, TotalStep
<1>5. \A p \in S : f[p] <= Total(f, S)
  BY <1>2, TotalBounds
<1>6. \A p \in S : Total([f EXCEPT ![p] = @ + 1], S) = Total(f, S) + 1
  BY <1>2, TotalBump
<1>7. \A p \in S : Used(p) \in Nat
  BY <1>2 DEF Used, f
<1> QED
  BY <1>1, <1>2, <1>3, <1>4, <1>5, <1>6, <1>7 DEF f, S

LEMMA DrawAndUseKeeps == Inv /\ DrawAndUse => Inv'
<1> SUFFICES ASSUME Inv, DrawAndUse PROVE Inv'
  OBVIOUS
<1>0. /\ UNCHANGED <<input, pc, branch, Ustar, i, j, Isize, hits, todo>> /\ UNCHANGED <<input, Ustar>>
      /\ pc = "direct" /\ RoundsDrawn < rounds /\ branch = "direct" /\ branch \in Drawing
      /\ pc # "start" /\ pc' # "start" /\ pc # "done" /\ todo = {} /\ rounds' = rounds
  BY DEF DrawAndUse, Inv, ControlOK, Drawing, DrawsOK, input
<1>1. PICK p \in DOMAIN drawn : drawn' = [drawn EXCEPT ![p] = @ + 1] /\ UsePair(p, 1)
  BY DEF DrawAndUse
<1>2. /\ InputOK' /\ UsersOK' /\ AllPairs' = AllPairs
  BY <1>0, Carried
<1>3. /\ rounds \in Nat /\ Len(Ustar) >= 2 /\ drawn \in [AllPairs -> Nat] /\ DOMAIN drawn = AllPairs
      /\ RoundsDrawn \in Nat /\ \A q \in AllPairs : Used(q) \in Nat
      /\ \A q \in AllPairs : Total([drawn EXCEPT ![q] = @ + 1], AllPairs) = RoundsDrawn + 1
  BY <1>0, Draws
<1>4. p \in AllPairs /\ rounds >= 1
  BY <1>0, <1>1, <1>3
<1>5. ControlOK' /\ LoopOK'
  BY <1>0 DEF Inv, ControlOK, LoopOK, input
<1>6. DrawsOK'
  <2>1. drawn' \in [AllPairs -> Nat] /\ DOMAIN drawn' = AllPairs
    BY <1>1, <1>3
  <2>2. RoundsDrawn' = RoundsDrawn + 1
    BY <1>1, <1>3, <1>4, <2>1 DEF RoundsDrawn
  <2> QED
    BY <1>0, <1>2, <1>3, <2>1, <2>2 DEF DrawsOK, Drawing
<1>7. Used(p)' = Used(p) + 1 /\ \A q \in AllPairs \ {p} : Used(q)' = Used(q)
  BY <1>0, <1>1, <1>3 DEF Used
<1>8. /\ swing' \in [Item -> Fraction]
      /\ \A n \in Item : Times(swing'[n], Whole(rounds')) =
                         Times(SumOf(UsedGains', Sharing(n)'), Whole(NumPairs(Len(Ustar'))))
  BY <1>0, <1>1, <1>3, <1>4, <1>7, PairUsed
<1>9. SwingOK' /\ DrawsScored'
  BY <1>0, <1>8 DEF SwingOK, DrawsScored
<1>10. PairsScored' /\ ExactScores' /\ DrawScores'
  BY <1>0 DEF PairsScored, ExactScores, DrawScores
<1> QED
  BY <1>2, <1>5, <1>6, <1>9, <1>10 DEF Inv

\* When what was used of each pair stays, so does what the scores are.
LEMMA SameUsed ==
    ASSUME Inv, UNCHANGED <<input, Ustar>>, pc # "start", pc' # "start", branch \in Drawing, pc # "done",
           UNCHANGED <<branch, swing>>, \A p \in AllPairs : Used(p)' = Used(p)
    PROVE  DrawsScored'
<1>1. /\ AllPairs' = AllPairs /\ \A n : Sharing(n)' = Sharing(n)
  BY Carried
<1>2. UNCHANGED input /\ rounds' = rounds
  BY DEF input
<1>3. UsedGains' = UsedGains
  <2>1. UsedGains = [q \in AllPairs |-> Times(Whole(Used(q)), Gain(Ustar[q[1]], Ustar[q[2]]))]
    BY DEF UsedGains
  <2>2. UsedGains' = [q \in AllPairs |-> Times(Whole(Used(q)'), Gain(Ustar[q[1]], Ustar[q[2]]))]
    BY <1>1, <1>2, ListNext
  <2> QED
    BY <2>1, <2>2
<1> QED
  BY <1>1, <1>2, <1>3 DEF Inv, DrawsScored

LEMMA CollectKeeps == Inv /\ Collect => Inv'
<1> SUFFICES ASSUME Inv, Collect PROVE Inv'
  OBVIOUS
<1>0. /\ UNCHANGED <<input, pc, branch, Ustar, i, j, Isize, hits, todo, swing>>
      /\ UNCHANGED <<input, Ustar>> /\ UNCHANGED <<branch, swing>>
      /\ pc = "collect" /\ RoundsDrawn < rounds /\ branch = "collect" /\ branch \in Drawing
      /\ pc # "start" /\ pc' # "start" /\ pc # "done" /\ todo = {} /\ rounds' = rounds
  BY DEF Collect, Inv, ControlOK, Drawing, DrawsOK, input
<1>1. PICK p \in DOMAIN drawn : drawn' = [drawn EXCEPT ![p] = @ + 1]
  BY DEF Collect
<1>2. /\ InputOK' /\ UsersOK' /\ AllPairs' = AllPairs
  BY <1>0, Carried
<1>3. /\ rounds \in Nat /\ Len(Ustar) >= 2 /\ drawn \in [AllPairs -> Nat] /\ DOMAIN drawn = AllPairs
      /\ RoundsDrawn \in Nat
      /\ \A q \in AllPairs : Total([drawn EXCEPT ![q] = @ + 1], AllPairs) = RoundsDrawn + 1
  BY <1>0, Draws
<1>4. ControlOK' /\ LoopOK' /\ SwingOK'
  BY <1>0 DEF Inv, ControlOK, LoopOK, SwingOK, input
<1>5. DrawsOK'
  <2>1. drawn' \in [AllPairs -> Nat] /\ DOMAIN drawn' = AllPairs
    BY <1>1, <1>3
  <2>2. RoundsDrawn' = RoundsDrawn + 1
    BY <1>1, <1>3, <2>1 DEF RoundsDrawn
  <2> QED
    BY <1>0, <1>2, <1>3, <2>1, <2>2 DEF DrawsOK, Drawing
<1>6. DrawsScored'
  <2>1. \A q \in AllPairs : Used(q)' = Used(q)
    BY <1>0 DEF Used
  <2> QED
    BY <1>0, <2>1, SameUsed
<1>7. PairsScored' /\ ExactScores' /\ DrawScores'
  BY <1>0 DEF PairsScored, ExactScores, DrawScores
<1> QED
  BY <1>2, <1>4, <1>5, <1>6, <1>7 DEF Inv

LEMMA StartUpdatesKeeps == Inv /\ StartUpdates => Inv'
<1> SUFFICES ASSUME Inv, StartUpdates PROVE Inv'
  OBVIOUS
<1>0. /\ UNCHANGED <<input, branch, Ustar, i, j, Isize, hits, drawn, swing>>
      /\ UNCHANGED <<input, Ustar>> /\ UNCHANGED <<branch, swing>>
      /\ pc = "collect" /\ RoundsDrawn = rounds /\ branch = "collect" /\ branch \in Drawing
      /\ pc' = "update" /\ todo' = {p \in DOMAIN drawn : drawn[p] > 0}
      /\ pc # "start" /\ pc' # "start" /\ pc # "done" /\ rounds' = rounds
  BY DEF StartUpdates, Inv, ControlOK, Drawing, input
<1>1. /\ InputOK' /\ UsersOK' /\ AllPairs' = AllPairs
  BY <1>0, Carried
<1>2. /\ rounds \in Nat /\ Len(Ustar) >= 2 /\ drawn \in [AllPairs -> Nat] /\ DOMAIN drawn = AllPairs
      /\ \A q \in AllPairs : drawn[q] \in Nat
  BY <1>0, Draws
<1>3. ControlOK' /\ LoopOK' /\ SwingOK'
  BY <1>0 DEF Inv, ControlOK, LoopOK, SwingOK, input
<1>4. DrawsOK'
  <2>1. RoundsDrawn' = RoundsDrawn
    BY <1>0 DEF RoundsDrawn
  <2> QED
    BY <1>0, <1>1, <1>2, <2>1 DEF DrawsOK, Drawing
<1>5. DrawsScored'
  <2>1. \A q \in AllPairs : Used(q)' = 0 /\ Used(q) = 0
    BY <1>0, <1>2 DEF Used
  <2> QED
    BY <1>0, <2>1, SameUsed
<1>6. PairsScored' /\ ExactScores' /\ DrawScores'
  BY <1>0 DEF PairsScored, ExactScores, DrawScores
<1> QED
  BY <1>1, <1>3, <1>4, <1>5, <1>6 DEF Inv

LEMMA UseCollectedKeeps == Inv /\ UseCollected => Inv'
<1> SUFFICES ASSUME Inv, UseCollected PROVE Inv'
  OBVIOUS
<1>0. /\ UNCHANGED <<input, pc, branch, Ustar, i, j, Isize, hits, drawn>> /\ UNCHANGED <<input, Ustar>>
      /\ pc = "update" /\ branch = "collect" /\ branch \in Drawing
      /\ pc # "start" /\ pc' # "start" /\ pc # "done" /\ rounds' = rounds
      /\ RoundsDrawn = rounds /\ todo \subseteq {p \in DOMAIN drawn : drawn[p] > 0}
  BY DEF UseCollected, Inv, ControlOK, Drawing, DrawsOK, input
<1>1. PICK p \in todo : todo' = todo \ {p} /\ UsePair(p, drawn[p])
  BY DEF UseCollected, Collected
<1>2. /\ InputOK' /\ UsersOK' /\ AllPairs' = AllPairs
  BY <1>0, Carried
<1>3. /\ rounds \in Nat /\ Len(Ustar) >= 2 /\ drawn \in [AllPairs -> Nat] /\ DOMAIN drawn = AllPairs
      /\ RoundsDrawn <= rounds
      /\ \A q \in AllPairs : drawn[q] \in Nat /\ drawn[q] <= RoundsDrawn /\ Used(q) \in Nat
  BY <1>0, Draws
<1>4. p \in AllPairs /\ drawn[p] \in Nat /\ rounds >= 1
  BY <1>0, <1>1, <1>3
<1>5. ControlOK' /\ LoopOK'
  BY <1>0 DEF Inv, ControlOK, LoopOK, input
<1>6. DrawsOK'
  <2>1. RoundsDrawn' = RoundsDrawn
    BY <1>0 DEF RoundsDrawn
  <2>2. todo' \subseteq todo
    BY <1>1
  <2> QED
    BY <1>0, <1>2, <1>3, <2>1, <2>2 DEF DrawsOK, Drawing
<1>7. Used(p)' = Used(p) + drawn[p] /\ \A q \in AllPairs \ {p} : Used(q)' = Used(q)
  <2>1. p \notin todo' /\ \A q \in AllPairs \ {p} : q \in todo' <=> q \in todo
    BY <1>1
  <2> QED
    BY <1>0, <1>1, <1>4, <2>1 DEF Used
<1>8. /\ swing' \in [Item -> Fraction]
      /\ \A n \in Item : Times(swing'[n], Whole(rounds')) =
                         Times(SumOf(UsedGains', Sharing(n)'), Whole(NumPairs(Len(Ustar'))))
  <2> DEFINE c == drawn[p]
  <2>1. c \in Nat /\ UsePair(p, c) /\ Used(p)' = Used(p) + c
    BY <1>1, <1>4, <1>7
  <2>2. \A q \in AllPairs : Used(q) \in Nat
    BY <1>3
  <2> HIDE DEF c
  <2> QED
    BY <1>0, <1>4, <1>7, <2>1, <2>2, PairUsed
<1>9. SwingOK' /\ DrawsScored'
  BY <1>0, <1>8 DEF SwingOK, DrawsScored
<1>10. PairsScored' /\ ExactScores' /\ DrawScores'
  BY <1>0 DEF PairsScored, ExactScores, DrawScores
<1> QED
  BY <1>2, <1>5, <1>6, <1>9, <1>10 DEF Inv

-----------------------------------------------------------------------------
(* The end.                                                                *)

LEMMA LoopsEndKeeps == Inv /\ LoopsEnd => Inv'
<1> SUFFICES ASSUME Inv, LoopsEnd PROVE Inv'
  OBVIOUS
<1>0. /\ UNCHANGED <<input, branch, Ustar, i, j, Isize, hits, drawn, todo, swing>>
      /\ UNCHANGED <<input, Ustar>> /\ UNCHANGED <<branch, swing>>
      /\ pc' = "back" /\ pc # "start" /\ pc' # "start" /\ pc # "done" /\ pc # "collect"
      /\ todo = {} /\ rounds' = rounds /\ RoundsDrawn' = RoundsDrawn
      /\ \/ pc = "pairs" /\ branch = "pairs" /\ i > Len(Ustar)
         \/ pc = "slots" /\ branch = "slots"
         \/ pc = "direct" /\ branch = "direct" /\ RoundsDrawn = rounds
         \/ pc = "update" /\ branch = "collect" /\ RoundsDrawn = rounds
  BY DEF LoopsEnd, Inv, ControlOK, DrawsOK, Drawing, input, RoundsDrawn
<1>1. /\ InputOK' /\ UsersOK' /\ AllPairs' = AllPairs /\ Gains' = Gains
      /\ \A n : Sharing(n)' = Sharing(n)
  BY <1>0, Carried
<1>2. ControlOK'
  BY <1>0 DEF Inv, ControlOK, Exact, input
<1>3. LoopOK' /\ SwingOK'
  BY <1>0 DEF Inv, LoopOK, SwingOK
<1>4. DrawsOK'
  BY <1>0, <1>1 DEF Inv, DrawsOK, Drawing
<1>5. PairsScored'
  <2>1. CASE branch = "pairs"
    <3>1. pc = "pairs" /\ i > Len(Ustar) /\ i \in Nat
      BY <1>0, <2>1 DEF Inv, LoopOK
    <3>2. PairsDone = AllPairs
      BY <1>0, <3>1, InList DEF PairsDone
    <3>3. \A n : Sharing(n) \cap PairsDone = Sharing(n)
      BY <3>2 DEF Sharing
    <3>4. \A n \in Item : swing[n] = SumOf(Gains, Sharing(n))
      BY <3>1, <3>3 DEF Inv, PairsScored
    <3> QED
      BY <1>0, <1>1, <3>4 DEF PairsScored
  <2>2. CASE branch # "pairs"
    BY <1>0, <2>2 DEF PairsScored
  <2> QED
    BY <2>1, <2>2
<1>6. DrawsScored'
  <2>1. CASE branch \in Drawing
    <3>1. \A p \in AllPairs : Used(p)' = Used(p)
      BY <1>0 DEF Used
    <3> QED
      BY <1>0, <2>1, <3>1, SameUsed
  <2>2. CASE branch \notin Drawing
    BY <1>0, <2>2 DEF DrawsScored
  <2> QED
    BY <2>1, <2>2
<1>7. ExactScores' /\ DrawScores'
  BY <1>0 DEF ExactScores, DrawScores
<1> QED
  BY <1>1, <1>2, <1>3, <1>4, <1>5, <1>6, <1>7 DEF Inv

\* What the draws of the pairs are worth, with the items under their own ids.
Reached(v) == {p \in DOMAIN drawn : v \in ItemsOf(Ustar[p[1]]) \cap ItemsOf(Ustar[p[2]])}
DrawnWorth(v) == SumOf([p \in Reached(v) |-> Times(Whole(drawn[p]), Worth(Ustar[p[1]], Ustar[p[2]]))],
                       Reached(v))

\* DrawScores in these names.
DrawScoresHere ==
    pc = "done" /\ branch \in Drawing =>
        /\ RoundsDrawn = rounds
        /\ \A v \in Item : Times(swing[v], Whole(rounds))
                             = Times(DrawnWorth(v), Whole(NumPairs(Len(Ustar))))

LEMMA AllUsed ==
    ASSUME Inv, branch \in Drawing, pc = "back", NEW v \in Item
    PROVE  Times(swing[Number(v)], Whole(rounds)) = Times(DrawnWorth(v), Whole(NumPairs(Len(Ustar))))
<1> DEFINE n == Number(v)
           S == Reached(v)
           k == [p \in S |-> Times(Whole(drawn[p]), Worth(Ustar[p[1]], Ustar[p[2]]))]
           f == UsedGains
<1>0. InputOK /\ todo = {} /\ pc # "start" /\ pc # "done"
  BY DEF Inv, DrawsOK
<1>1. n \in Item
  BY <1>0, Numbers
<1>2. /\ DOMAIN drawn = AllPairs /\ \A p \in AllPairs : drawn[p] \in Nat
  BY <1>0, Draws
<1>3. S = Sharing(n)
  BY <1>0, <1>2, CommonItems DEF Reached, Sharing
<1>4. /\ IsFiniteSet(S) /\ S \in SUBSET AllPairs
      /\ \A p \in S : Gain(Ustar[p[1]], Ustar[p[2]]) \in Fraction
  BY <1>0, <1>3, InList
<1>5. \A p \in S : f[p] \in Fraction /\ k[p] = f[p]
  <2> SUFFICES ASSUME NEW p \in S PROVE f[p] \in Fraction /\ k[p] = f[p]
    OBVIOUS
  <2> DEFINE x == Gain(Ustar[p[1]], Ustar[p[2]])
             c == drawn[p]
  <2>1. p \in AllPairs /\ c \in Int /\ x \in Fraction
    BY <1>2, <1>4
  <2>2. f[p] = Times(Whole(c), x)
    BY <1>0, <2>1 DEF UsedGains, Used
  <2>3. k[p] = Times(Whole(c), x)
    BY <1>0, Gaining
  <2> HIDE DEF f, k, x, c
  <2>4. Whole(c) \in Fraction
    BY <2>1, FracOne
  <2> QED
    BY <2>1, <2>2, <2>3, <2>4, TimesFacts
<1> HIDE DEF S, k, f
<1>6. SumOf(f, S) = SumOf(k, S)
  BY <1>4, <1>5, SumSame
<1>7. DrawnWorth(v) = SumOf(k, S)
  BY DEF DrawnWorth, k, S
<1>8. Times(swing[n], Whole(rounds)) = Times(SumOf(f, Sharing(n)), Whole(NumPairs(Len(Ustar))))
  BY <1>0, <1>1 DEF Inv, DrawsScored, f
<1> QED
  BY <1>3, <1>6, <1>7, <1>8

LEMMA PutBackKeeps == Inv /\ PutBack => Inv'
<1> SUFFICES ASSUME Inv, PutBack PROVE Inv'
  OBVIOUS
<1>0. /\ UNCHANGED <<input, branch, Ustar, i, j, Isize, hits, drawn, todo>>
      /\ UNCHANGED <<input, Ustar>> /\ UNCHANGED input
      /\ pc = "back" /\ pc' = "done" /\ pc # "start" /\ pc' # "start"
      /\ swing' = [v \in Item |-> swing[Number(v)]]
      /\ InputOK /\ swing \in [Item -> Fraction]
      /\ rounds' = rounds /\ RoundsDrawn' = RoundsDrawn
  BY DEF PutBack, Inv, SwingOK, input, RoundsDrawn
<1>1. /\ InputOK' /\ UsersOK' /\ AllPairs' = AllPairs
  BY <1>0, Carried
<1>2. ControlOK'
  BY <1>0 DEF Inv, ControlOK, Exact, input
<1>3. LoopOK'
  BY <1>0 DEF Inv, LoopOK
<1>4. DrawsOK'
  BY <1>0, <1>1 DEF Inv, DrawsOK, Drawing
<1>5. \A v \in Item : Number(v) \in Item /\ swing'[v] = swing[Number(v)]
  BY <1>0, Numbers
<1>6. SwingOK'
  <2>1. swing' \in [Item -> Fraction]
    BY <1>0, <1>5
  <2>2. ASSUME branch = "return" PROVE swing' = NoScore
    <3>1. swing = NoScore
      BY <2>2 DEF Inv, SwingOK
    <3>2. \A v \in Item : swing[Number(v)] = Whole(0)
      BY <1>5, <3>1, NoScores
    <3> QED
      BY <1>0, <3>2 DEF NoScore
  <2> QED
    BY <1>0, <2>1, <2>2 DEF SwingOK
<1>7. PairsScored' /\ DrawsScored'
  BY <1>0 DEF PairsScored, DrawsScored
<1>8. ExactScores'
  <2> SUFFICES ASSUME branch \in {"pairs", "return"}, NEW v \in Item, v # vq \/ proc \in Exact
               PROVE  swing'[v] = Definition(v)
    BY <1>0, SameInput DEF ExactScores, Exact, input
  <2>1. PICK f \in Orders(Places) : Ustar = Users(f)
    BY <1>0 DEF Inv, UsersOK
  <2>2. Places = At(vq) \/ (Places = KeptAt(vq) /\ v # vq)
    BY DEF Places
  <2>3. SumOf(Gains, Sharing(Number(v))) = Definition(v)
    BY <1>0, <2>1, <2>2, AllPairsScore
  <2>4. swing[Number(v)] = SumOf(Gains, Sharing(Number(v)))
    BY <1>0, <1>5 DEF Inv, PairsScored
  <2> QED
    BY <1>5, <2>3, <2>4
<1>9. DrawScores'
  <2> SUFFICES ASSUME branch \in Drawing PROVE DrawScores'
    BY <1>0 DEF DrawScores, Drawing
  <2>1. RoundsDrawn' = rounds'
    BY <1>0 DEF Inv, DrawsOK
  <2>2. ASSUME NEW v \in Item
        PROVE  Times(swing'[v], Whole(rounds')) = Times(DrawnWorth(v)', Whole(NumPairs(Len(Ustar'))))
    <3>1. DrawnWorth(v)' = DrawnWorth(v)
      BY <1>0 DEF DrawnWorth, Reached, Worth, ItemsOf, input
    <3> QED
      BY <1>0, <1>5, <3>1, AllUsed
  <2> QED
    BY <2>1, <2>2 DEF DrawScores, DrawnWorth, Reached
<1> QED
  BY <1>1, <1>2, <1>3, <1>4, <1>6, <1>7, <1>8, <1>9 DEF Inv

LEMMA StutterKeeps == Inv /\ UNCHANGED vars => Inv'
<1> SUFFICES ASSUME Inv, UNCHANGED vars PROVE Inv'
  OBVIOUS
<1> USE DEF vars, input
<1>1. InputOK' /\ ControlOK' /\ LoopOK'
  <2>1. SlotsDrawn' = SlotsDrawn /\ Slots(Drawee)' = Slots(Drawee)
    BY SameDrawee DEF SlotsDrawn
  <2> QED
    BY <2>1 DEF Inv, InputOK, ControlOK, LoopOK
<1>2. UsersOK'
  BY SameInput DEF Inv, UsersOK
<1>3. AllPairs' = AllPairs /\ RoundsDrawn' = RoundsDrawn
  BY DEF AllPairs, RoundsDrawn
<1>4. DrawsOK' /\ SwingOK'
  BY <1>3 DEF Inv, DrawsOK, SwingOK
<1>5. PairsScored'
  <2>1. \A n : Sharing(n)' = Sharing(n)
    BY <1>3, SameInput DEF Sharing
  <2>2. Gains' = Gains
    BY <1>3, SameInput DEF Gains
  <2>3. PairsDone' = PairsDone
    BY <1>3 DEF PairsDone
  <2> QED
    BY <2>1, <2>2, <2>3 DEF Inv, PairsScored
<1>6. DrawsScored'
  <2>1. \A n : Sharing(n)' = Sharing(n)
    BY <1>3, SameInput DEF Sharing
  <2>2. UsedGains' = UsedGains
    BY <1>3, SameInput DEF UsedGains, Used
  <2> QED
    BY <2>1, <2>2 DEF Inv, DrawsScored
<1>7. ExactScores'
  BY SameInput DEF Inv, ExactScores
<1>8. DrawScores'
  <2>1. NumPairs(Len(Ustar))' = NumPairs(Len(Ustar))
    BY DEF NumPairs
  <2>2. ASSUME NEW v \in Item PROVE DrawnWorth(v)' = DrawnWorth(v)
    <3>1. Reached(v)' = Reached(v)
      BY SameInput DEF Reached
    <3>2. \A p : Worth(Ustar[p[1]], Ustar[p[2]])' = Worth(Ustar[p[1]], Ustar[p[2]])
      BY SameInput
    <3> QED
      BY <3>1, <3>2 DEF DrawnWorth
  <2>3. DrawScores <=> DrawScoresHere
    BY DEF DrawScores, DrawScoresHere, DrawnWorth, Reached, Drawing
  <2>4. DrawScores' <=> DrawScoresHere'
    BY DEF DrawScores, DrawScoresHere, DrawnWorth, Reached, Drawing
  <2> QED
    BY <1>3, <2>1, <2>2, <2>3, <2>4 DEF DrawScoresHere, Inv
<1> QED
  BY <1>1, <1>2, <1>4, <1>5, <1>6, <1>7, <1>8 DEF Inv

-----------------------------------------------------------------------------
(* The theorems.                                                           *)

\* Whatever the edges, the renumbering, alpha, the number of rounds and the
\* procedure: what a loop over the pairs has added to every score, at every step
\* of it, is the sum over the pairs it has gone over, or over the draws it has used.
THEOREM ScoresFollow == Spec => []Inv
<1>1. Init => Inv
  BY InitInv
<1>2. Inv /\ [Next]_vars => Inv'
  BY StartExactKeeps, StartKeeps, AddPairKeeps, NextUserKeeps, StartSlotsKeeps, DrawSlotKeeps,
     UseSlotsKeeps, NextFirstKeeps, DrawAndUseKeeps, CollectKeeps, StartUpdatesKeeps,
     UseCollectedKeeps, LoopsEndKeeps, PutBackKeeps, StutterKeeps DEF Next, Terminating
<1> QED
  BY <1>1, <1>2, PTL DEF Spec

\* The variables of the scoring procedures keep their types: the slots counted for
\* a pair are those of its drawee's list, no slot and no pair is drawn more often
\* than there are draws, and every score is a fraction.
THEOREM Types == Spec => []TypeOK
<1>1. ASSUME Inv PROVE TypeOK
  <2>0. InputOK /\ ControlOK /\ UsersOK /\ LoopOK /\ DrawsOK /\ SwingOK
    BY <1>1 DEF Inv
  <2>1. Ustar \in Seq(User)
    <3>1. CASE pc = "start"
      BY <2>0, <3>1 DEF UsersOK
    <3>2. CASE pc # "start"
      BY <1>1, <3>2, InList
    <3> QED
      BY <3>1, <3>2
  <2>2. pc = "slot" => hits \in [Slots(Drawee) -> 0..Isize]
    <3> SUFFICES ASSUME pc = "slot" PROVE hits \in [Slots(Drawee) -> 0..Isize]
      OBVIOUS
    <3> DEFINE f == hits
               S == Slots(Drawee)
    <3>1. f \in [S -> Nat] /\ IsFiniteSet(S) /\ SlotsDrawn <= Isize /\ Isize \in Nat
      BY <1>1, <2>0, DraweeFacts DEF LoopOK
    <3>2. SlotsDrawn = Total(f, S)
      BY <3>1 DEF SlotsDrawn
    <3> HIDE DEF f, S
    <3>3. \A x \in S : f[x] \in Nat
      BY <3>1
    <3>4. Total(f, S) \in Nat /\ \A x \in S : f[x] <= Total(f, S)
      BY <3>1, <3>3, TotalStep, TotalBounds
    <3>5. \A x \in S : f[x] \in 0..Isize
      BY <3>1, <3>2, <3>3, <3>4
    <3>6. f \in [S -> 0..Isize]
      BY <3>1, <3>5
    <3> QED
      BY <3>6 DEF f, S
  <2>3. \A p \in DOMAIN drawn : drawn[p] \in 0..rounds
    <3>1. CASE branch \in Drawing
      <4>1. pc # "start"
        BY <2>0, <3>1 DEF ControlOK, Drawing
      <4>2. /\ DOMAIN drawn = AllPairs /\ rounds \in Nat /\ RoundsDrawn \in Nat /\ RoundsDrawn <= rounds
            /\ \A p \in AllPairs : drawn[p] \in Nat /\ drawn[p] <= RoundsDrawn
        BY <1>1, <3>1, <4>1, Draws
      <4> QED
        BY <4>2
    <3>2. CASE branch \notin Drawing
      BY <2>0, <3>2 DEF DrawsOK, Empty
    <3> QED
      BY <3>1, <3>2
  <2>4. \A v \in Item : IsFraction(swing[v])
    BY <2>0, FractionFrac DEF SwingOK, IsFraction, Fraction, Ratio
  <2>5. branch \in {"none", "return", "pairs", "slots", "direct", "collect", "stages"}
    BY <2>0 DEF ControlOK
  <2>6. todo \subseteq DOMAIN drawn /\ i \in Nat \ {0} /\ j \in Nat \ {0}
    BY <2>0 DEF DrawsOK, LoopOK
  <2>7. pc = "slot" => i < j /\ j <= Len(Ustar) /\ Isize >= 1
    BY <2>0 DEF LoopOK
  <2> QED
    BY <2>0, <2>1, <2>2, <2>3, <2>4, <2>5, <2>6, <2>7 DEF TypeOK, InputOK, ControlOK
<1> QED
  BY <1>1, ScoresFollow, PTL

\* Every procedure that goes over all pairs ends with the scores of the definition,
\* on every item but the query item: leaving out the users of one edge, sorting,
\* renumbering the items and putting the scores back change nothing.
THEOREM ScoresExact == Spec => []ExactScores
<1>1. Inv => ExactScores
  BY DEF Inv
<1> QED
  BY <1>1, ScoresFollow, PTL

\* A procedure that draws pairs ends with NumPairs / n_rounds times the worth of all
\* its draws, used at once or collected first.
THEOREM DrawsWorth == Spec => []DrawScores
<1>1. Inv => DrawScores
  BY DEF Inv
<1> QED
  BY <1>1, ScoresFollow, PTL

\* Using the drawn slots of a pair adds to each common item what its slot's share
\* of the draws is worth, and nothing to any other item.
THEOREM SlotsWorth == Spec => SlotGain
<1> DEFINE A == pc = "slot" /\ pc' = "slots" => \A v \in Item : SlotGained(v)
<1>1. Inv /\ [Next]_vars => A
  <2> SUFFICES ASSUME Inv, Next \/ UNCHANGED vars, pc = "slot", pc' = "slots" PROVE \A v \in Item : SlotGained(v)
    OBVIOUS
  <2>1. UseSlots
    BY DEF Next, StartExact, Start, AddPair, NextUser, StartSlots, InSlots, DrawSlot, NextFirst, DrawAndUse,
           Collect, StartUpdates, UseCollected, LoopsEnd, PutBack, Terminating, vars
  <2> QED
    BY <2>1, UsingSlots
<1>2. A <=> (pc = "slot" /\ pc' = "slots" =>
          LET both == ItemsOf(Ustar[i]) \cap ItemsOf(Ustar[j])
          IN  \A v \in Item :
                 LET gained == Minus(swing'[Number(v)], swing[Number(v)])
                     times  == hits[BaseOf(Number(v))]
                 IN  IF v \in both
                     THEN Times(gained, Whole(Isize)) =
                          Times(Worth(Ustar[i], Ustar[j]), Whole(Deg(Drawee) * times))
                     ELSE gained = Whole(0))
  BY DEF SlotGained
<1> QED
  BY <1>1, <1>2, ScoresFollow, PTL DEF Spec, SlotGain

-----------------------------------------------------------------------------
(* The end of the loops.                                                   *)

\* What a procedure has to go: stages; rows and places of the loops over the pairs,
\* truncated at the end of the list; the draws for a pair of lists; draws.
StagesLeft ==
    IF pc = "start" THEN 4
    ELSE IF pc \in {"pairs", "slots", "slot", "direct", "collect"} THEN 3
    ELSE IF pc = "update" THEN 2
    ELSE IF pc = "back" THEN 1 ELSE 0
LeftFrom(n) == IF n <= Len(Ustar) THEN Len(Ustar) - n + 1 ELSE 0
PairUndrawn == IF pc = "slots" THEN 1 ELSE 0
DrawsLeft ==
    IF pc = "slot" THEN Isize - SlotsDrawn
    ELSE IF pc \in {"direct", "collect"} THEN rounds - RoundsDrawn
    ELSE IF pc = "update" THEN Cardinality(todo) ELSE 0
ToGo == <<StagesLeft, LeftFrom(i), LeftFrom(j), PairUndrawn, DrawsLeft>>

\* The lexicographic order of five numbers, in which nothing descends forever.
Precedes(x, y) == \E k \in 1..5 : x[k] < y[k] /\ \A m \in 1..(k - 1) : x[m] = y[m]

ScoringShrinks == [][(\A k \in 1..5 : ToGo'[k] \in Nat) /\ Precedes(ToGo', ToGo)]_vars

LEMMA Lexicographic ==
    ASSUME NEW a1, NEW a2, NEW a3, NEW a4, NEW a5, NEW b1, NEW b2, NEW b3, NEW b4, NEW b5,
           \/ a1 < b1
           \/ a1 = b1 /\ a2 < b2
           \/ a1 = b1 /\ a2 = b2 /\ a3 < b3
           \/ a1 = b1 /\ a2 = b2 /\ a3 = b3 /\ a4 < b4
           \/ a1 = b1 /\ a2 = b2 /\ a3 = b3 /\ a4 = b4 /\ a5 < b5
    PROVE  Precedes(<<a1, a2, a3, a4, a5>>, <<b1, b2, b3, b4, b5>>)
<1>0. \/ a1 < b1
      \/ a1 = b1 /\ a2 < b2
      \/ a1 = b1 /\ a2 = b2 /\ a3 < b3
      \/ a1 = b1 /\ a2 = b2 /\ a3 = b3 /\ a4 < b4
      \/ a1 = b1 /\ a2 = b2 /\ a3 = b3 /\ a4 = b4 /\ a5 < b5
  OBVIOUS
<1> DEFINE x == <<a1, a2, a3, a4, a5>>
           y == <<b1, b2, b3, b4, b5>>
<1>1. /\ x[1] = a1 /\ x[2] = a2 /\ x[3] = a3 /\ x[4] = a4 /\ x[5] = a5
      /\ y[1] = b1 /\ y[2] = b2 /\ y[3] = b3 /\ y[4] = b4 /\ y[5] = b5
  OBVIOUS
<1> HIDE DEF x, y
<1>2. /\ 1..(1 - 1) = {} /\ 1..(2 - 1) = {1} /\ 1..(3 - 1) = {1, 2} /\ 1..(4 - 1) = {1, 2, 3}
      /\ 1..(5 - 1) = {1, 2, 3, 4} /\ 1..5 = {1, 2, 3, 4, 5}
  OBVIOUS
<1>3. ASSUME a1 < b1 PROVE Precedes(x, y)
  BY <1>1, <1>2, <1>3 DEF Precedes
<1>4. ASSUME a1 = b1 /\ a2 < b2 PROVE Precedes(x, y)
  BY <1>1, <1>2, <1>4 DEF Precedes
<1>5. ASSUME a1 = b1 /\ a2 = b2 /\ a3 < b3 PROVE Precedes(x, y)
  BY <1>1, <1>2, <1>5 DEF Precedes
<1>6. ASSUME a1 = b1 /\ a2 = b2 /\ a3 = b3 /\ a4 < b4 PROVE Precedes(x, y)
  BY <1>1, <1>2, <1>6 DEF Precedes
<1>7. ASSUME a1 = b1 /\ a2 = b2 /\ a3 = b3 /\ a4 = b4 /\ a5 < b5 PROVE Precedes(x, y)
  BY <1>1, <1>2, <1>7 DEF Precedes
<1>8. Precedes(x, y)
  BY ONLY <1>0, <1>3, <1>4, <1>5, <1>6, <1>7
<1> QED
  BY <1>8 DEF x, y

ToGoOK ==
    /\ StagesLeft \in Nat /\ PairUndrawn \in Nat /\ DrawsLeft \in Nat
    /\ LeftFrom(i) \in Nat /\ LeftFrom(j) \in Nat /\ Len(Ustar) \in Nat
    /\ IsFiniteSet(todo)

LEMMA ToGoNumbers == Inv => ToGoOK
<1> SUFFICES ASSUME Inv
             PROVE  /\ StagesLeft \in Nat /\ PairUndrawn \in Nat /\ DrawsLeft \in Nat
                    /\ LeftFrom(i) \in Nat /\ LeftFrom(j) \in Nat /\ Len(Ustar) \in Nat
                    /\ IsFiniteSet(todo)
  BY DEF ToGoOK
<1>1. Len(Ustar) \in Nat /\ IsFiniteSet(AllPairs) /\ i \in Nat /\ j \in Nat
  <2>1. i \in Nat /\ j \in Nat
    BY DEF Inv, LoopOK
  <2>2. CASE pc = "start"
    <3>1. Ustar = << >> /\ DOMAIN Ustar = 1..0 /\ Len(Ustar) = 0
      BY <2>2 DEF Inv, UsersOK
    <3> QED
      BY <2>1, <3>1, PairsFinite DEF AllPairs
  <2>3. CASE pc # "start"
    BY <2>1, <2>3, InList
  <2> QED
    BY <2>2, <2>3
<1>2. StagesLeft \in Nat /\ PairUndrawn \in Nat
  BY DEF StagesLeft, PairUndrawn
<1>3. LeftFrom(i) \in Nat /\ LeftFrom(j) \in Nat
  BY <1>1 DEF LeftFrom
<1>4. IsFiniteSet(todo) /\ Cardinality(todo) \in Nat
  <2>1. todo \subseteq DOMAIN drawn /\ DOMAIN drawn \subseteq AllPairs
    BY DEF Inv, DrawsOK, Empty
  <2>2. todo \subseteq AllPairs
    BY <2>1
  <2> QED
    BY <1>1, <2>2, FS_Subset, FS_CardinalityType
<1>5. CASE pc = "slot"
  <2>1. Isize \in Nat /\ hits \in [Slots(Drawee) -> Nat] /\ SlotsDrawn <= Isize /\ j <= Len(Ustar)
    BY <1>5 DEF Inv, LoopOK
  <2>2. IsFiniteSet(Slots(Drawee))
    BY <1>5, <2>1, DraweeFacts
  <2>3. \A x \in DOMAIN hits : hits[x] \in Nat
    BY <2>1
  <2>4. IsFiniteSet(DOMAIN hits)
    BY <2>1, <2>2
  <2>5. SlotsDrawn \in Nat
    BY <2>3, <2>4, TotalStep DEF SlotsDrawn
  <2>6. Isize - SlotsDrawn \in Nat
    BY <2>1, <2>5
  <2> QED
    BY <1>1, <1>2, <1>3, <1>4, <1>5, <2>6 DEF DrawsLeft
<1>6. CASE pc \in {"direct", "collect"}
  <2>1. branch \in Drawing /\ pc # "start"
    BY <1>6 DEF Inv, ControlOK, Drawing
  <2>2. rounds \in Nat /\ RoundsDrawn \in Nat /\ RoundsDrawn <= rounds
    BY <2>1, Draws
  <2>3. rounds - RoundsDrawn \in Nat
    BY <2>2
  <2> QED
    BY <1>1, <1>2, <1>3, <1>4, <1>6, <2>3 DEF DrawsLeft
<1>7. CASE pc \notin {"slot", "direct", "collect"}
  BY <1>1, <1>2, <1>3, <1>4, <1>7 DEF DrawsLeft
<1> QED
  BY <1>5, <1>6, <1>7

\* Whatever the file and the numbers drawn, every step of a procedure leaves it less to
\* go in the lexicographic order: the loops over pairs, slots and draws end.
THEOREM ScoringEnds == Spec => ScoringShrinks
<1> DEFINE Shrinks == (\A k \in 1..5 : ToGo'[k] \in Nat) /\ Precedes(ToGo', ToGo)
<1>1. ASSUME Inv, Inv', ToGoOK', Next PROVE Shrinks \/ UNCHANGED vars
  <2>1. /\ StagesLeft \in Nat /\ PairUndrawn \in Nat /\ DrawsLeft \in Nat
        /\ LeftFrom(i) \in Nat /\ LeftFrom(j) \in Nat /\ Len(Ustar) \in Nat
        /\ IsFiniteSet(todo) /\ i \in Nat /\ j \in Nat
    BY <1>1, ToGoNumbers DEF ToGoOK, Inv, LoopOK
  <2>2. /\ StagesLeft' \in Nat /\ PairUndrawn' \in Nat /\ DrawsLeft' \in Nat
        /\ LeftFrom(i)' \in Nat /\ LeftFrom(j)' \in Nat /\ IsFiniteSet(todo)'
    BY <1>1 DEF ToGoOK
  <2>3. \A k \in 1..5 : ToGo'[k] \in Nat
    <3>1. 1..5 = {1, 2, 3, 4, 5}
      OBVIOUS
    <3> QED
      BY <2>2, <3>1 DEF ToGo
  <2>4. ASSUME \/ StagesLeft' < StagesLeft
               \/ StagesLeft' = StagesLeft /\ LeftFrom(i)' < LeftFrom(i)
               \/ /\ StagesLeft' = StagesLeft /\ LeftFrom(i)' = LeftFrom(i)
                  /\ LeftFrom(j)' < LeftFrom(j)
               \/ /\ StagesLeft' = StagesLeft /\ LeftFrom(i)' = LeftFrom(i)
                  /\ LeftFrom(j)' = LeftFrom(j) /\ PairUndrawn' < PairUndrawn
               \/ /\ StagesLeft' = StagesLeft /\ LeftFrom(i)' = LeftFrom(i)
                  /\ LeftFrom(j)' = LeftFrom(j) /\ PairUndrawn' = PairUndrawn
                  /\ DrawsLeft' < DrawsLeft
        PROVE  Shrinks
    <3>1. Precedes(ToGo', ToGo)
      BY <2>4, Lexicographic DEF ToGo
    <3> QED
      BY <2>3, <3>1
  <2> HIDE DEF Shrinks
  <2>5. CASE StartExact \/ Start
    <3>1. pc = "start" /\ (pc' = "pairs" \/ pc' = "back" \/ pc' = branch')
      BY <2>5 DEF StartExact, Start
    <3>2. pc' # "start"
      BY <1>1, <3>1 DEF Inv, ControlOK
    <3>3. StagesLeft' < StagesLeft
      BY <3>1, <3>2 DEF StagesLeft
    <3> QED
      BY <2>4, <3>3
  <2>6. CASE AddPair
    <3>1. /\ pc = "pairs" /\ i <= Len(Ustar) /\ j < i /\ i' = i /\ j' = j + 1
          /\ Ustar' = Ustar /\ pc' = pc
      BY <2>6 DEF AddPair
    <3>2. StagesLeft' = StagesLeft /\ LeftFrom(i)' = LeftFrom(i)
      BY <3>1 DEF StagesLeft, LeftFrom
    <3>3. LeftFrom(j)' < LeftFrom(j)
      BY <2>1, <3>1 DEF LeftFrom
    <3> QED
      BY <2>4, <3>2, <3>3
  <2>7. CASE NextUser \/ NextFirst
    <3>1. i <= Len(Ustar) /\ i' = i + 1 /\ Ustar' = Ustar /\ pc' = pc
      BY <2>1, <2>7 DEF NextUser, NextFirst, InSlots
    <3>2. StagesLeft' = StagesLeft
      BY <3>1 DEF StagesLeft
    <3>3. LeftFrom(i)' < LeftFrom(i)
      BY <2>1, <3>1 DEF LeftFrom
    <3> QED
      BY <2>4, <3>2, <3>3
  <2>8. CASE StartSlots
    <3>1. /\ pc = "slots" /\ j <= Len(Ustar) /\ i' = i /\ Ustar' = Ustar
          /\ \/ j' = j + 1 /\ pc' = "slots"
             \/ j' = j /\ pc' = "slot"
      BY <2>8 DEF StartSlots, InSlots
    <3>2. StagesLeft' = StagesLeft /\ LeftFrom(i)' = LeftFrom(i)
      BY <3>1 DEF StagesLeft, LeftFrom
    <3>3. CASE j' = j + 1
      BY <2>1, <2>4, <3>1, <3>2, <3>3 DEF LeftFrom
    <3>4. CASE j' = j /\ pc' = "slot"
      <4>1. LeftFrom(j)' = LeftFrom(j) /\ PairUndrawn' < PairUndrawn
        BY <3>1, <3>4 DEF LeftFrom, PairUndrawn
      <4> QED
        BY <2>4, <3>2, <4>1
    <3> QED
      BY <3>1, <3>3, <3>4
  <2>9. CASE UseSlots
    <3>1. pc = "slot" /\ pc' = "slots" /\ i' = i /\ j' = j + 1 /\ Ustar' = Ustar /\ j <= Len(Ustar)
      BY <1>1, <2>9 DEF UseSlots, Inv, LoopOK
    <3>2. StagesLeft' = StagesLeft /\ LeftFrom(i)' = LeftFrom(i)
      BY <3>1 DEF StagesLeft, LeftFrom
    <3>3. LeftFrom(j)' < LeftFrom(j)
      BY <2>1, <3>1 DEF LeftFrom
    <3> QED
      BY <2>4, <3>2, <3>3
  <2>10. ASSUME UNCHANGED <<pc, Ustar, i, j>>, DrawsLeft' < DrawsLeft PROVE Shrinks
    <3>1. /\ StagesLeft' = StagesLeft /\ LeftFrom(i)' = LeftFrom(i) /\ LeftFrom(j)' = LeftFrom(j)
          /\ PairUndrawn' = PairUndrawn
      BY <2>10 DEF StagesLeft, LeftFrom, PairUndrawn
    <3> QED
      BY <2>4, <2>10, <3>1
  <2>11. CASE DrawSlot
    <3>1. /\ pc = "slot" /\ UNCHANGED <<pc, Ustar, i, j, Isize>> /\ UNCHANGED <<input, Ustar, i, j>>
          /\ hits \in [Slots(Drawee) -> Nat] /\ Isize \in Nat /\ j <= Len(Ustar)
      BY <1>1, <2>11 DEF DrawSlot, Inv, LoopOK
    <3>2. PICK x \in Slots(Drawee) : hits' = [hits EXCEPT ![x] = @ + 1]
      BY <2>11, <3>1 DEF DrawSlot
    <3>3. IsFiniteSet(Slots(Drawee))
      BY <1>1, <3>1, DraweeFacts
    <3> DEFINE S == Slots(Drawee)
               h == hits
    <3>4. h \in [S -> Nat] /\ IsFiniteSet(S) /\ x \in S
      BY <3>1, <3>2, <3>3
    <3>5. DOMAIN hits = S /\ DOMAIN hits' = S /\ \A y \in S : h[y] \in Nat
      BY <3>1, <3>2
    <3>6. SlotsDrawn = Total(h, S) /\ SlotsDrawn' = Total([h EXCEPT ![x] = @ + 1], S)
      BY <3>2, <3>5 DEF SlotsDrawn
    <3> HIDE DEF S, h
    <3>7. Total([h EXCEPT ![x] = @ + 1], S) = Total(h, S) + 1 /\ Total(h, S) \in Nat
      BY <3>4, <3>5, TotalBump, TotalStep
    <3>8. DrawsLeft' < DrawsLeft
      BY <3>1, <3>6, <3>7 DEF DrawsLeft
    <3> QED
      BY <2>10, <3>1, <3>8
  <2>12. CASE DrawAndUse \/ Collect
    <3>1. /\ pc \in {"direct", "collect"} /\ UNCHANGED <<pc, Ustar, i, j, rounds>>
          /\ \E p \in DOMAIN drawn : drawn' = [drawn EXCEPT ![p] = @ + 1]
      BY <2>12 DEF DrawAndUse, Collect, input
    <3>2. branch \in Drawing /\ pc # "start"
      BY <1>1, <3>1 DEF Inv, ControlOK, Drawing
    <3>3. /\ rounds \in Nat /\ drawn \in [AllPairs -> Nat] /\ DOMAIN drawn = AllPairs
          /\ RoundsDrawn \in Nat
          /\ \A p \in AllPairs : Total([drawn EXCEPT ![p] = @ + 1], AllPairs) = RoundsDrawn + 1
      BY <1>1, <3>2, Draws
    <3>4. DOMAIN drawn' = AllPairs
      BY <3>1, <3>3
    <3>5. RoundsDrawn' = RoundsDrawn + 1
      BY <3>1, <3>3, <3>4 DEF RoundsDrawn
    <3>6. DrawsLeft' < DrawsLeft
      BY <3>1, <3>3, <3>5 DEF DrawsLeft
    <3> QED
      BY <2>10, <3>1, <3>6
  <2>13. CASE UseCollected
    <3>1. pc = "update" /\ UNCHANGED <<pc, Ustar, i, j>> /\ \E p \in todo : todo' = todo \ {p}
      BY <2>13 DEF UseCollected
    <3>2. PICK p \in todo : todo' = todo \ {p}
      BY <3>1
    <3>3. Cardinality(todo') = Cardinality(todo) - 1 /\ Cardinality(todo) \in Nat
      BY <2>1, <3>2, FS_RemoveElement, FS_CardinalityType
    <3>4. DrawsLeft' < DrawsLeft
      BY <3>1, <3>3 DEF DrawsLeft
    <3> QED
      BY <2>10, <3>1, <3>4
  <2>14. CASE StartUpdates \/ LoopsEnd \/ PutBack
    <3>1. StagesLeft' < StagesLeft
      BY <2>14 DEF StartUpdates, LoopsEnd, PutBack, StagesLeft
    <3> QED
      BY <2>4, <3>1
  <2>15. CASE Terminating
    BY <2>15 DEF Terminating
  <2> QED
    BY <1>1, <2>5, <2>6, <2>7, <2>8, <2>9, <2>11, <2>12, <2>13, <2>14, <2>15 DEF Next
<1>2. Inv /\ Inv' /\ ToGoOK' /\ [Next]_vars => [Shrinks]_vars
  BY <1>1
<1>3. (Spec => ScoringShrinks) <=> (Spec => [][Shrinks]_vars)
  BY DEF ScoringShrinks
<1> HIDE DEF Shrinks
<1>4. Spec => [][Shrinks]_vars
  BY <1>2, ToGoNumbers, ScoresFollow, PTL DEF Spec
<1> QED
  BY <1>3, <1>4
=============================================================================
