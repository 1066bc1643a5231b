-------------------------- MODULE KascRefineProofs --------------------------
(***************************************************************************)
(* The refinement counts every pair of users, or every draw of a pair, for *)
(* exactly the items both users have, in all its branches: for any number  *)
(* of users, any neighbourhoods, any list of items and any rounds.         *)
(***************************************************************************)
EXTENDS KascRefine, SumsProofs, SequenceTheorems

-----------------------------------------------------------------------------
(* Bits.                                                                   *)

LEMMA WidthFacts ==
    /\ MaskWidth \in Nat /\ MaskWidth > 0 /\ Dvq \in Nat /\ Dvq >= 2
    /\ ReRounds \subseteq Nat /\ 1 \in Users /\ 2 \in Users
BY ParametersOK DEF Users

\* A position within the width has its own bit, one behind it the bit of another.
LEMMA BitFacts ==
    ASSUME NEW k \in Nat, k >= 1
    PROVE  /\ BitAt(k) \in Nat /\ BitAt(k) >= 1 /\ BitAt(k) <= MaskWidth /\ BitAt(k) <= k
           /\ k <= MaskWidth => BitAt(k) = k
<1> DEFINE j == k - 1
           w == MaskWidth
<1>1. j \in Nat /\ w \in Nat /\ w > 0
  BY WidthFacts
<1>2. j % w \in Nat /\ j % w < w /\ j % w <= j /\ (j < w => j % w = j)
  BY <1>1
<1> QED
  BY <1>1, <1>2 DEF BitAt

-----------------------------------------------------------------------------
(* The masks.                                                              *)

\* Each user kept is in the order of the query item's users, and the mask at its
\* own index in Uvalid is its mask.
MasksFit ==
    /\ Uvalid \in Seq(Users) /\ Len(Uvalid) <= Dvq
    /\ \A n, m \in 1..Len(Uvalid) : n < m => Uvalid[n] < Uvalid[m]
    /\ \A n \in 1..Len(Uvalid) :
          Iu[n] = Positions(Uvalid[n]) /\ Positions(Uvalid[n]) # {}

IsKept(w) == \E n \in 1..Len(Uvalid) : Uvalid[n] = w

\* No user up to the r-th that has an item of Refine was put aside.
KeptTo(r) == \A w \in 1..r : Positions(w) # {} => IsKept(w)

Inputs == nbrs \in Neighbours /\ Refine \in RefineLists /\ reRounds \in ReRounds

LEMMA InputFacts ==
    ASSUME Inputs
    PROVE  /\ Refine \in Seq(Items) /\ Len(Refine) \in Nat /\ reRounds \in Nat
           /\ \A k \in 1..Len(Refine) : Refine[k] \in Items
           /\ \A k, l \in 1..Len(Refine) : k < l => Refine[k] < Refine[l]
<1>1. /\ Refine \in Seq(Items) /\ reRounds \in Nat
      /\ \A k, l \in 1..Len(Refine) : k < l => Refine[k] < Refine[l]
  BY ParametersOK DEF Inputs
<1> QED
  BY <1>1, ElementOfSeq

\* The bits of a user's mask are those of its items; they are positions of Refine.
LEMMA PositionFacts ==
    ASSUME Inputs, NEW w \in Users
    PROVE  /\ \A b \in Positions(w) : b \in 1..Len(Refine) /\ b <= MaskWidth
           /\ \A k \in 1..Len(Refine) : Refine[k] \in nbrs[w] => BitAt(k) \in Positions(w)
           /\ MasksHold => \A k \in 1..Len(Refine) : k \in Positions(w) <=> Refine[k] \in nbrs[w]
<1>1. Len(Refine) \in Nat /\ MaskWidth \in Nat
  BY InputFacts, WidthFacts
<1>2. \A k \in 1..Len(Refine) :
         /\ BitAt(k) \in 1..Len(Refine) /\ BitAt(k) <= MaskWidth
         /\ k <= MaskWidth => BitAt(k) = k
  <2> TAKE k \in 1..Len(Refine)
  <2>1. k \in Nat /\ k >= 1 /\ k <= Len(Refine)
    BY <1>1
  <2>2. /\ BitAt(k) \in Nat /\ BitAt(k) >= 1 /\ BitAt(k) <= MaskWidth /\ BitAt(k) <= k
        /\ k <= MaskWidth => BitAt(k) = k
    BY <2>1, BitFacts
  <2> QED
    BY <1>1, <2>1, <2>2
<1>3. \A b : b \in Positions(w) <=> \E k \in 1..Len(Refine) : Refine[k] \in nbrs[w] /\ b = BitAt(k)
  BY DEF Positions
<1>4. MasksHold => \A k \in 1..Len(Refine) : BitAt(k) = k
  BY <1>1, <1>2 DEF MasksHold
<1> QED
  BY <1>2, <1>3, <1>4

LEMMA BothFacts ==
    ASSUME Inputs, MasksFit, NEW n \in 1..Len(Uvalid), NEW m \in 1..Len(Uvalid), NEW v
    PROVE  /\ v \in BothMasks(n, m) => v \in Within /\ v \in Items /\ v \in BothMasks(m, n)
           /\ v \in Within /\ v \in nbrs[Uvalid[n]] /\ v \in nbrs[Uvalid[m]] => v \in BothMasks(n, m)
           /\ MasksHold => (v \in BothMasks(n, m) <=>
                  v \in Refined /\ v \in nbrs[Uvalid[n]] /\ v \in nbrs[Uvalid[m]])
<1>1. /\ Uvalid[n] \in Users /\ Uvalid[m] \in Users
      /\ Iu[n] = Positions(Uvalid[n]) /\ Iu[m] = Positions(Uvalid[m])
  <2>1. Uvalid \in Seq(Users)
    BY DEF MasksFit
  <2> QED
    BY <2>1, ElementOfSeq DEF MasksFit
<1>2. /\ Refine \in Seq(Items) /\ Len(Refine) \in Nat /\ MaskWidth \in Nat
      /\ \A k \in 1..Len(Refine) : Refine[k] \in Items
  BY InputFacts, WidthFacts
<1>3. v \in BothMasks(n, m) <=> \E k \in Iu[n] : k \in Iu[m] /\ v = Refine[k]
  BY DEF BothMasks
<1>4. v \in BothMasks(m, n) <=> \E k \in Iu[n] : k \in Iu[m] /\ v = Refine[k]
  BY DEF BothMasks
<1>5. ASSUME v \in BothMasks(n, m) PROVE v \in Within /\ v \in Items
  <2>1. PICK k \in Positions(Uvalid[n]) : v = Refine[k]
    BY <1>1, <1>3, <1>5
  <2>2. k \in 1..Len(Refine) /\ k <= MaskWidth
    BY <1>1, PositionFacts
  <2> QED
    BY <1>2, <2>1, <2>2 DEF Within
<1>6. ASSUME v \in Within, v \in nbrs[Uvalid[n]], v \in nbrs[Uvalid[m]]
      PROVE  v \in BothMasks(n, m)
  <2>1. PICK k \in 1..Len(Refine) : k <= MaskWidth /\ v = Refine[k]
    BY <1>6 DEF Within
  <2>2. k \in Nat /\ k >= 1
    BY <1>2
  <2>3. BitAt(k) = k
    BY <2>1, <2>2, BitFacts
  <2>4. k \in Positions(Uvalid[n]) /\ k \in Positions(Uvalid[m])
    BY <1>1, <1>6, <2>1, <2>3, PositionFacts
  <2> QED
    BY <1>1, <1>3, <2>1, <2>4
<1>7. ASSUME MasksHold
      PROVE  /\ v \in Refined => v \in Within
             /\ v \in BothMasks(n, m) =>
                    v \in Refined /\ v \in nbrs[Uvalid[n]] /\ v \in nbrs[Uvalid[m]]
  <2>1. v \in Refined => v \in Within
    BY <1>2, <1>7 DEF MasksHold, Refined, Within
  <2>2. ASSUME v \in BothMasks(n, m)
        PROVE  v \in Refined /\ v \in nbrs[Uvalid[n]] /\ v \in nbrs[Uvalid[m]]
    <3>1. PICK k \in Positions(Uvalid[n]) : k \in Positions(Uvalid[m]) /\ v = Refine[k]
      BY <1>1, <1>3, <2>2
    <3>2. k \in 1..Len(Refine)
      BY <1>1, PositionFacts
    <3>3. Refine[k] \in nbrs[Uvalid[n]] /\ Refine[k] \in nbrs[Uvalid[m]]
      BY <1>1, <1>7, <3>1, <3>2, PositionFacts
    <3> QED
      BY <3>1, <3>2, <3>3 DEF Refined
  <2> QED
    BY <2>1, <2>2
<1> QED
  BY <1>3, <1>4, <1>5, <1>6, <1>7

\* A user that has an item of Refine has a bit.
LEMMA HasBit ==
    ASSUME Inputs, NEW w \in Users, NEW v \in Refined, v \in nbrs[w]
    PROVE  Positions(w) # {}
<1>1. PICK k \in 1..Len(Refine) : v = Refine[k]
  BY DEF Refined
<1> QED
  BY <1>1, PositionFacts

\* The two users of a pair that shares an item of the list were kept.
LEMMA SharersKept ==
    ASSUME Inputs, KeptTo(Dvq), NEW v \in Refined, NEW p \in Sharing(v)
    PROVE  \E n, m \in 1..Len(Uvalid) : p = <<Uvalid[n], Uvalid[m]>>
<1>1. /\ p \in Pairs /\ p = <<p[1], p[2]>> /\ p[1] \in Users /\ p[2] \in Users
      /\ v \in nbrs[p[1]] /\ v \in nbrs[p[2]]
  BY DEF Sharing, Pairs
<1>2. Positions(p[1]) # {} /\ Positions(p[2]) # {}
  BY <1>1, HasBit
<1>3. IsKept(p[1]) /\ IsKept(p[2])
  BY <1>1, <1>2 DEF KeptTo, Users
<1> QED
  BY <1>1, <1>3 DEF IsKept

LEMMA SharedByMasks ==
    ASSUME ~ FromAll, NEW p, NEW v
    PROVE  v \in Shared(p) <=>
              /\ v \in Items
              /\ \E n, m \in 1..Len(Uvalid) : p = <<Uvalid[n], Uvalid[m]>> /\ v \in BothMasks(n, m)
BY DEF Shared

\* What the masks, or the look-ups in the hash maps, say two users share, is what they
\* share of the list.
LEMMA SharedIs ==
    ASSUME Inputs, MasksFit, ~ FromAll => KeptTo(Dvq), MasksHold \/ FromAll,
           NEW p \in Pairs, NEW v \in Items
    PROVE  v \in Shared(p) <=> v \in Refined /\ p \in Sharing(v)
<1>1. p = <<p[1], p[2]>>
  BY DEF Pairs
<1>2. CASE FromAll
  BY <1>2 DEF Shared, Refined, Sharing
<1>3. CASE ~ FromAll
  <2>1. ASSUME v \in Shared(p) PROVE v \in Refined /\ p \in Sharing(v)
    <3>1. PICK n \in 1..Len(Uvalid), m \in 1..Len(Uvalid) :
             p = <<Uvalid[n], Uvalid[m]>> /\ v \in BothMasks(n, m)
      BY <1>3, <2>1, SharedByMasks
    <3>2. p[1] = Uvalid[n] /\ p[2] = Uvalid[m]
      BY <3>1
    <3>3. v \in Refined /\ v \in nbrs[Uvalid[n]] /\ v \in nbrs[Uvalid[m]]
      BY <1>3, <3>1, BothFacts
    <3> QED
      BY <3>2, <3>3 DEF Sharing
  <2>2. ASSUME v \in Refined, p \in Sharing(v) PROVE v \in Shared(p)
    <3>1. PICK n \in 1..Len(Uvalid), m \in 1..Len(Uvalid) : p = <<Uvalid[n], Uvalid[m]>>
      BY <1>3, <2>2, SharersKept
    <3>2. v \in nbrs[Uvalid[n]] /\ v \in nbrs[Uvalid[m]]
      <4>1. p[1] = Uvalid[n] /\ p[2] = Uvalid[m]
        BY <3>1
      <4> QED
        BY <2>2, <4>1 DEF Sharing
    <3>3. v \in BothMasks(n, m)
      BY <1>3, <2>2, <3>2, BothFacts
    <3> QED
      BY <1>3, <3>1, <3>3, SharedByMasks
  <2> QED
    BY <2>1, <2>2
<1> QED
  BY <1>2, <1>3

-----------------------------------------------------------------------------
(* The rows of the exact branch.                                           *)

\* Some of the first r rows has added the pair p to v.
RowHit(v, p, r) ==
    \E n \in 1..r : \E m \in 1..(n - 1) :
        p = <<Uvalid[m], Uvalid[n]>> /\ v \in BothMasks(n, m)

\* Row r + 1 has.
NewHit(v, p, r) ==
    \E m \in 1..r : p = <<Uvalid[m], Uvalid[r + 1]>> /\ v \in BothMasks(r + 1, m)

\* A row adds pairs that no row before it has added.
LEMMA RowsDisjoint ==
    ASSUME MasksFit, NEW r \in Nat, r + 1 \in 1..Len(Uvalid), NEW v, NEW p
    PROVE  /\ RowHit(v, p, r + 1) <=> RowHit(v, p, r) \/ NewHit(v, p, r)
           /\ ~ (RowHit(v, p, r) /\ NewHit(v, p, r))
<1>1. 1..(r + 1) = 1..r \cup {r + 1} /\ (r + 1) - 1 = r
  OBVIOUS
<1>2. RowHit(v, p, r + 1) <=> RowHit(v, p, r) \/ NewHit(v, p, r)
  BY <1>1 DEF RowHit, NewHit
<1>3. ASSUME RowHit(v, p, r), NewHit(v, p, r) PROVE FALSE
  <2>1. PICK n \in 1..r : p[2] = Uvalid[n]
    BY <1>3 DEF RowHit
  <2>2. p[2] = Uvalid[r + 1]
    BY <1>3 DEF NewHit
  <2>3. n < r + 1 /\ n \in 1..Len(Uvalid) /\ Uvalid \in Seq(Users)
    BY DEF MasksFit
  <2>4. Uvalid[n] < Uvalid[r + 1] /\ Uvalid[n] \in Users
    BY <2>3, ElementOfSeq DEF MasksFit
  <2> QED
    BY <2>1, <2>2, <2>4 DEF Users
<1> QED
  BY <1>2, <1>3

\* After the last row, the pairs added are those of the masks.
LEMMA AllRows ==
    ASSUME Inputs, MasksFit, ~ FromAll, NEW p \in Pairs, NEW v \in Items
    PROVE  RowHit(v, p, Len(Uvalid)) <=> v \in Shared(p)
<1>1. Len(Uvalid) \in Nat /\ Uvalid \in Seq(Users) /\ p[1] < p[2]
  BY DEF MasksFit, Pairs
<1>2. ASSUME RowHit(v, p, Len(Uvalid)) PROVE v \in Shared(p)
  <2>1. PICK n \in 1..Len(Uvalid) : \E m \in 1..(n - 1) :
           p = <<Uvalid[m], Uvalid[n]>> /\ v \in BothMasks(n, m)
    BY <1>2 DEF RowHit
  <2>2. PICK m \in 1..(n - 1) : p = <<Uvalid[m], Uvalid[n]>> /\ v \in BothMasks(n, m)
    BY <2>1
  <2>3. m \in 1..Len(Uvalid)
    BY <1>1
  <2>4. v \in BothMasks(m, n)
    BY <2>2, <2>3, BothFacts
  <2> QED
    BY <2>2, <2>3, <2>4, SharedByMasks
<1>3. ASSUME v \in Shared(p) PROVE RowHit(v, p, Len(Uvalid))
  <2>1. PICK m \in 1..Len(Uvalid), n \in 1..Len(Uvalid) :
           p = <<Uvalid[m], Uvalid[n]>> /\ v \in BothMasks(m, n)
    BY <1>3, SharedByMasks
  <2>2. Uvalid[m] < Uvalid[n] /\ Uvalid[m] \in Users /\ Uvalid[n] \in Users
    BY <1>1, <2>1, ElementOfSeq
  <2>3. m < n
    <3>1. n < m => Uvalid[n] < Uvalid[m]
      BY DEF MasksFit
    <3> QED
      BY <1>1, <2>2, <3>1 DEF Users
  <2>4. m \in 1..(n - 1) /\ v \in BothMasks(n, m)
    BY <1>1, <2>1, <2>3, BothFacts
  <2> QED
    BY <2>1, <2>4 DEF RowHit
<1> QED
  BY <1>2, <1>3

-----------------------------------------------------------------------------
(* The invariant.                                                          *)

RTypes ==
    /\ Inputs
    /\ pc \in {"start", "filter", "rows", "draw", "use", "done"}
    /\ branch \in {"none", "exact", "direct", "collect", "directAll", "collectAll"}
    /\ u \in 0..Dvq
    /\ DOMAIN Iu = Users
    /\ drawn \in [Pairs -> Nat] /\ todo \subseteq Pairs
    /\ uses \in [Items -> [Pairs -> Nat]]

\* No pair was added to any item.
NoUses == \A v \in Items, p \in Pairs : uses[v][p] = 0

Drawing == branch \in {"direct", "collect", "directAll", "collectAll"}

InStart ==
    pc = "start" => u = 0 /\ Uvalid = << >> /\ NoUses /\ drawn = NoPair

InFilter ==
    pc = "filter" =>
        /\ reRounds >= 1 /\ NoUses /\ drawn = NoPair
        /\ Len(Uvalid) <= u /\ \A n \in 1..Len(Uvalid) : Uvalid[n] <= u
        /\ \A r : r = u => KeptTo(r)

AllKept == pc \notin {"start", "filter"} => (~ FromAll => KeptTo(Dvq))

InRows ==
    pc = "rows" =>
        /\ branch = "exact" /\ u <= Len(Uvalid)
        /\ \A r : r = u =>
              \A v \in Items, p \in Pairs : uses[v][p] = IF RowHit(v, p, r) THEN 1 ELSE 0

InDraw ==
    pc = "draw" =>
        /\ Drawing /\ (~ FromAll => Len(Uvalid) >= 2)
        /\ \A v \in Items, p \in Pairs :
              uses[v][p] = IF branch \in {"direct", "directAll"} /\ v \in Shared(p)
                           THEN drawn[p] ELSE 0

InUse ==
    pc = "use" =>
        /\ branch \in {"collect", "collectAll"} /\ RoundsDrawn = reRounds
        /\ \A p \in todo : drawn[p] > 0
        /\ \A v \in Items, p \in Pairs :
              uses[v][p] = IF v \in Shared(p) /\ p \notin todo /\ drawn[p] > 0
                           THEN UsesOf(p) ELSE 0

Counts(p) == IF branch = "collectAll" /\ drawn[p] > 1 THEN 1 ELSE drawn[p]

InDone ==
    pc = "done" =>
        /\ branch = "exact" =>
              \A v \in Items, p \in Pairs : uses[v][p] = IF v \in Shared(p) THEN 1 ELSE 0
        /\ branch # "exact" =>
              /\ Drawing /\ RoundsDrawn = reRounds
              /\ \A v \in Items, p \in Pairs :
                    uses[v][p] = IF v \in Shared(p) THEN Counts(p) ELSE 0

RInv ==
    /\ RTypes /\ MasksFit /\ InStart /\ InFilter /\ AllKept
    /\ InRows /\ InDraw /\ InUse /\ InDone

\* What the masks and the branch say changes with them only.
LEMMA SameMasks ==
    ASSUME UNCHANGED <<nbrs, Refine, Uvalid, Iu>>
    PROVE  /\ \A w : Positions(w)' = Positions(w)
           /\ MasksFit' <=> MasksFit
           /\ \A r : KeptTo(r)' <=> KeptTo(r)
           /\ \A v, p, r : RowHit(v, p, r)' <=> RowHit(v, p, r)
<1>1. \A w : Positions(w)' = Positions(w)
  BY DEF Positions, BitAt
<1>2. MasksFit' <=> MasksFit
  BY <1>1 DEF MasksFit
<1>3. \A w : IsKept(w)' <=> IsKept(w)
  BY DEF IsKept
<1>4. \A r : KeptTo(r)' <=> KeptTo(r)
  BY <1>1, <1>3 DEF KeptTo
<1>5. \A n, m : BothMasks(n, m)' = BothMasks(n, m)
  BY DEF BothMasks
<1>6. \A v, p, r : RowHit(v, p, r)' <=> RowHit(v, p, r)
  BY <1>5 DEF RowHit
<1> QED
  BY <1>1, <1>2, <1>4, <1>6

LEMMA SameShared ==
    ASSUME UNCHANGED <<nbrs, Refine, Uvalid, Iu, branch>>
    PROVE  /\ FromAll' <=> FromAll
           /\ Drawing' <=> Drawing
           /\ \A p : Shared(p)' = Shared(p)
<1>1. FromAll' <=> FromAll
  BY DEF FromAll
<1>2. Drawing' <=> Drawing
  BY DEF Drawing
<1>3. \A n, m : BothMasks(n, m)' = BothMasks(n, m)
  BY DEF BothMasks
<1>4. \A p : Shared(p)' = Shared(p)
  BY <1>1, <1>3 DEF Shared
<1> QED
  BY <1>1, <1>2, <1>4

LEMMA SameDrawn ==
    ASSUME UNCHANGED <<drawn, branch>>
    PROVE  /\ RoundsDrawn' = RoundsDrawn
           /\ \A p : UsesOf(p)' = UsesOf(p)
           /\ \A p : Counts(p)' = Counts(p)
<1>1. RoundsDrawn' = RoundsDrawn
  BY DEF RoundsDrawn
<1>2. \A p : UsesOf(p)' = UsesOf(p)
  BY DEF UsesOf
<1>3. \A p : Counts(p)' = Counts(p)
  BY DEF Counts
<1> QED
  BY <1>1, <1>2, <1>3

-----------------------------------------------------------------------------
(* The invariant is inductive.                                             *)

\* times additions of p to the items of S.
LEMMA UseAdds ==
    ASSUME uses \in [Items -> [Pairs -> Nat]], NEW p \in Pairs, NEW t \in Nat, NEW S
    PROVE  /\ Use(p, t, S) \in [Items -> [Pairs -> Nat]]
           /\ \A v \in Items, q \in Pairs :
                 Use(p, t, S)[v][q] = IF v \in S /\ q = p THEN uses[v][q] + t ELSE uses[v][q]
<1>1. ASSUME NEW v \in Items
      PROVE  /\ Use(p, t, S)[v] = IF v \in S THEN [uses[v] EXCEPT ![p] = @ + t] ELSE uses[v]
             /\ uses[v] \in [Pairs -> Nat]
  BY DEF Use
<1>2. ASSUME NEW v \in Items, NEW q \in Pairs
      PROVE  Use(p, t, S)[v][q] = IF v \in S /\ q = p THEN uses[v][q] + t ELSE uses[v][q]
  BY <1>1
<1>3. \A v \in Items : Use(p, t, S)[v] \in [Pairs -> Nat]
  <2> SUFFICES ASSUME NEW v \in Items PROVE Use(p, t, S)[v] \in [Pairs -> Nat]
    OBVIOUS
  <2>1. uses[v] \in [Pairs -> Nat] /\ uses[v][p] + t \in Nat
    BY <1>1
  <2>2. [uses[v] EXCEPT ![p] = @ + t] \in [Pairs -> Nat]
    BY <2>1
  <2> QED
    BY <1>1, <2>1, <2>2
<1>4. Use(p, t, S) \in [Items -> [Pairs -> Nat]]
  BY <1>3 DEF Use
<1> QED
  BY <1>2, <1>4

\* Two different users the draws are from make a pair.
LEMMA DrawnPairs ==
    ASSUME Inputs, MasksFit, NEW n \in 1..Drawees, NEW m \in 1..Drawees, n # m
    PROVE  PairAt(n, m) \in Pairs
<1> DEFINE lo == IF n < m THEN n ELSE m
           hi == IF n < m THEN m ELSE n
<1>1. lo \in 1..Drawees /\ hi \in 1..Drawees /\ lo < hi
  OBVIOUS
<1>2. PairAt(n, m) = IF FromAll THEN <<lo, hi>> ELSE <<Uvalid[lo], Uvalid[hi]>>
  BY DEF PairAt
<1> HIDE DEF lo, hi
<1>3. CASE FromAll
  BY <1>1, <1>2, <1>3 DEF Drawees, Pairs, Users
<1>4. CASE ~ FromAll
  <2>1. lo \in 1..Len(Uvalid) /\ hi \in 1..Len(Uvalid) /\ Uvalid \in Seq(Users)
    BY <1>1, <1>4 DEF Drawees, MasksFit
  <2>2. Uvalid[lo] \in Users /\ Uvalid[hi] \in Users
    BY <2>1, ElementOfSeq
  <2>3. Uvalid[lo] < Uvalid[hi]
    BY <1>1, <2>1 DEF MasksFit
  <2> QED
    BY <1>2, <1>4, <2>2, <2>3 DEF Pairs
<1> QED
  BY <1>3, <1>4

LEMMA InitInv == Init => RInv
<1> SUFFICES ASSUME Init PROVE RInv
  OBVIOUS
<1>1. Uvalid = << >> /\ Uvalid \in Seq(Users) /\ Len(Uvalid) = 0 /\ 1..Len(Uvalid) = {}
  BY DEF Init
<1>2. NoPair \in [Pairs -> Nat] /\ \A p \in Pairs : NoPair[p] = 0
  BY DEF NoPair
<1>3. RTypes
  BY <1>2, WidthFacts DEF Init, RTypes, Inputs
<1>4. MasksFit
  BY <1>1, WidthFacts DEF MasksFit
<1>5. InStart
  BY <1>1, <1>2 DEF Init, InStart, NoUses
<1>6. pc = "start"
  BY DEF Init
<1> QED
  BY <1>3, <1>4, <1>5, <1>6 DEF RInv, InFilter, AllKept, InRows, InDraw, InUse, InDone

\* The phase a step does not lead to has nothing to show.
LEMMA PhaseIs ==
    /\ pc # "start" => InStart
    /\ pc # "filter" => InFilter
    /\ pc # "rows" => InRows
    /\ pc # "draw" => InDraw
    /\ pc # "use" => InUse
    /\ pc # "done" => InDone
BY DEF InStart, InFilter, InRows, InDraw, InUse, InDone

LEMMA StartInv == RInv /\ Start => RInv'
<1> SUFFICES ASSUME RInv, Start PROVE RInv'
  OBVIOUS
<1>1. /\ UNCHANGED <<nbrs, Refine, reRounds, u, Uvalid, Iu, drawn, todo, uses>>
      /\ pc = "start" /\ pc' \in {"filter", "draw"}
  BY DEF Start, input
<1>2. Inputs /\ reRounds \in Nat /\ u = 0 /\ Uvalid = << >> /\ NoUses /\ drawn = NoPair
  BY <1>1, InputFacts DEF RInv, RTypes, InStart
<1>3. RTypes'
  BY <1>1 DEF Start, RInv, RTypes, Inputs
<1>4. MasksFit'
  BY <1>1, SameMasks DEF RInv
<1>5. KeptTo(0)
  BY DEF KeptTo
<1>6. CASE 2 * reRounds >= Dvq
  <2>1. pc' = "filter" /\ reRounds >= 1
    BY <1>2, <1>6, WidthFacts DEF Start
  <2>2. NoUses'
    BY <1>1, <1>2 DEF NoUses
  <2>3. Len(Uvalid) = 0 /\ \A r : r = u => KeptTo(r)
    BY <1>2, <1>5
  <2>4. \A r : r = u' => KeptTo(r)'
    BY <1>1, <2>3, SameMasks
  <2>5. InFilter'
    BY <1>1, <1>2, <2>1, <2>2, <2>3, <2>4, WidthFacts DEF InFilter
  <2> QED
    BY <1>3, <1>4, <2>1, <2>5
       DEF RInv, InStart, AllKept, InRows, InDraw, InUse, InDone
<1>7. CASE ~ (2 * reRounds >= Dvq)
  <2>1. pc' = "draw" /\ branch' \in {"directAll", "collectAll"}
    BY <1>7 DEF Start
  <2>2. FromAll' /\ Drawing'
    BY <2>1 DEF FromAll, Drawing
  <2>3. \A p \in Pairs : drawn[p] = 0
    BY <1>2 DEF NoPair
  <2>4. \A v \in Items, p \in Pairs : uses'[v][p] = 0 /\ drawn'[p] = 0
    BY <1>1, <1>2, <2>3 DEF NoUses
  <2>5. InDraw'
    BY <2>2, <2>4 DEF InDraw
  <2> QED
    BY <1>3, <1>4, <2>1, <2>2, <2>5
       DEF RInv, InStart, InFilter, AllKept, InRows, InUse, InDone
<1> QED
  BY <1>6, <1>7

LEMMA FilterInv == RInv /\ Filter => RInv'
<1> SUFFICES ASSUME RInv, Filter PROVE RInv'
  OBVIOUS
<1> DEFINE w == u + 1
<1>1. /\ UNCHANGED <<nbrs, Refine, reRounds, pc, branch, drawn, todo, uses>>
      /\ pc = "filter" /\ u < Dvq /\ u' = w
      /\ IF Positions(w) # {}
         THEN Uvalid' = Append(Uvalid, w) /\ Iu' = [Iu EXCEPT ![Len(Uvalid) + 1] = Positions(w)]
         ELSE UNCHANGED <<Uvalid, Iu>>
  BY DEF Filter, input, IsValid, MaskOfValid
<1>2. /\ u \in Nat /\ w \in Users /\ w = u + 1 /\ w \in Nat /\ w <= Dvq /\ Dvq \in Nat
      /\ DOMAIN Iu = Users
  BY <1>1, WidthFacts DEF RInv, RTypes, Users
<1>3. /\ Uvalid \in Seq(Users) /\ Len(Uvalid) \in Nat /\ Len(Uvalid) <= u
      /\ \A n \in 1..Len(Uvalid) : Uvalid[n] <= u
      /\ KeptTo(u) /\ reRounds >= 1 /\ NoUses /\ drawn = NoPair
  BY <1>1 DEF RInv, InFilter, MasksFit
<1>4. \A n \in 1..Len(Uvalid) : Uvalid[n] \in Users /\ Uvalid[n] \in Nat /\ Uvalid[n] <= u
  <2>1. \A n \in 1..Len(Uvalid) : Uvalid[n] \in Users
    BY <1>3, ElementOfSeq
  <2>2. \A x \in Users : x \in Nat
    BY WidthFacts DEF Users
  <2> QED
    BY <1>3, <2>1, <2>2
<1> HIDE DEF w
<1>5. \A x : Positions(x)' = Positions(x)
  BY <1>1 DEF Positions, BitAt
<1>6. NoUses'
  BY <1>1, <1>3 DEF NoUses
<1>7. DOMAIN Iu' = Users /\ u' \in 0..Dvq
  BY <1>1, <1>2
<1>8. RTypes'
  BY <1>1, <1>7 DEF RInv, RTypes, Inputs
<1>9. CASE Positions(w) # {}
  <2> DEFINE len == Len(Uvalid)
  <2>1. /\ Uvalid' \in Seq(Users) /\ Len(Uvalid') = len + 1 /\ Uvalid'[len + 1] = w
        /\ \A n \in 1..len : Uvalid'[n] = Uvalid[n]
    BY <1>1, <1>2, <1>3, <1>9, AppendProperties
  <2>2. /\ len + 1 \in Users /\ Iu'[len + 1] = Positions(w)
        /\ \A n \in 1..len : Iu'[n] = Iu[n]
    <3>1. len + 1 \in Users /\ \A n \in 1..len : n \in Users /\ n # len + 1
      BY <1>2, <1>3, <1>1 DEF Users
    <3> QED
      BY <1>1, <1>2, <1>9, <3>1
  <2>3. \A n \in 1..(len + 1) : n \in 1..len \/ n = len + 1
    BY <1>3
  <2>4. \A n, m \in 1..(len + 1) : n < m => Uvalid'[n] < Uvalid'[m]
    <3> SUFFICES ASSUME NEW n \in 1..(len + 1), NEW m \in 1..(len + 1), n < m
                 PROVE  Uvalid'[n] < Uvalid'[m]
      OBVIOUS
    <3>1. n \in 1..len
      BY <1>3
    <3>2. Uvalid[n] \in Nat /\ Uvalid[n] <= u
      BY <1>4, <3>1
    <3>3. CASE m = len + 1
      BY <1>2, <2>1, <3>1, <3>2, <3>3
    <3>4. CASE m \in 1..len
      BY <2>1, <3>1, <3>4 DEF RInv, MasksFit
    <3> QED
      BY <2>3, <3>3, <3>4
  <2>5. \A n \in 1..(len + 1) :
           Iu'[n] = Positions(Uvalid'[n]) /\ Positions(Uvalid'[n]) # {}
    <3>1. \A n \in 1..len : Iu[n] = Positions(Uvalid[n]) /\ Positions(Uvalid[n]) # {}
      BY DEF RInv, MasksFit
    <3> QED
      BY <1>9, <2>1, <2>2, <2>3, <3>1
  <2> HIDE DEF len
  <2>6. \A n \in 1..(len + 1) : \A x : x = Uvalid'[n] => Positions(x)' = Positions(x)
    BY <1>5
  <2>7. MasksFit'
    <3>1. \A n \in 1..(len + 1) : Positions(Uvalid[n])' = Positions(Uvalid'[n])
      BY <1>1 DEF Positions, BitAt
    <3>2. Len(Uvalid') <= Dvq
      BY <1>1, <1>2, <1>3, <2>1 DEF len
    <3> QED
      BY <2>1, <2>4, <2>5, <3>1, <3>2 DEF MasksFit
  <2>8. \A n \in 1..(len + 1) : Uvalid'[n] <= u'
    <3>1. \A n \in 1..len : Uvalid[n] \in Nat /\ Uvalid[n] <= u
      BY <1>4 DEF len
    <3> QED
      BY <1>1, <1>2, <2>1, <2>3, <3>1
  <2>9. \A x : IsKept(x) \/ x = w => IsKept(x)'
    BY <1>3, <2>1 DEF IsKept, len
  <2>10. \A r : r = u' => KeptTo(r)'
    <3>1. ASSUME NEW x \in 1..w, Positions(x) # {} PROVE IsKept(x)'
      <4>1. x \in 1..u \/ x = w
        BY <1>2 DEF w
      <4> QED
        BY <1>3, <2>9, <3>1, <4>1 DEF KeptTo
    <3> QED
      BY <1>1, <1>5, <3>1 DEF KeptTo
  <2>11. Len(Uvalid') <= u'
    BY <1>1, <1>2, <1>3, <2>1 DEF len, w
  <2>12. InFilter'
    BY <1>1, <1>3, <1>6, <2>1, <2>8, <2>10, <2>11 DEF InFilter
  <2> QED
    BY <1>1, <1>8, <2>7, <2>12
       DEF RInv, InStart, AllKept, InRows, InDraw, InUse, InDone
<1>10. CASE Positions(w) = {}
  <2>1. UNCHANGED <<Uvalid, Iu>>
    BY <1>1, <1>10
  <2>2. MasksFit'
    BY <1>1, <2>1, SameMasks DEF RInv
  <2>3. \A n \in 1..Len(Uvalid) : Uvalid[n] <= u'
    BY <1>1, <1>2, <1>4
  <2>4. KeptTo(w)
    <3> SUFFICES ASSUME NEW x \in 1..w, Positions(x) # {} PROVE IsKept(x)
      BY DEF KeptTo
    <3>1. x \in 1..u
      BY <1>2, <1>10 DEF w
    <3> QED
      BY <1>3, <3>1 DEF KeptTo
  <2>5. \A r : r = u' => KeptTo(r)'
    BY <1>1, <2>1, <2>4, SameMasks
  <2>6. Len(Uvalid') <= u'
    BY <1>1, <1>2, <1>3, <2>1
  <2>7. InFilter'
    BY <1>1, <1>3, <1>6, <2>1, <2>3, <2>5, <2>6 DEF InFilter
  <2> QED
    BY <1>1, <1>8, <2>2, <2>7
       DEF RInv, InStart, AllKept, InRows, InDraw, InUse, InDone
<1> QED
  BY <1>9, <1>10

LEMMA ChooseInv == RInv /\ Choose => RInv'
<1> SUFFICES ASSUME RInv, Choose PROVE RInv'
  OBVIOUS
<1> DEFINE d == Len(Uvalid)
<1>1. /\ UNCHANGED <<nbrs, Refine, reRounds, Uvalid, Iu, drawn, todo, uses>>
      /\ pc = "filter" /\ u = Dvq /\ u' = 0
      /\ branch' = IF d * (d - 1) < 2 * reRounds THEN "exact"
                   ELSE IF d * (d - 1) > 2 * 2 * reRounds THEN "direct" ELSE "collect"
      /\ pc' = IF d * (d - 1) < 2 * reRounds THEN "rows" ELSE "draw"
  BY DEF Choose, input, Few
<1>2. /\ Uvalid \in Seq(Users) /\ d \in Nat /\ reRounds \in Nat /\ reRounds >= 1
      /\ KeptTo(Dvq) /\ NoUses /\ drawn = NoPair
  BY <1>1, InputFacts DEF RInv, RTypes, InFilter, MasksFit
<1>3. RTypes'
  BY <1>1, WidthFacts DEF RInv, RTypes, Inputs
<1>4. MasksFit'
  BY <1>1, SameMasks DEF RInv
<1>5. AllKept'
  <2>1. KeptTo(Dvq)'
    BY <1>1, <1>2, SameMasks
  <2> QED
    BY <2>1 DEF AllKept
<1>6. \A v \in Items, p \in Pairs : uses'[v][p] = 0 /\ drawn'[p] = 0
  BY <1>1, <1>2 DEF NoUses, NoPair
<1> HIDE DEF d
<1>7. CASE d * (d - 1) < 2 * reRounds
  <2>1. pc' = "rows" /\ branch' = "exact"
    BY <1>1, <1>7
  <2>2. 0 <= Len(Uvalid')
    BY <1>1, <1>2 DEF d
  <2>3. \A v, p, r : r = 0 => ~ RowHit(v, p, r)'
    BY DEF RowHit
  <2>4. InRows'
    BY <1>1, <1>6, <2>1, <2>2, <2>3 DEF InRows
  <2> QED
    BY <1>3, <1>4, <1>5, <2>1, <2>4 DEF RInv, InStart, InFilter, InDraw, InUse, InDone
<1>8. CASE ~ (d * (d - 1) < 2 * reRounds)
  <2>1. pc' = "draw" /\ branch' \in {"direct", "collect"}
    BY <1>1, <1>8
  <2>2. d >= 2
    <3>1. d # 0 /\ d # 1
      BY <1>2, <1>8
    <3> QED
      BY <1>2, <3>1
  <2>3. Drawing' /\ Len(Uvalid') >= 2
    BY <1>1, <2>1, <2>2 DEF Drawing, d
  <2>4. InDraw'
    BY <1>6, <2>3 DEF InDraw
  <2> QED
    BY <1>3, <1>4, <1>5, <2>1, <2>4 DEF RInv, InStart, InFilter, InRows, InUse, InDone
<1> QED
  BY <1>7, <1>8

LEMMA UseRowInv == RInv /\ UseRow => RInv'
<1> SUFFICES ASSUME RInv, UseRow PROVE RInv'
  OBVIOUS
<1>1. /\ UNCHANGED <<nbrs, Refine, reRounds, pc, branch, Uvalid, Iu, drawn, todo>>
      /\ pc = "rows" /\ u < Len(Uvalid) /\ u' = u + 1 /\ Inputs
      /\ uses' = [v \in Items |->
                    [p \in Pairs |-> IF NewHit(v, p, u) THEN uses[v][p] + 1 ELSE uses[v][p]]]
  BY DEF UseRow, input, NewHit, RInv, RTypes
<1>2. /\ u \in Nat /\ Dvq \in Nat /\ Len(Uvalid) \in Nat /\ u + 1 \in 1..Len(Uvalid)
      /\ uses \in [Items -> [Pairs -> Nat]] /\ branch = "exact"
      /\ \A v \in Items, p \in Pairs : uses[v][p] = IF RowHit(v, p, u) THEN 1 ELSE 0
  BY <1>1, WidthFacts DEF RInv, RTypes, InRows, MasksFit
<1>3. uses' \in [Items -> [Pairs -> Nat]]
  <2>1. \A v \in Items, p \in Pairs : uses[v][p] \in Nat /\ uses[v][p] + 1 \in Nat
    BY <1>2
  <2> QED
    BY <1>1, <2>1
<1>4. u' \in 0..Dvq
  <2>1. Uvalid[u + 1] \in Users
    BY <1>2, ElementOfSeq DEF RInv, MasksFit
  <2>2. Len(Uvalid) <= Dvq
    BY DEF RInv, MasksFit
  <2> QED
    BY <1>1, <1>2, <2>2
<1>5. RTypes'
  BY <1>1, <1>3, <1>4 DEF RInv, RTypes, Inputs
<1>6. MasksFit'
  BY <1>1, SameMasks DEF RInv
<1>7. \A v \in Items, p \in Pairs : uses'[v][p] = IF RowHit(v, p, u + 1) THEN 1 ELSE 0
  <2> SUFFICES ASSUME NEW v \in Items, NEW p \in Pairs
               PROVE  uses'[v][p] = IF RowHit(v, p, u + 1) THEN 1 ELSE 0
    OBVIOUS
  <2>1. /\ RowHit(v, p, u + 1) <=> RowHit(v, p, u) \/ NewHit(v, p, u)
        /\ ~ (RowHit(v, p, u) /\ NewHit(v, p, u))
    BY <1>2, RowsDisjoint DEF RInv
  <2>2. uses'[v][p] = IF NewHit(v, p, u) THEN uses[v][p] + 1 ELSE uses[v][p]
    BY <1>1
  <2> QED
    BY <1>2, <2>1, <2>2
<1>8. InRows'
  <2>1. ASSUME NEW r, r = u' PROVE
           \A v \in Items, p \in Pairs : uses'[v][p] = IF RowHit(v, p, r)' THEN 1 ELSE 0
    <3>1. \A v \in Items, p \in Pairs : uses'[v][p] = IF RowHit(v, p, r) THEN 1 ELSE 0
      BY <1>1, <1>7, <2>1
    <3>2. \A v, p : RowHit(v, p, r)' <=> RowHit(v, p, r)
      BY <1>1, SameMasks
    <3> QED
      BY <3>1, <3>2
  <2>2. branch' = "exact" /\ u' <= Len(Uvalid')
    BY <1>1, <1>2
  <2> QED
    BY <2>1, <2>2 DEF InRows
<1>9. AllKept'
  BY <1>1, SameMasks, SameShared DEF RInv, AllKept
<1> QED
  BY <1>1, <1>5, <1>6, <1>8, <1>9 DEF RInv, InStart, InFilter, InDraw, InUse, InDone

\* What one draw leaves alone.
LEMMA DrawFrame ==
    ASSUME RInv, pc = "draw", NEW p \in Pairs,
           UNCHANGED <<nbrs, Refine, reRounds, pc, branch, u, Uvalid, Iu, todo>>,
           drawn' = [drawn EXCEPT ![p] = @ + 1], uses' \in [Items -> [Pairs -> Nat]],
           \A v \in Items, q \in Pairs :
              uses'[v][q] = IF branch \in {"direct", "directAll"} /\ v \in Shared(q)
                            THEN drawn'[q] ELSE 0
    PROVE  RInv'
<1>1. drawn' \in [Pairs -> Nat]
  <2>1. drawn \in [Pairs -> Nat] /\ drawn[p] + 1 \in Nat
    BY DEF RInv, RTypes
  <2> QED
    BY <2>1
<1>2. RTypes'
  BY <1>1 DEF RInv, RTypes, Inputs
<1>3. MasksFit'
  BY SameMasks DEF RInv
<1>4. AllKept'
  BY SameMasks, SameShared DEF RInv, AllKept
<1>5. InDraw'
  <2>1. Drawing' /\ (~ FromAll' => Len(Uvalid') >= 2)
    BY SameShared DEF RInv, InDraw
  <2>2. \A v \in Items, q \in Pairs :
              uses'[v][q] = IF branch' \in {"direct", "directAll"} /\ v \in Shared(q)'
                            THEN drawn'[q] ELSE 0
    BY SameShared
  <2> QED
    BY <2>1, <2>2 DEF InDraw
<1> QED
  BY <1>2, <1>3, <1>4, <1>5 DEF RInv, InStart, InFilter, InRows, InUse, InDone

LEMMA DrawAndUseInv == RInv /\ DrawAndUse => RInv'
<1> SUFFICES ASSUME RInv, DrawAndUse PROVE RInv'
  OBVIOUS
<1>1. /\ UNCHANGED <<nbrs, Refine, reRounds, pc, branch, u, Uvalid, Iu, todo>>
      /\ pc = "draw" /\ branch \in {"direct", "directAll"} /\ Inputs /\ MasksFit
      /\ drawn \in [Pairs -> Nat] /\ uses \in [Items -> [Pairs -> Nat]]
  BY DEF DrawAndUse, input, RInv, RTypes
<1>2. PICK n \in 1..Drawees, m \in 1..Drawees :
         /\ n # m /\ drawn' = [drawn EXCEPT ![PairAt(n, m)] = @ + 1]
         /\ uses' = Use(PairAt(n, m), 1, Shared(PairAt(n, m)))
  BY DEF DrawAndUse, DrawPair
<1> DEFINE p == PairAt(n, m)
<1>3. p \in Pairs
  BY <1>1, <1>2, DrawnPairs
<1>4. drawn' = [drawn EXCEPT ![p] = @ + 1] /\ uses' = Use(p, 1, Shared(p))
  BY <1>2
<1> HIDE DEF p
<1>5. /\ uses' \in [Items -> [Pairs -> Nat]]
      /\ \A v \in Items, q \in Pairs :
            uses'[v][q] = IF v \in Shared(p) /\ q = p THEN uses[v][q] + 1 ELSE uses[v][q]
  BY <1>1, <1>3, <1>4, UseAdds
<1>6. ASSUME NEW v \in Items, NEW q \in Pairs
      PROVE  uses'[v][q] = IF v \in Shared(q) THEN drawn'[q] ELSE 0
  <2>1. uses[v][q] = IF v \in Shared(q) THEN drawn[q] ELSE 0
    BY <1>1 DEF RInv, InDraw
  <2>2. drawn'[q] = IF q = p THEN drawn[q] + 1 ELSE drawn[q]
    BY <1>1, <1>3, <1>4
  <2>3. uses'[v][q] = IF v \in Shared(p) /\ q = p THEN uses[v][q] + 1 ELSE uses[v][q]
    BY <1>5
  <2> QED
    BY <2>1, <2>2, <2>3
<1>7. \A v \in Items, q \in Pairs :
         uses'[v][q] = IF branch \in {"direct", "directAll"} /\ v \in Shared(q)
                       THEN drawn'[q] ELSE 0
  BY ONLY <1>1, <1>6
<1> QED
  BY ONLY RInv, <1>1, <1>3, <1>4, <1>5, <1>7, DrawFrame

LEMMA CollectInv == RInv /\ Collect => RInv'
<1> SUFFICES ASSUME RInv, Collect PROVE RInv'
  OBVIOUS
<1>1. /\ UNCHANGED <<nbrs, Refine, reRounds, pc, branch, u, Uvalid, Iu, todo, uses>>
      /\ pc = "draw" /\ branch \in {"collect", "collectAll"} /\ Inputs /\ MasksFit
      /\ uses \in [Items -> [Pairs -> Nat]]
  BY DEF Collect, input, RInv, RTypes
<1>2. PICK n \in 1..Drawees, m \in 1..Drawees :
         n # m /\ drawn' = [drawn EXCEPT ![PairAt(n, m)] = @ + 1]
  BY DEF Collect, DrawPair
<1>3. PairAt(n, m) \in Pairs
  BY <1>1, <1>2, DrawnPairs
<1>4. \A v \in Items, q \in Pairs : uses'[v][q] = 0
  BY <1>1 DEF RInv, InDraw
<1> QED
  BY <1>1, <1>2, <1>3, <1>4, DrawFrame

LEMMA StartUsesInv == RInv /\ StartUses => RInv'
<1> SUFFICES ASSUME RInv, StartUses PROVE RInv'
  OBVIOUS
<1>1. /\ UNCHANGED <<nbrs, Refine, reRounds, branch, u, Uvalid, Iu, drawn, uses>>
      /\ pc = "draw" /\ pc' = "use" /\ todo' = {p \in Pairs : drawn[p] > 0}
      /\ branch \in {"collect", "collectAll"} /\ RoundsDrawn = reRounds
      /\ drawn \in [Pairs -> Nat]
  BY DEF StartUses, input, RInv, RTypes
<1>2. RTypes'
  BY <1>1 DEF RInv, RTypes, Inputs
<1>3. MasksFit' /\ AllKept'
  BY <1>1, SameMasks, SameShared DEF RInv, AllKept
<1>4. \A v \in Items, p \in Pairs :
         uses'[v][p] = 0 /\ (p \notin todo' => ~ drawn'[p] > 0)
  BY <1>1 DEF RInv, InDraw
<1>5. RoundsDrawn' = reRounds' /\ \A p \in todo' : drawn'[p] > 0
  BY <1>1, SameDrawn
<1>6. InUse'
  BY <1>1, <1>4, <1>5 DEF InUse
<1> QED
  BY <1>1, <1>2, <1>3, <1>6 DEF RInv, InStart, InFilter, InRows, InDraw, InDone

LEMMA UseCollectedInv == RInv /\ UseCollected => RInv'
<1> SUFFICES ASSUME RInv, UseCollected PROVE RInv'
  OBVIOUS
<1>1. /\ UNCHANGED <<nbrs, Refine, reRounds, pc, branch, u, Uvalid, Iu, drawn>>
      /\ pc = "use" /\ drawn \in [Pairs -> Nat] /\ uses \in [Items -> [Pairs -> Nat]]
      /\ todo \subseteq Pairs
  BY DEF UseCollected, input, RInv, RTypes
<1>2. PICK p \in todo : uses' = Use(p, UsesOf(p), Shared(p)) /\ todo' = todo \ {p}
  BY DEF UseCollected
<1>3. p \in Pairs /\ drawn[p] > 0 /\ UsesOf(p) \in Nat
  BY <1>1, <1>2 DEF RInv, InUse, UsesOf
<1>4. /\ uses' \in [Items -> [Pairs -> Nat]]
      /\ \A v \in Items, q \in Pairs :
            uses'[v][q] = IF v \in Shared(p) /\ q = p THEN uses[v][q] + UsesOf(p) ELSE uses[v][q]
  BY <1>1, <1>2, <1>3, UseAdds
<1>5. RTypes'
  BY <1>1, <1>2, <1>4 DEF RInv, RTypes, Inputs
<1>6. MasksFit' /\ AllKept'
  BY <1>1, SameMasks, SameShared DEF RInv, AllKept
<1>7. ASSUME NEW v \in Items, NEW q \in Pairs
      PROVE  uses'[v][q] = IF v \in Shared(q) /\ q \notin todo' /\ drawn[q] > 0
                           THEN UsesOf(q) ELSE 0
  <2>1. uses[v][q] = IF v \in Shared(q) /\ q \notin todo /\ drawn[q] > 0
                     THEN UsesOf(q) ELSE 0
    BY <1>1 DEF RInv, InUse
  <2>2. uses'[v][q] = IF v \in Shared(p) /\ q = p THEN uses[v][q] + UsesOf(p) ELSE uses[v][q]
    BY <1>4
  <2> QED
    BY <1>2, <1>3, <2>1, <2>2
<1>8. RoundsDrawn' = reRounds' /\ branch' \in {"collect", "collectAll"}
  BY <1>1, SameDrawn DEF RInv, InUse
<1>9. \A q \in todo' : drawn'[q] > 0
  BY <1>1, <1>2 DEF RInv, InUse
<1>10. \A v \in Items, q \in Pairs :
          uses'[v][q] = IF v \in Shared(q)' /\ q \notin todo' /\ drawn'[q] > 0
                        THEN UsesOf(q)' ELSE 0
  BY <1>1, <1>7, SameShared, SameDrawn
<1>11. InUse'
  BY <1>8, <1>9, <1>10 DEF InUse
<1> QED
  BY <1>1, <1>5, <1>6, <1>11 DEF RInv, InStart, InFilter, InRows, InDraw, InDone

LEMMA FinishInv == RInv /\ Finish => RInv'
<1> SUFFICES ASSUME RInv, Finish PROVE RInv'
  OBVIOUS
<1>1. /\ UNCHANGED <<nbrs, Refine, reRounds, branch, u, Uvalid, Iu, drawn, todo, uses>>
      /\ pc' = "done" /\ Inputs /\ MasksFit /\ drawn \in [Pairs -> Nat]
  BY DEF Finish, input, RInv, RTypes
<1>2. RTypes'
  BY <1>1 DEF RInv, RTypes, Inputs
<1>3. MasksFit'
  BY <1>1, SameMasks
<1>4. pc \notin {"start", "filter"}
  BY DEF Finish
<1>5. AllKept'
  BY <1>1, <1>4, SameMasks, SameShared DEF RInv, AllKept
<1>6. /\ RoundsDrawn' = RoundsDrawn /\ (Drawing' <=> Drawing)
      /\ \A p : Shared(p)' = Shared(p) /\ Counts(p)' = Counts(p)
  BY <1>1, SameShared, SameDrawn
<1>7. CASE pc = "rows" /\ u = Len(Uvalid)
  <2>1. branch = "exact" /\ ~ FromAll
    BY <1>7 DEF RInv, InRows, FromAll
  <2>2. \A v \in Items, p \in Pairs :
           uses[v][p] = IF RowHit(v, p, Len(Uvalid)) THEN 1 ELSE 0
    BY <1>7 DEF RInv, InRows
  <2>3. \A v \in Items, p \in Pairs : RowHit(v, p, Len(Uvalid)) <=> v \in Shared(p)
    BY <1>1, <2>1, AllRows
  <2>4. \A v \in Items, p \in Pairs : uses'[v][p] = IF v \in Shared(p)' THEN 1 ELSE 0
    BY <1>1, <1>6, <2>2, <2>3
  <2>5. InDone'
    BY <1>1, <2>1, <2>4 DEF InDone
  <2> QED
    BY <1>1, <1>2, <1>3, <1>5, <2>5 DEF RInv, InStart, InFilter, InRows, InDraw, InUse
<1>8. ASSUME Drawing, RoundsDrawn = reRounds,
             \A v \in Items, p \in Pairs : uses[v][p] = IF v \in Shared(p) THEN Counts(p) ELSE 0
      PROVE  RInv'
  <2>1. branch' # "exact" /\ Drawing' /\ RoundsDrawn' = reRounds'
    BY <1>1, <1>6, <1>8 DEF Drawing
  <2>2. \A v \in Items, p \in Pairs : uses'[v][p] = IF v \in Shared(p)' THEN Counts(p)' ELSE 0
    BY <1>1, <1>6, <1>8
  <2>3. InDone'
    BY <2>1, <2>2 DEF InDone
  <2> QED
    BY <1>1, <1>2, <1>3, <1>5, <2>3 DEF RInv, InStart, InFilter, InRows, InDraw, InUse
<1>9. CASE pc = "draw" /\ branch \in {"direct", "directAll"} /\ RoundsDrawn = reRounds
  <2>1. \A v \in Items, p \in Pairs :
           uses[v][p] = IF v \in Shared(p) THEN Counts(p) ELSE 0
    BY <1>9 DEF RInv, InDraw, Counts
  <2> QED
    BY <1>8, <1>9, <2>1 DEF Drawing
<1>10. CASE pc = "use" /\ todo = {}
  <2>1. branch \in {"collect", "collectAll"} /\ RoundsDrawn = reRounds
    BY <1>10 DEF RInv, InUse
  <2>2. ASSUME NEW v \in Items, NEW p \in Pairs
        PROVE  uses[v][p] = IF v \in Shared(p) THEN Counts(p) ELSE 0
    <3>1. uses[v][p] = IF v \in Shared(p) /\ drawn[p] > 0 THEN UsesOf(p) ELSE 0
      BY <1>10 DEF RInv, InUse
    <3>2. drawn[p] \in Nat
      BY <1>1
    <3>3. drawn[p] > 0 => UsesOf(p) = Counts(p)
      BY <2>1, <3>2 DEF UsesOf, Counts
    <3>4. ~ drawn[p] > 0 => Counts(p) = 0
      BY <3>2 DEF Counts
    <3> QED
      BY <3>1, <3>3, <3>4
  <2> QED
    BY <1>8, <2>1, <2>2 DEF Drawing
<1> QED
  BY <1>7, <1>9, <1>10 DEF Finish

LEMMA StutterInv == RInv /\ UNCHANGED vars => RInv'
<1> SUFFICES ASSUME RInv, UNCHANGED vars PROVE RInv'
  OBVIOUS
<1>1. UNCHANGED <<nbrs, Refine, reRounds, pc, branch, u, Uvalid, Iu, drawn, todo, uses>>
  BY DEF vars
<1>2. /\ \A p : Shared(p)' = Shared(p) /\ Counts(p)' = Counts(p) /\ UsesOf(p)' = UsesOf(p)
      /\ RoundsDrawn' = RoundsDrawn
      /\ (FromAll' <=> FromAll) /\ (Drawing' <=> Drawing) /\ (MasksFit' <=> MasksFit)
      /\ \A r : KeptTo(r)' <=> KeptTo(r)
      /\ \A v, p, r : RowHit(v, p, r)' <=> RowHit(v, p, r)
  BY <1>1, SameMasks, SameShared, SameDrawn
<1>3. RTypes' /\ MasksFit' /\ InStart' /\ InFilter'
  BY <1>1, <1>2 DEF RInv, RTypes, Inputs, InStart, InFilter, NoUses
<1>4. AllKept' /\ InRows'
  BY <1>1, <1>2 DEF RInv, AllKept, InRows
<1>5. InDraw'
  BY <1>1, <1>2 DEF RInv, InDraw
<1>6. InUse'
  BY <1>1, <1>2 DEF RInv, InUse
<1>7. InDone'
  BY <1>1, <1>2 DEF RInv, InDone
<1> QED
  BY <1>3, <1>4, <1>5, <1>6, <1>7 DEF RInv

\* The invariant of the refinement: in each phase, the additions made are those of the
\* rows or draws behind it, by masks that hold what their users have of Refine.
THEOREM RefineInductive == Spec => []RInv
<1>1. RInv /\ [Next]_vars => RInv'
  <2> SUFFICES ASSUME RInv, [Next]_vars PROVE RInv'
    OBVIOUS
  <2>1. CASE Terminating
    BY <2>1, StutterInv DEF Terminating
  <2>2. CASE UNCHANGED vars
    BY <2>2, StutterInv
  <2> QED
    BY <2>1, <2>2, StartInv, FilterInv, ChooseInv, UseRowInv, DrawAndUseInv, CollectInv,
       StartUsesInv, UseCollectedInv, FinishInv DEF Next
<1> QED
  BY InitInv, <1>1, PTL DEF Spec

-----------------------------------------------------------------------------
(* What it comes to.                                                       *)

LEMMA ExactOnce == RInv => ExactlyOncePerPair
<1> SUFFICES ASSUME RInv, pc = "done", branch = "exact", NEW v \in Items, NEW p \in Pairs
             PROVE  LET due == IF v \in Refined /\ p \in Sharing(v) THEN 1 ELSE 0
                    IN  IF MasksHold THEN uses[v][p] = due
                        ELSE uses[v][p] \in IF v \in Within THEN due..1 ELSE {0}
  BY DEF ExactlyOncePerPair
<1>1. Inputs /\ MasksFit /\ ~ FromAll /\ KeptTo(Dvq)
  BY DEF RInv, RTypes, AllKept, FromAll
<1>2. uses[v][p] = IF v \in Shared(p) THEN 1 ELSE 0
  BY DEF RInv, InDone
<1>3. CASE MasksHold
  BY <1>1, <1>2, <1>3, SharedIs
<1>4. CASE ~ MasksHold
  <2>1. ASSUME v \in Shared(p) PROVE v \in Within
    <3>1. PICK n \in 1..Len(Uvalid), m \in 1..Len(Uvalid) : v \in BothMasks(n, m)
      BY <1>1, <2>1, SharedByMasks
    <3> QED
      BY <1>1, <3>1, BothFacts
  <2>2. ASSUME v \in Within, v \in Refined, p \in Sharing(v) PROVE v \in Shared(p)
    <3>1. PICK n \in 1..Len(Uvalid), m \in 1..Len(Uvalid) : p = <<Uvalid[n], Uvalid[m]>>
      BY <1>1, <2>2, SharersKept
    <3>2. p[1] = Uvalid[n] /\ p[2] = Uvalid[m]
      BY <3>1
    <3>3. v \in nbrs[Uvalid[n]] /\ v \in nbrs[Uvalid[m]]
      BY <2>2, <3>2 DEF Sharing
    <3>4. v \in BothMasks(n, m)
      BY <1>1, <2>2, <3>3, BothFacts
    <3> QED
      BY <1>1, <3>1, <3>4, SharedByMasks
  <2> QED
    BY <1>2, <1>4, <2>1, <2>2
<1> QED
  BY <1>3, <1>4

LEMMA DrawsCount == RInv => DrawsCounted
<1> SUFFICES ASSUME RInv, pc = "done", branch # "exact" PROVE DrawsCounted
  BY DEF DrawsCounted
<1>1. Inputs /\ MasksFit /\ (~ FromAll => KeptTo(Dvq)) /\ RoundsDrawn = reRounds
  BY DEF RInv, RTypes, AllKept, InDone
<1>2. ASSUME MasksHold \/ FromAll, NEW v \in Items, NEW p \in Pairs
      PROVE  uses[v][p] = IF v \in Refined /\ p \in Sharing(v) THEN Counts(p) ELSE 0
  <2>1. uses[v][p] = IF v \in Shared(p) THEN Counts(p) ELSE 0
    BY DEF RInv, InDone
  <2> QED
    BY <1>1, <1>2, <2>1, SharedIs
<1>3. ASSUME NEW v \in Refined, NEW p \in Sharing(v), ~ FromAll
      PROVE  \E n, m \in 1..Len(Uvalid) : p = <<Uvalid[n], Uvalid[m]>>
  BY <1>1, <1>3, SharersKept
<1> QED
  BY <1>1, <1>2, <1>3 DEF DrawsCounted, Counts

LEMMA EnoughToDraw == RInv => EnoughUsersToDraw
BY WidthFacts DEF RInv, InDraw, EnoughUsersToDraw, Drawees

\* When no pair is drawn, the new scores are the exact ones for a list no longer than a
\* mask; for a longer one, no pair is added twice and none is left out within the width.
THEOREM RefinedExactly == Spec => []ExactlyOncePerPair
BY RefineInductive, ExactOnce, PTL

\* When pairs are drawn, every draw counts for the items both users have, and no user
\* that was put aside has an item of the list to share.
THEOREM RefinedByDraws == Spec => []DrawsCounted
BY RefineInductive, DrawsCount, PTL

\* The indices of a pair are never drawn from an empty range.
THEOREM RefineCanDraw == Spec => []EnoughUsersToDraw
BY RefineInductive, EnoughToDraw, PTL

-----------------------------------------------------------------------------
(* The types: how far the draws go, and what is in the masks.              *)

MaskBits == {BitAt(k) : k \in 1..Len(Refine)}

RBounds ==
    /\ RoundsDrawn <= reRounds
    /\ \A n \in Users : Iu[n] \subseteq MaskBits

LEMMA PairsFinite == IsFiniteSet(Pairs)
<1>1. IsFiniteSet(Users)
  BY WidthFacts, FS_Interval DEF Users
<1>2. IsFiniteSet(Users \X Users)
  BY <1>1, FS_Product
<1> QED
  BY <1>2, FS_Subset DEF Pairs

LEMMA InitBounds == Init => RBounds
<1> SUFFICES ASSUME Init PROVE RBounds
  OBVIOUS
<1>1. \A p \in Pairs : NoPair[p] = 0
  BY DEF NoPair
<1>2. Total(NoPair, Pairs) = 0
  BY <1>1, PairsFinite, TotalZero
<1>3. reRounds \in Nat
  BY WidthFacts DEF Init
<1> QED
  BY <1>2, <1>3 DEF Init, RBounds, RoundsDrawn

\* A draw comes before the last round, and a user's mask holds bits of the list.
LEMMA StepBounds == RInv /\ RBounds /\ [Next]_vars => RBounds'
<1> SUFFICES ASSUME RInv, RBounds, [Next]_vars PROVE RBounds'
  OBVIOUS
<1>1. Inputs /\ drawn \in [Pairs -> Nat] /\ DOMAIN Iu = Users /\ reRounds \in Nat /\ MasksFit
  BY InputFacts DEF RInv, RTypes
<1>2. reRounds' = reRounds /\ Refine' = Refine /\ nbrs' = nbrs
  BY DEF Next, Start, Filter, Choose, UseRow, DrawAndUse, Collect, StartUses, UseCollected,
         Finish, Terminating, vars, input
<1>3. MaskBits' = MaskBits
  BY <1>2 DEF MaskBits, BitAt
<1>4. CASE Filter
  <2>1. drawn' = drawn
    BY <1>4 DEF Filter
  <2>2. \A w : Positions(w) \subseteq MaskBits
    BY DEF Positions, MaskBits
  <2>3. \A n \in Users : Iu'[n] \subseteq MaskBits
    BY <1>1, <1>4, <2>2 DEF Filter, RBounds
  <2> QED
    BY <1>2, <1>3, <2>1, <2>3 DEF RBounds, RoundsDrawn
<1>5. CASE DrawAndUse \/ Collect
  <2>1. /\ Iu' = Iu /\ RoundsDrawn < reRounds
        /\ \E n, m \in 1..Drawees : n # m /\ drawn' = [drawn EXCEPT ![PairAt(n, m)] = @ + 1]
    BY <1>5 DEF DrawAndUse, Collect, DrawPair
  <2>2. PICK p \in Pairs : drawn' = [drawn EXCEPT ![p] = @ + 1]
    BY <1>1, <2>1, DrawnPairs
  <2>3. Total([drawn EXCEPT ![p] = @ + 1], Pairs) = Total(drawn, Pairs) + 1
    BY <1>1, PairsFinite, TotalBump
  <2>4. Total(drawn, Pairs) \in Nat
    BY <1>1, PairsFinite, TotalStep
  <2>5. RoundsDrawn' <= reRounds
    <3>1. RoundsDrawn' = Total(drawn, Pairs) + 1
      BY <2>2, <2>3 DEF RoundsDrawn
    <3>2. Total(drawn, Pairs) < reRounds
      BY <2>1 DEF RoundsDrawn
    <3> QED
      BY <1>1, <2>4, <3>1, <3>2
  <2> QED
    BY <1>2, <1>3, <2>1, <2>5 DEF RBounds
<1>6. CASE UNCHANGED <<Iu, drawn>>
  BY <1>2, <1>3, <1>6 DEF RBounds, RoundsDrawn
<1> QED
  BY <1>4, <1>5, <1>6
  DEF Next, Start, Choose, UseRow, StartUses, UseCollected, Finish, Terminating, vars

LEMMA RefineTypeOK == RInv /\ RBounds => TypeOK
<1> SUFFICES ASSUME RInv, RBounds PROVE TypeOK
  OBVIOUS
<1>1. RTypes /\ MasksFit /\ Inputs /\ drawn \in [Pairs -> Nat] /\ reRounds \in Nat
  BY InputFacts DEF RInv, RTypes
<1>2. \A n \in 1..Len(Uvalid) : Uvalid[n] \in Users /\ Iu[n] # {}
  BY <1>1, ElementOfSeq DEF MasksFit
<1>3. ASSUME NEW p \in Pairs PROVE drawn[p] \in 0..reRounds
  <2>1. drawn[p] <= Total(drawn, Pairs)
    BY <1>1, PairsFinite, TotalBounds
  <2>2. Total(drawn, Pairs) \in Nat /\ drawn[p] \in Nat
    BY <1>1, PairsFinite, TotalStep
  <2> QED
    BY <1>1, <2>1, <2>2 DEF RBounds, RoundsDrawn
<1>4. drawn \in [Pairs -> 0..reRounds]
  BY <1>1, <1>3
<1> QED
  BY <1>1, <1>2, <1>4 DEF TypeOK, RTypes, MasksFit, RBounds, MaskBits, Inputs

\* Every variable keeps its type: no pair is drawn more often than there are rounds, and
\* the users kept are in order, each with a bit of the list in its mask.
THEOREM RefineTypes == Spec => []TypeOK
<1>1. Spec => []RBounds
  BY InitBounds, StepBounds, RefineInductive, PTL DEF Spec
<1> QED
  BY <1>1, RefineInductive, RefineTypeOK, PTL

-----------------------------------------------------------------------------
(* The scores: exact, or right in the mean.                                *)

\* What the uses of the pairs come to for an item, if a use of p is worth w[p]; and the
\* sum over the pairs that have an item of the list in common.
Worths         == [Pairs -> Fraction]
Gathered(v, w) == SumOf([p \in Pairs |-> Times(Whole(uses[v][p]), w[p])], Pairs)
Exact(v, w)    == IF v \in Refined THEN SumOf(w, Sharing(v)) ELSE Whole(0)

RefinedScores ==
    pc = "done" /\ branch = "exact" /\ MasksHold =>
        \A v \in Items, w \in Worths : Gathered(v, w) = Exact(v, w)

\* The pairs of indices a draw takes, all with the same chance; gamma0; what a draw of
\* p adds to an item; and its mean over the draws there are.
IndexPairs       == {d \in (1..Drawees) \X (1..Drawees) : d[1] # d[2]}
Gamma0           == Frac(Drawees * (Drawees - 1), 2 * reRounds)
DrawAdds(v, w, p) == IF v \in Shared(p) THEN Times(Gamma0, w[p]) ELSE Whole(0)
MeanDraw(v, w)   ==
    DividedBy(SumOf([d \in IndexPairs |-> DrawAdds(v, w, PairAt(d[1], d[2]))], IndexPairs),
              Cardinality(IndexPairs))

UnbiasedDraws ==
    branch \in {"direct", "collect", "directAll"} /\ reRounds > 0 /\ (MasksHold \/ FromAll) =>
        \A v \in Items, w \in Worths :
           /\ pc = "draw" => Times(Whole(reRounds), MeanDraw(v, w)) = Exact(v, w)
           /\ pc = "done" =>
                 Times(Gamma0, Gathered(v, w)) =
                    SumOf([p \in Pairs |-> Times(Whole(drawn[p]), DrawAdds(v, w, p))], Pairs)

\* What the refined items have to share, and nothing for the others.
Due(v) == IF v \in Refined THEN Sharing(v) ELSE {}

LEMMA ExactIs ==
    ASSUME NEW v, NEW w
    PROVE  Exact(v, w) = SumOf(w, Due(v)) /\ Due(v) \in SUBSET Pairs
<1>1. SumOf(w, {}) = Whole(0)
  BY SumEmpty
<1> QED
  BY <1>1 DEF Exact, Due, Sharing

LEMMA ScoresExact == RInv => RefinedScores
<1> SUFFICES ASSUME RInv, pc = "done", branch = "exact", MasksHold,
                    NEW v \in Items, NEW w \in Worths
             PROVE  Gathered(v, w) = Exact(v, w)
  BY DEF RefinedScores
<1> DEFINE f == [p \in Pairs |-> Times(Whole(uses[v][p]), w[p])]
<1>1. \A p \in Pairs : uses[v][p] = IF p \in Due(v) THEN 1 ELSE 0
  BY ExactOnce DEF ExactlyOncePerPair, Due
<1>2. \A p \in Pairs : w[p] \in Fraction
  BY DEF Worths
<1>3. \A x \in Fraction : Times(Whole(0), x) = Whole(0) /\ Times(Whole(1), x) = x
  BY TimesFacts
<1>4. \A p \in Pairs : f[p] = IF p \in Due(v) THEN w[p] ELSE Whole(0)
  BY <1>1, <1>2, <1>3
<1>5. Due(v) \in SUBSET Pairs /\ Exact(v, w) = SumOf(w, Due(v))
  BY ExactIs
<1> HIDE DEF f
<1>6. SumOf(f, Pairs) = SumOf(w, Due(v))
  BY <1>2, <1>4, <1>5, PairsFinite, SumOver
<1> QED
  BY <1>5, <1>6 DEF Gathered, f

\* There are d (d - 1) pairs of different indices up to d.
LEMMA IndexPairsCount ==
    ASSUME Drawees \in Nat
    PROVE  /\ IsFiniteSet(IndexPairs)
           /\ Cardinality(IndexPairs) = Drawees * (Drawees - 1)
<1> DEFINE d == Drawees
           I == 1..d
           D == {<<n, n>> : n \in I}
           g == [n \in I |-> <<n, n>>]
<1>1. IsFiniteSet(I) /\ Cardinality(I) = d
  <2>1. 1 \in Int /\ d \in Int
    OBVIOUS
  <2>2. IsFiniteSet(1..d) /\ Cardinality(1..d) = IF 1 > d THEN 0 ELSE d - 1 + 1
    BY <2>1, FS_Interval
  <2> QED
    BY <2>2
<1> HIDE DEF I
<1>2. IsFiniteSet(I \X I) /\ Cardinality(I \X I) = d * d
  BY <1>1, FS_Product
<1>3. g \in Bijection(I, D)
  BY DEF Bijection, Injection, Surjection, IsInjective
<1>4. Cardinality(D) = d
  BY <1>1, <1>3, FS_Bijection DEF ExistsBijection
<1> DEFINE P == I \X I
<1>5. P \cap D = D /\ IndexPairs = P \ D
  BY DEF IndexPairs, I
<1> HIDE DEF P, D, g
<1>6. /\ IsFiniteSet(P \ D)
      /\ Cardinality(P \ D) = Cardinality(P) - Cardinality(P \cap D)
  <2>1. IsFiniteSet(P)
    BY <1>2 DEF P
  <2> QED
    BY ONLY <2>1, FS_Difference
<1>7. Cardinality(P) = d * d
  BY <1>2 DEF P
<1>8. Cardinality(IndexPairs) = d * d - d
  BY <1>4, <1>5, <1>6, <1>7
<1>9. d * d - d = d * (d - 1)
  BY DEF d
<1> QED
  BY <1>5, <1>6, <1>8, <1>9 DEF d

\* Each pair of users that share an item is at two of the pairs of indices.
LEMMA PairAtBoth ==
    ASSUME NEW n \in 1..Drawees, NEW m \in 1..Drawees, n < m, Drawees \in Nat
    PROVE  /\ PairAt(n, m) = IF FromAll THEN <<n, m>> ELSE <<Uvalid[n], Uvalid[m]>>
           /\ PairAt(m, n) = PairAt(n, m)
<1>1. ~ (m < n) /\ n # m
  OBVIOUS
<1> QED
  BY <1>1 DEF PairAt

\* The pairs at indices in order.
UpPairs == {d \in IndexPairs : d[1] < d[2]}
PairOf == [d \in UpPairs |-> PairAt(d[1], d[2])]
Drawn  == {PairOf[d] : d \in UpPairs}

LEMMA UpFacts ==
    ASSUME Inputs, MasksFit, Drawees \in Nat
    PROVE  /\ \A d \in UpPairs : /\ d[1] \in 1..Drawees /\ d[2] \in 1..Drawees /\ d[1] < d[2]
                                 /\ d = <<d[1], d[2]>>
                                 /\ PairOf[d] = PairAt(d[1], d[2])
                                 /\ PairAt(d[2], d[1]) = PairOf[d]
           /\ \A c, d \in UpPairs : PairOf[c] = PairOf[d] => c = d
           /\ Drawn \in SUBSET Pairs
<1>1. ASSUME NEW d \in UpPairs
      PROVE  /\ d[1] \in 1..Drawees /\ d[2] \in 1..Drawees /\ d[1] < d[2]
             /\ d = <<d[1], d[2]>>
             /\ PairOf[d] = PairAt(d[1], d[2])
  BY DEF UpPairs, IndexPairs, PairOf
<1>2. ASSUME NEW d \in UpPairs
      PROVE  /\ PairAt(d[2], d[1]) = PairOf[d]
             /\ PairOf[d] = IF FromAll THEN <<d[1], d[2]>> ELSE <<Uvalid[d[1]], Uvalid[d[2]]>>
  BY <1>1, PairAtBoth
<1>3. ASSUME NEW d \in UpPairs PROVE PairOf[d] \in Pairs
  BY <1>1, DrawnPairs
<1>4. ASSUME NEW c \in UpPairs, NEW d \in UpPairs, PairOf[c] = PairOf[d] PROVE c = d
  <2> DEFINE a == c[1] b == c[2] x == d[1] y == d[2]
  <2>1. /\ a \in 1..Drawees /\ b \in 1..Drawees /\ c = <<a, b>>
        /\ x \in 1..Drawees /\ y \in 1..Drawees /\ d = <<x, y>>
    BY <1>1
  <2>2. PairOf[c] = IF FromAll THEN <<a, b>> ELSE <<Uvalid[a], Uvalid[b]>>
    BY <1>2
  <2>3. PairOf[d] = IF FromAll THEN <<x, y>> ELSE <<Uvalid[x], Uvalid[y]>>
    BY <1>2
  <2> HIDE DEF a, b, x, y
  <2>4. CASE FromAll
    BY <1>4, <2>1, <2>2, <2>3, <2>4
  <2>5. CASE ~ FromAll
    <3>1. Uvalid[a] = Uvalid[x] /\ Uvalid[b] = Uvalid[y]
      <4>1. PairOf[c] = <<Uvalid[a], Uvalid[b]>>
        BY ONLY <2>2, <2>5
      <4>2. PairOf[d] = <<Uvalid[x], Uvalid[y]>>
        BY ONLY <2>3, <2>5
      <4>3. <<Uvalid[a], Uvalid[b]>> = <<Uvalid[x], Uvalid[y]>>
        BY ONLY <1>4, <4>1, <4>2
      <4> QED
        BY ONLY <4>3
    <3>2. /\ a \in 1..Len(Uvalid) /\ b \in 1..Len(Uvalid)
          /\ x \in 1..Len(Uvalid) /\ y \in 1..Len(Uvalid)
      BY <2>1, <2>5 DEF Drawees
    <3>3. \A n \in 1..Len(Uvalid) : Uvalid[n] \in Users
      BY ElementOfSeq DEF MasksFit
    <3>4. \A n \in Users : n \in Int
      BY WidthFacts DEF Users
    <3>5. \A n, m \in 1..Len(Uvalid) : n < m => Uvalid[n] < Uvalid[m]
      BY DEF MasksFit
    <3>6. ASSUME NEW n \in 1..Len(Uvalid), NEW m \in 1..Len(Uvalid), Uvalid[n] = Uvalid[m]
          PROVE  n = m
      <4>1. Uvalid[n] \in Int /\ n \in Int /\ m \in Int /\ Uvalid[m] \in Int
        BY <3>3, <3>4
      <4>2. ~ (n < m) /\ ~ (m < n)
        BY <3>5, <3>6, <4>1
      <4> QED
        BY <4>1, <4>2
    <3> QED
      BY <2>1, <3>1, <3>2, <3>6
  <2> QED
    BY <2>4, <2>5
<1> QED
  BY <1>1, <1>2, <1>3, <1>4 DEF Drawn

\* A pair that shares an item of the list can be drawn.
LEMMA DueDrawn ==
    ASSUME Inputs, MasksFit, ~ FromAll => KeptTo(Dvq), Drawees \in Nat, NEW v
    PROVE  Due(v) \in SUBSET Drawn
<1> SUFFICES ASSUME NEW p \in Due(v) PROVE p \in Drawn
  OBVIOUS
<1>1. v \in Refined /\ p \in Sharing(v) /\ p \in Pairs
  BY DEF Due, Sharing
<1>2. PICK n \in 1..Drawees, m \in 1..Drawees :
         n < m /\ p = IF FromAll THEN <<n, m>> ELSE <<Uvalid[n], Uvalid[m]>>
  <2>1. CASE FromAll
    <3>1. p[1] \in 1..Dvq /\ p[2] \in 1..Dvq /\ p[1] < p[2] /\ p = <<p[1], p[2]>>
      BY <1>1 DEF Pairs, Users
    <3> QED
      BY <2>1, <3>1 DEF Drawees
  <2>2. CASE ~ FromAll
    <3>1. PICK n \in 1..Len(Uvalid), m \in 1..Len(Uvalid) : p = <<Uvalid[n], Uvalid[m]>>
      BY <1>1, <2>2, SharersKept
    <3>2. Uvalid[n] < Uvalid[m] /\ Uvalid[n] \in Int /\ Uvalid[m] \in Int
      <4>1. p[1] = Uvalid[n] /\ p[2] = Uvalid[m]
        BY <3>1
      <4>2. p[1] < p[2] /\ p[1] \in Int /\ p[2] \in Int
        BY <1>1, WidthFacts DEF Pairs, Users
      <4> QED
        BY <4>1, <4>2
    <3>3. n < m
      <4>1. n # m
        BY <3>2
      <4>2. ~ (m < n)
        <5>1. m < n => Uvalid[m] < Uvalid[n]
          BY DEF MasksFit
        <5> QED
          BY <3>2, <5>1
      <4> QED
        BY <4>1, <4>2
    <3> QED
      BY <2>2, <3>1, <3>3 DEF Drawees
  <2> QED
    BY <2>1, <2>2
<1> DEFINE d == <<n, m>>
<1>3. d \in UpPairs /\ d[1] = n /\ d[2] = m
  BY <1>2 DEF UpPairs, IndexPairs
<1>4. PairOf[d] = PairAt(n, m)
  BY <1>3 DEF PairOf
<1>5. PairAt(n, m) = p
  BY <1>2, PairAtBoth
<1> QED
  BY <1>3, <1>4, <1>5 DEF Drawn

\* What the draws of a pair add to an item, over all the pairs of indices.
AllDraws(v, w) == [d \in IndexPairs |-> DrawAdds(v, w, PairAt(d[1], d[2]))]

LEMMA DrawsOver ==
    ASSUME Inputs, MasksFit, ~ FromAll => KeptTo(Dvq), MasksHold \/ FromAll, Drawees \in Nat,
           Gamma0 \in Fraction, NEW v \in Items, NEW w \in Worths
    PROVE  /\ Exact(v, w) \in Fraction
           /\ SumOf(AllDraws(v, w), IndexPairs) =
                 Plus(Times(Exact(v, w), Gamma0), Times(Exact(v, w), Gamma0))
<1> DEFINE k == [p \in Pairs |-> DrawAdds(v, w, p)]
           wg == [p \in Pairs |-> Times(w[p], Gamma0)]
           g == AllDraws(v, w)
           X == Times(Exact(v, w), Gamma0)
           down == IndexPairs \ UpPairs
           gu == [d \in IndexPairs |-> IF d \in UpPairs THEN g[d] ELSE Whole(0)]
           gd == [d \in IndexPairs |-> IF d \in down THEN g[d] ELSE Whole(0)]
           back == [d \in down |-> PairAt(d[1], d[2])]
<1>1. Whole(0) \in Fraction
  BY FracOne
<1>2. \A p \in Pairs : w[p] \in Fraction
  BY DEF Worths
<1>3. /\ \A p \in Pairs : wg[p] = Times(w[p], Gamma0) /\ wg[p] \in Fraction
      /\ \A p \in Pairs : Times(Gamma0, w[p]) = wg[p]
  BY <1>2, TimesFacts
<1>4. \A p \in Pairs : k[p] = DrawAdds(v, w, p)
  OBVIOUS
<1>5. \A p \in Pairs : v \in Shared(p) <=> p \in Due(v)
  BY SharedIs DEF Due
<1>6. \A p \in Pairs : k[p] = IF p \in Due(v) THEN wg[p] ELSE Whole(0)
  BY <1>3, <1>4, <1>5 DEF DrawAdds
<1> HIDE DEF k, wg
<1>7. \A p \in Pairs : k[p] \in Fraction
  BY <1>1, <1>3, <1>6
<1>8. /\ Exact(v, w) = SumOf(w, Due(v)) /\ Due(v) \in SUBSET Pairs
      /\ Due(v) \in SUBSET Drawn /\ Drawn \in SUBSET Pairs
  BY ExactIs, DueDrawn, UpFacts
<1>9. IsFiniteSet(Drawn) /\ IsFiniteSet(Due(v))
  BY <1>8, PairsFinite, FS_Subset
<1>10. \A p \in Drawn : wg[p] \in Fraction /\ k[p] = IF p \in Due(v) THEN wg[p] ELSE Whole(0)
  BY <1>3, <1>6, <1>8
<1>11. SumOf(k, Drawn) = SumOf(wg, Due(v))
  BY <1>8, <1>9, <1>10, SumOver
<1>12. \A p \in Due(v) : w[p] \in Fraction /\ wg[p] = Times(w[p], Gamma0)
  BY <1>2, <1>3, <1>8
<1>13. SumOf(wg, Due(v)) = Times(SumOf(w, Due(v)), Gamma0) /\ SumOf(w, Due(v)) \in Fraction
  BY <1>9, <1>12, SumMultiple, SumStep
<1>14. SumOf(k, Drawn) = X /\ Exact(v, w) \in Fraction
  BY <1>8, <1>11, <1>13
<1>15. X \in Fraction
  BY <1>14, TimesFacts
<1> HIDE DEF X
<1>16. /\ \A d \in UpPairs : /\ d[1] \in 1..Drawees /\ d[2] \in 1..Drawees /\ d[1] < d[2]
                             /\ d = <<d[1], d[2]>> /\ PairOf[d] = PairAt(d[1], d[2])
                             /\ PairAt(d[2], d[1]) = PairOf[d] /\ PairOf[d] \in Drawn
       /\ \A c, d \in UpPairs : PairOf[c] = PairOf[d] => c = d
  BY UpFacts DEF Drawn
<1>17. UpPairs \in SUBSET IndexPairs /\ down \in SUBSET IndexPairs
  BY DEF UpPairs
<1>18. IsFiniteSet(IndexPairs) /\ IsFiniteSet(UpPairs) /\ IsFiniteSet(down)
  BY <1>17, IndexPairsCount, FS_Subset
<1>19. \A d \in IndexPairs : g[d] = DrawAdds(v, w, PairAt(d[1], d[2]))
  BY DEF AllDraws
<1>20. \A d \in IndexPairs : PairAt(d[1], d[2]) \in Pairs
  BY DrawnPairs DEF IndexPairs
<1>21. \A d \in IndexPairs : g[d] = k[PairAt(d[1], d[2])] /\ g[d] \in Fraction
  BY <1>4, <1>7, <1>19, <1>20
<1>22. SumOf(g, UpPairs) = SumOf(k, Drawn)
  <2>1. \A d \in UpPairs : g[d] \in Fraction /\ PairOf[d] \in Drawn /\ k[PairOf[d]] = g[d]
    BY <1>16, <1>17, <1>21
  <2>2. \A z \in Drawn : \E d \in UpPairs : PairOf[d] = z
    BY DEF Drawn
  <2>3. \A c, d \in UpPairs : PairOf[c] = PairOf[d] => c = d
    BY <1>16
  <2> QED
    BY ONLY <1>9, <1>18, <2>1, <2>2, <2>3, SumRename
<1>23. SumOf(g, down) = SumOf(k, Drawn)
  <2>1. ASSUME NEW d \in down
        PROVE  /\ <<d[2], d[1]>> \in UpPairs /\ d = <<d[1], d[2]>>
               /\ back[d] = PairAt(d[1], d[2])
    <3>1. d \in (1..Drawees) \X (1..Drawees) /\ d[1] # d[2] /\ ~ (d[1] < d[2])
      BY DEF UpPairs, IndexPairs
    <3>2. d[1] \in 1..Drawees /\ d[2] \in 1..Drawees /\ d[2] < d[1] /\ d = <<d[1], d[2]>>
      BY <3>1
    <3> QED
      BY <3>2 DEF UpPairs, IndexPairs
  <2>2. ASSUME NEW d \in down
        PROVE  back[d] = PairOf[<<d[2], d[1]>>]
    <3> DEFINE c == <<d[2], d[1]>>
    <3>1. c \in UpPairs /\ c[1] = d[2] /\ c[2] = d[1] /\ back[d] = PairAt(d[1], d[2])
      BY <2>1
    <3>2. PairAt(c[2], c[1]) = PairOf[c]
      BY <1>16, <3>1
    <3> QED
      BY <3>1, <3>2
  <2>3. \A d \in down : g[d] \in Fraction /\ back[d] \in Drawn /\ k[back[d]] = g[d]
    BY <1>16, <1>17, <1>21, <2>1, <2>2
  <2>4. ASSUME NEW c \in down, NEW d \in down, back[c] = back[d] PROVE c = d
    <3>1. PairOf[<<c[2], c[1]>>] = PairOf[<<d[2], d[1]>>]
      BY <2>2, <2>4
    <3>2. <<c[2], c[1]>> = <<d[2], d[1]>>
      BY <1>16, <2>1, <3>1
    <3> QED
      BY <2>1, <3>2
  <2>5. ASSUME NEW z \in Drawn PROVE \E d \in down : back[d] = z
    <3>1. PICK c \in UpPairs : PairOf[c] = z
      BY DEF Drawn
    <3> DEFINE d == <<c[2], c[1]>>
    <3>2. c[1] \in 1..Drawees /\ c[2] \in 1..Drawees /\ c[1] < c[2] /\ PairAt(c[2], c[1]) = z
      BY <1>16, <3>1
    <3>3. d[1] = c[2] /\ d[2] = c[1]
      OBVIOUS
    <3>4. d \in IndexPairs /\ d \notin UpPairs
      BY <3>2 DEF IndexPairs, UpPairs
    <3>5. d \in down /\ back[d] = z
      BY <3>2, <3>3, <3>4
    <3> QED
      BY <3>5
  <2> HIDE DEF back, down, g
  <2>6. \A c, d \in down : back[c] = back[d] => c = d
    BY <2>4
  <2>7. \A z \in Drawn : \E d \in down : back[d] = z
    BY <2>5
  <2> QED
    BY ONLY <1>9, <1>18, <2>3, <2>6, <2>7, SumRename
<1> HIDE DEF g
<1>24. /\ \A d \in IndexPairs : gu[d] = IF d \in UpPairs THEN g[d] ELSE Whole(0)
       /\ \A d \in IndexPairs : gd[d] = IF d \in down THEN g[d] ELSE Whole(0)
  OBVIOUS
<1> HIDE DEF gu, gd
<1>25. SumOf(gu, IndexPairs) = X
  BY <1>14, <1>17, <1>18, <1>21, <1>22, <1>24, SumOver
<1>26. SumOf(gd, IndexPairs) = X
  <2>1. \A d \in IndexPairs : g[d] \in Fraction
    BY <1>21
  <2>2. \A d \in IndexPairs : gd[d] = IF d \in down THEN g[d] ELSE Whole(0)
    BY <1>24
  <2> HIDE DEF down
  <2>3. SumOf(gd, IndexPairs) = SumOf(g, down)
    BY <1>17, <1>18, <2>1, <2>2, SumOver
  <2> QED
    BY <1>14, <1>23, <2>3
<1>27. \A d \in IndexPairs : /\ gu[d] \in Fraction /\ gd[d] \in Fraction
                             /\ g[d] = Plus(gu[d], gd[d])
  <2>1. \A x \in Fraction : Plus(x, Whole(0)) = x /\ Plus(Whole(0), x) = x
    BY <1>1, PlusFacts
  <2> QED
    BY <1>1, <1>21, <1>24, <2>1
<1>28. SumOf(g, IndexPairs) = Plus(SumOf(gu, IndexPairs), SumOf(gd, IndexPairs))
  BY ONLY <1>18, <1>27, SumPlus
<1> QED
  BY <1>14, <1>25, <1>26, <1>28 DEF g, X

\* n_rounds draws of one of n, each worth n / (2 n_rounds), of which two are counted.
LEMMA MeanTwice ==
    ASSUME NEW x \in Fraction, NEW N \in Nat \ {0}, NEW R \in Nat \ {0}
    PROVE  Times(Whole(R), DividedBy(Plus(Times(x, Frac(N, 2 * R)), Times(x, Frac(N, 2 * R))), N)) = x
<1> DEFINE a == x[1] b == x[2]
           d == 2 * R
           e == b * d
           t == a * N
           X == Times(x, Frac(N, d))
<1>1. a \in Int /\ b \in Nat \ {0} /\ x = Frac(a, b)
  BY FractionFrac
<1>2. d \in Nat \ {0} /\ R \in Int /\ N \in Int
  OBVIOUS
<1> HIDE DEF a, b
<1>3. e \in Nat \ {0} /\ t \in Int
  <2>1. \A m, n \in Nat \ {0} : m * n \in Nat \ {0}
    BY Z3
  <2> QED
    BY <1>1, <1>2, <2>1
<1>4. X = Frac(t, e)
  BY <1>1, <1>2, TimesFrac
<1>5. Plus(X, X) = Frac(t + t, e)
  BY <1>3, <1>4, FracSums
<1> HIDE DEF X, e
<1>6. DividedBy(Plus(X, X), N) = Frac(t + t, e * N)
  BY <1>3, <1>5, FracDivided
<1>7. e * N \in Nat \ {0} /\ t + t \in Int
  BY <1>3, Z3
<1>8. Times(Whole(R), Frac(t + t, e * N)) = Frac(R * (t + t), e * N)
  BY <1>7, FracMultiples
<1>9. R * (t + t) = a * (d * N)
  <2>1. t + t = 2 * (a * N)
    BY <1>1, <1>2
  <2>2. R * (2 * (a * N)) = a * ((2 * R) * N)
    BY <1>1, <1>2, Z3
  <2> QED
    BY <2>1, <2>2
<1>10. e * N = b * (d * N)
  BY <1>1, <1>2, Z3 DEF e
<1>11. d * N \in Nat \ {0}
  BY <1>2, Z3
<1>12. Frac(a * (d * N), b * (d * N)) = Frac(a, b)
  BY <1>1, <1>11, FracExpand
<1>13. Times(Whole(R), DividedBy(Plus(X, X), N)) = x
  BY <1>1, <1>6, <1>8, <1>9, <1>10, <1>12
<1> QED
  BY <1>13 DEF X, d

LEMMA DrawsUnbiased == RInv => UnbiasedDraws
<1> SUFFICES ASSUME RInv, branch \in {"direct", "collect", "directAll"}, reRounds > 0,
                    MasksHold \/ FromAll, NEW v \in Items, NEW w \in Worths
             PROVE  /\ pc = "draw" => Times(Whole(reRounds), MeanDraw(v, w)) = Exact(v, w)
                    /\ pc = "done" =>
                          Times(Gamma0, Gathered(v, w)) =
                             SumOf([p \in Pairs |-> Times(Whole(drawn[p]), DrawAdds(v, w, p))], Pairs)
  BY DEF UnbiasedDraws
<1>1. /\ Inputs /\ MasksFit /\ reRounds \in Nat \ {0}
      /\ pc \notin {"start", "filter"} => (~ FromAll => KeptTo(Dvq))
      /\ uses \in [Items -> [Pairs -> Nat]] /\ drawn \in [Pairs -> Nat]
  BY InputFacts DEF RInv, RTypes, AllKept
<1>2. Drawees \in Nat
  <2>1. Dvq \in Nat /\ Len(Uvalid) \in Nat
    BY <1>1, WidthFacts DEF MasksFit
  <2> QED
    BY <2>1 DEF Drawees
<1> DEFINE N == Drawees * (Drawees - 1)
<1>3. N \in Nat
  <2>1. CASE Drawees = 0
    BY <2>1
  <2>2. CASE Drawees # 0
    <3>1. Drawees - 1 \in Nat
      BY <1>2, <2>2
    <3> QED
      BY <1>2, <3>1
  <2> QED
    BY <2>1, <2>2
<1>4. Gamma0 \in Fraction
  <2>1. 2 * reRounds \in Nat \ {0} /\ N \in Int
    BY <1>1, <1>3
  <2> HIDE DEF N
  <2>2. Frac(N, 2 * reRounds) \in Fraction
    BY <2>1, FracFacts
  <2> QED
    BY <2>2 DEF Gamma0, N
<1>5. ASSUME pc = "draw" PROVE Times(Whole(reRounds), MeanDraw(v, w)) = Exact(v, w)
  <2>1. Drawees >= 2
    BY <1>5, WidthFacts DEF RInv, InDraw, Drawees
  <2>2. N \in Nat \ {0}
    BY <1>2, <1>3, <2>1, Z3
  <2>3. /\ Exact(v, w) \in Fraction
        /\ SumOf(AllDraws(v, w), IndexPairs) =
              Plus(Times(Exact(v, w), Gamma0), Times(Exact(v, w), Gamma0))
    BY <1>1, <1>2, <1>4, <1>5, DrawsOver
  <2>4. Cardinality(IndexPairs) = N
    BY <1>2, IndexPairsCount
  <2>5. MeanDraw(v, w) = DividedBy(SumOf(AllDraws(v, w), IndexPairs), N)
    BY <2>4 DEF MeanDraw, AllDraws
  <2>6. Gamma0 = Frac(N, 2 * reRounds)
    BY DEF Gamma0
  <2> HIDE DEF N
  <2>7. Times(Whole(reRounds),
              DividedBy(Plus(Times(Exact(v, w), Gamma0), Times(Exact(v, w), Gamma0)), N))
           = Exact(v, w)
    BY <1>1, <2>2, <2>3, <2>6, MeanTwice
  <2> QED
    BY <2>3, <2>5, <2>7
<1>6. ASSUME pc = "done"
      PROVE  Times(Gamma0, Gathered(v, w)) =
                SumOf([p \in Pairs |-> Times(Whole(drawn[p]), DrawAdds(v, w, p))], Pairs)
  <2> DEFINE f == [p \in Pairs |-> Times(Whole(uses[v][p]), w[p])]
             h == [p \in Pairs |-> Times(Whole(drawn[p]), DrawAdds(v, w, p))]
  <2>1. \A p \in Pairs : uses[v][p] = IF v \in Shared(p) THEN drawn[p] ELSE 0
    BY <1>6 DEF RInv, InDone, Counts
  <2>2. ASSUME NEW p \in Pairs PROVE f[p] \in Fraction /\ h[p] = Times(f[p], Gamma0)
    <3>1. w[p] \in Fraction /\ drawn[p] \in Nat
      BY <1>1 DEF Worths
    <3>2. Whole(0) \in Fraction /\ Whole(drawn[p]) \in Fraction
      BY <3>1, FracOne
    <3>3. CASE v \in Shared(p)
      <4>1. f[p] = Times(Whole(drawn[p]), w[p]) /\ f[p] \in Fraction
        BY <2>1, <3>1, <3>2, <3>3, TimesFacts
      <4>2. h[p] = Times(Whole(drawn[p]), Times(Gamma0, w[p]))
        BY <3>3 DEF DrawAdds
      <4>3. /\ Times(Whole(drawn[p]), Times(Gamma0, w[p]))
                  = Times(Times(Gamma0, w[p]), Whole(drawn[p]))
            /\ Times(Gamma0, w[p]) = Times(w[p], Gamma0)
        BY <1>4, <3>1, <3>2, TimesFacts
      <4>4. Times(Times(w[p], Gamma0), Whole(drawn[p]))
               = Times(Times(w[p], Whole(drawn[p])), Gamma0)
        BY <1>4, <3>1, <3>2, TimesFour
      <4>5. Times(w[p], Whole(drawn[p])) = Times(Whole(drawn[p]), w[p])
        BY <3>1, <3>2, TimesFacts
      <4> QED
        BY <4>1, <4>2, <4>3, <4>4, <4>5
    <3>4. CASE v \notin Shared(p)
      <4>1. f[p] = Times(Whole(0), w[p]) /\ h[p] = Times(Whole(drawn[p]), Whole(0))
        BY <2>1, <3>4 DEF DrawAdds
      <4>2. \A y \in Fraction : Times(Whole(0), y) = Whole(0) /\ Times(y, Whole(0)) = Whole(0)
        BY <3>2, TimesFacts
      <4> QED
        BY <1>4, <3>1, <3>2, <4>1, <4>2
    <3> QED
      BY <3>3, <3>4
  <2> HIDE DEF f, h
  <2>3. SumOf(h, Pairs) = Times(SumOf(f, Pairs), Gamma0) /\ SumOf(f, Pairs) \in Fraction
    BY <1>4, <2>2, PairsFinite, SumMultiple, SumStep
  <2>4. Times(SumOf(f, Pairs), Gamma0) = Times(Gamma0, SumOf(f, Pairs))
    BY <1>4, <2>3, TimesFacts
  <2> QED
    BY <2>3, <2>4 DEF f, h, Gathered
<1> QED
  BY <1>5, <1>6

\* Without draws, and with a list no longer than a mask, the refined scores are the
\* definition of the score, whatever a pair is worth: the sum over the pairs of users that
\* have both items.
THEOREM RefinedScoresExact == Spec => []RefinedScores
BY RefineInductive, ScoresExact, PTL

\* Draws are right in the mean: over the pairs of indices that can be drawn, reRounds
\* draws with the scale gamma0 come to the exact score, whether the pairs are drawn from
\* the users kept or from all; and the score of a run is what its draws are worth.
THEOREM RefinedUnbiased == Spec => []UnbiasedDraws
BY RefineInductive, DrawsUnbiased, PTL
=============================================================================
