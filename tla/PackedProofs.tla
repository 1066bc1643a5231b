---------------------------- MODULE PackedProofs ----------------------------
(***************************************************************************)
(* Packed lists, for every set of them.  The two intersection kernels:     *)
(* what one returns is the packed form of the common items, what the other *)
(* returns is their number.  The build: the pool holds every user's        *)
(* neighbours as a packed list of its own, and the hash maps are filled    *)
(* with them, for any users, lists, renumbering and TruncNum.  Together:   *)
(* what the kernels return of two users' lists in the pool.                *)
(***************************************************************************)
EXTENDS BlockIntersect, BlockCount, PackedGraph, FiniteSetTheorems, SequenceTheorems, TLAPS

-----------------------------------------------------------------------------
(* Packed lists and the byte filter, for any two blocks.                     *)

\* A base is a natural number.
LEMMA BasesAreNaturals == Base \subseteq Nat
BY SMT DEF Base

\* Four bytes determine a base: comparing all of them is comparing the bases.
LEMMA BytesDetermineBase ==
    ASSUME NEW x \in Base, NEW y \in Base,
           \A d \in 0..3 : Byte(x, d) = Byte(y, d)
    PROVE  x = y
<1>1. \A z : /\ Byte(z, 0) = z % 256
            /\ Byte(z, 1) = (z \div 256) % 256
            /\ Byte(z, 2) = (z \div 65536) % 256
            /\ Byte(z, 3) = z \div 16777216
  BY SMT DEF Byte
<1>2. x \in Nat /\ y \in Nat
  BY BasesAreNaturals
<1>3. /\ x % 256 = y % 256
      /\ (x \div 256) % 256 = (y \div 256) % 256
      /\ (x \div 65536) % 256 = (y \div 65536) % 256
      /\ x \div 16777216 = y \div 16777216
  BY <1>1, SMT
<1> QED
  BY <1>2, <1>3, SMT

\* A block is four slots, with pairwise different bases.
IsBlock(B) ==
    /\ B \in [Lane -> Slot]
    /\ \A p, q \in Lane : B[p].base = B[q].base => p = q

\* After the fourth byte every lane has at most one candidate.
LEMMA FourBytesDecide ==
    ASSUME NEW A, IsBlock(A), NEW B, IsBlock(B)
    PROVE  ~ IsMultiMatch(ByteMask(A, B, 3))
<1> SUFFICES ASSUME NEW p \in Lane, NEW q \in Lane, NEW r \in Lane,
                    <<p, q>> \in ByteMask(A, B, 3), <<p, r>> \in ByteMask(A, B, 3)
             PROVE  q = r
  BY DEF IsMultiMatch
<1>1. \A d \in 0..3 : Byte(A[p].base, d) = Byte(B[q].base, d)
  BY DEF ByteMask
<1>2. \A d \in 0..3 : Byte(A[p].base, d) = Byte(B[r].base, d)
  BY DEF ByteMask
<1>3. B[q].base \in Base /\ B[r].base \in Base
  BY DEF IsBlock, Slot
<1>4. B[q].base = B[r].base
  BY <1>1, <1>2, <1>3, BytesDetermineBase
<1> QED
  BY <1>4 DEF IsBlock

\* The byte after which the filter stops exists.
LEMMA LastByteExists ==
    ASSUME NEW A, NEW B
    PROVE  /\ LastByte(A, B) \in 0..3
           /\ LastByte(A, B) < 3 => ~ IsMultiMatch(ByteMask(A, B, LastByte(A, B)))
<1> DEFINE M(d) == IsMultiMatch(ByteMask(A, B, d))
           Stops(d) == /\ \A e \in 0..(d - 1) : M(e)
                       /\ d < 3 => ~ M(d)
<1>1. \E d \in 0..3 : Stops(d)
  <2> HIDE DEF M
  <2>1. CASE ~ M(0)
    BY <2>1
  <2>2. CASE M(0) /\ ~ M(1)
    BY <2>2
  <2>3. CASE M(0) /\ M(1) /\ ~ M(2)
    BY <2>3
  <2>4. CASE M(0) /\ M(1) /\ M(2)
    BY <2>4
  <2> QED
    BY <2>1, <2>2, <2>3, <2>4
<1>2. LastByte(A, B) = CHOOSE d \in 0..3 : Stops(d)
  BY DEF LastByte
<1> QED
  BY <1>1, <1>2

\* The candidates the filter ends with are unique, and every pair of equal bases
\* is among them.
LEMMA FilterMaskFacts ==
    ASSUME NEW A, IsBlock(A), NEW B, IsBlock(B)
    PROVE  /\ FilterMask(A, B) \subseteq Lane \X Lane
           /\ ~ IsMultiMatch(FilterMask(A, B))
           /\ \A p, q \in Lane : A[p].base = B[q].base => <<p, q>> \in FilterMask(A, B)
<1> DEFINE d == LastByte(A, B)
<1>1. /\ d \in 0..3
      /\ d < 3 => ~ IsMultiMatch(ByteMask(A, B, d))
  BY LastByteExists
<1>2. ~ IsMultiMatch(ByteMask(A, B, 3))
  BY FourBytesDecide
<1>3. FilterMask(A, B) = ByteMask(A, B, d)
  BY DEF FilterMask
<1> HIDE DEF d
<1>4. d < 3 \/ d = 3
  BY <1>1
<1>5. ~ IsMultiMatch(FilterMask(A, B))
  BY <1>1, <1>2, <1>3, <1>4
<1>6. FilterMask(A, B) \subseteq Lane \X Lane
  BY <1>3 DEF ByteMask
<1>7. ASSUME NEW p \in Lane, NEW q \in Lane, A[p].base = B[q].base
      PROVE  <<p, q>> \in FilterMask(A, B)
  BY <1>3, <1>7 DEF ByteMask
<1> QED
  BY <1>5, <1>6, <1>7

\* With unique candidates the gather puts the equal base, if there is one, into
\* its lane of A.
LEMMA GatherFacts ==
    ASSUME NEW A, IsBlock(A), NEW B, IsBlock(B),
           NEW mask, mask = FilterMask(A, B), NEW p \in Lane
    PROVE  /\ MatchOrder(mask)[p] \in Lane
           /\ Gather(mask, B)[p] = B[MatchOrder(mask)[p]]
           /\ \A q \in Lane : A[p].base = B[q].base => MatchOrder(mask)[p] = q
<1>1. MatchOrder(mask)[p] = IF \E q \in Lane : <<p, q>> \in mask
                            THEN CHOOSE q \in Lane : <<p, q>> \in mask
                            ELSE p
  BY DEF MatchOrder
<1>2. MatchOrder(mask)[p] \in Lane
  BY <1>1
<1>3. Gather(mask, B)[p] = B[MatchOrder(mask)[p]]
  BY DEF Gather
<1>4. ASSUME NEW q \in Lane, A[p].base = B[q].base
      PROVE  MatchOrder(mask)[p] = q
  <2>1. <<p, q>> \in mask /\ ~ IsMultiMatch(mask)
    BY <1>4, FilterMaskFacts
  <2>2. <<p, MatchOrder(mask)[p]>> \in mask
    BY <1>1, <2>1
  <2> QED
    BY <1>2, <2>1, <2>2 DEF IsMultiMatch
<1> QED
  BY <1>2, <1>3, <1>4

\* The lanes that survive are those with an equal base and a common bit
\* somewhere in the other block, whatever lane it is in.
LEMMA HitLanesFacts ==
    ASSUME NEW A, IsBlock(A), NEW B, IsBlock(B)
    PROVE  LET G == Gather(FilterMask(A, B), B)
           IN  /\ \A p \in HitLanes(A, G) :
                      \E q \in Lane : /\ G[p] = B[q]
                                      /\ A[p].base = B[q].base
                                      /\ A[p].state \cap B[q].state # {}
               /\ \A p, q \in Lane :
                      A[p].base = B[q].base /\ A[p].state \cap B[q].state # {} =>
                          p \in HitLanes(A, G) /\ G[p] = B[q]
<1> DEFINE mask == FilterMask(A, B)
           G == Gather(mask, B)
<1>1. \A p \in Lane :
         /\ MatchOrder(mask)[p] \in Lane
         /\ G[p] = B[MatchOrder(mask)[p]]
         /\ \A q \in Lane : A[p].base = B[q].base => MatchOrder(mask)[p] = q
  BY GatherFacts
<1> HIDE DEF mask, G
<1>2. \A p \in HitLanes(A, G) :
         \E q \in Lane : /\ G[p] = B[q]
                         /\ A[p].base = B[q].base
                         /\ A[p].state \cap B[q].state # {}
  BY <1>1 DEF HitLanes
<1>3. \A p, q \in Lane :
         A[p].base = B[q].base /\ A[p].state \cap B[q].state # {} =>
             p \in HitLanes(A, G) /\ G[p] = B[q]
  BY <1>1 DEF HitLanes
<1> QED
  BY <1>2, <1>3 DEF mask, G

\* The block of a packed list at a position with four slots left is a block.
LEMMA BlockOfPacked ==
    ASSUME NEW list \in Seq(Slot), IsPacked(list),
           NEW n \in Nat, n + 4 <= Len(list)
    PROVE  IsBlock(Block(list, n))
<1>1. \A p \in Lane : n + p \in 1..Len(list)
  BY DEF Lane
<1>2. Block(list, n) \in [Lane -> Slot]
  BY <1>1 DEF Block
<1>3. ASSUME NEW p \in Lane, NEW q \in Lane,
             Block(list, n)[p].base = Block(list, n)[q].base
      PROVE  p = q
  <2>1. list[n + p].base = list[n + q].base
    BY <1>3 DEF Block
  <2>2. list[n + p].base \in Nat /\ list[n + q].base \in Nat
    <3>1. list[n + p] \in Slot /\ list[n + q] \in Slot
      BY <1>1
    <3> QED
      BY <3>1, BasesAreNaturals DEF Slot
  <2>3. p \in Int /\ q \in Int
    BY DEF Lane
  <2>4. CASE p < q
    BY <1>1, <2>1, <2>2, <2>3, <2>4 DEF IsPacked
  <2>5. CASE q < p
    BY <1>1, <2>1, <2>2, <2>3, <2>5 DEF IsPacked
  <2> QED
    BY <2>3, <2>4, <2>5
<1> QED
  BY <1>2, <1>3 DEF IsBlock

\* A block boundary in front of the last whole block has four slots behind it.
LEMMA WholeBlockFits ==
    ASSUME NEW list \in Seq(Slot), NEW n \in Nat,
           n % 4 = 0, n < WholeBlocks(list)
    PROVE  n + 4 <= Len(list) /\ (n + 4) % 4 = 0
<1>1. Len(list) \in Nat
  OBVIOUS
<1> QED
  BY <1>1, SMT DEF WholeBlocks

\* How far the loop over s is after the block behind k, if it is at l in t.
PastBlock(s, k, t, l) == IF s[k + 4].base <= t[l + 4].base THEN k + 4 ELSE k

\* The vector loops move on past the block with the smaller last base, past both when
\* the last bases are equal: then every pair of slots of the two blocks has one behind
\* the loop, and the pairs with equal bases that get behind are of the two blocks.
LEMMA BlockStep ==
    ASSUME NEW s \in Seq(Slot), IsPacked(s), NEW t \in Seq(Slot), IsPacked(t),
           NEW k \in Nat, k % 4 = 0, k < WholeBlocks(s),
           NEW l \in Nat, l % 4 = 0, l < WholeBlocks(t)
    PROVE  LET m == PastBlock(s, k, t, l)
               n == PastBlock(t, l, s, k)
           IN  /\ m \in Nat /\ n \in Nat /\ k <= m /\ l <= n
               /\ m <= Len(s) /\ n <= Len(t) /\ m % 4 = 0 /\ n % 4 = 0
               /\ \A p \in 1..Len(s), q \in 1..Len(t) :
                     /\ ~ (p <= k \/ q <= l) /\ (p <= m \/ q <= n)
                     /\ s[p].base = t[q].base
                     => p - k \in Lane /\ q - l \in Lane
               /\ \A p, q \in Lane : /\ ~ (k + p <= k \/ l + q <= l)
                                     /\ k + p <= m \/ l + q <= n
<1> DEFINE sMax == s[k + 4].base
           tMax == t[l + 4].base
           m == PastBlock(s, k, t, l)
           n == PastBlock(t, l, s, k)
<1>1. /\ k + 4 <= Len(s) /\ (k + 4) % 4 = 0
      /\ l + 4 <= Len(t) /\ (l + 4) % 4 = 0
  BY WholeBlockFits
<1>2. Len(s) \in Nat /\ Len(t) \in Nat /\ k + 4 \in 1..Len(s) /\ l + 4 \in 1..Len(t)
  BY <1>1
<1>3. \A x \in Slot : x.base \in Nat
  BY BasesAreNaturals DEF Slot
<1>4. \A p, r \in 1..Len(s) : (p < r => s[p].base < s[r].base) /\ s[p].base \in Nat
  BY <1>3 DEF IsPacked
<1>5. \A q, r \in 1..Len(t) : (q < r => t[q].base < t[r].base) /\ t[q].base \in Nat
  BY <1>3 DEF IsPacked
<1>6. sMax \in Nat /\ tMax \in Nat
  BY <1>2, <1>4, <1>5
<1>7. /\ \A p \in 1..Len(s) : p > k + 4 => sMax < s[p].base
      /\ \A p \in 1..Len(s) : p <= k + 4 => s[p].base <= sMax
      /\ \A q \in 1..Len(t) : q > l + 4 => tMax < t[q].base
      /\ \A q \in 1..Len(t) : q <= l + 4 => t[q].base <= tMax
  <2>1. \A p \in 1..Len(s) : /\ p > k + 4 => sMax < s[p].base
                             /\ p <= k + 4 => s[p].base <= sMax
    <3> TAKE p \in 1..Len(s)
    <3>1. p \in Int /\ (p < k + 4 \/ p = k + 4 \/ p > k + 4)
      BY <1>2
    <3> QED
      BY <1>2, <1>4, <3>1
  <2>2. \A q \in 1..Len(t) : /\ q > l + 4 => tMax < t[q].base
                             /\ q <= l + 4 => t[q].base <= tMax
    <3> TAKE q \in 1..Len(t)
    <3>1. q \in Int /\ (q < l + 4 \/ q = l + 4 \/ q > l + 4)
      BY <1>2
    <3> QED
      BY <1>2, <1>5, <3>1
  <2> QED
    BY <2>1, <2>2
<1>8. /\ m = IF sMax <= tMax THEN k + 4 ELSE k
      /\ n = IF tMax <= sMax THEN l + 4 ELSE l
  BY DEF PastBlock
<1> HIDE DEF sMax, tMax, m, n
<1>9. /\ m \in Nat /\ n \in Nat /\ k <= m /\ l <= n
      /\ m <= Len(s) /\ n <= Len(t) /\ m % 4 = 0 /\ n % 4 = 0
      /\ m = k + 4 \/ n = l + 4
  BY <1>1, <1>2, <1>6, <1>8
<1>10. ASSUME NEW p \in 1..Len(s), NEW q \in 1..Len(t),
              ~ (p <= k \/ q <= l), p <= m \/ q <= n, s[p].base = t[q].base
       PROVE  p - k \in Lane /\ q - l \in Lane
  <2>1. p \in Int /\ q \in Int /\ p > k /\ q > l
    BY <1>2, <1>10
  <2>2. p <= k + 4
    <3>1. CASE p <= m
      BY <1>8, <2>1, <3>1
    <3>2. CASE ~ (p <= m) /\ q <= n
      <4>1. tMax <= sMax /\ q <= l + 4
        BY <1>8, <2>1, <3>2
      <4>2. t[q].base <= tMax
        BY <1>7, <4>1
      <4> QED
        BY <1>4, <1>5, <1>6, <1>7, <1>10, <2>1, <4>1, <4>2
    <3> QED
      BY <1>10, <3>1, <3>2
  <2>3. q <= l + 4
    <3>1. CASE q <= n
      BY <1>8, <2>1, <3>1
    <3>2. CASE ~ (q <= n) /\ p <= m
      <4>1. sMax <= tMax /\ p <= k + 4
        BY <1>8, <2>1, <3>2
      <4>2. s[p].base <= sMax
        BY <1>7, <4>1
      <4> QED
        BY <1>4, <1>5, <1>6, <1>7, <1>10, <2>1, <4>1, <4>2
    <3> QED
      BY <1>10, <3>1, <3>2
  <2> QED
    BY <2>1, <2>2, <2>3 DEF Lane
<1>11. \A p, q \in Lane : /\ ~ (k + p <= k \/ l + q <= l)
                          /\ k + p <= m \/ l + q <= n
  BY <1>9 DEF Lane
<1> QED
  BY <1>9, <1>10, <1>11 DEF m, n

\* Equal items of two packed lists come from slots with equal bases.
LEMMA ItemDetermines ==
    ASSUME NEW x \in Nat, NEW y \in Nat, NEW c \in Bit, NEW d \in Bit,
           x * PackWidth + c = y * PackWidth + d
    PROVE  x = y /\ c = d
BY DEF PackWidth, Bit

-----------------------------------------------------------------------------
(* The storing kernel.                                                      *)

\* The loops are left only when one of the lists is used up.
DoneAtEnd == pc = "done" => ~ InTail

IInv == TypeOK /\ OutSound /\ OutComplete /\ OutPacked /\ DoneAtEnd

\* What TypeOK says of the two arguments, in the form the provers need.
LEMMA ArgumentsPacked ==
    ASSUME TypeOK
    PROVE  /\ a \in Seq(Slot) /\ IsPacked(a)
           /\ b \in Seq(Slot) /\ IsPacked(b)
           /\ Len(a) \in Nat /\ Len(b) \in Nat
           /\ \A p \in 1..Len(a) : a[p] \in Slot /\ a[p].base \in Nat
           /\ \A q \in 1..Len(b) : b[q] \in Slot /\ b[q].base \in Nat
<1>1. /\ a \in Seq(Slot) /\ IsPacked(a)
      /\ b \in Seq(Slot) /\ IsPacked(b)
  BY DEF TypeOK, ScanOK
<1>2. \A s \in Slot : s.base \in Nat
  BY BasesAreNaturals DEF Slot
<1> QED
  BY <1>1, <1>2

\* A pair that is behind comes before a pair that is not, in one of the lists.
LEMMA BehindComesFirst ==
    ASSUME NEW m \in Nat, NEW n \in Nat,
           NEW p \in Int, NEW q \in Int, NEW r \in Int, NEW t \in Int,
           p <= m \/ q <= n, ~ (r <= m), ~ (t <= n)
    PROVE  p < r \/ q < t
OBVIOUS

\* What a step has to do to the output for the invariant to survive: append, in
\* ascending order, the matching pairs that fall behind in that step, and only
\* those.
LEMMA ExtendOut ==
    ASSUME TypeOK, OutSound, OutComplete, OutPacked,
           a' = a, b' = b,
           i' \in Nat, j' \in Nat, i <= i', j <= j',
           NEW new \in Seq(Slot), out' = out \o new,
           \A k \in 1..Len(new) : \E p \in 1..Len(a), q \in 1..Len(b) :
               /\ ~ Behind(p, q) /\ (p <= i' \/ q <= j')
               /\ Match(p, q) /\ new[k] = Common(p, q),
           \A p \in 1..Len(a), q \in 1..Len(b) :
               /\ ~ Behind(p, q) /\ (p <= i' \/ q <= j')
               /\ Match(p, q)
               => \E k \in 1..Len(new) : new[k] = Common(p, q),
           \A k, l \in 1..Len(new) : k < l => new[k].base < new[l].base
    PROVE  OutSound' /\ OutComplete' /\ OutPacked' /\ out' \in Seq(Slot)
<1>1. /\ i \in Nat /\ j \in Nat
      /\ out \in Seq(Slot) /\ Len(out) \in Nat /\ Len(new) \in Nat
  BY DEF TypeOK, ScanOK
<1>2. /\ out' \in Seq(Slot)
      /\ Len(out') = Len(out) + Len(new)
      /\ \A k \in 1..Len(out) : out'[k] = out[k]
      /\ \A k \in 1..Len(new) : out'[Len(out) + k] = new[k]
  <2>1. /\ out \o new \in Seq(Slot)
        /\ Len(out \o new) = Len(out) + Len(new)
        /\ \A k \in 1..(Len(out) + Len(new)) :
              (out \o new)[k] = IF k <= Len(out) THEN out[k] ELSE new[k - Len(out)]
    BY <1>1, ConcatProperties
  <2>2. \A k \in 1..Len(out) : (out \o new)[k] = out[k]
    BY <1>1, <2>1
  <2>3. \A k \in 1..Len(new) : (out \o new)[Len(out) + k] = new[k]
    <3> TAKE k \in 1..Len(new)
    <3>1. /\ Len(out) + k \in 1..(Len(out) + Len(new))
          /\ ~ (Len(out) + k <= Len(out)) /\ Len(out) + k - Len(out) = k
      BY <1>1
    <3> QED
      BY <2>1, <3>1
  <2> QED
    BY <2>1, <2>2, <2>3
<1>3. \A k \in 1..Len(out') :
         k \in 1..Len(out) \/ \E l \in 1..Len(new) : k = Len(out) + l
  <2> SUFFICES ASSUME NEW k \in 1..Len(out'), k \notin 1..Len(out)
               PROVE  \E l \in 1..Len(new) : k = Len(out) + l
    OBVIOUS
  <2>1. k - Len(out) \in 1..Len(new) /\ k = Len(out) + (k - Len(out))
    BY <1>1, <1>2
  <2> QED
    BY <2>1
<1>4. \A p \in 1..Len(a), q \in 1..Len(b) :
         Behind(p, q) => p <= i' \/ q <= j'
  BY <1>1 DEF Behind
<1>5. \A k \in 1..Len(out') : \E p \in 1..Len(a), q \in 1..Len(b) :
         (p <= i' \/ q <= j') /\ Match(p, q) /\ out'[k] = Common(p, q)
  <2> SUFFICES ASSUME NEW k \in 1..Len(out')
               PROVE  \E p \in 1..Len(a), q \in 1..Len(b) :
                          (p <= i' \/ q <= j') /\ Match(p, q) /\ out'[k] = Common(p, q)
    OBVIOUS
  <2>1. CASE k \in 1..Len(out)
    BY <1>2, <1>4, <2>1 DEF OutSound
  <2>2. CASE \E l \in 1..Len(new) : k = Len(out) + l
    BY <1>2, <1>4, <2>2
  <2> QED
    BY <1>3, <2>1, <2>2
<1>6. ASSUME NEW p \in 1..Len(a), NEW q \in 1..Len(b),
             p <= i' \/ q <= j', Match(p, q)
      PROVE  \E k \in 1..Len(out') : out'[k] = Common(p, q)
  <2>1. CASE Behind(p, q)
    <3>1. PICK k \in 1..Len(out) : out[k] = Common(p, q)
      BY <1>6, <2>1 DEF OutComplete
    <3>2. k \in 1..Len(out')
      BY <1>1, <1>2
    <3> QED
      BY <1>2, <3>1, <3>2
  <2>2. CASE ~ Behind(p, q)
    <3>1. PICK k \in 1..Len(new) : new[k] = Common(p, q)
      BY <1>6, <2>2
    <3>2. Len(out) + k \in 1..Len(out')
      BY <1>1, <1>2
    <3> QED
      BY <1>2, <3>1, <3>2
  <2> QED
    BY <2>1, <2>2
<1>7. OutPacked'
  <2>1. \A k \in 1..Len(out') : out'[k] \in Slot
    BY <1>2
  <2>2. \A k \in 1..Len(out') : out'[k].state # {}
    <3> TAKE k \in 1..Len(out')
    <3>1. PICK p \in 1..Len(a), q \in 1..Len(b) :
             Match(p, q) /\ out'[k] = Common(p, q)
      BY <1>5
    <3> QED
      BY <3>1 DEF Match, Common
  <2>3. ASSUME NEW k \in 1..Len(out), NEW l \in 1..Len(new)
        PROVE  out[k].base < new[l].base
    <3>1. PICK p \in 1..Len(a), q \in 1..Len(b) :
             Behind(p, q) /\ Match(p, q) /\ out[k] = Common(p, q)
      BY DEF OutSound
    <3>2. PICK r \in 1..Len(a), t \in 1..Len(b) :
             ~ Behind(r, t) /\ Match(r, t) /\ new[l] = Common(r, t)
      OBVIOUS
    <3>3. /\ out[k].base = a[p].base /\ out[k].base = b[q].base
          /\ new[l].base = a[r].base /\ new[l].base = b[t].base
      BY <3>1, <3>2 DEF Match, Common
    <3>4. p < r \/ q < t
      <4>1. (p <= i \/ q <= j) /\ ~ (r <= i) /\ ~ (t <= j)
        BY <3>1, <3>2 DEF Behind
      <4>2. p \in Int /\ q \in Int /\ r \in Int /\ t \in Int
        OBVIOUS
      <4> QED
        BY <1>1, <4>1, <4>2, BehindComesFirst
    <3> QED
      BY <3>3, <3>4, ArgumentsPacked DEF IsPacked
  <2>4. ASSUME NEW k \in 1..Len(out'), NEW l \in 1..Len(out'), k < l
        PROVE  out'[k].base < out'[l].base
    <3>1. CASE l \in 1..Len(out)
      <4>1. k \in 1..Len(out)
        BY <1>1, <2>4, <3>1
      <4> QED
        BY <1>2, <2>4, <3>1, <4>1 DEF OutPacked, IsPacked
    <3>2. CASE k \in 1..Len(out) /\ \E m \in 1..Len(new) : l = Len(out) + m
      BY <1>2, <2>3, <3>2
    <3>3. CASE /\ \E m \in 1..Len(new) : k = Len(out) + m
               /\ \E m \in 1..Len(new) : l = Len(out) + m
      <4>1. PICK m \in 1..Len(new), n \in 1..Len(new) :
               k = Len(out) + m /\ l = Len(out) + n
        BY <3>3
      <4>2. m < n
        BY <1>1, <2>4, <4>1
      <4> QED
        BY <1>2, <4>1, <4>2
    <3> QED
      BY <1>3, <3>1, <3>2, <3>3
  <2> QED
    BY <2>1, <2>2, <2>4 DEF OutPacked, IsPacked
<1>8. OutSound'
  <2>1. OutSound' <=>
           \A k \in 1..Len(out') : \E p \in 1..Len(a), q \in 1..Len(b) :
               (p <= i' \/ q <= j') /\ Match(p, q) /\ out'[k] = Common(p, q)
    BY DEF OutSound, Behind, Match, Common
  <2> QED
    BY <1>5, <2>1
<1>9. OutComplete'
  <2>1. OutComplete' <=>
           \A p \in 1..Len(a), q \in 1..Len(b) :
               (p <= i' \/ q <= j') /\ Match(p, q) =>
                   \E k \in 1..Len(out') : out'[k] = Common(p, q)
    BY DEF OutComplete, Behind, Match, Common
  <2> QED
    BY <1>6, <2>1
<1> QED
  BY <1>2, <1>7, <1>8, <1>9

\* In the vector loop both blocks lie inside their lists.
LEMMA BlocksFit ==
    ASSUME TypeOK, pc = "block", InBlocks
    PROVE  /\ i \in Nat /\ i + 4 <= Len(a) /\ (i + 4) % 4 = 0
           /\ j \in Nat /\ j + 4 <= Len(b) /\ (j + 4) % 4 = 0
           /\ IsBlock(Block(a, i)) /\ IsBlock(Block(b, j))
<1>1. i \in Nat /\ i % 4 = 0 /\ j \in Nat /\ j % 4 = 0
  BY DEF TypeOK, ScanOK
<1>2. i + 4 <= Len(a) /\ (i + 4) % 4 = 0
  BY <1>1, ArgumentsPacked, WholeBlockFits DEF InBlocks
<1>3. j + 4 <= Len(b) /\ (j + 4) % 4 = 0
  BY <1>1, ArgumentsPacked, WholeBlockFits DEF InBlocks
<1> QED
  BY <1>1, <1>2, <1>3, ArgumentsPacked, BlockOfPacked

\* Dropping the block with the smaller last base loses no match: whatever equal
\* bases fall behind lie in the two blocks that were just compared.
LEMMA AdvanceDropsTheBlock ==
    ASSUME TypeOK, pc = "block", InBlocks, AdvanceBlock
    PROVE  /\ i' \in Nat /\ j' \in Nat /\ i <= i' /\ j <= j'
           /\ i' <= Len(a) /\ j' <= Len(b) /\ i' % 4 = 0 /\ j' % 4 = 0
           /\ \A p \in 1..Len(a), q \in 1..Len(b) :
                 /\ ~ Behind(p, q) /\ (p <= i' \/ q <= j')
                 /\ a[p].base = b[q].base
                 => p - i \in Lane /\ q - j \in Lane
           /\ \A p, q \in Lane : /\ ~ Behind(i + p, j + q)
                                 /\ i + p <= i' \/ j + q <= j'
<1>1. /\ a \in Seq(Slot) /\ IsPacked(a) /\ b \in Seq(Slot) /\ IsPacked(b)
      /\ i \in Nat /\ i % 4 = 0 /\ i < WholeBlocks(a)
      /\ j \in Nat /\ j % 4 = 0 /\ j < WholeBlocks(b)
  BY ArgumentsPacked DEF TypeOK, ScanOK, InBlocks
<1> DEFINE m == PastBlock(a, i, b, j)
           n == PastBlock(b, j, a, i)
<1>2. i' = m /\ j' = n
  BY DEF AdvanceBlock, PastBlock
<1>3. /\ m \in Nat /\ n \in Nat /\ i <= m /\ j <= n
      /\ m <= Len(a) /\ n <= Len(b) /\ m % 4 = 0 /\ n % 4 = 0
      /\ \A p \in 1..Len(a), q \in 1..Len(b) :
            /\ ~ (p <= i \/ q <= j) /\ (p <= m \/ q <= n)
            /\ a[p].base = b[q].base
            => p - i \in Lane /\ q - j \in Lane
      /\ \A p, q \in Lane : /\ ~ (i + p <= i \/ j + q <= j)
                            /\ i + p <= m \/ j + q <= n
  BY <1>1, BlockStep, Zenon
<1> HIDE DEF m, n
<1> QED
  BY <1>2, <1>3 DEF Behind

\* What every step has to establish.
StepGoal == TypeOK' /\ OutSound' /\ OutComplete' /\ OutPacked'

\* A block without candidates has no match, so nothing needs to be stored.
LEMMA SkipBlockStep ==
    ASSUME IInv, SkipBlock
    PROVE  StepGoal
<1> USE DEF IInv
<1> DEFINE A == Block(a, i)
           B == Block(b, j)
<1>1. /\ pc = "block" /\ InBlocks /\ AdvanceBlock
      /\ FilterMask(A, B) = {}
      /\ a' = a /\ b' = b /\ out' = out /\ pc' = pc
  BY DEF SkipBlock
<1>2. /\ i' \in Nat /\ j' \in Nat /\ i <= i' /\ j <= j'
      /\ i' <= Len(a) /\ j' <= Len(b) /\ i' % 4 = 0 /\ j' % 4 = 0
  BY <1>1, AdvanceDropsTheBlock
<1>3. ASSUME NEW p \in 1..Len(a), NEW q \in 1..Len(b),
             ~ Behind(p, q), p <= i' \/ q <= j', Match(p, q)
      PROVE  FALSE
  <2>1. a[p].base = b[q].base
    BY <1>3 DEF Match
  <2>2. p - i \in Lane /\ q - j \in Lane
    BY <1>1, <1>3, <2>1, AdvanceDropsTheBlock
  <2>3. i \in Nat /\ j \in Nat /\ p \in Int /\ q \in Int
    BY <1>1, BlocksFit
  <2>4. A[p - i] = a[p] /\ B[q - j] = b[q]
    BY <2>2, <2>3 DEF Block
  <2>5. <<p - i, q - j>> \in FilterMask(A, B)
    BY <1>1, <2>1, <2>2, <2>4, BlocksFit, FilterMaskFacts
  <2> QED
    BY <1>1, <2>5
<1>4. << >> \in Seq(Slot) /\ Len(<< >>) = 0 /\ out' = out \o << >>
  BY <1>1, ConcatEmptySeq DEF TypeOK, ScanOK
<1>5. OutSound' /\ OutComplete' /\ OutPacked' /\ out' \in Seq(Slot)
  <2>1. /\ \A k \in 1..Len(<< >>) : FALSE
    BY <1>4
  <2> HIDE DEF IInv
  <2> QED
    BY <1>1, <1>2, <1>3, <1>4, <2>1, ExtendOut DEF IInv
<1>6. TypeOK'
  <2>1. i' \in 0..Len(a) /\ j' \in 0..Len(b)
    BY <1>2, ArgumentsPacked
  <2> QED
    BY <1>1, <1>2, <1>5, <2>1 DEF TypeOK, ScanOK
<1> QED
  BY <1>5, <1>6 DEF StepGoal

\* The lanes that survive the filter and the full comparison are the matches of
\* the two blocks, and the store appends them in order.
LEMMA StoreBlockStep ==
    ASSUME IInv, StoreBlock
    PROVE  StepGoal
<1> DEFINE A == Block(a, i)
           B == Block(b, j)
           G == Gather(FilterMask(A, B), B)
           H == HitLanes(A, G)
           Stored(p) == [base |-> A[p].base, state |-> A[p].state \cap G[p].state]
<1>1. /\ pc = "block" /\ InBlocks /\ AdvanceBlock
      /\ a' = a /\ b' = b /\ pc' = pc
      /\ TypeOK /\ OutSound /\ OutComplete /\ OutPacked
  BY DEF StoreBlock, IInv
<1>a. PICK n \in 0..4 : \E s \in [1..n -> H] :
         /\ Compresses(s, H)
         /\ out' = out \o [k \in 1..n |-> Stored(s[k])]
  BY DEF StoreBlock
<1>2. PICK s \in [1..n -> H] :
         /\ Compresses(s, H)
         /\ out' = out \o [k \in 1..n |-> Stored(s[k])]
  BY <1>a
<1> DEFINE new == [k \in 1..n |-> Stored(s[k])]
<1>3. /\ i' \in Nat /\ j' \in Nat /\ i <= i' /\ j <= j'
      /\ i' <= Len(a) /\ j' <= Len(b) /\ i' % 4 = 0 /\ j' % 4 = 0
  BY <1>1, AdvanceDropsTheBlock
<1>4. /\ i \in Nat /\ i + 4 <= Len(a)
      /\ j \in Nat /\ j + 4 <= Len(b)
      /\ IsBlock(A) /\ IsBlock(B)
  BY <1>1, BlocksFit
<1>5. \A p \in Lane : /\ A[p] = a[i + p] /\ B[p] = b[j + p]
                     /\ i + p \in 1..Len(a) /\ j + p \in 1..Len(b)
  <2>1. Len(a) \in Nat /\ Len(b) \in Nat
    BY <1>1, ArgumentsPacked
  <2> QED
    BY <1>4, <2>1 DEF Block, Lane
<1>6. /\ \A p \in H : \E q \in Lane : /\ G[p] = B[q]
                                     /\ A[p].base = B[q].base
                                     /\ A[p].state \cap B[q].state # {}
      /\ \A p, q \in Lane :
            A[p].base = B[q].base /\ A[p].state \cap B[q].state # {} =>
                p \in H /\ G[p] = B[q]
  BY <1>4, HitLanesFacts
<1>7. H \subseteq Lane
  BY DEF HitLanes
<1> HIDE DEF A, B, G, H
<1>8. ASSUME NEW p \in H
      PROVE  \E q \in Lane : /\ Match(i + p, j + q)
                             /\ Stored(p) = Common(i + p, j + q)
  <2>1. PICK q \in Lane : /\ G[p] = B[q]
                         /\ A[p].base = B[q].base
                         /\ A[p].state \cap B[q].state # {}
    BY <1>6
  <2>2. A[p] = a[i + p] /\ B[q] = b[j + q]
    BY <1>5, <1>7
  <2> QED
    BY <2>1, <2>2 DEF Match, Common
<1>9. ASSUME NEW p \in Lane, NEW q \in Lane, Match(i + p, j + q)
      PROVE  p \in H /\ Stored(p) = Common(i + p, j + q)
  <2>1. A[p] = a[i + p] /\ B[q] = b[j + q]
    BY <1>5
  <2>2. A[p].base = B[q].base /\ A[p].state \cap B[q].state # {}
    BY ONLY <1>9, <2>1 DEF Match
  <2>3. p \in H /\ G[p] = B[q]
    BY ONLY <1>6, <1>9, <2>2
  <2>4. Stored(p) = Common(i + p, j + q)
    BY ONLY <2>1, <2>3 DEF Common
  <2> QED
    BY ONLY <2>3, <2>4
<1>10. \A p \in H : Stored(p) \in Slot
  <2> TAKE p \in H
  <2>1. A[p] \in Slot
    BY <1>4, <1>7 DEF IsBlock
  <2> QED
    BY <2>1 DEF Slot, State
<1>11. new \in Seq(Slot) /\ Len(new) = n
       /\ \A k \in 1..n : new[k] = Stored(s[k]) /\ s[k] \in H
  <2>1. \A k \in 1..n : s[k] \in H /\ Stored(s[k]) \in Slot
    BY <1>10
  <2>2. new \in [1..n -> Slot]
    BY <2>1
  <2> HIDE DEF Stored
  <2>3. \A k \in 1..n : new[k] = Stored(s[k]) /\ s[k] \in H
    BY <2>1
  <2> QED
    BY <2>2, <2>3, IsASeq
<1> HIDE DEF Stored
<1>12. \A k \in 1..Len(new) : \E p \in 1..Len(a), q \in 1..Len(b) :
          /\ ~ Behind(p, q) /\ (p <= i' \/ q <= j')
          /\ Match(p, q) /\ new[k] = Common(p, q)
  <2> TAKE k \in 1..Len(new)
  <2>1. new[k] = Stored(s[k]) /\ s[k] \in H /\ s[k] \in Lane
    BY <1>7, <1>11
  <2>2. PICK q \in Lane : /\ Match(i + s[k], j + q)
                         /\ Stored(s[k]) = Common(i + s[k], j + q)
    BY <1>8, <2>1
  <2>3. ~ Behind(i + s[k], j + q) /\ (i + s[k] <= i' \/ j + q <= j')
    BY <1>1, <2>1, AdvanceDropsTheBlock
  <2> QED
    BY <1>5, <2>1, <2>2, <2>3
<1>13. ASSUME NEW p \in 1..Len(a), NEW q \in 1..Len(b),
              ~ Behind(p, q), p <= i' \/ q <= j', Match(p, q)
       PROVE  \E k \in 1..Len(new) : new[k] = Common(p, q)
  <2>1. p - i \in Lane /\ q - j \in Lane
    BY <1>1, <1>13, AdvanceDropsTheBlock DEF Match
  <2>2. i + (p - i) = p /\ j + (q - j) = q
    BY <1>4
  <2>3. p - i \in H /\ Stored(p - i) = Common(p, q)
    BY <1>9, <1>13, <2>1, <2>2
  <2>4. PICK k \in 1..n : s[k] = p - i
    BY <1>2, <2>3 DEF Compresses
  <2> QED
    BY <1>11, <2>3, <2>4
<1>14. \A k, l \in 1..Len(new) : k < l => new[k].base < new[l].base
  <2> SUFFICES ASSUME NEW k \in 1..n, NEW l \in 1..n, k < l
               PROVE  new[k].base < new[l].base
    BY <1>11
  <2>1. s[k] < s[l] /\ s[k] \in Lane /\ s[l] \in Lane
    BY <1>2, <1>7, <1>11 DEF Compresses
  <2>2. new[k].base = a[i + s[k]].base /\ new[l].base = a[i + s[l]].base
    BY <1>5, <1>11, <2>1 DEF Stored
  <2>3. /\ i + s[k] \in 1..Len(a) /\ i + s[l] \in 1..Len(a)
        /\ i + s[k] < i + s[l]
    <3>1. i + s[k] \in 1..Len(a) /\ i + s[l] \in 1..Len(a)
      BY <1>5, <2>1
    <3>2. s[k] \in Int /\ s[l] \in Int
      BY <2>1 DEF Lane
    <3> QED
      BY <1>4, <2>1, <3>1, <3>2
  <2> QED
    BY <1>1, <2>2, <2>3, ArgumentsPacked DEF IsPacked
<1>15. OutSound' /\ OutComplete' /\ OutPacked' /\ out' \in Seq(Slot)
  <2> HIDE DEF new
  <2>1. out' = out \o new
    BY <1>2 DEF new
  <2> QED
    BY <1>1, <1>3, <1>11, <1>12, <1>13, <1>14, <2>1, ExtendOut
<1>16. TypeOK'
  <2>1. i' \in 0..Len(a) /\ j' \in 0..Len(b)
    BY <1>1, <1>3, ArgumentsPacked
  <2> QED
    BY <1>1, <1>3, <1>15, <2>1 DEF TypeOK, ScanOK
<1> QED
  BY <1>15, <1>16 DEF StepGoal

\* In the scalar loop the heads of the two lists decide which of them can still
\* match: nothing but the pair of the heads can, once a head is dropped.
LEMMA TailDropsTheHead ==
    ASSUME TypeOK, InTail
    PROVE  /\ i \in Nat /\ i + 1 \in 1..Len(a)
           /\ j \in Nat /\ j + 1 \in 1..Len(b)
           /\ \A q \in 1..Len(b) : /\ q > j /\ a[i + 1].base = b[q].base
                                   /\ ~ (b[j + 1].base < a[i + 1].base)
                                   => q = j + 1
           /\ \A p \in 1..Len(a) : /\ p > i /\ a[p].base = b[j + 1].base
                                   /\ ~ (a[i + 1].base < b[j + 1].base)
                                   => p = i + 1
<1>1. /\ i \in Nat /\ i + 1 \in 1..Len(a)
      /\ j \in Nat /\ j + 1 \in 1..Len(b)
  BY ArgumentsPacked DEF TypeOK, ScanOK, InTail
<1>2. \A p, r \in 1..Len(a) : /\ p < r => a[p].base < a[r].base
                              /\ a[p].base \in Nat
  BY ArgumentsPacked DEF IsPacked
<1>3. \A q, r \in 1..Len(b) : /\ q < r => b[q].base < b[r].base
                              /\ b[q].base \in Nat
  BY ArgumentsPacked DEF IsPacked
<1>4. \A q \in 1..Len(b) : /\ q > j /\ a[i + 1].base = b[q].base
                           /\ ~ (b[j + 1].base < a[i + 1].base)
                           => q = j + 1
  BY <1>1, <1>3
<1>5. \A p \in 1..Len(a) : /\ p > i /\ a[p].base = b[j + 1].base
                           /\ ~ (a[i + 1].base < b[j + 1].base)
                           => p = i + 1
  BY <1>1, <1>2
<1> QED
  BY <1>1, <1>4, <1>5

\* Dropping two heads with equal bases stores their common slot if it has a bit.
LEMMA TailEqualStep ==
    ASSUME IInv, TailEqual
    PROVE  StepGoal
<1> DEFINE common == a[i + 1].state \cap b[j + 1].state
           slot   == [base |-> a[i + 1].base, state |-> common]
           new    == IF common = {} THEN << >> ELSE << slot >>
<1>1. /\ pc = "tail" /\ InTail /\ a[i + 1].base = b[j + 1].base
      /\ a' = a /\ b' = b /\ pc' = pc /\ i' = i + 1 /\ j' = j + 1
      /\ out' = IF common = {} THEN out ELSE Append(out, slot)
      /\ TypeOK /\ OutSound /\ OutComplete /\ OutPacked
  BY DEF TailEqual, IInv
<1>2. /\ i \in Nat /\ i + 1 \in 1..Len(a)
      /\ j \in Nat /\ j + 1 \in 1..Len(b)
  BY <1>1, TailDropsTheHead
<1>3. slot \in Slot /\ slot = Common(i + 1, j + 1)
      /\ (common # {} <=> Match(i + 1, j + 1))
  <2>1. a[i + 1] \in Slot /\ b[j + 1] \in Slot
    BY <1>1, <1>2, ArgumentsPacked
  <2> QED
    BY <1>1, <2>1 DEF Slot, State, Common, Match
<1>4. ASSUME NEW p \in 1..Len(a), NEW q \in 1..Len(b),
             ~ Behind(p, q), p <= i' \/ q <= j', Match(p, q)
      PROVE  p = i + 1 /\ q = j + 1
  <2>1. p > i /\ q > j /\ a[p].base = b[q].base
    BY <1>2, <1>4 DEF Behind, Match
  <2>2. a[i + 1].base \in Nat
    BY <1>1, <1>2, ArgumentsPacked
  <2>3. p = i + 1 \/ q = j + 1
    BY <1>1, <1>2, <1>4, <2>1
  <2> QED
    BY <1>1, <1>2, <2>1, <2>2, <2>3, TailDropsTheHead
<1>5. ~ Behind(i + 1, j + 1) /\ i + 1 <= i' /\ j + 1 <= j'
  BY <1>1, <1>2 DEF Behind
<1> HIDE DEF slot, common
<1>6. /\ new \in Seq(Slot) /\ out' = out \o new
      /\ \A k \in 1..Len(new) : new[k] = slot /\ k = 1 /\ common # {}
      /\ common # {} => 1 \in 1..Len(new) /\ new[1] = slot
  <2>1. CASE common = {}
    <3>1. new = << >>
      BY <2>1
    <3> QED
      BY <1>1, <2>1, <3>1, ConcatEmptySeq DEF TypeOK, ScanOK
  <2>2. CASE common # {}
    <3>1. new = << slot >> /\ out' = Append(out, slot)
      BY <1>1, <2>2
    <3>2. Append(out, slot) = out \o << slot >>
      BY <1>1, <1>3, AppendIsConcat DEF TypeOK, ScanOK
    <3> QED
      BY <1>3, <2>2, <3>1, <3>2
  <2> QED
    BY <2>1, <2>2
<1> HIDE DEF new
<1>7. OutSound' /\ OutComplete' /\ OutPacked' /\ out' \in Seq(Slot)
  <2>1. \A k \in 1..Len(new) : \E p \in 1..Len(a), q \in 1..Len(b) :
           /\ ~ Behind(p, q) /\ (p <= i' \/ q <= j')
           /\ Match(p, q) /\ new[k] = Common(p, q)
    BY <1>2, <1>3, <1>5, <1>6
  <2>2. \A p \in 1..Len(a), q \in 1..Len(b) :
           /\ ~ Behind(p, q) /\ (p <= i' \/ q <= j')
           /\ Match(p, q)
           => \E k \in 1..Len(new) : new[k] = Common(p, q)
    BY <1>3, <1>4, <1>6
  <2>3. \A k, l \in 1..Len(new) : k < l => new[k].base < new[l].base
    BY <1>6
  <2>4. i' \in Nat /\ j' \in Nat /\ i <= i' /\ j <= j'
    BY <1>1, <1>2
  <2> QED
    BY <1>1, <1>6, <2>1, <2>2, <2>3, <2>4, ExtendOut
<1>8. TypeOK'
  <2>1. i' \in 0..Len(a) /\ j' \in 0..Len(b)
    BY <1>1, <1>2
  <2> QED
    BY <1>1, <1>7, <2>1 DEF TypeOK, ScanOK
<1> QED
  BY <1>7, <1>8 DEF StepGoal

\* Dropping the head with the smaller base loses no match.
LEMMA TailDifferStep ==
    ASSUME IInv, TailDiffer
    PROVE  StepGoal
<1>1. /\ pc = "tail" /\ InTail /\ a[i + 1].base # b[j + 1].base
      /\ a' = a /\ b' = b /\ pc' = pc /\ out' = out
      /\ \/ a[i + 1].base < b[j + 1].base /\ i' = i + 1 /\ j' = j
         \/ ~ (a[i + 1].base < b[j + 1].base) /\ j' = j + 1 /\ i' = i
      /\ TypeOK /\ OutSound /\ OutComplete /\ OutPacked
  BY DEF TailDiffer, IInv
<1>2. /\ i \in Nat /\ i + 1 \in 1..Len(a)
      /\ j \in Nat /\ j + 1 \in 1..Len(b)
  BY <1>1, TailDropsTheHead
<1>3. a[i + 1].base \in Nat /\ b[j + 1].base \in Nat
  BY <1>1, <1>2, ArgumentsPacked
<1>4. ASSUME NEW p \in 1..Len(a), NEW q \in 1..Len(b),
             ~ Behind(p, q), p <= i' \/ q <= j', Match(p, q)
      PROVE  FALSE
  <2>1. p > i /\ q > j /\ a[p].base = b[q].base
    BY <1>2, <1>4 DEF Behind, Match
  <2>2. CASE a[i + 1].base < b[j + 1].base /\ i' = i + 1 /\ j' = j
    <3>1. p = i + 1
      BY <1>2, <1>4, <2>1, <2>2
    <3> QED
      BY <1>1, <1>2, <1>3, <2>1, <2>2, <3>1, TailDropsTheHead
  <2>3. CASE ~ (a[i + 1].base < b[j + 1].base) /\ j' = j + 1 /\ i' = i
    <3>1. q = j + 1
      BY <1>2, <1>4, <2>1, <2>3
    <3> QED
      BY <1>1, <1>2, <1>3, <2>1, <2>3, <3>1, TailDropsTheHead
  <2> QED
    BY <1>1, <2>2, <2>3
<1>5. << >> \in Seq(Slot) /\ Len(<< >>) = 0 /\ out' = out \o << >>
  BY <1>1, ConcatEmptySeq DEF TypeOK, ScanOK
<1>6. OutSound' /\ OutComplete' /\ OutPacked' /\ out' \in Seq(Slot)
  <2>1. \A k \in 1..Len(<< >>) : FALSE
    BY <1>5
  <2>2. i' \in Nat /\ j' \in Nat /\ i <= i' /\ j <= j'
    BY <1>1, <1>2
  <2> QED
    BY <1>1, <1>4, <1>5, <2>1, <2>2, ExtendOut
<1>7. TypeOK'
  <2>1. i' \in 0..Len(a) /\ j' \in 0..Len(b)
    BY <1>1, <1>2
  <2> QED
    BY <1>1, <1>6, <2>1 DEF TypeOK, ScanOK
<1> QED
  BY <1>6, <1>7 DEF StepGoal

\* Steps that move neither list nor write: the loop exits and stuttering.
LEMMA NoMoveStep ==
    ASSUME IInv, UNCHANGED <<a, b, i, j, out>>,
           pc' = pc \/ pc' \in {"tail", "done"}
    PROVE  StepGoal
<1>1. TypeOK'
  BY DEF IInv, TypeOK, ScanOK
<1>2. a' = a /\ b' = b /\ i' = i /\ j' = j /\ out' = out
  OBVIOUS
<1>3. OutSound'
  <2>1. OutSound' <=> OutSound
    BY <1>2 DEF OutSound, Behind, Match, Common
  <2> QED
    BY <2>1 DEF IInv
<1>4. OutComplete'
  <2>1. OutComplete' <=> OutComplete
    BY <1>2 DEF OutComplete, Behind, Match, Common
  <2> QED
    BY <2>1 DEF IInv
<1>5. OutPacked'
  BY <1>2 DEF IInv, OutPacked
<1> QED
  BY <1>1, <1>3, <1>4, <1>5 DEF StepGoal

\* The strengthened invariant is inductive.
THEOREM Inductive == Spec => []IInv
<1>1. Init => IInv
  <2> SUFFICES ASSUME Init
               PROVE  IInv
    OBVIOUS
  <2>1. TypeOK
    <3>1. a \in Seq(Slot) /\ IsPacked(a) /\ b \in Seq(Slot) /\ IsPacked(b)
      BY ListsPacked DEF Init, ScanInit
    <3> QED
      BY <3>1 DEF Init, ScanInit, TypeOK, ScanOK
  <2>2. Len(a) \in Nat /\ Len(b) \in Nat
    BY <2>1, ArgumentsPacked
  <2>3. OutSound /\ OutPacked
    BY DEF Init, ScanInit, OutSound, OutPacked, IsPacked
  <2>4. OutComplete
    BY <2>2 DEF Init, ScanInit, OutComplete, Behind
  <2> QED
    BY <2>1, <2>3, <2>4 DEF Init, ScanInit, IInv, DoneAtEnd
<1>2. IInv /\ [Next]_vars => IInv'
  <2> SUFFICES ASSUME IInv, [Next]_vars
               PROVE  IInv'
    OBVIOUS
  <2>1. CASE SkipBlock
    <3>1. pc' = "block"
      BY <2>1 DEF SkipBlock
    <3> QED
      BY <2>1, <3>1, SkipBlockStep DEF StepGoal, IInv, DoneAtEnd
  <2>2. CASE StoreBlock
    <3>1. pc' = "block"
      BY <2>2 DEF StoreBlock
    <3> QED
      BY <2>2, <3>1, StoreBlockStep DEF StepGoal, IInv, DoneAtEnd
  <2>3. CASE LeaveBlocks
    <3>1. pc' = "tail" /\ UNCHANGED <<a, b, i, j, out>>
      BY <2>3 DEF LeaveBlocks, ExitBlocks
    <3> QED
      BY <3>1, NoMoveStep DEF StepGoal, IInv, DoneAtEnd
  <2>4. CASE TailEqual
    <3>1. pc' = "tail"
      BY <2>4 DEF TailEqual
    <3> QED
      BY <2>4, <3>1, TailEqualStep DEF StepGoal, IInv, DoneAtEnd
  <2>5. CASE TailDiffer
    <3>1. pc' = "tail"
      BY <2>5 DEF TailDiffer
    <3> QED
      BY <2>5, <3>1, TailDifferStep DEF StepGoal, IInv, DoneAtEnd
  <2>6. CASE Finish
    <3>1. pc' = "done" /\ UNCHANGED <<a, b, i, j, out>> /\ ~ InTail
      BY <2>6 DEF Finish, ExitTail
    <3> QED
      BY <3>1, NoMoveStep DEF StepGoal, IInv, DoneAtEnd, InTail
  <2>7. CASE Terminating \/ UNCHANGED vars
    <3>1. pc' = pc /\ UNCHANGED <<a, b, i, j, out>>
      BY <2>7 DEF vars, Terminating
    <3> QED
      BY <3>1, NoMoveStep DEF StepGoal, IInv, DoneAtEnd, InTail
  <2> QED
    BY <2>1, <2>2, <2>3, <2>4, <2>5, <2>6, <2>7 DEF Next
<1> QED
  BY <1>1, <1>2, PTL DEF Spec

\* Types are kept, and no vector iteration reads past the end of a list.
THEOREM TypeCorrect == Spec => []TypeOK
<1>1. IInv => TypeOK
  BY DEF IInv
<1> QED
  BY <1>1, Inductive, PTL

\* The byte filter always decides within four bytes: the shuffle table is never
\* indexed by the "multiple candidates" answer.
THEOREM FilterAlwaysDecides == Spec => []FilterDecides
<1>1. IInv => FilterDecides
  BY BlocksFit, FilterMaskFacts DEF IInv, FilterDecides
<1> QED
  BY <1>1, Inductive, PTL

\* Nothing but the matches behind the loops is ever stored, and each of them is,
\* whether a block was dropped, kept or handed over to the scalar loop.
THEOREM StoresExactly == Spec => []OutExact
<1>1. IInv => OutExact
  BY DEF IInv, OutExact
<1> QED
  BY <1>1, Inductive, PTL

\* When a call returns, its output is packed and stands for exactly the items
\* that are in both lists.
LEMMA DoneIsIntersection ==
    ASSUME IInv, i \notin 0..(Len(a) - 1) \/ j \notin 0..(Len(b) - 1)
    PROVE  Items(out) = Items(a) \cap Items(b)
<1>1. /\ TypeOK /\ OutSound /\ OutComplete
      /\ i \in Nat /\ j \in Nat /\ Len(a) \in Nat /\ Len(b) \in Nat
  BY ArgumentsPacked DEF IInv, TypeOK, ScanOK
<1>2. \A p \in 1..Len(a), q \in 1..Len(b) : Behind(p, q)
  BY <1>1 DEF Behind
<1>3. /\ \A p \in 1..Len(a) : a[p].base \in Nat /\ a[p].state \subseteq Bit
      /\ \A q \in 1..Len(b) : b[q].base \in Nat /\ b[q].state \subseteq Bit
  BY <1>1, ArgumentsPacked DEF Slot, State
<1>4. ASSUME NEW x \in Items(out)
      PROVE  x \in Items(a) \cap Items(b)
  <2>0. PICK k \in 1..Len(out) :
           \E bit \in out[k].state : x = out[k].base * PackWidth + bit
    BY DEF Items
  <2>1. PICK bit \in out[k].state : x = out[k].base * PackWidth + bit
    BY <2>0
  <2>2. PICK p \in 1..Len(a), q \in 1..Len(b) :
           Match(p, q) /\ out[k] = Common(p, q)
    BY <1>1 DEF OutSound
  <2>3. /\ bit \in a[p].state /\ bit \in b[q].state
        /\ x = a[p].base * PackWidth + bit
        /\ x = b[q].base * PackWidth + bit
    BY <2>1, <2>2 DEF Match, Common
  <2> QED
    BY <2>3 DEF Items
<1>5. ASSUME NEW x \in Items(a) \cap Items(b)
      PROVE  x \in Items(out)
  <2>p. PICK p \in 1..Len(a) :
           \E c \in a[p].state : x = a[p].base * PackWidth + c
    BY DEF Items
  <2>1. PICK c \in a[p].state : x = a[p].base * PackWidth + c
    BY <2>p
  <2>q. PICK q \in 1..Len(b) :
           \E d \in b[q].state : x = b[q].base * PackWidth + d
    BY DEF Items
  <2>2. PICK d \in b[q].state : x = b[q].base * PackWidth + d
    BY <2>q
  <2>3. a[p].base = b[q].base /\ c = d
    BY <1>3, <2>1, <2>2, ItemDetermines
  <2>4. Match(p, q)
    BY <2>3 DEF Match
  <2>5. PICK k \in 1..Len(out) : out[k] = Common(p, q)
    BY <1>1, <1>2, <2>4 DEF OutComplete
  <2>6. c \in out[k].state /\ x = out[k].base * PackWidth + c
    BY <2>1, <2>3, <2>5 DEF Common
  <2> QED
    BY <2>6 DEF Items
<1> QED
  BY <1>4, <1>5

\* A call of the kernel returns the common items of its two arguments.
THEOREM ReturnsCommonItems == Spec => []ReturnsIntersection
<1>1. IInv => ReturnsIntersection
  BY DoneIsIntersection DEF IInv, DoneAtEnd, InTail, ReturnsIntersection
<1> QED
  BY <1>1, Inductive, PTL

\* The kernel implements the one-step intersection: the last step is the step of
\* the abstract specification, all the others leave its variables alone.
THEOREM Implements == Spec => ImplementsIntersection
<1>1. Init => Abstract!Init
  BY DEF Init, ScanInit, Abstract!Init
<1>2. IInv /\ IInv' /\ [Next]_vars => [Abstract!Next]_Abstract!vars
  <2> SUFFICES ASSUME IInv, IInv', [Next]_vars
               PROVE  [Abstract!Next]_Abstract!vars
    OBVIOUS
  <2>1. CASE Finish
    <3>1. /\ pc = "tail" /\ pc' = "done" /\ ~ InTail
          /\ a' = a /\ b' = b /\ out' = out
      BY <2>1 DEF Finish, ExitTail
    <3>2. Items(out) = Items(a) \cap Items(b)
      BY <3>1, DoneIsIntersection DEF InTail
    <3>3. IsPacked(out)
      BY DEF IInv, OutPacked
    <3>4. ~ (pc = "done") /\ (pc = "done")' = TRUE
      BY <3>1
    <3>5. (IF pc = "done" THEN out ELSE << >>)' = out
      BY <3>1
    <3>6. Abstract!IsPacked(out)
      <4>1. Abstract!Base = Base /\ Abstract!State = State
        BY DEF Base, Abstract!Base, State, Abstract!State, Bit, Abstract!Bit,
               PackWidth, Abstract!PackWidth
      <4>2. Abstract!Slot = Slot
        BY <4>1 DEF Slot, Abstract!Slot
      <4> QED
        BY <3>3, <4>2 DEF IsPacked, Abstract!IsPacked
    <3>7. Abstract!Items(out) = Abstract!Items(a) \cap Abstract!Items(b)
      BY <3>2 DEF Items, Abstract!Items, PackWidth, Abstract!PackWidth
    <3>8. Abstract!Return
      BY <3>1, <3>4, <3>5, <3>6, <3>7 DEF Abstract!Return
    <3> QED
      BY <3>8 DEF Abstract!Next
  <2>2. CASE UNCHANGED <<a, b, pc>> /\ pc # "done"
    BY <2>2 DEF Abstract!vars
  <2>3. CASE LeaveBlocks
    BY <2>3 DEF LeaveBlocks, ExitBlocks, Abstract!vars
  <2>4. CASE Terminating \/ UNCHANGED vars
    BY <2>4 DEF Terminating, vars, Abstract!vars
  <2> QED
    BY <2>1, <2>2, <2>3, <2>4
    DEF Next, SkipBlock, StoreBlock, TailEqual, TailDiffer
<1> QED
  BY <1>1, <1>2, Inductive, PTL DEF Spec, ImplementsIntersection, Abstract!Spec

\* Every iteration moves on; with the bounds of TypeOK, the loops end.
THEOREM Advances == Spec => StepsAdvance
<1>1. TypeOK /\ [Next]_vars => [i' + j' + Phase' > i + j + Phase]_vars
  <2> SUFFICES ASSUME TypeOK, Next
               PROVE  i' + j' + Phase' > i + j + Phase \/ UNCHANGED vars
    OBVIOUS
  <2>1. i \in Nat /\ j \in Nat
    BY ArgumentsPacked DEF TypeOK, ScanOK
  <2>2. CASE SkipBlock \/ StoreBlock
    <3>1. pc = "block" /\ pc' = "block" /\ InBlocks /\ AdvanceBlock
      BY <2>2 DEF SkipBlock, StoreBlock
    <3>2. i + 4 \in 1..Len(a) /\ j + 4 \in 1..Len(b)
      BY <3>1, BlocksFit, ArgumentsPacked
    <3>3. a[i + 4].base \in Nat /\ b[j + 4].base \in Nat
      BY <3>2, ArgumentsPacked
    <3>4. \/ i' = i + 4 /\ j' \in {j, j + 4}
          \/ j' = j + 4 /\ i' \in {i, i + 4}
      BY <3>1, <3>3 DEF AdvanceBlock
    <3> QED
      BY <2>1, <3>1, <3>4 DEF Phase
  <2>3. CASE TailEqual \/ TailDiffer
    BY <2>1, <2>3 DEF TailEqual, TailDiffer, Phase
  <2>4. CASE LeaveBlocks \/ Finish
    BY <2>1, <2>4 DEF LeaveBlocks, ExitBlocks, Finish, ExitTail, Phase
  <2>5. CASE Terminating
    BY <2>5 DEF Terminating
  <2> QED
    BY <2>2, <2>3, <2>4, <2>5 DEF Next
<1> QED
  BY <1>1, TypeCorrect, PTL DEF Spec, StepsAdvance

-----------------------------------------------------------------------------
(* The counting kernel.                                                     *)

\* The items of both lists that are counted when m slots of a and n of b are consumed.
Met(m, n) ==
    (Items(Consumed(a, m)) \cap Items(b)) \cup (Items(a) \cap Items(Consumed(b, n)))

CountInv ==
    /\ CountTypeOK /\ DoneAtEnd
    /\ IsFiniteSet(Met(i, j)) /\ res = Cardinality(Met(i, j))

\* What CountTypeOK says of the two arguments, in the form the provers need.
LEMMA CountArguments ==
    ASSUME CountTypeOK
    PROVE  /\ a \in Seq(Slot) /\ IsPacked(a) /\ b \in Seq(Slot) /\ IsPacked(b)
           /\ Len(a) \in Nat /\ Len(b) \in Nat /\ i \in Nat /\ j \in Nat
           /\ \A p \in 1..Len(a) : a[p].base \in Nat /\ a[p].state \subseteq Bit
           /\ \A q \in 1..Len(b) : b[q].base \in Nat /\ b[q].state \subseteq Bit
<1>1. /\ a \in Seq(Slot) /\ IsPacked(a)
      /\ b \in Seq(Slot) /\ IsPacked(b)
  BY DEF CountTypeOK, ScanOK
<1>2. Len(a) \in Nat /\ Len(b) \in Nat
  BY <1>1
<1>3. \A s \in Slot : s.base \in Nat /\ s.state \subseteq Bit
  BY BasesAreNaturals DEF Slot, State
<1>4. i \in Nat /\ j \in Nat
  BY <1>2 DEF CountTypeOK, ScanOK
<1> QED
  BY <1>1, <1>2, <1>3, <1>4

-----------------------------------------------------------------------------
(* Items and the pairs of slots they come from.                            *)

\* Item x is the bit of slot p of a, and of slot q of b.
At(x, p, q) ==
    /\ a[p].base = b[q].base
    /\ \E bit \in a[p].state \cap b[q].state : x = a[p].base * PackWidth + bit

LEMMA ItemOfConsumed ==
    ASSUME NEW s \in Seq(Slot), NEW n \in 0..Len(s), NEW x
    PROVE  x \in Items(Consumed(s, n)) <=>
               \E p \in 1..Len(s) :
                   p <= n /\ \E bit \in s[p].state : x = s[p].base * PackWidth + bit
<1> DEFINE c == Consumed(s, n)
<1>1. Len(s) \in Nat /\ n \in Nat /\ n <= Len(s) /\ \A p \in 1..n : s[p] \in Slot
  <2>1. Len(s) \in Nat
    OBVIOUS
  <2> QED
    BY <2>1, ElementOfSeq
<1>2. Len(c) = n /\ \A p \in 1..n : c[p] = s[p]
  <2>1. /\ Len(c) = IF 1 <= n THEN n - 1 + 1 ELSE 0
        /\ \A p \in 1..(n - 1 + 1) : c[p] = s[1 + p - 1]
    BY <1>1, SubSeqProperties DEF Consumed
  <2>2. n - 1 + 1 = n /\ \A p \in 1..n : 1 + p - 1 = p
    BY <1>1
  <2> QED
    BY <1>1, <2>1, <2>2
<1> HIDE DEF c
<1>3. x \in Items(c) <=> \E p \in 1..n : \E bit \in c[p].state : x = c[p].base * PackWidth + bit
  BY <1>2 DEF Items
<1>4. \A p : p \in 1..n <=> p \in 1..Len(s) /\ p <= n
  BY <1>1
<1> QED
  BY <1>2, <1>3, <1>4 DEF c

LEMMA MetMembers ==
    ASSUME CountTypeOK, NEW m \in 0..Len(a), NEW n \in 0..Len(b), NEW x
    PROVE  x \in Met(m, n) <=>
               \E p \in 1..Len(a), q \in 1..Len(b) : (p <= m \/ q <= n) /\ At(x, p, q)
<1>0. /\ a \in Seq(Slot) /\ b \in Seq(Slot)
      /\ \A p \in 1..Len(a) : a[p].base \in Nat /\ a[p].state \subseteq Bit
      /\ \A q \in 1..Len(b) : b[q].base \in Nat /\ b[q].state \subseteq Bit
  BY CountArguments
<1>1. x \in Items(a) <=>
        \E p \in 1..Len(a) : \E bit \in a[p].state : x = a[p].base * PackWidth + bit
  BY DEF Items
<1>2. x \in Items(b) <=>
        \E q \in 1..Len(b) : \E bit \in b[q].state : x = b[q].base * PackWidth + bit
  BY DEF Items
<1>3. x \in Items(Consumed(a, m)) <=>
        \E p \in 1..Len(a) :
            p <= m /\ \E bit \in a[p].state : x = a[p].base * PackWidth + bit
  BY <1>0, ItemOfConsumed
<1>4. x \in Items(Consumed(b, n)) <=>
        \E q \in 1..Len(b) :
            q <= n /\ \E bit \in b[q].state : x = b[q].base * PackWidth + bit
  BY <1>0, ItemOfConsumed
<1>5. \A p \in 1..Len(a), q \in 1..Len(b) :
         (\E bit \in a[p].state : x = a[p].base * PackWidth + bit)
         /\ (\E bit \in b[q].state : x = b[q].base * PackWidth + bit)
         <=> At(x, p, q)
  <2> TAKE p \in 1..Len(a), q \in 1..Len(b)
  <2>1. ASSUME NEW c \in a[p].state, NEW d \in b[q].state,
               x = a[p].base * PackWidth + c, x = b[q].base * PackWidth + d
        PROVE  At(x, p, q)
    <3>1. a[p].base = b[q].base /\ c = d
      BY <1>0, <2>1, ItemDetermines
    <3> QED
      BY <2>1, <3>1 DEF At
  <2>2. ASSUME At(x, p, q)
        PROVE  /\ \E bit \in a[p].state : x = a[p].base * PackWidth + bit
               /\ \E bit \in b[q].state : x = b[q].base * PackWidth + bit
    BY <2>2 DEF At
  <2> QED
    BY <2>1, <2>2
<1>6. x \in Items(Consumed(a, m)) /\ x \in Items(b) <=>
        \E p \in 1..Len(a), q \in 1..Len(b) : p <= m /\ At(x, p, q)
  BY <1>2, <1>3, <1>5
<1>7. x \in Items(a) /\ x \in Items(Consumed(b, n)) <=>
        \E p \in 1..Len(a), q \in 1..Len(b) : q <= n /\ At(x, p, q)
  BY <1>1, <1>4, <1>5
<1> QED
  BY <1>6, <1>7 DEF Met

\* An item has one slot in each list.
LEMMA AtUnique ==
    ASSUME CountTypeOK, NEW x,
           NEW p \in 1..Len(a), NEW q \in 1..Len(b), At(x, p, q),
           NEW r \in 1..Len(a), NEW t \in 1..Len(b), At(x, r, t)
    PROVE  p = r /\ q = t
<1>1. /\ IsPacked(a) /\ IsPacked(b)
      /\ \A k \in 1..Len(a) : a[k].base \in Nat /\ a[k].state \subseteq Bit
      /\ \A k \in 1..Len(b) : b[k].base \in Nat
  BY CountArguments
<1>2. PICK c \in a[p].state : x = a[p].base * PackWidth + c
  BY DEF At
<1>3. PICK d \in a[r].state : x = a[r].base * PackWidth + d
  BY DEF At
<1>4. a[p].base = a[r].base /\ b[q].base = b[t].base
  <2>1. a[p].base = a[r].base
    BY <1>1, <1>2, <1>3, ItemDetermines
  <2> QED
    BY <2>1 DEF At
<1>5. p = r
  BY <1>1, <1>4 DEF IsPacked
<1>6. q = t
  BY <1>1, <1>4 DEF IsPacked
<1> QED
  BY <1>5, <1>6

-----------------------------------------------------------------------------
(* One step of the loops.                                                  *)

\* What a step has to do for the count to stay right: move on, and add the number of
\* the items that get counted by moving on.
LEMMA CountMore ==
    ASSUME CountInv, a' = a, b' = b,
           i' \in 0..Len(a), j' \in 0..Len(b), i <= i', j <= j',
           NEW T, IsFiniteSet(T), ExistsBijection(T, Met(i', j') \ Met(i, j)),
           res' = res + Cardinality(T)
    PROVE  (IsFiniteSet(Met(i, j)) /\ res = Cardinality(Met(i, j)) /\ res \in Nat)'
<1> DEFINE old == Met(i, j)
           new == Met(i', j') \ old
<1>1. IsFiniteSet(new) /\ Cardinality(new) = Cardinality(T)
  BY FS_Bijection
<1>2. CountTypeOK /\ IsFiniteSet(old) /\ res = Cardinality(old)
  BY DEF CountInv
<1>3. i \in 0..Len(a) /\ j \in 0..Len(b) /\ i \in Int /\ j \in Int
  BY <1>2, CountArguments DEF CountTypeOK, ScanOK
<1>4. old \subseteq Met(i', j')
  <2> SUFFICES ASSUME NEW x \in old PROVE x \in Met(i', j')
    OBVIOUS
  <2>1. PICK p \in 1..Len(a), q \in 1..Len(b) : (p <= i \/ q <= j) /\ At(x, p, q)
    BY <1>2, <1>3, MetMembers
  <2>2. p <= i' \/ q <= j'
    BY <1>2, <1>3, <2>1, CountArguments
  <2> QED
    BY <1>2, <2>1, <2>2, MetMembers
<1>5. Met(i', j') = old \cup new /\ old \cap new = {}
  BY <1>4
<1> HIDE DEF old, new
<1>6. IsFiniteSet(old \cup new) /\ Cardinality(old \cap new) = 0
  BY <1>1, <1>2, <1>5, FS_EmptySet, FS_Union
<1>7. /\ Cardinality(old \cup new) = Cardinality(old) + Cardinality(new) - 0
      /\ Cardinality(old) \in Nat /\ Cardinality(new) \in Nat
  BY <1>1, <1>2, <1>6, FS_Union, FS_CardinalityType
<1>8. Met(i, j)' = old \cup new
  <2>1. Consumed(a, i)' = Consumed(a, i') /\ Consumed(b, j)' = Consumed(b, j')
    BY DEF Consumed
  <2>2. Items(a)' = Items(a) /\ Items(b)' = Items(b)
    BY DEF Items
  <2>3. /\ Items(Consumed(a, i))' = Items(Consumed(a, i'))
        /\ Items(Consumed(b, j))' = Items(Consumed(b, j'))
    BY <2>1 DEF Items
  <2> QED
    BY <1>5, <2>2, <2>3 DEF Met
<1> QED
  BY <1>1, <1>2, <1>6, <1>7, <1>8

\* Every step moves on inside the lists; the vector loop by whole blocks.
Moves ==
    /\ a' = a /\ b' = b
    /\ i' \in 0..Len(a) /\ j' \in 0..Len(b) /\ i <= i' /\ j <= j'
    /\ pc' \in {"block", "tail", "done"}
    /\ pc' = "block" => i' % 4 = 0 /\ j' % 4 = 0
    /\ pc' = "done" => ~ InTail /\ i' = i /\ j' = j

LEMMA StepKeeps ==
    ASSUME CountInv, Moves, NEW T, IsFiniteSet(T),
           ExistsBijection(T, Met(i', j') \ Met(i, j)), res' = res + Cardinality(T)
    PROVE  CountInv'
<1>1. (IsFiniteSet(Met(i, j)) /\ res = Cardinality(Met(i, j)) /\ res \in Nat)'
  BY CountMore DEF Moves
<1>2. CountTypeOK'
  BY <1>1 DEF CountInv, CountTypeOK, ScanOK, Moves
<1>3. DoneAtEnd'
  BY DEF DoneAtEnd, Moves, InTail
<1> QED
  BY <1>1, <1>2, <1>3 DEF CountInv

\* Four lanes, 32 bits.
LEMMA BitsAreFinite == IsFiniteSet(Lane) /\ IsFiniteSet(Bit)
<1>1. IsFiniteSet(1..4) /\ IsFiniteSet(0..31)
  <2>1. \A m, n \in Int : IsFiniteSet(m..n)
    BY FS_Interval
  <2>2. 1 \in Int /\ 4 \in Int /\ 0 \in Int /\ 31 \in Int
    OBVIOUS
  <2> QED
    BY <2>1, <2>2, Zenon
<1>2. PackWidth - 1 = 31
  BY DEF PackWidth
<1> QED
  BY <1>1, <1>2 DEF Lane, Bit

\* A bijection from the bits that are added to the items that get counted.
LEMMA BitsAreItems ==
    ASSUME NEW T, NEW N, NEW f \in [T -> N],
           \A x, y \in T : f[x] = f[y] => x = y,
           \A z \in N : \E x \in T : f[x] = z
    PROVE  ExistsBijection(T, N)
<1>1. f \in Bijection(T, N)
  BY DEF Bijection, Injection, IsInjective, Surjection
<1> QED
  BY <1>1 DEF ExistsBijection

\* Nothing is counted when no pair of slots with equal bases falls behind.
LEMMA NothingNew ==
    ASSUME CountInv, Moves, res' = res,
           \A p \in 1..Len(a), q \in 1..Len(b) :
               ~ (p <= i \/ q <= j) /\ (p <= i' \/ q <= j') => a[p].base # b[q].base
    PROVE  CountInv'
<1>1. CountTypeOK /\ i \in 0..Len(a) /\ j \in 0..Len(b) /\ res \in Nat
  BY DEF CountInv, CountTypeOK, ScanOK
<1>2. Met(i', j') \ Met(i, j) = {}
  <2> SUFFICES ASSUME NEW x \in Met(i', j'), x \notin Met(i, j) PROVE FALSE
    OBVIOUS
  <2>1. PICK p \in 1..Len(a), q \in 1..Len(b) : (p <= i' \/ q <= j') /\ At(x, p, q)
    BY <1>1, MetMembers DEF Moves
  <2>2. ~ (p <= i \/ q <= j)
    BY <1>1, <2>1, MetMembers
  <2> QED
    BY <2>1, <2>2 DEF At
<1>3. ExistsBijection({}, {})
  <2>1. [x \in {} |-> x] \in [{} -> {}]
    OBVIOUS
  <2> QED
    BY <2>1, BitsAreItems
<1>4. res' = res + Cardinality({}) /\ IsFiniteSet({})
  BY <1>1, FS_EmptySet
<1> QED
  BY <1>2, <1>3, <1>4, StepKeeps

\* An iteration of the vector loop: the bits of the surviving lanes are the items that
\* get counted when the loop moves on.
LEMMA CountBlockStep == CountInv /\ CountBlock => CountInv'
<1> SUFFICES ASSUME CountInv, CountBlock PROVE CountInv'
  OBVIOUS
<1> DEFINE A == Block(a, i)
           B == Block(b, j)
           G == Gather(FilterMask(A, B), B)
           T == LaneBits(A, G)
           m == PastBlock(a, i, b, j)
           n == PastBlock(b, j, a, i)
<1>1. /\ pc = "block" /\ pc' = pc /\ InBlocks /\ a' = a /\ b' = b
      /\ res' = IF FilterMask(A, B) = {} THEN res ELSE res + Cardinality(T)
      /\ i' = m /\ j' = n
  BY DEF CountBlock, AdvanceBlock, PastBlock
<1>2. /\ CountTypeOK /\ a \in Seq(Slot) /\ IsPacked(a) /\ b \in Seq(Slot) /\ IsPacked(b)
      /\ i \in Nat /\ i % 4 = 0 /\ i < WholeBlocks(a) /\ Len(a) \in Nat /\ i \in 0..Len(a)
      /\ j \in Nat /\ j % 4 = 0 /\ j < WholeBlocks(b) /\ Len(b) \in Nat /\ j \in 0..Len(b)
      /\ res \in Nat
  BY <1>1, CountArguments DEF CountInv, CountTypeOK, ScanOK, InBlocks
<1>3. /\ m \in Nat /\ n \in Nat /\ i <= m /\ j <= n
      /\ m <= Len(a) /\ n <= Len(b) /\ m % 4 = 0 /\ n % 4 = 0
      /\ \A p \in 1..Len(a), q \in 1..Len(b) :
            /\ ~ (p <= i \/ q <= j) /\ (p <= m \/ q <= n)
            /\ a[p].base = b[q].base
            => p - i \in Lane /\ q - j \in Lane
      /\ \A p, q \in Lane : /\ ~ (i + p <= i \/ j + q <= j)
                            /\ i + p <= m \/ j + q <= n
  BY <1>2, BlockStep, Zenon
<1>4. i + 4 <= Len(a) /\ j + 4 <= Len(b)
  BY <1>2, WholeBlockFits
<1>5. IsBlock(A) /\ IsBlock(B)
  BY <1>2, <1>4, BlockOfPacked
<1>6. /\ \A p \in Lane : i + p \in 1..Len(a) /\ j + p \in 1..Len(b)
      /\ \A p \in Lane : A[p] = a[i + p] /\ B[p] = b[j + p]
  BY <1>2, <1>4 DEF Lane, Block
<1>7. /\ \A p \in HitLanes(A, G) :
            p \in Lane /\ \E q \in Lane : G[p] = B[q] /\ A[p].base = B[q].base
      /\ \A p, q \in Lane :
            A[p].base = B[q].base /\ A[p].state \cap B[q].state # {} =>
                p \in HitLanes(A, G) /\ G[p] = B[q]
  BY <1>5, HitLanesFacts DEF HitLanes
<1>8. /\ \A p, q \in Lane : A[p].base = B[q].base => <<p, q>> \in FilterMask(A, B)
      /\ FilterMask(A, B) \subseteq Lane \X Lane
  BY <1>5, FilterMaskFacts
<1>9. Moves
  BY <1>1, <1>2, <1>3 DEF Moves, CountInv
<1> HIDE DEF A, B, G, m, n
\* A bit that is added belongs to a pair of the two blocks, and the other way round.
<1>10. /\ \A z \in T : /\ z = <<z[1], z[2]>> /\ z[1] \in Lane /\ z[2] \in Bit
                       /\ \E q \in Lane : /\ a[i + z[1]].base = b[j + q].base
                                          /\ z[2] \in a[i + z[1]].state \cap b[j + q].state
       /\ \A p, q \in Lane : \A bit \in a[i + p].state \cap b[j + q].state :
             a[i + p].base = b[j + q].base => <<p, bit>> \in T
  <2>1. \A z : z \in T <=> \E p \in HitLanes(A, G) : z \in {p} \X (A[p].state \cap G[p].state)
    BY DEF LaneBits
  <2>2. ASSUME NEW z \in T
        PROVE  /\ z = <<z[1], z[2]>> /\ z[1] \in Lane /\ z[2] \in Bit
               /\ \E q \in Lane : /\ a[i + z[1]].base = b[j + q].base
                                  /\ z[2] \in a[i + z[1]].state \cap b[j + q].state
    <3>1. PICK p \in HitLanes(A, G) : z \in {p} \X (A[p].state \cap G[p].state)
      BY <2>1
    <3>2. z = <<z[1], z[2]>> /\ z[1] = p /\ z[2] \in A[p].state \cap G[p].state
      BY <3>1
    <3>3. PICK q \in Lane : p \in Lane /\ G[p] = B[q] /\ A[p].base = B[q].base
      BY <1>7
    <3>4. z[2] \in Bit
      BY <1>2, <1>6, <3>2, <3>3, CountArguments
    <3> QED
      BY <1>6, <3>2, <3>3, <3>4
  <2>3. ASSUME NEW p \in Lane, NEW q \in Lane, NEW bit \in a[i + p].state \cap b[j + q].state,
               a[i + p].base = b[j + q].base
        PROVE  <<p, bit>> \in T
    <3>1. p \in HitLanes(A, G) /\ G[p] = B[q] /\ bit \in A[p].state \cap G[p].state
      BY <1>6, <1>7, <2>3
    <3> QED
      BY <2>1, <3>1
  <2> QED
    BY <2>2, <2>3
<1>11. IsFiniteSet(T)
  <2>1. T \subseteq Lane \X Bit
    BY <1>10
  <2>2. IsFiniteSet(Lane \X Bit)
    BY BitsAreFinite, FS_Product
  <2> QED
    BY <2>1, <2>2, FS_Subset
\* Without a candidate there is nothing to add either.
<1>12. res' = res + Cardinality(T)
  <2>1. CASE FilterMask(A, B) = {}
    <3>1. T = {}
      BY <1>6, <1>8, <1>10, <2>1
    <3> QED
      BY <1>1, <1>2, <2>1, <3>1, FS_EmptySet
  <2> QED
    BY <1>1, <2>1
<1> HIDE DEF T
<1>13. ExistsBijection(T, Met(i', j') \ Met(i, j))
  <2> DEFINE N == Met(i', j') \ Met(i, j)
             item(z) == a[i + z[1]].base * PackWidth + z[2]
             f == [z \in T |-> item(z)]
  <2>1. i' \in 0..Len(a) /\ j' \in 0..Len(b)
    BY <1>9 DEF Moves
  <2>2. \A x : x \in N <=>
            /\ \E p \in 1..Len(a), q \in 1..Len(b) : (p <= i' \/ q <= j') /\ At(x, p, q)
            /\ ~ \E p \in 1..Len(a), q \in 1..Len(b) : (p <= i \/ q <= j) /\ At(x, p, q)
    <3> TAKE x
    <3>1. x \in Met(i', j') <=>
            \E p \in 1..Len(a), q \in 1..Len(b) : (p <= i' \/ q <= j') /\ At(x, p, q)
      BY <1>2, <2>1, MetMembers
    <3>2. x \in Met(i, j) <=>
            \E p \in 1..Len(a), q \in 1..Len(b) : (p <= i \/ q <= j) /\ At(x, p, q)
      BY <1>2, MetMembers
    <3> QED
      BY <3>1, <3>2
  <2>3. ASSUME NEW z \in T PROVE item(z) \in N
    <3>1. PICK q \in Lane : /\ a[i + z[1]].base = b[j + q].base
                            /\ z[2] \in a[i + z[1]].state \cap b[j + q].state
      BY <1>10
    <3>2. /\ i + z[1] \in 1..Len(a) /\ j + q \in 1..Len(b) /\ At(item(z), i + z[1], j + q)
      BY <1>6, <1>10, <3>1 DEF At
    <3>3. ~ (i + z[1] <= i \/ j + q <= j) /\ (i + z[1] <= i' \/ j + q <= j')
      BY <1>1, <1>3, <1>10
    <3>4. ASSUME NEW r \in 1..Len(a), NEW t \in 1..Len(b), r <= i \/ t <= j, At(item(z), r, t)
          PROVE  FALSE
      <4>1. r = i + z[1] /\ t = j + q
        BY <1>2, <3>2, <3>4, AtUnique
      <4> QED
        BY <3>3, <3>4, <4>1
    <3> QED
      BY <2>2, <3>2, <3>3, <3>4
  <2>4. ASSUME NEW y \in T, NEW z \in T, item(y) = item(z) PROVE y = z
    <3>1. /\ i + y[1] \in 1..Len(a) /\ i + z[1] \in 1..Len(a)
          /\ y[2] \in Bit /\ z[2] \in Bit /\ y[1] \in Int /\ z[1] \in Int
      <4>1. /\ y[1] \in Lane /\ z[1] \in Lane
            /\ y[2] \in Bit /\ z[2] \in Bit
        BY ONLY <1>10, <2>4
      <4>2. /\ i + y[1] \in 1..Len(a) /\ i + z[1] \in 1..Len(a)
        BY ONLY <1>6, <4>1
      <4>3. \A l \in Lane : l \in Int
        BY DEF Lane
      <4> QED
        BY ONLY <4>1, <4>2, <4>3
    <3>2. a[i + y[1]].base = a[i + z[1]].base /\ y[2] = z[2]
      <4>1. a[i + y[1]].base \in Nat /\ a[i + z[1]].base \in Nat
        BY <1>2, <3>1, CountArguments
      <4>2. a[i + y[1]].base * PackWidth + y[2] = a[i + z[1]].base * PackWidth + z[2]
        BY <2>4
      <4> HIDE DEF item
      <4> QED
        BY <3>1, <4>1, <4>2, ItemDetermines
    <3>3. A[y[1]].base = A[z[1]].base
      BY <1>6, <1>10, <3>2
    <3>4. y[1] = z[1]
      BY <1>5, <1>10, <3>3 DEF IsBlock
    <3>5. y = <<y[1], y[2]>> /\ z = <<z[1], z[2]>>
      BY <1>10
    <3> QED
      BY <3>2, <3>4, <3>5
  <2>5. ASSUME NEW x \in N PROVE \E z \in T : item(z) = x
    <3>1. PICK p \in 1..Len(a), q \in 1..Len(b) : (p <= i' \/ q <= j') /\ At(x, p, q)
      BY <2>2
    <3>2. ~ (p <= i \/ q <= j)
      BY <2>2, <3>1
    <3>3. a[p].base = b[q].base
      BY <3>1 DEF At
    <3>4. p - i \in Lane /\ q - j \in Lane
      BY <1>1, <1>3, <3>1, <3>2, <3>3
    <3>5. PICK bit \in a[p].state \cap b[q].state : x = a[p].base * PackWidth + bit
      BY <3>1 DEF At
    <3>6. i + (p - i) = p /\ j + (q - j) = q
      BY <1>2
    <3>7. <<p - i, bit>> \in T
      BY <1>10, <3>3, <3>4, <3>5, <3>6
    <3>8. item(<<p - i, bit>>) = x
      BY <3>5, <3>6
    <3> QED
      BY <3>7, <3>8
  <2> HIDE DEF N, item
  <2>6. /\ f \in [T -> N]
        /\ \A x, y \in T : f[x] = f[y] => x = y
        /\ \A z \in N : \E x \in T : f[x] = z
    BY <2>3, <2>4, <2>5
  <2> HIDE DEF f
  <2>7. ExistsBijection(T, N)
    BY <2>6, BitsAreItems
  <2> QED
    BY <2>7 DEF N
<1> QED
  BY <1>9, <1>11, <1>12, <1>13, StepKeeps

\* In the scalar loop the head of one list is dropped: what has a partner in the other
\* list is the pair of the two heads.
LEMMA CountTailStep == CountInv /\ CountTail => CountInv'
<1> SUFFICES ASSUME CountInv, CountTail PROVE CountInv'
  OBVIOUS
<1> DEFINE x == a[i + 1]
           y == b[j + 1]
<1>1. /\ pc = "tail" /\ pc' = pc /\ InTail /\ a' = a /\ b' = b
      /\ res' = IF x.base = y.base THEN res + Cardinality(x.state \cap y.state) ELSE res
      /\ i' = IF x.base <= y.base THEN i + 1 ELSE i
      /\ j' = IF y.base <= x.base THEN j + 1 ELSE j
  BY DEF CountTail
<1>2. /\ CountTypeOK /\ i \in 0..Len(a) /\ j \in 0..Len(b) /\ i \in Nat /\ j \in Nat
      /\ Len(a) \in Nat /\ Len(b) \in Nat /\ i + 1 \in 1..Len(a) /\ j + 1 \in 1..Len(b)
      /\ res \in Nat
  BY <1>1, CountArguments DEF CountInv, CountTypeOK, ScanOK, InTail
<1>3. /\ \A p, r \in 1..Len(a) : (p < r => a[p].base < a[r].base) /\ a[p].base \in Nat
      /\ \A q, t \in 1..Len(b) : (q < t => b[q].base < b[t].base) /\ b[q].base \in Nat
      /\ x.base \in Nat /\ y.base \in Nat
      /\ x.state \subseteq Bit /\ y.state \subseteq Bit
  BY <1>2, CountArguments DEF IsPacked
<1>4. /\ \A p \in 1..Len(a) : p > i => p = i + 1 \/ x.base < a[p].base
      /\ \A q \in 1..Len(b) : q > j => q = j + 1 \/ y.base < b[q].base
  BY <1>2, <1>3
<1> HIDE DEF x, y
<1>5. Moves
  BY <1>1, <1>2, <1>3 DEF Moves
<1>6. ASSUME NEW p \in 1..Len(a), NEW q \in 1..Len(b),
             ~ (p <= i \/ q <= j), p <= i' \/ q <= j', a[p].base = b[q].base
      PROVE  p = i + 1 /\ q = j + 1 /\ x.base = y.base
  <2>1. p > i /\ q > j /\ p \in Int /\ q \in Int /\ a[p].base \in Nat
    BY <1>2, <1>3, <1>6
  <2>2. CASE x.base < y.base
    <3>1. p = i + 1
      BY <1>1, <1>2, <1>3, <1>6, <2>1, <2>2
    <3>2. a[p].base = x.base /\ (q = j + 1 => b[q].base = y.base)
      BY <3>1 DEF x, y
    <3>3. y.base <= b[q].base
      BY <1>3, <1>4, <2>1, <3>2
    <3> QED
      BY <1>3, <1>6, <2>1, <2>2, <3>2, <3>3
  <2>3. CASE y.base < x.base
    <3>1. q = j + 1
      BY <1>1, <1>2, <1>3, <1>6, <2>1, <2>3
    <3>2. b[q].base = y.base /\ (p = i + 1 => a[p].base = x.base)
      BY <3>1 DEF x, y
    <3>3. x.base <= a[p].base
      BY <1>3, <1>4, <2>1, <3>2
    <3> QED
      BY <1>3, <1>6, <2>1, <2>3, <3>2, <3>3
  <2>4. CASE x.base = y.base
    <3>1. p = i + 1 \/ q = j + 1
      BY <1>1, <1>2, <1>6, <2>1, <2>4
    <3>2. (p = i + 1 => a[p].base = x.base) /\ (q = j + 1 => b[q].base = y.base)
      BY DEF x, y
    <3> QED
      BY <1>3, <1>4, <1>6, <2>1, <2>4, <3>1, <3>2
  <2> QED
    BY <1>3, <2>2, <2>3, <2>4
<1>7. CASE x.base # y.base
  BY <1>1, <1>5, <1>6, <1>7, NothingNew
<1>8. CASE x.base = y.base
  <2> DEFINE T == x.state \cap y.state
             N == Met(i', j') \ Met(i, j)
             f == [bit \in T |-> x.base * PackWidth + bit]
  <2>1. i' = i + 1 /\ j' = j + 1 /\ res' = res + Cardinality(T)
    BY <1>1, <1>3, <1>8
  <2>2. IsFiniteSet(T)
    BY <1>3, BitsAreFinite, FS_Subset
  <2>3. \A z : At(z, i + 1, j + 1) <=> \E bit \in T : z = x.base * PackWidth + bit
    BY <1>8 DEF At, x, y
  <2>4. ASSUME NEW bit \in T PROVE x.base * PackWidth + bit \in N
    <3> DEFINE z == x.base * PackWidth + bit
    <3>1. At(z, i + 1, j + 1)
      BY <2>3
    <3>2. z \in Met(i', j')
      BY <1>2, <1>5, <2>1, <3>1, MetMembers DEF Moves
    <3>3. ASSUME NEW r \in 1..Len(a), NEW t \in 1..Len(b), r <= i \/ t <= j, At(z, r, t)
          PROVE  FALSE
      <4>1. r = i + 1 /\ t = j + 1
        BY <1>2, <3>1, <3>3, AtUnique
      <4> QED
        BY <1>2, <3>3, <4>1
    <3>4. z \notin Met(i, j)
      BY <1>2, <3>3, MetMembers
    <3> QED
      BY <3>2, <3>4
  <2>5. ASSUME NEW c \in T, NEW d \in T, x.base * PackWidth + c = x.base * PackWidth + d
        PROVE  c = d
    BY <1>3, <2>5, ItemDetermines
  <2>6. ASSUME NEW z \in N PROVE \E bit \in T : x.base * PackWidth + bit = z
    <3>1. PICK p \in 1..Len(a), q \in 1..Len(b) : (p <= i' \/ q <= j') /\ At(z, p, q)
      BY <1>2, <1>5, MetMembers DEF Moves
    <3>2. ~ (p <= i \/ q <= j)
      BY <1>2, <3>1, MetMembers
    <3>3. p = i + 1 /\ q = j + 1
      BY <1>6, <3>1, <3>2 DEF At
    <3> QED
      BY <2>3, <3>1, <3>3
  <2> HIDE DEF N, T
  <2>7. /\ f \in [T -> N]
        /\ \A c, d \in T : f[c] = f[d] => c = d
        /\ \A z \in N : \E c \in T : f[c] = z
    BY <2>4, <2>5, <2>6
  <2> HIDE DEF f
  <2>8. ExistsBijection(T, Met(i', j') \ Met(i, j))
    BY <2>7, BitsAreItems DEF N
  <2> QED
    BY <1>5, <2>1, <2>2, <2>8, StepKeeps
<1> QED
  BY <1>7, <1>8

\* The loop exits and stuttering move neither list.
LEMMA CountNoMoveStep ==
    ASSUME CountInv, UNCHANGED <<a, b, i, j, res>>,
           pc' = pc \/ pc' = "tail" \/ (pc' = "done" /\ ~ InTail)
    PROVE  CountInv'
<1>1. CountTypeOK' /\ DoneAtEnd'
  BY DEF CountInv, CountTypeOK, ScanOK, DoneAtEnd, InTail
<1>2. Met(i, j)' = Met(i, j)
  BY DEF Met, Consumed, Items
<1> QED
  BY <1>1, <1>2 DEF CountInv

\* The invariant is inductive: types and block boundaries, the count of the common
\* items met so far, and that the loops end only when one list is used up.
THEOREM CountInductive == CountSpec => []CountInv
<1>1. CountInit => CountInv
  <2> SUFFICES ASSUME CountInit PROVE CountInv
    OBVIOUS
  <2>1. /\ a \in Seq(Slot) /\ IsPacked(a) /\ b \in Seq(Slot) /\ IsPacked(b)
    BY ListsPacked DEF CountInit, ScanInit
  <2>2. CountTypeOK
    <3>1. Len(a) \in Nat /\ Len(b) \in Nat
      BY <2>1
    <3> QED
      BY <2>1, <3>1 DEF CountInit, ScanInit, CountTypeOK, ScanOK
  <2>3. 0 \in 0..Len(a) /\ 0 \in 0..Len(b) /\ Len(a) \in Nat /\ Len(b) \in Nat
    BY <2>1
  <2>4. Met(i, j) = {}
    <3> SUFFICES ASSUME NEW x \in Met(0, 0) PROVE FALSE
      BY DEF CountInit, ScanInit
    <3>1. PICK p \in 1..Len(a), q \in 1..Len(b) : p <= 0 \/ q <= 0
      BY <2>2, <2>3, MetMembers
    <3> QED
      BY <2>3, <3>1
  <2>5. IsFiniteSet(Met(i, j)) /\ Cardinality(Met(i, j)) = 0
    BY <2>4, FS_EmptySet
  <2> QED
    BY <2>2, <2>5 DEF CountInit, ScanInit, CountInv, DoneAtEnd
<1>2. CountInv /\ [CountNext]_countVars => CountInv'
  <2> SUFFICES ASSUME CountInv, [CountNext]_countVars PROVE CountInv'
    OBVIOUS
  <2>1. CASE CountBlock
    BY <2>1, CountBlockStep
  <2>2. CASE LeaveCount
    BY <2>2, CountNoMoveStep DEF LeaveCount, ExitBlocks
  <2>3. CASE CountTail
    BY <2>3, CountTailStep
  <2>4. CASE FinishCount
    BY <2>4, CountNoMoveStep DEF FinishCount, ExitTail
  <2>5. CASE UNCHANGED countVars
    BY <2>5, CountNoMoveStep DEF countVars
  <2> QED
    BY <2>1, <2>2, <2>3, <2>4, <2>5 DEF CountNext
<1> QED
  BY <1>1, <1>2, PTL DEF CountSpec

\* Types are kept, and no vector iteration reads past the end of a list.
THEOREM CountTypes == CountSpec => []CountTypeOK
<1>1. CountInv => CountTypeOK
  BY DEF CountInv
<1> QED
  BY <1>1, CountInductive, PTL

\* At every point of the loops, each common item is counted once as soon as one of its
\* two slots has been consumed, and not before.
THEOREM CountsOnce == CountSpec => []CountedOnce
<1>1. CountInv => CountedOnce
  BY DEF CountInv, CountedOnce, Met
<1> QED
  BY <1>1, CountInductive, PTL

\* The size that the call returns is the number of the common items.
THEOREM ReturnsTheSize == CountSpec => []ReturnsSize
<1>1. CountInv => ReturnsSize
  <2> SUFFICES ASSUME CountInv, pc = "done"
               PROVE  res = Cardinality(Items(a) \cap Items(b))
    BY DEF ReturnsSize
  <2>1. /\ a \in Seq(Slot) /\ b \in Seq(Slot)
        /\ i = Len(a) \/ j = Len(b)
    BY CountArguments DEF CountInv, CountTypeOK, ScanOK, DoneAtEnd, InTail
  <2>2. Consumed(a, Len(a)) = a /\ Consumed(b, Len(b)) = b
    BY <2>1, SubSeqFull DEF Consumed
  <2>3. /\ i \in 0..Len(a) /\ j \in 0..Len(b) /\ CountTypeOK
        /\ Len(a) \in Nat /\ Len(b) \in Nat
        /\ Len(a) \in 0..Len(a) /\ Len(b) \in 0..Len(b)
    BY CountArguments DEF CountInv, CountTypeOK, ScanOK
  <2>4. \A x : x \in Met(i, j) <=> x \in Met(Len(a), Len(b))
    BY <2>1, <2>3, MetMembers
  <2>5. Met(Len(a), Len(b)) = Items(a) \cap Items(b)
    BY <2>2 DEF Met
  <2>6. Met(i, j) = Items(a) \cap Items(b)
    BY <2>4, <2>5
  <2> QED
    BY <2>6 DEF CountInv
<1> QED
  BY <1>1, CountInductive, PTL

\* The steps that the call has left at most.
CountStepsLeft == (Len(a) - i) + (Len(b) - j) + (2 - Phase)

CountShrinks == [][CountStepsLeft' \in Nat /\ CountStepsLeft' < CountStepsLeft]_countVars

\* Every step of the counting kernel leaves fewer steps, for every two packed lists: the
\* loops end after Len(a) + Len(b) + 2 of them, the safety half of Termination.
THEOREM CountEnds == CountSpec => CountShrinks
<1> DEFINE Shrinks == CountStepsLeft' \in Nat /\ CountStepsLeft' < CountStepsLeft
<1>1. ASSUME CountTypeOK, CountTypeOK', CountNext PROVE Shrinks
  <2>1. /\ Len(a) \in Nat /\ Len(b) \in Nat /\ i \in 0..Len(a) /\ j \in 0..Len(b)
        /\ a' = a /\ b' = b /\ i' \in 0..Len(a) /\ j' \in 0..Len(b)
    <3>1. a' = a /\ b' = b
      BY <1>1 DEF CountNext, CountBlock, LeaveCount, ExitBlocks, CountTail, FinishCount, ExitTail
    <3>2. Len(a) \in Nat /\ Len(b) \in Nat
      BY <1>1, CountArguments
    <3> QED
      BY <1>1, <3>1, <3>2 DEF CountTypeOK, ScanOK
  <2>2. Phase \in {0, 1, 2} /\ Phase' \in {0, 1, 2}
    BY <1>1 DEF CountTypeOK, ScanOK, Phase
  <2>3. ASSUME Phase' = Phase, i <= i', j <= j', i < i' \/ j < j' PROVE Shrinks
    BY <2>1, <2>2, <2>3 DEF CountStepsLeft
  <2>4. CASE CountBlock
    <3>1. pc = "block" /\ pc' = "block" /\ InBlocks /\ AdvanceBlock
      BY <2>4 DEF CountBlock
    <3>2. i + 4 \in 1..Len(a) /\ j + 4 \in 1..Len(b)
      <4>1. /\ a \in Seq(Slot) /\ i \in Nat /\ i % 4 = 0 /\ i < WholeBlocks(a)
            /\ b \in Seq(Slot) /\ j \in Nat /\ j % 4 = 0 /\ j < WholeBlocks(b)
        BY <1>1, <3>1, CountArguments DEF CountTypeOK, ScanOK, InBlocks
      <4>2. i + 4 <= Len(a) /\ j + 4 <= Len(b)
        BY ONLY <4>1, WholeBlockFits
      <4> QED
        BY <2>1, <4>1, <4>2
    <3>3. a[i + 4].base \in Nat /\ b[j + 4].base \in Nat
      BY <1>1, <3>2, CountArguments
    <3>4. i' \in {i, i + 4} /\ j' \in {j, j + 4} /\ (i' = i + 4 \/ j' = j + 4)
      BY <3>1, <3>3 DEF AdvanceBlock
    <3>5. Phase' = Phase
      BY <3>1 DEF Phase
    <3> QED
      BY <2>1, <2>3, <3>4, <3>5
  <2>5. CASE CountTail
    <3>1. pc = "tail" /\ pc' = "tail" /\ InTail
      BY <2>5 DEF CountTail
    <3>2. i + 1 \in 1..Len(a) /\ j + 1 \in 1..Len(b)
      BY <2>1, <3>1 DEF InTail
    <3>3. a[i + 1].base \in Nat /\ b[j + 1].base \in Nat
      BY <1>1, <3>2, CountArguments
    <3>4. i' \in {i, i + 1} /\ j' \in {j, j + 1} /\ (i' = i + 1 \/ j' = j + 1)
      BY <2>5, <3>3 DEF CountTail
    <3>5. Phase' = Phase
      BY <3>1 DEF Phase
    <3> QED
      BY <2>1, <2>3, <3>4, <3>5
  <2>6. CASE LeaveCount \/ FinishCount
    <3>1. i' = i /\ j' = j /\ Phase' > Phase
      BY <2>6 DEF LeaveCount, ExitBlocks, FinishCount, ExitTail, Phase
    <3> QED
      BY <2>1, <2>2, <3>1 DEF CountStepsLeft
  <2> QED
    BY <1>1, <2>4, <2>5, <2>6 DEF CountNext
<1>2. CountTypeOK /\ CountTypeOK' /\ [CountNext]_countVars => [Shrinks]_countVars
  BY <1>1
<1>3. (CountSpec => CountShrinks) <=> (CountSpec => [][Shrinks]_countVars)
  BY DEF CountShrinks
<1> HIDE DEF Shrinks
<1>4. CountSpec => [][Shrinks]_countVars
  BY <1>2, CountTypes, PTL DEF CountSpec
<1> QED
  BY <1>3, <1>4

-----------------------------------------------------------------------------
(* Pieces of a pool.                                                       *)

Piece(p, from, d) == [k \in 1..d |-> p[from + k]]

\* The piece lies inside the pool.
Fits(p, from, d) == d > 0 => from >= 0 /\ from + d <= Len(p)

LEMMA PieceFacts ==
    ASSUME NEW p \in Seq(Slot), NEW from \in Int, NEW d \in Nat, Fits(p, from, d)
    PROVE  /\ Piece(p, from, d) \in Seq(Slot) /\ Len(Piece(p, from, d)) = d
           /\ \A k \in 1..d : /\ from + k \in 1..Len(p)
                              /\ Piece(p, from, d)[k] = p[from + k] /\ p[from + k] \in Slot
           /\ \A x : x \in Items(Piece(p, from, d)) <=>
                 \E k \in 1..d : \E bit \in p[from + k].state :
                     x = p[from + k].base * PackWidth + bit
<1> DEFINE s == Piece(p, from, d)
<1>1. Len(p) \in Nat /\ \A k \in 1..Len(p) : p[k] \in Slot
  BY ElementOfSeq
<1>2. \A k \in 1..d : from + k \in 1..Len(p)
  BY <1>1 DEF Fits
<1>3. s \in [1..d -> Slot] /\ \A k \in 1..d : s[k] = p[from + k]
  BY <1>1, <1>2 DEF Piece
<1>4. s \in Seq(Slot) /\ Len(s) = d
  BY <1>3
<1> HIDE DEF s
<1>5. \A x : x \in Items(s) <=>
         \E k \in 1..d : \E bit \in p[from + k].state : x = p[from + k].base * PackWidth + bit
  <2> TAKE x
  <2>1. x \in Items(s) <=> \E k \in 1..Len(s) : \E bit \in s[k].state : x = s[k].base * PackWidth + bit
    BY ONLY DEF Items
  <2>2. \A k \in 1..d : s[k].state = p[from + k].state /\ s[k].base = p[from + k].base
    BY <1>3
  <2>3. x \in Items(s) <=> \E k \in 1..d : \E bit \in s[k].state : x = s[k].base * PackWidth + bit
    BY ONLY <1>4, <2>1
  <2> DEFINE Old(k) == \E bit \in s[k].state : x = s[k].base * PackWidth + bit
             New(k) == \E bit \in p[from + k].state : x = p[from + k].base * PackWidth + bit
  <2>4. ASSUME NEW k \in 1..d PROVE Old(k) <=> New(k)
    <3>1. s[k].state = p[from + k].state /\ s[k].base = p[from + k].base
      BY ONLY <2>2, <2>4
    <3> QED
      BY ONLY <3>1
  <2>5. \A k \in 1..d : Old(k) <=> New(k)
    BY ONLY <2>4
  <2>6. x \in Items(s) <=> \E k \in 1..d : Old(k)
    BY ONLY <2>3
  <2> HIDE DEF Old, New
  <2>7. x \in Items(s) <=> \E k \in 1..d : New(k)
    BY ONLY <2>5, <2>6
  <2> QED
    BY ONLY <2>7 DEF New
<1> QED
  BY <1>1, <1>2, <1>3, <1>4, <1>5 DEF s

\* Equal pieces: nothing is written between the two ends.
LEMMA SamePiece ==
    ASSUME NEW p, NEW r, NEW from \in Int, NEW d \in Nat,
           \A k \in 1..d : r[from + k] = p[from + k]
    PROVE  Piece(r, from, d) = Piece(p, from, d)
BY DEF Piece

\* An id is the bit of its base.
LEMMA IdFacts ==
    ASSUME NEW v \in Ids
    PROVE  /\ v \in Nat /\ BaseOf(v) \in Base /\ BitOf(v) \in Bit /\ SlotOf(v) \in Slot
           /\ SlotOf(v).base = BaseOf(v) /\ SlotOf(v).state = {BitOf(v)}
           /\ BaseOf(v) * PackWidth + BitOf(v) = v
<1>1. v \in Nat /\ BaseOf(v) \in Base
  BY DEF Ids, BaseOf
<1>2. BitOf(v) \in Bit /\ BaseOf(v) * PackWidth + BitOf(v) = v
  BY <1>1, SMT DEF BaseOf, BitOf, Bit, PackWidth
<1> QED
  BY <1>1, <1>2 DEF SlotOf, Slot, State

LEMMA BasesAscend ==
    ASSUME NEW v \in Nat, NEW w \in Nat, v <= w
    PROVE  BaseOf(v) <= BaseOf(w)
BY SMT DEF BaseOf, PackWidth

\* A slot behind the end of the piece.
Grown(p, from, d, v, q) ==
    /\ q \in Seq(Slot) /\ Len(q) = Len(p) + 1 /\ q[Len(q)] = SlotOf(v)
    /\ \A k \in 1..Len(p) : q[k] = p[k]
    /\ Items(Piece(q, from, d + 1)) = Items(Piece(p, from, d)) \cup {v}
    /\ /\ IsPacked(Piece(p, from, d))
       /\ d > 0 => p[Len(p)].base < BaseOf(v)
       => IsPacked(Piece(q, from, d + 1))

LEMMA PieceGrows ==
    ASSUME NEW p \in Seq(Slot), NEW from \in Int, NEW d \in Nat, Fits(p, from, d),
           from + d = Len(p), NEW v \in Ids
    PROVE  Grown(p, from, d, v, Append(p, SlotOf(v)))
<1> DEFINE q == Append(p, SlotOf(v))
<1>1. /\ SlotOf(v) \in Slot /\ SlotOf(v).base = BaseOf(v) /\ SlotOf(v).state = {BitOf(v)}
      /\ BaseOf(v) * PackWidth + BitOf(v) = v
  BY IdFacts
<1>2. /\ q \in Seq(Slot) /\ Len(q) = Len(p) + 1 /\ q[Len(p) + 1] = SlotOf(v)
      /\ \A k \in 1..Len(p) : q[k] = p[k]
  BY <1>1, AppendProperties
<1>3. Len(p) \in Nat /\ from = Len(p) - d /\ from >= 0 /\ d + 1 \in Nat
  <2>1. Len(p) \in Nat
    OBVIOUS
  <2> QED
    BY <2>1 DEF Fits
<1> HIDE DEF q
<1>4. Fits(q, from, d + 1)
  BY <1>2, <1>3 DEF Fits
<1>5. /\ \A k \in 1..d : from + k \in 1..Len(p) /\ q[from + k] = p[from + k] /\ p[from + k] \in Slot
      /\ q[from + (d + 1)] = SlotOf(v)
  BY <1>2, <1>3, PieceFacts
<1>6. \A k \in 1..(d + 1) : k \in 1..d \/ k = d + 1
  OBVIOUS
<1>7. 1..d \subseteq 1..(d + 1) /\ d + 1 \in 1..(d + 1)
  OBVIOUS
<1>8. \A x : x \in Items(Piece(q, from, d + 1)) <=>
         \E k \in 1..(d + 1) : \E bit \in q[from + k].state : x = q[from + k].base * PackWidth + bit
  <2> DEFINE e == d + 1
  <2>1. q \in Seq(Slot) /\ from \in Int /\ e \in Nat /\ Fits(q, from, e)
    BY <1>2, <1>3, <1>4
  <2> HIDE DEF e
  <2>2. \A x : x \in Items(Piece(q, from, e)) <=>
           \E k \in 1..e : \E bit \in q[from + k].state : x = q[from + k].base * PackWidth + bit
    BY ONLY <2>1, PieceFacts
  <2> QED
    BY ONLY <2>2 DEF e
<1>9. \A x : x \in Items(Piece(p, from, d)) <=>
         \E k \in 1..d : \E bit \in p[from + k].state : x = p[from + k].base * PackWidth + bit
  BY PieceFacts
<1>10. \A x : x \in Items(Piece(q, from, d + 1)) <=> x \in Items(Piece(p, from, d)) \/ x = v
  <2> TAKE x
  <2>1. ASSUME NEW k \in 1..(d + 1), NEW bit \in q[from + k].state,
               x = q[from + k].base * PackWidth + bit
        PROVE  x \in Items(Piece(p, from, d)) \/ x = v
    BY <1>1, <1>5, <1>6, <1>9, <2>1
  <2>2. x \in Items(Piece(p, from, d)) => x \in Items(Piece(q, from, d + 1))
    BY <1>5, <1>7, <1>8, <1>9
  <2>3. v \in Items(Piece(q, from, d + 1))
    BY <1>1, <1>5, <1>7, <1>8
  <2> QED
    BY <1>8, <2>1, <2>2, <2>3
<1>11. ASSUME IsPacked(Piece(p, from, d)), d > 0 => p[Len(p)].base < BaseOf(v)
       PROVE  IsPacked(Piece(q, from, d + 1))
  <2> DEFINE s == Piece(p, from, d)
             t == Piece(q, from, d + 1)
  <2>1. /\ Len(s) = d /\ Len(t) = d + 1
        /\ \A k \in 1..d : s[k] = p[from + k] /\ t[k] = p[from + k]
        /\ t[d + 1] = SlotOf(v)
        /\ \A k \in 1..(d + 1) : t[k] \in Slot
    BY <1>2, <1>3, <1>4, <1>5, <1>7, PieceFacts
  <2>2. \A k \in 1..d : /\ s[k].state # {} /\ s[k].base \in Nat
                        /\ \A l \in 1..d : k < l => s[k].base < s[l].base
    BY <1>5, <1>11, <2>1, BasesAreNaturals DEF IsPacked, Slot
  <2>3. \A k \in 1..d : s[k].base < BaseOf(v)
    <3> SUFFICES ASSUME NEW k \in 1..d PROVE s[k].base < BaseOf(v)
      OBVIOUS
    <3>1. d \in 1..d /\ s[d] = p[Len(p)]
      BY <1>3, <2>1
    <3>2. s[d].base < BaseOf(v) /\ s[d].base \in Nat /\ BaseOf(v) \in Nat
      <4>1. d > 0
        OBVIOUS
      <4>2. s[d].base \in Nat
        BY <2>2, <3>1
      <4>3. BaseOf(v) \in Nat
        BY IdFacts, BasesAreNaturals
      <4> QED
        BY <1>11, <3>1, <4>1, <4>2, <4>3
    <3>3. k = d \/ k < d
      OBVIOUS
    <3> QED
      BY <2>2, <3>1, <3>2, <3>3
  <2> HIDE DEF s, t
  <2>4. \A k \in 1..(d + 1) : t[k] \in Slot /\ t[k].state # {}
    BY <1>1, <1>6, <2>1, <2>2
  <2>5. ASSUME NEW k \in 1..(d + 1), NEW l \in 1..(d + 1), k < l
        PROVE  t[k].base < t[l].base
    <3>1. k \in 1..d
      BY <2>5
    <3>2. CASE l \in 1..d
      BY <2>1, <2>2, <2>5, <3>1, <3>2
    <3>3. CASE l = d + 1
      BY <1>1, <2>1, <2>3, <3>1, <3>3
    <3> QED
      BY <1>6, <3>2, <3>3
  <2> QED
    BY <2>1, <2>4, <2>5 DEF IsPacked, t
<1> QED
  BY <1>2, <1>10, <1>11 DEF q, Grown

\* One more bit in the last slot of the piece.
Merged(p, from, d, v, q) ==
    /\ q \in Seq(Slot) /\ Len(q) = Len(p) /\ q[Len(q)].base = BaseOf(v)
    /\ \A k \in 1..Len(p) : k # Len(p) => q[k] = p[k]
    /\ Items(Piece(q, from, d)) = Items(Piece(p, from, d)) \cup {v}
    /\ IsPacked(Piece(p, from, d)) => IsPacked(Piece(q, from, d))

LEMMA PieceMerges ==
    ASSUME NEW p \in Seq(Slot), NEW from \in Int, NEW d \in Nat, Fits(p, from, d),
           from + d = Len(p), d > 0, NEW v \in Ids, p[Len(p)].base = BaseOf(v)
    PROVE  Merged(p, from, d, v, [p EXCEPT ![Len(p)].state = @ \cup {BitOf(v)}])
<1> DEFINE q == [p EXCEPT ![Len(p)].state = @ \cup {BitOf(v)}]
           e == Len(p)
<1>1. BitOf(v) \in Bit /\ BaseOf(v) * PackWidth + BitOf(v) = v
  BY IdFacts
<1>2. e \in Nat /\ from = e - d /\ from >= 0 /\ e \in 1..e /\ p[e] \in Slot /\ p \in [1..e -> Slot]
  <2>1. e \in Nat /\ p \in [1..e -> Slot]
    OBVIOUS
  <2> QED
    BY <2>1 DEF Fits
<1>3. /\ q[e].base = p[e].base /\ q[e].state = p[e].state \cup {BitOf(v)} /\ q[e] \in Slot
      /\ \A k \in 1..e : k # e => q[k] = p[k]
      /\ DOMAIN q = 1..e /\ q = [k \in 1..e |-> q[k]]
  BY <1>1, <1>2 DEF Slot, State
<1>4. q \in [1..e -> Slot]
  BY <1>2, <1>3
<1>5. q \in Seq(Slot) /\ Len(q) = e
  BY <1>2, <1>4
<1> HIDE DEF q
<1>6. Fits(q, from, d)
  BY <1>2, <1>5 DEF Fits
<1> DEFINE s == Piece(p, from, d)
           t == Piece(q, from, d)
<1>7. /\ s \in Seq(Slot) /\ Len(s) = d /\ t \in Seq(Slot) /\ Len(t) = d
      /\ \A k \in 1..d : s[k] = p[from + k] /\ t[k] = q[from + k] /\ from + k \in 1..e
  BY <1>5, <1>6, PieceFacts
<1>8. d \in 1..d /\ from + d = e /\ \A k \in 1..d : k # d => from + k # e
  BY <1>2
<1> HIDE DEF s, t
<1>9. /\ \A k \in 1..d : k # d => t[k] = s[k]
      /\ t[d].base = s[d].base /\ t[d].state = s[d].state \cup {BitOf(v)} /\ s[d].base = BaseOf(v)
  <2>1. ASSUME NEW k \in 1..d, k # d PROVE t[k] = s[k]
    <3>1. from + k \in 1..e /\ from + k # e
      BY <1>7, <1>8, <2>1
    <3>2. q[from + k] = p[from + k]
      BY <1>3, <3>1
    <3> QED
      BY <1>7, <3>2
  <2>2. t[d] = q[e] /\ s[d] = p[e]
    BY <1>7, <1>8
  <2> QED
    BY <1>3, <2>1, <2>2
<1>10. \A x : /\ x \in Items(s) <=> \E k \in 1..d : \E bit \in s[k].state : x = s[k].base * PackWidth + bit
              /\ x \in Items(t) <=> \E k \in 1..d : \E bit \in t[k].state : x = t[k].base * PackWidth + bit
  BY <1>7 DEF Items
<1>11. \A x : x \in Items(t) <=> x \in Items(s) \/ x = v
  <2> TAKE x
  <2>1. ASSUME NEW k \in 1..d, NEW bit \in t[k].state, x = t[k].base * PackWidth + bit
        PROVE  x \in Items(s) \/ x = v
    <3>1. CASE k # d
      BY <1>9, <1>10, <2>1, <3>1
    <3>2. CASE k = d
      <4>1. bit \in s[d].state \/ bit = BitOf(v)
        BY <1>9, <3>2
      <4>2. x = s[d].base * PackWidth + bit /\ s[d].base = BaseOf(v)
        BY <1>9, <2>1, <3>2
      <4>3. CASE bit = BitOf(v)
        BY <1>1, <4>2, <4>3
      <4>4. CASE bit \in s[d].state
        BY <1>8, <1>10, <4>2, <4>4
      <4> QED
        BY <4>1, <4>3, <4>4
    <3> QED
      BY <3>1, <3>2
  <2>2. ASSUME NEW k \in 1..d, NEW bit \in s[k].state, x = s[k].base * PackWidth + bit
        PROVE  x \in Items(t)
    <3>1. bit \in t[k].state /\ t[k].base = s[k].base
      <4>1. CASE k # d
        BY <1>9, <4>1
      <4>2. CASE k = d
        BY <1>9, <4>2
      <4> QED
        BY <4>1, <4>2
    <3> QED
      BY <1>10, <2>2, <3>1
  <2>3. v \in Items(t)
    <3>1. BitOf(v) \in t[d].state /\ t[d].base = BaseOf(v)
      BY <1>9
    <3> QED
      BY <1>1, <1>8, <1>10, <3>1
  <2> QED
    BY <1>10, <2>1, <2>2, <2>3
<1>12. ASSUME IsPacked(s) PROVE IsPacked(t)
  <2>1. \A k \in 1..d : /\ s[k].state # {}
                        /\ \A l \in 1..d : k < l => s[k].base < s[l].base
    BY <1>7, <1>12 DEF IsPacked
  <2>2. \A k \in 1..d : t[k].base = s[k].base /\ t[k].state # {}
    BY <1>9, <2>1
  <2>3. \A k \in 1..d : t[k] \in Slot
    BY <1>7
  <2> QED
    BY <1>7, <2>1, <2>2, <2>3 DEF IsPacked
<1>13. Items(t) = Items(s) \cup {v}
  BY <1>11
<1> QED
  BY <1>3, <1>5, <1>12, <1>13 DEF q, s, t, Merged

-----------------------------------------------------------------------------
(* The list that is packed.                                                *)

\* An ascending choice of as many positions as there are is all of them.
LEMMA KeepsAll ==
    ASSUME NEW len \in Nat, NEW keep \in [1..len -> 1..len], IsAscending(keep)
    PROVE  \A pos \in 1..len : \E k \in 1..len : keep[k] = pos
<1>1. \A lo, pos \in Int : IsFiniteSet(lo..pos)
  BY FS_Interval
<1>2. IsFiniteSet(1..len)
  BY <1>1
<1>3. \A k, l \in 1..len : keep[k] = keep[l] => k = l
  <2> SUFFICES ASSUME NEW k \in 1..len, NEW l \in 1..len, keep[k] = keep[l], k < l
               PROVE  FALSE
    OBVIOUS
  <2>1. keep[k] < keep[l] /\ keep[k] \in Int
    BY DEF IsAscending
  <2> QED
    BY <2>1
<1>4. keep \in Injection(1..len, 1..len)
  BY <1>3 DEF Injection, IsInjective
<1>5. keep \in Surjection(1..len, 1..len)
  BY <1>2, <1>4, FS_Injection
<1> QED
  BY <1>5 DEF Surjection

\* The number an item is packed under.
Number(x) == IF Reo THEN mapIndex[x] ELSE x

\* Position k of the list that is packed is position g[k] of the edges.
Copies(L, w, size, g) ==
    /\ g \in [1..size -> 1..Len(edges[w])]
    /\ L = [k \in 1..size |-> Number(edges[w][g[k]])]

SizeOf(w) == IF Len(edges[w]) <= truncNum THEN Len(edges[w]) ELSE truncNum

\* What a finished copy is.
IsCopy(L, w) ==
    /\ L \in Seq(Ids) /\ Len(L) = SizeOf(w)
    /\ {L[k] : k \in 1..Len(L)} \subseteq NewNeighbours(w)
    /\ Len(edges[w]) <= truncNum => {L[k] : k \in 1..Len(L)} = NewNeighbours(w)
    /\ Reo => IsSorted(L)

LEMMA NumberIsId ==
    ASSUME PackTypeOK, NEW w \in Users
    PROVE  /\ Len(edges[w]) \in Nat
           /\ \A k \in 1..Len(edges[w]) : Number(edges[w][k]) \in Ids
<1>1. /\ edges[w] \in Seq(ItemIds) /\ mapIndex \in [ItemIds -> Ids] /\ ItemIds \subseteq Ids
      /\ Reo \in BOOLEAN
  BY ParametersOK DEF PackTypeOK
<1>2. Len(edges[w]) \in Nat /\ \A k \in 1..Len(edges[w]) : edges[w][k] \in ItemIds
  BY <1>1, ElementOfSeq
<1> QED
  BY <1>1, <1>2 DEF Number

LEMMA CopyIsCopy ==
    ASSUME PackTypeOK, NEW w \in Users, NEW L, NEW g, Copies(L, w, SizeOf(w), g),
           Len(edges[w]) <= truncNum => \A pos \in 1..Len(edges[w]) : \E k \in 1..SizeOf(w) : g[k] = pos,
           Reo => IsSorted(L)
    PROVE  IsCopy(L, w)
<1>1. SizeOf(w) \in Nat /\ Len(edges[w]) \in Nat
  BY NumberIsId, ParametersOK DEF SizeOf, PackTypeOK
<1>2. \A k \in 1..SizeOf(w) : /\ g[k] \in 1..Len(edges[w])
                              /\ L[k] = Number(edges[w][g[k]]) /\ L[k] \in Ids
  BY NumberIsId DEF Copies
<1>3. L \in [1..SizeOf(w) -> Ids]
  BY <1>2 DEF Copies
<1>4. L \in Seq(Ids) /\ Len(L) = SizeOf(w)
  BY <1>1, <1>3
<1>5. NewNeighbours(w) = {Number(edges[w][k]) : k \in 1..Len(edges[w])}
  BY DEF NewNeighbours, Number
<1>6. {L[k] : k \in 1..Len(L)} \subseteq NewNeighbours(w)
  BY <1>2, <1>4, <1>5
<1>7. ASSUME Len(edges[w]) <= truncNum
      PROVE  NewNeighbours(w) \subseteq {L[k] : k \in 1..Len(L)}
  <2> SUFFICES ASSUME NEW pos \in 1..Len(edges[w])
               PROVE  Number(edges[w][pos]) \in {L[k] : k \in 1..Len(L)}
    BY <1>5
  <2>1. PICK k \in 1..SizeOf(w) : g[k] = pos
    BY <1>7
  <2> QED
    BY <1>2, <1>4, <2>1
<1> QED
  BY <1>4, <1>6, <1>7 DEF IsCopy

LEMMA TakesCopy ==
    ASSUME PackTypeOK, TakeList
    PROVE  /\ u \in Users /\ IsCopy(Uedge'[u], u)
           /\ \A w \in Users : w # u => Uedge'[w] = Uedge[w]
           /\ Uedge' \in [Users -> Seq(Ids)]
<1> DEFINE list == edges[u]
           len  == Len(list)
           size == SizeOf(u)
<1>1. u \in Users /\ Uedge \in [Users -> Seq(Ids)]
  BY ParametersOK DEF PackTypeOK, TakeList, Users
<1>2. len \in Nat /\ size \in Nat /\ (len <= truncNum => size = len)
  BY <1>1, NumberIsId, ParametersOK DEF PackTypeOK, SizeOf
<1>3. PICK keep \in [1..size -> 1..len] :
         /\ IsAscending(keep)
         /\ IF Reo
            THEN \E f \in [1..size -> 1..size] :
                    /\ IsPermutation(f, size)
                    /\ IsSorted([k \in 1..size |-> mapIndex[list[keep[f[k]]]]])
                    /\ Uedge' = [Uedge EXCEPT ![u] = [k \in 1..size |-> mapIndex[list[keep[f[k]]]]]]
            ELSE Uedge' = [Uedge EXCEPT ![u] = [k \in 1..size |-> list[keep[k]]]]
  BY DEF TakeList, SizeOf
<1>4. len <= truncNum => \A pos \in 1..len : \E k \in 1..size : keep[k] = pos
  <2> SUFFICES ASSUME len <= truncNum
               PROVE  \A pos \in 1..len : \E k \in 1..size : keep[k] = pos
    OBVIOUS
  <2>1. size = len /\ len \in Nat /\ keep \in [1..size -> 1..len] /\ IsAscending(keep)
    BY <1>2, <1>3
  <2> HIDE DEF len, size
  <2>2. keep \in [1..len -> 1..len]
    BY ONLY <2>1
  <2>3. \A pos \in 1..len : \E k \in 1..len : keep[k] = pos
    BY ONLY <2>1, <2>2, KeepsAll
  <2> QED
    BY ONLY <2>1, <2>3
<1>5. CASE Reo
  <2>1. PICK f \in [1..size -> 1..size] :
           /\ IsPermutation(f, size)
           /\ IsSorted([k \in 1..size |-> mapIndex[list[keep[f[k]]]]])
           /\ Uedge' = [Uedge EXCEPT ![u] = [k \in 1..size |-> mapIndex[list[keep[f[k]]]]]]
    BY <1>3, <1>5
  <2> DEFINE g == [k \in 1..size |-> keep[f[k]]]
             L == [k \in 1..size |-> mapIndex[list[keep[f[k]]]]]
  <2>2. Uedge'[u] = L /\ (\A w \in Users : w # u => Uedge'[w] = Uedge[w]) /\ Uedge' = [Uedge EXCEPT ![u] = L]
    BY <1>1, <2>1
  <2>3. g \in [1..size -> 1..len]
    OBVIOUS
  <2>4. L = [k \in 1..size |-> Number(list[g[k]])]
    BY <1>5 DEF Number
  <2>5. ASSUME len <= truncNum, NEW pos \in 1..len PROVE \E k \in 1..size : g[k] = pos
    <3>1. PICK l \in 1..size : keep[l] = pos
      BY <1>4, <2>5
    <3>2. PICK k \in 1..size : f[k] = l
      BY <2>1 DEF IsPermutation
    <3> QED
      BY <3>1, <3>2
  <2>6. IsSorted(L)
    BY <2>1
  <2> HIDE DEF g, L
  <2>7. IsCopy(L, u)
    BY <1>1, <2>3, <2>4, <2>5, <2>6, CopyIsCopy DEF Copies
  <2> QED
    BY <1>1, <2>2, <2>7 DEF IsCopy
<1>6. CASE ~Reo
  <2> DEFINE L == [k \in 1..size |-> list[keep[k]]]
  <2>1. Uedge' = [Uedge EXCEPT ![u] = L]
    BY <1>3, <1>6
  <2>2. L = [k \in 1..size |-> Number(list[keep[k]])]
    BY <1>6 DEF Number
  <2> HIDE DEF L
  <2>3. IsCopy(L, u)
    BY <1>1, <1>3, <1>4, <1>6, <2>2, CopyIsCopy DEF Copies
  <2> QED
    BY <1>1, <2>1, <2>3 DEF IsCopy
<1> QED
  BY <1>5, <1>6

-----------------------------------------------------------------------------
(* The invariant.                                                          *)

\* The users whose list was copied.
Taken(w) == w < u \/ (w = u /\ loop = "item") \/ loop \in {"map", "done"}

\* Where the loops are: a user that was not reached has no list and no slot, and
\* the user being packed ends with the pool, in the slot of its last packed item.
Shape ==
    /\ loop = "user" => passed = 0
    /\ loop = "done" => u = NumUsers + 1
    /\ \A w \in Users : ~ Taken(w) => deg[w] = 0 /\ Uedge[w] = << >>
    /\ loop = "item" =>
          /\ passed <= Len(Uedge[u])
          /\ passed = 0 => deg[u] = 0
          /\ passed > 0 => /\ deg[u] > 0 /\ start[u] + deg[u] = Len(pool)
                      /\ pool[Len(pool)].base = BaseOf(Uedge[u][passed])

ListsTaken == \A w \in Users : Taken(w) => IsCopy(Uedge[w], w)

SegmentsHold ==
    \A w \in Users : Items(Segment(w)) = {Uedge[w][k] : k \in 1..PackedCount(w)}

\* How many slots of a user are in its map.
MappedCount(w) ==
    IF loop \in {"map", "done"}
    THEN IF w < u THEN deg[w] ELSE IF w = u THEN passed ELSE 0
    ELSE 0

\* The map m has the bases of the first c slots of s, and their states.
MapOf(m, s, c) ==
    /\ DOMAIN m = {s[k].base : k \in 1..c}
    /\ Reo => \A k \in 1..c : m[s[k].base] = s[k].state

MapsFollow ==
    /\ loop = "map" /\ u \in Users => passed <= deg[u]
    /\ \A w \in Users : MapOf(uedgeMap[w], Segment(w), MappedCount(w))

PInv ==
    /\ PackTypeOK /\ Shape /\ ListsTaken /\ SegmentsInOrder
    /\ SegmentsHold /\ SegmentsPacked /\ MapsFollow

LEMMA SegmentFacts ==
    ASSUME PackTypeOK, SegmentsInOrder, NEW w \in Users
    PROVE  /\ start[w] \in Int /\ deg[w] \in Nat /\ pool \in Seq(Slot) /\ Len(pool) \in Nat
           /\ Fits(pool, start[w], deg[w])
           /\ Segment(w) = Piece(pool, start[w], deg[w])
           /\ Segment(w) \in Seq(Slot) /\ Len(Segment(w)) = deg[w]
           /\ \A k \in 1..deg[w] : Segment(w)[k] \in Slot /\ Segment(w)[k] = pool[start[w] + k]
<1>1. start[w] \in Int /\ deg[w] \in Nat /\ pool \in Seq(Slot) /\ Len(pool) \in Nat
  BY DEF PackTypeOK
<1>2. Fits(pool, start[w], deg[w])
  BY <1>1 DEF Fits, SegmentsInOrder
<1>3. Segment(w) = Piece(pool, start[w], deg[w])
  BY DEF Segment, Piece
<1> QED
  BY <1>1, <1>2, <1>3, PieceFacts

\* What packing one item changes.
Packed ==
    /\ u \in Users /\ passed + 1 \in 1..Len(Uedge[u]) /\ Uedge[u][passed + 1] \in Ids
    /\ pool' \in Seq(Slot) /\ start' \in [Users -> Int] /\ deg' \in [Users -> Nat]
    /\ \A w \in Users : w # u => /\ start'[w] = start[w] /\ deg'[w] = deg[w]
                                 /\ Segment(w)' = Segment(w)
    /\ \A w \in Users : w < u /\ deg[w] > 0 => start[w] + deg[w] <= start'[u]
    /\ start'[u] >= 0 /\ deg'[u] > 0 /\ start'[u] + deg'[u] = Len(pool') /\ Len(pool) <= Len(pool')
    /\ pool'[Len(pool')].base = BaseOf(Uedge[u][passed + 1])
    /\ Items(Segment(u)') = Items(Segment(u)) \cup {Uedge[u][passed + 1]}
    /\ Reo => IsPacked(Segment(u)')
    /\ loop = "item" /\ passed' = passed + 1
    /\ UNCHANGED <<edges, mapIndex, truncNum, loop, u, Uedge, uedgeMap>>

\* The others are not touched when what changes lies at the end of the pool or
\* behind it.
LEMMA OthersKept ==
    ASSUME PackTypeOK, SegmentsInOrder, NEW w \in Users, NEW e \in Nat,
           start'[w] = start[w], deg'[w] = deg[w],
           deg[w] > 0 => start[w] + deg[w] <= e,
           \A k \in 1..Len(pool) : k <= e => pool'[k] = pool[k]
    PROVE  Segment(w)' = Segment(w)
<1>1. \A k \in 1..deg[w] : pool'[start[w] + k] = pool[start[w] + k]
  <2> TAKE k \in 1..deg[w]
  <2>1. deg[w] > 0 /\ start[w] \in Int /\ deg[w] \in Nat /\ Len(pool) \in Nat
    BY SegmentFacts
  <2>2. start[w] + k \in 1..Len(pool) /\ start[w] + k <= e
    BY <2>1 DEF SegmentsInOrder
  <2> QED
    BY <2>2
<1>2. Piece(pool', start[w], deg[w]) = Piece(pool, start[w], deg[w])
  BY <1>1 DEF Piece
<1>3. Segment(w)' = Piece(pool', start'[w], deg'[w])
  BY DEF Segment, Piece
<1> QED
  BY <1>2, <1>3, SegmentFacts

\* Before the current user, every segment ends before its own.
LEMMA EarlierEnd ==
    ASSUME PInv, loop = "item", NEW w \in Users, w # u
    PROVE  /\ u \in Users
           /\ deg[w] > 0 => w < u /\ start[w] + deg[w] <= Len(pool)
           /\ deg[w] > 0 /\ passed > 0 => start[w] + deg[w] <= start[u]
<1>1. u \in Users
  BY DEF PInv, PackTypeOK
<1>2. u \in Int /\ w \in Int /\ deg[w] \in Nat
  BY <1>1, SegmentFacts DEF PInv, Users
<1>3. deg[w] > 0 => w < u
  BY <1>2 DEF PInv, Shape, Taken
<1>4. deg[w] > 0 => start[w] + deg[w] <= Len(pool)
  BY DEF PInv, SegmentsInOrder
<1>5. deg[w] > 0 /\ passed > 0 => start[w] + deg[w] <= start[u]
  BY <1>1, <1>3 DEF PInv, Shape, SegmentsInOrder
<1> QED
  BY <1>1, <1>3, <1>4, <1>5

LEMMA ItemAt ==
    ASSUME PInv, loop = "item", passed < Len(Uedge[u])
    PROVE  /\ u \in Users /\ passed \in Nat /\ Len(Uedge[u]) \in Nat /\ passed + 1 \in 1..Len(Uedge[u])
           /\ Uedge[u] \in Seq(Ids) /\ Uedge[u][passed + 1] \in Ids
           /\ pool \in Seq(Slot) /\ Len(pool) \in Nat
           /\ start \in [Users -> Int] /\ deg \in [Users -> Nat]
<1>1. /\ u \in Users /\ passed \in Nat /\ Uedge \in [Users -> Seq(Ids)] /\ pool \in Seq(Slot)
      /\ start \in [Users -> Int] /\ deg \in [Users -> Nat]
  BY DEF PInv, PackTypeOK
<1>2. Uedge[u] \in Seq(Ids)
  BY <1>1
<1>3. Len(Uedge[u]) \in Nat /\ Len(pool) \in Nat
  BY <1>1, <1>2
<1>4. passed + 1 \in 1..Len(Uedge[u])
  BY <1>1, <1>3
<1>5. Uedge[u][passed + 1] \in Ids
  BY <1>2, <1>4, ElementOfSeq
<1> QED
  BY <1>1, <1>2, <1>3, <1>4, <1>5

LEMMA PackFirstPacks == ASSUME PInv, PackFirst PROVE Packed
<1> DEFINE v == Uedge[u][1]
           from == Len(pool)
<1>1. loop = "item" /\ passed = 0 /\ passed < Len(Uedge[u])
  <2>1. Uedge[u] \in Seq(Ids) /\ Uedge[u] # << >> /\ loop = "item" /\ passed = 0
    BY DEF PackFirst, PInv, PackTypeOK
  <2> QED
    BY <2>1, EmptySeq
<1>2. /\ u \in Users /\ passed + 1 \in 1..Len(Uedge[u]) /\ Uedge[u][passed + 1] = v /\ v \in Ids
      /\ pool \in Seq(Slot) /\ from \in Nat
      /\ start \in [Users -> Int] /\ deg \in [Users -> Nat]
  BY <1>1, ItemAt
<1>3. deg[u] = 0
  BY <1>1 DEF PInv, Shape
<1>4. /\ start' = [start EXCEPT ![u] = from] /\ deg' = [deg EXCEPT ![u] = @ + 1]
      /\ pool' = Append(pool, SlotOf(v)) /\ passed' = 1
      /\ UNCHANGED <<edges, mapIndex, truncNum, loop, u, Uedge, uedgeMap>>
  BY DEF PackFirst
<1>5. /\ start'[u] = from /\ deg'[u] = 1 /\ start' \in [Users -> Int] /\ deg' \in [Users -> Nat]
      /\ \A w \in Users : w # u => start'[w] = start[w] /\ deg'[w] = deg[w]
  BY <1>2, <1>3, <1>4
<1>6. Fits(pool, from, 0) /\ from + 0 = Len(pool) /\ 0 + 1 = 1
  BY <1>2 DEF Fits
<1>7. /\ pool' \in Seq(Slot) /\ Len(pool') = from + 1 /\ pool'[Len(pool')] = SlotOf(v)
      /\ \A k \in 1..from : pool'[k] = pool[k]
      /\ Items(Piece(pool', from, 0 + 1)) = Items(Piece(pool, from, 0)) \cup {v}
      /\ IsPacked(Piece(pool, from, 0)) => IsPacked(Piece(pool', from, 0 + 1))
  <2> HIDE DEF v, from
  <2>0. from \in Int /\ 0 \in Nat
    BY <1>2
  <2>1. Grown(pool, from, 0, v, Append(pool, SlotOf(v)))
    BY ONLY <1>2, <1>6, <2>0, PieceGrows
  <2> QED
    BY <1>4, <2>1 DEF Grown, v, from
<1>8. Segment(u)' = Piece(pool', from, 0 + 1)
  BY <1>4, <1>5, <1>6 DEF Segment, Piece
<1>9. Piece(pool, from, 0) = Segment(u)
  BY <1>3 DEF Segment, Piece
<1>10. IsPacked(Piece(pool, from, 0))
  <2>1. Len(Piece(pool, from, 0)) = 0
    BY <1>2, <1>6, PieceFacts
  <2> QED
    BY <2>1 DEF IsPacked
<1>11. \A w \in Users : w # u => Segment(w)' = Segment(w)
  <2> TAKE w \in Users
  <2> HAVE w # u
  <2>1. PackTypeOK /\ SegmentsInOrder /\ deg[w] > 0 => start[w] + deg[w] <= from
    BY <1>1, EarlierEnd DEF PInv
  <2> QED
    BY <1>2, <1>5, <1>7, <2>1, OthersKept DEF PInv
<1>12. \A w \in Users : w < u /\ deg[w] > 0 => start[w] + deg[w] <= from
  BY DEF PInv, SegmentsInOrder
<1>13. SlotOf(v).base = BaseOf(v)
  BY DEF SlotOf
<1> QED
  BY <1>1, <1>2, <1>4, <1>5, <1>7, <1>8, <1>9, <1>10, <1>11, <1>12, <1>13 DEF Packed

LEMMA LaterItem ==
    ASSUME PInv, loop = "item", passed \in 1..(Len(Uedge[u]) - 1)
    PROVE  /\ passed < Len(Uedge[u]) /\ deg[u] > 0 /\ start[u] + deg[u] = Len(pool)
           /\ Fits(pool, start[u], deg[u]) /\ start[u] >= 0 /\ Len(pool) \in 1..Len(pool)
           /\ Segment(u) = Piece(pool, start[u], deg[u])
           /\ Reo => IsPacked(Segment(u))
           /\ Reo => pool[Len(pool)].base <= BaseOf(Uedge[u][passed + 1])
           /\ BaseOf(Uedge[u][passed + 1]) \in Nat /\ pool[Len(pool)].base \in Nat
           /\ \A w \in Users : w # u /\ deg[w] > 0 => start[w] + deg[w] <= start[u]
           /\ \A w \in Users : w < u /\ deg[w] > 0 => start[w] + deg[w] <= start[u]
<1>1. passed < Len(Uedge[u]) /\ passed > 0
  <2>1. Len(Uedge[u]) \in Nat
    BY DEF PInv, PackTypeOK
  <2> QED
    BY <2>1
<1>2. /\ u \in Users /\ passed \in Nat /\ Len(Uedge[u]) \in Nat /\ passed + 1 \in 1..Len(Uedge[u])
      /\ Uedge[u] \in Seq(Ids) /\ Uedge[u][passed + 1] \in Ids
  BY <1>1, ItemAt
<1>3. /\ deg[u] > 0 /\ start[u] + deg[u] = Len(pool)
      /\ pool[Len(pool)].base = BaseOf(Uedge[u][passed])
  BY <1>1 DEF PInv, Shape
<1>4. /\ Fits(pool, start[u], deg[u]) /\ Segment(u) = Piece(pool, start[u], deg[u])
      /\ pool \in Seq(Slot) /\ Len(pool) \in Nat /\ start[u] \in Int /\ deg[u] \in Nat
  BY <1>2, SegmentFacts DEF PInv
<1>5. start[u] >= 0 /\ Len(pool) \in 1..Len(pool)
  BY <1>3, <1>4 DEF Fits
<1>6. passed \in 1..Len(Uedge[u]) /\ Uedge[u][passed] \in Ids
  <2>1. passed \in 1..Len(Uedge[u])
    BY <1>1, <1>2
  <2> QED
    BY <1>2, <2>1, ElementOfSeq
<1>7. ASSUME Reo PROVE Uedge[u][passed] <= Uedge[u][passed + 1]
  <2>1. IsSorted(Uedge[u])
    BY <1>2, <1>7 DEF PInv, ListsTaken, Taken, IsCopy
  <2>2. DOMAIN Uedge[u] = 1..Len(Uedge[u]) /\ passed < passed + 1
    BY <1>2
  <2> QED
    BY <1>2, <1>6, <2>1, <2>2 DEF IsSorted
<1>8. Reo => pool[Len(pool)].base <= BaseOf(Uedge[u][passed + 1])
  BY <1>2, <1>3, <1>6, <1>7, IdFacts, BasesAscend
<1>9. BaseOf(Uedge[u][passed + 1]) \in Nat /\ BaseOf(Uedge[u][passed]) \in Nat
  BY <1>2, <1>6, IdFacts, BasesAreNaturals
<1>10. Reo => IsPacked(Segment(u))
  BY <1>2 DEF PInv, SegmentsPacked
<1>11. \A w \in Users : w # u /\ deg[w] > 0 => start[w] + deg[w] <= start[u]
  BY <1>1, EarlierEnd
<1>12. \A w \in Users : w < u /\ deg[w] > 0 => start[w] + deg[w] <= start[u]
  BY <1>2, <1>3 DEF PInv, SegmentsInOrder
<1> QED
  BY <1>1, <1>3, <1>4, <1>5, <1>8, <1>9, <1>10, <1>11, <1>12

LEMMA PackNewPacks == ASSUME PInv, PackNew PROVE Packed
<1> DEFINE v == Uedge[u][passed + 1]
           from == start[u]
           d == deg[u]
<1>1. /\ loop = "item" /\ passed \in 1..(Len(Uedge[u]) - 1)
      /\ pool[Len(pool)].base # BaseOf(v)
      /\ pool' = Append(pool, SlotOf(v)) /\ deg' = [deg EXCEPT ![u] = @ + 1] /\ passed' = passed + 1
      /\ UNCHANGED <<edges, mapIndex, truncNum, loop, u, Uedge, start, uedgeMap>>
  BY DEF PackNew
<1>2. /\ passed < Len(Uedge[u]) /\ d > 0 /\ from + d = Len(pool) /\ Fits(pool, from, d) /\ from >= 0
      /\ Segment(u) = Piece(pool, from, d) /\ (Reo => IsPacked(Segment(u)))
      /\ Reo => pool[Len(pool)].base <= BaseOf(v)
      /\ BaseOf(v) \in Nat /\ pool[Len(pool)].base \in Nat
      /\ \A w \in Users : w # u /\ deg[w] > 0 => start[w] + deg[w] <= from
      /\ \A w \in Users : w < u /\ deg[w] > 0 => start[w] + deg[w] <= from
  BY <1>1, LaterItem
<1>3. /\ u \in Users /\ passed + 1 \in 1..Len(Uedge[u]) /\ v \in Ids
      /\ pool \in Seq(Slot) /\ Len(pool) \in Nat
      /\ start \in [Users -> Int] /\ deg \in [Users -> Nat] /\ from \in Int /\ d \in Nat
  <2>1. /\ u \in Users /\ passed + 1 \in 1..Len(Uedge[u]) /\ v \in Ids
        /\ pool \in Seq(Slot) /\ Len(pool) \in Nat
        /\ start \in [Users -> Int] /\ deg \in [Users -> Nat]
    BY <1>1, <1>2, ItemAt
  <2> QED
    BY <2>1
<1>4. /\ start'[u] = from /\ deg'[u] = d + 1 /\ start' \in [Users -> Int] /\ deg' \in [Users -> Nat]
      /\ \A w \in Users : w # u => start'[w] = start[w] /\ deg'[w] = deg[w]
  BY <1>1, <1>3
<1>5. /\ pool' \in Seq(Slot) /\ Len(pool') = Len(pool) + 1 /\ pool'[Len(pool')] = SlotOf(v)
      /\ \A k \in 1..Len(pool) : pool'[k] = pool[k]
      /\ Items(Piece(pool', from, d + 1)) = Items(Piece(pool, from, d)) \cup {v}
      /\ /\ IsPacked(Piece(pool, from, d))
         /\ d > 0 => pool[Len(pool)].base < BaseOf(v)
         => IsPacked(Piece(pool', from, d + 1))
  <2>1. Grown(pool, from, d, v, Append(pool, SlotOf(v)))
    BY <1>2, <1>3, PieceGrows
  <2> QED
    BY <1>1, <2>1 DEF Grown
<1>6. Segment(u)' = Piece(pool', from, d + 1)
  BY <1>1, <1>4 DEF Segment, Piece
<1>7. Reo => pool[Len(pool)].base < BaseOf(v)
  BY <1>1, <1>2
<1>8. \A w \in Users : w # u => Segment(w)' = Segment(w)
  <2> TAKE w \in Users
  <2> HAVE w # u
  <2>1. deg[w] > 0 => start[w] + deg[w] <= Len(pool)
    BY <1>1, EarlierEnd
  <2> QED
    BY <1>3, <1>4, <1>5, <2>1, OthersKept DEF PInv
<1>9. SlotOf(v).base = BaseOf(v)
  BY DEF SlotOf
<1>10. d + 1 > 0 /\ from + (d + 1) = Len(pool') /\ Len(pool) <= Len(pool')
  BY <1>2, <1>3, <1>5
<1> QED
  BY <1>1, <1>2, <1>3, <1>4, <1>5, <1>6, <1>7, <1>8, <1>9, <1>10 DEF Packed

LEMMA PackSamePacks == ASSUME PInv, PackSame PROVE Packed
<1> DEFINE v == Uedge[u][passed + 1]
           from == start[u]
           d == deg[u]
<1>1. /\ loop = "item" /\ passed \in 1..(Len(Uedge[u]) - 1)
      /\ pool[Len(pool)].base = BaseOf(v)
      /\ pool' = [pool EXCEPT ![Len(pool)].state = @ \cup {BitOf(v)}] /\ passed' = passed + 1
      /\ UNCHANGED <<edges, mapIndex, truncNum, loop, u, Uedge, start, deg, uedgeMap>>
  BY DEF PackSame
<1>2. /\ passed < Len(Uedge[u]) /\ d > 0 /\ from + d = Len(pool) /\ Fits(pool, from, d) /\ from >= 0
      /\ Segment(u) = Piece(pool, from, d) /\ (Reo => IsPacked(Segment(u)))
      /\ \A w \in Users : w # u /\ deg[w] > 0 => start[w] + deg[w] <= from
      /\ \A w \in Users : w < u /\ deg[w] > 0 => start[w] + deg[w] <= from
  BY <1>1, LaterItem
<1>3. /\ u \in Users /\ passed + 1 \in 1..Len(Uedge[u]) /\ v \in Ids
      /\ pool \in Seq(Slot) /\ Len(pool) \in Nat
      /\ start \in [Users -> Int] /\ deg \in [Users -> Nat] /\ from \in Int /\ d \in Nat
  <2>1. /\ u \in Users /\ passed + 1 \in 1..Len(Uedge[u]) /\ v \in Ids
        /\ pool \in Seq(Slot) /\ Len(pool) \in Nat
        /\ start \in [Users -> Int] /\ deg \in [Users -> Nat]
    BY <1>1, <1>2, ItemAt
  <2> QED
    BY <2>1
<1>4. start' = start /\ deg' = deg
  BY <1>1
<1>5. /\ pool' \in Seq(Slot) /\ Len(pool') = Len(pool) /\ pool'[Len(pool')].base = BaseOf(v)
      /\ \A k \in 1..Len(pool) : k # Len(pool) => pool'[k] = pool[k]
      /\ Items(Piece(pool', from, d)) = Items(Piece(pool, from, d)) \cup {v}
      /\ IsPacked(Piece(pool, from, d)) => IsPacked(Piece(pool', from, d))
  <2>1. Merged(pool, from, d, v, [pool EXCEPT ![Len(pool)].state = @ \cup {BitOf(v)}])
    BY <1>1, <1>2, <1>3, PieceMerges
  <2> QED
    BY <1>1, <2>1 DEF Merged
<1>6. Segment(u)' = Piece(pool', from, d)
  BY <1>1, <1>4 DEF Segment, Piece
<1>7. \A w \in Users : w # u => Segment(w)' = Segment(w)
  <2> TAKE w \in Users
  <2> HAVE w # u
  <2>1. deg[w] > 0 => start[w] + deg[w] <= from
    BY <1>2
  <2>2. from < Len(pool) /\ from \in Nat
    BY <1>2, <1>3
  <2>3. \A k \in 1..Len(pool) : k <= from => pool'[k] = pool[k]
    BY <1>3, <1>5, <2>2
  <2> QED
    BY <1>4, <2>1, <2>2, <2>3, OthersKept DEF PInv
<1>8. Len(pool) <= Len(pool')
  BY <1>3, <1>5
<1> QED
  BY <1>1, <1>2, <1>3, <1>4, <1>5, <1>6, <1>7, <1>8 DEF Packed

-----------------------------------------------------------------------------
(* Every step keeps the invariant.                                         *)

LEMMA InitHolds == PackInit => PInv
<1> SUFFICES ASSUME PackInit PROVE PInv
  OBVIOUS
<1>1. PackTypeOK
  BY ParametersOK DEF PackInit, PackTypeOK, EmptyMap
<1>2. \A w \in Users : ~ Taken(w)
  <2>1. \A w \in Users : ~ (w < 1)
    BY ParametersOK DEF Users
  <2> QED
    BY <2>1 DEF PackInit, Taken
<1>3. \A w \in Users : /\ deg[w] = 0 /\ Uedge[w] = << >> /\ uedgeMap[w] = EmptyMap
                       /\ PackedCount(w) = 0 /\ MappedCount(w) = 0
  BY <1>2 DEF PackInit, PackedCount, MappedCount, Taken
<1>4. Shape
  BY <1>3 DEF PackInit, Shape
<1>5. ListsTaken
  BY <1>2 DEF ListsTaken
<1>6. SegmentsInOrder
  BY <1>3 DEF SegmentsInOrder
<1>7. \A w \in Users : Len(Segment(w)) = 0 /\ Items(Segment(w)) = {} /\ IsPacked(Segment(w))
  <2> TAKE w \in Users
  <2>1. Len(Segment(w)) = 0
    BY <1>1, <1>3, <1>6, SegmentFacts
  <2>2. 1..0 = {}
    OBVIOUS
  <2> QED
    BY <2>1, <2>2 DEF Items, IsPacked
<1>8. SegmentsHold
  <2>1. \A w \in Users : {Uedge[w][k] : k \in 1..PackedCount(w)} = {}
    BY <1>3
  <2> QED
    BY <1>7, <2>1 DEF SegmentsHold
<1>9. SegmentsPacked
  BY <1>7 DEF SegmentsPacked
<1>10. MapsFollow
  <2>1. \A w \in Users : MapOf(uedgeMap[w], Segment(w), MappedCount(w))
    BY <1>3 DEF MapOf, EmptyMap
  <2> QED
    BY <2>1 DEF MapsFollow, PackInit
<1> QED
  BY <1>1, <1>4, <1>5, <1>6, <1>8, <1>9, <1>10 DEF PInv

\* What a copy is depends on the graph only.
LEMMA CopyKept ==
    ASSUME UNCHANGED <<edges, mapIndex, truncNum>>, NEW w \in Users, Uedge'[w] = Uedge[w],
           IsCopy(Uedge[w], w)
    PROVE  IsCopy(Uedge[w], w)'
<1>1. SizeOf(w)' = SizeOf(w) /\ NewNeighbours(w)' = NewNeighbours(w)
  BY DEF SizeOf, NewNeighbours
<1>2. IsSorted(Uedge[w])' <=> IsSorted(Uedge[w])
  BY DEF IsSorted
<1> QED
  BY <1>1, <1>2 DEF IsCopy

LEMMA PackKeeps == ASSUME PInv, Packed PROVE PInv'
<1>1. /\ PackTypeOK /\ Shape /\ ListsTaken /\ SegmentsInOrder
      /\ SegmentsHold /\ SegmentsPacked /\ MapsFollow
  BY DEF PInv
<1>2. /\ u \in Users /\ passed \in Nat /\ u' = u /\ loop' = loop /\ loop = "item" /\ passed' = passed + 1 /\ passed + 1 \in Nat
      /\ Uedge' = Uedge /\ Len(Uedge[u]) \in Nat /\ passed + 1 <= Len(Uedge[u])
  BY <1>1 DEF Packed, PackTypeOK
<1>3. PackTypeOK'
  BY <1>1, <1>2 DEF PackTypeOK, Packed
<1>4. \A w \in Users : Taken(w)' <=> Taken(w)
  BY <1>2 DEF Taken
<1>5. Shape'
  <2>1. \A w \in Users : ~ Taken(w)' => deg'[w] = 0 /\ Uedge'[w] = << >>
    BY <1>1, <1>2, <1>4 DEF Shape, Packed, Taken
  <2>2. passed' # 0
    BY <1>2
  <2> QED
    BY <1>2, <2>1, <2>2 DEF Shape, Packed
<1>6. ListsTaken'
  <2> SUFFICES ASSUME NEW w \in Users, Taken(w)' PROVE IsCopy(Uedge[w], w)'
    BY <1>2 DEF ListsTaken
  <2>1. IsCopy(Uedge[w], w) /\ Uedge'[w] = Uedge[w]
    BY <1>1, <1>2, <1>4 DEF ListsTaken
  <2> QED
    BY <2>1, CopyKept DEF Packed
<1>7. SegmentsInOrder'
  <2>1. \A w \in Users : w # u => start'[w] = start[w] /\ deg'[w] = deg[w]
    BY DEF Packed
  <2>2. \A w \in Users : start[w] \in Int /\ deg[w] \in Nat /\ start'[w] \in Int /\ deg'[w] \in Nat /\ w \in Int
    BY <1>1, <1>3 DEF PackTypeOK, Users
  <2>3. \A w \in Users : u < w => deg'[w] = 0
    <3> SUFFICES ASSUME NEW w \in Users, u < w PROVE deg'[w] = 0
      OBVIOUS
    <3>1. u \in Int /\ w \in Int /\ w # u /\ ~ (w < u)
      BY <1>2, <2>2
    <3> QED
      BY <1>1, <1>2, <2>1, <3>1 DEF Shape, Taken
  <2>4. Len(pool) \in Nat /\ Len(pool') \in Nat /\ Len(pool) <= Len(pool')
    BY <1>1 DEF Packed, PackTypeOK
  <2>5. ASSUME NEW w \in Users, deg'[w] > 0
        PROVE  start'[w] >= 0 /\ start'[w] + deg'[w] <= Len(pool')
    <3>1. CASE w = u
      BY <2>2, <2>4, <3>1 DEF Packed
    <3>2. CASE w # u
      BY <1>1, <2>1, <2>2, <2>4, <2>5, <3>2 DEF SegmentsInOrder
    <3> QED
      BY <3>1, <3>2
  <2>6. ASSUME NEW w \in Users, NEW x \in Users, w < x, deg'[w] > 0, deg'[x] > 0
        PROVE  start'[w] + deg'[w] <= start'[x]
    <3>1. CASE x = u
      <4>1. w < u /\ w # u
        BY <1>2, <2>2, <2>6, <3>1
      <4> QED
        BY <2>1, <2>6, <3>1, <4>1 DEF Packed
    <3>2. CASE w = u
      BY <2>2, <2>3, <2>6, <3>2
    <3>3. CASE w # u /\ x # u
      BY <1>1, <2>1, <2>6, <3>3 DEF SegmentsInOrder
    <3> QED
      BY <3>1, <3>2, <3>3
  <2> QED
    BY <2>5, <2>6 DEF SegmentsInOrder
<1>8. SegmentsHold'
  <2> SUFFICES ASSUME NEW w \in Users
               PROVE  Items(Segment(w)') = {Uedge[w][k] : k \in 1..PackedCount(w)'}
    BY <1>2 DEF SegmentsHold
  <2>1. CASE w = u
    <3>1. PackedCount(u) = passed /\ PackedCount(u)' = passed + 1
      <4>1. ~ (u < u)
        BY <1>2 DEF Users
      <4> QED
        BY <1>2, <4>1 DEF PackedCount
    <3>2. 1..(passed + 1) = 1..passed \cup {passed + 1}
      BY <1>2
    <3>3. {Uedge[u][k] : k \in 1..(passed + 1)} = {Uedge[u][k] : k \in 1..passed} \cup {Uedge[u][passed + 1]}
      BY <3>2
    <3>4. Items(Segment(u)) = {Uedge[u][k] : k \in 1..passed}
      BY <1>1, <1>2, <3>1 DEF SegmentsHold
    <3>5. Items(Segment(u)') = {Uedge[u][k] : k \in 1..(passed + 1)}
      BY <3>3, <3>4 DEF Packed
    <3>6. Items(Segment(w)') = Items(Segment(u)') /\ PackedCount(w)' = passed + 1
      BY <1>2, <2>1, <3>1
    <3> QED
      BY <2>1, <3>5, <3>6
  <2>2. CASE w # u
    <3>1. PackedCount(w)' = PackedCount(w)
      BY <1>2, <2>2 DEF PackedCount
    <3> QED
      BY <1>1, <2>2, <3>1 DEF SegmentsHold, Packed
  <2> QED
    BY <2>1, <2>2
<1>9. SegmentsPacked'
  <2> SUFFICES ASSUME Reo, NEW w \in Users PROVE IsPacked(Segment(w)')
    BY DEF SegmentsPacked
  <2>1. CASE w = u
    BY <2>1 DEF Packed
  <2>2. CASE w # u
    <3>1. IsPacked(Segment(w)) /\ Segment(w)' = Segment(w)
      BY <1>1, <2>2 DEF SegmentsPacked, Packed
    <3> QED
      BY <3>1
  <2> QED
    BY <2>1, <2>2
<1>10. MapsFollow'
  <2>1. \A w \in Users : MappedCount(w) = 0 /\ MappedCount(w)' = 0
    BY <1>2 DEF MappedCount
  <2>2. \A w \in Users : DOMAIN uedgeMap[w] = {}
    BY <1>1, <2>1 DEF MapsFollow, MapOf
  <2>3. \A w \in Users : MapOf(uedgeMap[w], Segment(w)', MappedCount(w)')
    BY <2>1, <2>2 DEF MapOf
  <2>4. uedgeMap' = uedgeMap
    BY DEF Packed
  <2> QED
    BY <1>2, <2>3, <2>4 DEF MapsFollow, MapOf
<1> QED
  BY <1>3, <1>5, <1>6, <1>7, <1>8, <1>9, <1>10 DEF PInv

LEMMA TakeKeeps == ASSUME PInv, TakeList PROVE PInv'
<1>1. /\ PackTypeOK /\ Shape /\ ListsTaken /\ SegmentsInOrder
      /\ SegmentsHold /\ SegmentsPacked /\ MapsFollow
  BY DEF PInv
<1>2. /\ u \in Users /\ IsCopy(Uedge'[u], u) /\ Uedge' \in [Users -> Seq(Ids)]
      /\ \A w \in Users : w # u => Uedge'[w] = Uedge[w]
  BY <1>1, TakesCopy
<1>3. /\ loop = "user" /\ loop' = "item" /\ passed' = 0 /\ u' = u /\ deg' = [deg EXCEPT ![u] = 0]
      /\ UNCHANGED <<edges, mapIndex, truncNum, pool, start, uedgeMap>>
  BY DEF TakeList
<1>4. ~ (u < u) /\ u \in Int
  BY <1>2 DEF Users
<1>5. ~ Taken(u) /\ deg[u] = 0
  BY <1>1, <1>2, <1>3, <1>4 DEF Taken, Shape
<1>6. deg' = deg
  BY <1>1, <1>3, <1>5 DEF PackTypeOK
<1>7. \A w \in Users : Taken(w)' <=> Taken(w) \/ w = u
  BY <1>3 DEF Taken
<1>8. \A w \in Users : Segment(w)' = Segment(w)
  BY <1>3, <1>6 DEF Segment
<1>9. PackTypeOK'
  BY <1>1, <1>2, <1>3, <1>6 DEF PackTypeOK
<1>10. Shape'
  <2>1. \A w \in Users : ~ Taken(w)' => deg'[w] = 0 /\ Uedge'[w] = << >>
    BY <1>1, <1>2, <1>6, <1>7 DEF Shape
  <2>2. passed' <= Len(Uedge'[u])
    <3>1. Uedge'[u] \in Seq(Ids)
      BY <1>2
    <3>2. Len(Uedge'[u]) \in Nat
      BY <3>1
    <3> QED
      BY <1>3, <3>2
  <2> QED
    BY <1>3, <1>5, <1>6, <2>1, <2>2 DEF Shape
<1>11. ListsTaken'
  <2> SUFFICES ASSUME NEW w \in Users, Taken(w)' PROVE IsCopy(Uedge[w], w)'
    BY <1>3 DEF ListsTaken
  <2>1. CASE w = u
    <3>1. SizeOf(w)' = SizeOf(w) /\ NewNeighbours(w)' = NewNeighbours(w)
      BY <1>3 DEF SizeOf, NewNeighbours
    <3>2. IsSorted(Uedge[w])' <=> IsSorted(Uedge'[w])
      BY DEF IsSorted
    <3> DEFINE L == Uedge'[w]
    <3>3. /\ L \in Seq(Ids) /\ Len(L) = SizeOf(w)
          /\ {L[k] : k \in 1..Len(L)} \subseteq NewNeighbours(w)
          /\ Len(edges[w]) <= truncNum => {L[k] : k \in 1..Len(L)} = NewNeighbours(w)
          /\ Reo => IsSorted(L)
      BY <1>2, <2>1 DEF IsCopy
    <3>4. /\ L \in Seq(Ids) /\ Len(L) = SizeOf(w)'
          /\ {L[k] : k \in 1..Len(L)} \subseteq NewNeighbours(w)'
          /\ Len(edges'[w]) <= truncNum' => {L[k] : k \in 1..Len(L)} = NewNeighbours(w)'
          /\ Reo => IsSorted(Uedge[w])'
      BY <1>3, <3>1, <3>2, <3>3
    <3> QED
      BY <3>4, Zenon DEF IsCopy
  <2>2. CASE w # u
    <3>1. IsCopy(Uedge[w], w) /\ Uedge'[w] = Uedge[w]
      BY <1>1, <1>2, <1>7, <2>2 DEF ListsTaken
    <3> QED
      BY <1>3, <3>1, CopyKept
  <2> QED
    BY <2>1, <2>2
<1>12. SegmentsInOrder'
  BY <1>1, <1>3, <1>6 DEF SegmentsInOrder
<1>13. SegmentsHold'
  <2> SUFFICES ASSUME NEW w \in Users
               PROVE  Items(Segment(w)') = {Uedge'[w][k] : k \in 1..PackedCount(w)'}
    BY <1>3 DEF SegmentsHold
  <2>1. Items(Segment(w)') = {Uedge[w][k] : k \in 1..PackedCount(w)}
    BY <1>1, <1>8 DEF SegmentsHold
  <2>2. CASE w = u
    <3>1. PackedCount(w) = 0 /\ PackedCount(w)' = 0
      BY <1>3, <1>4, <2>2 DEF PackedCount
    <3>2. 1..0 = {}
      OBVIOUS
    <3> QED
      BY <2>1, <3>1, <3>2
  <2>3. CASE w # u
    <3>1. Uedge'[w] = Uedge[w] /\ PackedCount(w)' = PackedCount(w)
      BY <1>2, <1>3, <2>3 DEF PackedCount
    <3> QED
      BY <2>1, <3>1
  <2> QED
    BY <2>2, <2>3
<1>14. SegmentsPacked'
  BY <1>1, <1>8 DEF SegmentsPacked
<1>15. MapsFollow'
  <2>1. \A w \in Users : MappedCount(w) = 0 /\ MappedCount(w)' = 0
    BY <1>3 DEF MappedCount
  <2>2. \A w \in Users : MapOf(uedgeMap[w], Segment(w), 0)
    BY <1>1, <2>1 DEF MapsFollow
  <2>3. \A w \in Users : MapOf(uedgeMap[w], Segment(w), MappedCount(w))'
    BY <1>3, <1>8, <2>1, <2>2 DEF MapOf
  <2> QED
    BY <1>3, <2>3 DEF MapsFollow
<1> QED
  BY <1>9, <1>10, <1>11, <1>12, <1>13, <1>14, <1>15 DEF PInv

\* Nothing is packed: what was packed stays as it is.
LEMMA StageKeeps ==
    ASSUME PInv, UNCHANGED <<edges, mapIndex, truncNum, Uedge, pool, start, deg>>,
           \A w \in Users : (Taken(w)' <=> Taken(w)) /\ PackedCount(w)' = PackedCount(w)
    PROVE  /\ ListsTaken' /\ SegmentsInOrder' /\ SegmentsHold' /\ SegmentsPacked'
           /\ \A w \in Users : Segment(w)' = Segment(w)
<1>1. \A w \in Users : Segment(w)' = Segment(w)
  BY DEF Segment
<1>2. ListsTaken'
  <2> SUFFICES ASSUME NEW w \in Users, Taken(w)' PROVE IsCopy(Uedge[w], w)'
    BY DEF ListsTaken
  <2> QED
    BY CopyKept DEF PInv, ListsTaken
<1>3. SegmentsInOrder'
  BY DEF PInv, SegmentsInOrder
<1>4. SegmentsHold'
  BY <1>1 DEF PInv, SegmentsHold
<1>5. SegmentsPacked'
  BY <1>1 DEF PInv, SegmentsPacked
<1> QED
  BY <1>1, <1>2, <1>3, <1>4, <1>5

LEMMA NextUserKeeps == ASSUME PInv, NextUser PROVE PInv'
<1>1. /\ loop = "item" /\ passed = Len(Uedge[u]) /\ u' = u + 1 /\ passed' = 0 /\ loop' = "user"
      /\ UNCHANGED <<edges, mapIndex, truncNum, Uedge, pool, start, deg, uedgeMap>>
  BY DEF NextUser
<1>2. u \in Users /\ u \in Int /\ u \in 1..NumUsers /\ NumUsers \in Nat /\ \A w \in Users : w \in Int
  BY <1>1, ParametersOK DEF PInv, PackTypeOK, Users
<1>3. \A w \in Users : w < u + 1 <=> w < u \/ w = u
  BY <1>2
<1>4. \A w \in Users : (Taken(w)' <=> Taken(w)) /\ PackedCount(w)' = PackedCount(w)
  BY <1>1, <1>2, <1>3 DEF Taken, PackedCount
<1>5. /\ ListsTaken' /\ SegmentsInOrder' /\ SegmentsHold' /\ SegmentsPacked'
      /\ \A w \in Users : Segment(w)' = Segment(w)
  BY <1>1, <1>4, StageKeeps
<1>6. PackTypeOK'
  BY <1>1, <1>2 DEF PInv, PackTypeOK
<1>7. Shape'
  BY <1>1, <1>4 DEF PInv, Shape
<1>8. MapsFollow'
  <2>1. \A w \in Users : MappedCount(w) = 0 /\ MappedCount(w)' = 0
    BY <1>1 DEF MappedCount
  <2> QED
    BY <1>1, <1>5, <2>1 DEF PInv, MapsFollow, MapOf
<1> QED
  BY <1>5, <1>6, <1>7, <1>8 DEF PInv

LEMMA StartMapKeeps == ASSUME PInv, StartMap PROVE PInv'
<1>1. /\ loop = "user" /\ u > NumUsers /\ u' = 1 /\ passed' = 0 /\ loop' = "map"
      /\ UNCHANGED <<edges, mapIndex, truncNum, Uedge, pool, start, deg, uedgeMap>>
  BY DEF StartMap
<1>2. u \in Int /\ NumUsers \in Nat /\ \A w \in Users : w \in Int /\ w < u /\ ~ (w < 1)
  BY <1>1, ParametersOK DEF PInv, PackTypeOK, Users
<1>3. \A w \in Users : (Taken(w)' <=> Taken(w)) /\ PackedCount(w)' = PackedCount(w)
  BY <1>1, <1>2 DEF Taken, PackedCount
<1>4. /\ ListsTaken' /\ SegmentsInOrder' /\ SegmentsHold' /\ SegmentsPacked'
      /\ \A w \in Users : Segment(w)' = Segment(w)
  BY <1>1, <1>3, StageKeeps
<1>5. PackTypeOK'
  BY <1>1, <1>2 DEF PInv, PackTypeOK
<1>6. Shape'
  BY <1>1, <1>3 DEF PInv, Shape
<1>7. MapsFollow'
  <2>1. \A w \in Users : MappedCount(w) = 0 /\ MappedCount(w)' = 0 /\ deg[w] \in Nat
    BY <1>1, <1>2 DEF MappedCount, PInv, PackTypeOK
  <2>2. \A w \in Users : MapOf(uedgeMap[w], Segment(w), MappedCount(w))'
    BY <1>1, <1>4, <2>1 DEF PInv, MapsFollow, MapOf
  <2>3. u' \in Users => passed' <= deg'[u']
    BY <1>1, <2>1
  <2> QED
    BY <2>2, <2>3 DEF MapsFollow
<1> QED
  BY <1>4, <1>5, <1>6, <1>7 DEF PInv

LEMMA MapNextUserKeeps == ASSUME PInv, MapNextUser PROVE PInv'
<1>1. /\ loop = "map" /\ u <= NumUsers /\ passed = deg[u] /\ u' = u + 1 /\ passed' = 0 /\ loop' = loop
      /\ UNCHANGED <<edges, mapIndex, truncNum, Uedge, pool, start, deg, uedgeMap>>
  BY DEF MapNextUser
<1>2. /\ u \in Users /\ u \in Int /\ u \in 1..NumUsers /\ NumUsers \in Nat
      /\ \A w \in Users : w \in Int /\ deg[w] \in Nat
  BY <1>1, ParametersOK DEF PInv, PackTypeOK, Users
<1>3. \A w \in Users : w < u + 1 <=> w < u \/ w = u
  BY <1>2
<1>4. \A w \in Users : (Taken(w)' <=> Taken(w)) /\ PackedCount(w)' = PackedCount(w)
  BY <1>1 DEF Taken, PackedCount
<1>5. /\ ListsTaken' /\ SegmentsInOrder' /\ SegmentsHold' /\ SegmentsPacked'
      /\ \A w \in Users : Segment(w)' = Segment(w)
  BY <1>1, <1>4, StageKeeps
<1>6. PackTypeOK'
  BY <1>1, <1>2 DEF PInv, PackTypeOK
<1>7. Shape'
  BY <1>1, <1>4 DEF PInv, Shape
<1>8. MapsFollow'
  <2>1. \A w \in Users : MappedCount(w)' = MappedCount(w)
    <3> TAKE w \in Users
    <3>1. ~ (u < u) /\ (w = u + 1 => w # u /\ ~ (w < u))
      BY <1>2
    <3> QED
      BY <1>1, <1>3, <3>1 DEF MappedCount
  <2>2. \A w \in Users : MapOf(uedgeMap[w], Segment(w), MappedCount(w))'
    BY <1>1, <1>5, <2>1 DEF PInv, MapsFollow, MapOf
  <2>3. u' \in Users => passed' <= deg'[u']
    BY <1>1, <1>2
  <2> QED
    BY <2>2, <2>3 DEF MapsFollow
<1> QED
  BY <1>5, <1>6, <1>7, <1>8 DEF PInv

LEMMA FinishKeeps == ASSUME PInv, PackFinish PROVE PInv'
<1>1. /\ loop = "map" /\ u > NumUsers /\ loop' = "done" /\ u' = u /\ passed' = passed
      /\ UNCHANGED <<edges, mapIndex, truncNum, Uedge, pool, start, deg, uedgeMap>>
  BY DEF PackFinish
<1>2. u = NumUsers + 1
  BY <1>1, ParametersOK DEF PInv, PackTypeOK
<1>3. \A w \in Users : /\ (Taken(w)' <=> Taken(w)) /\ PackedCount(w)' = PackedCount(w)
                       /\ MappedCount(w)' = MappedCount(w)
  BY <1>1 DEF Taken, PackedCount, MappedCount
<1>4. /\ ListsTaken' /\ SegmentsInOrder' /\ SegmentsHold' /\ SegmentsPacked'
      /\ \A w \in Users : Segment(w)' = Segment(w)
  BY <1>1, <1>3, StageKeeps
<1>5. PackTypeOK'
  BY <1>1 DEF PInv, PackTypeOK
<1>6. Shape'
  BY <1>1, <1>2, <1>3 DEF PInv, Shape
<1>7. MapsFollow'
  BY <1>1, <1>3, <1>4 DEF PInv, MapsFollow, MapOf
<1> QED
  BY <1>4, <1>5, <1>6, <1>7 DEF PInv

\* The next slot of a packed list is under a base the map does not have yet.
LEMMA MapGrows ==
    ASSUME NEW m, NEW s \in Seq(Slot), NEW c \in Nat, c + 1 \in 1..Len(s),
           MapOf(m, s, c), Reo => IsPacked(s)
    PROVE  MapOf([x \in DOMAIN m \cup {s[c + 1].base} |->
                     IF x = s[c + 1].base THEN s[c + 1].state ELSE m[x]], s, c + 1)
<1> DEFINE t == s[c + 1]
           r == [x \in DOMAIN m \cup {t.base} |-> IF x = t.base THEN t.state ELSE m[x]]
<1>1. 1..(c + 1) = 1..c \cup {c + 1} /\ 1..c \subseteq 1..Len(s)
  <2>1. Len(s) \in Nat
    OBVIOUS
  <2> QED
    BY <2>1
<1>2. /\ DOMAIN r = DOMAIN m \cup {t.base} /\ r[t.base] = t.state
      /\ \A x \in DOMAIN m : x # t.base => r[x] = m[x]
  OBVIOUS
<1>3. DOMAIN m = {s[k].base : k \in 1..c}
  BY DEF MapOf
<1> HIDE DEF r, t
<1>4. DOMAIN r = {s[k].base : k \in 1..(c + 1)}
  BY <1>1, <1>2, <1>3 DEF t
<1>5. ASSUME Reo, NEW k \in 1..(c + 1) PROVE r[s[k].base] = s[k].state
  <2>1. CASE k = c + 1
    BY <1>2, <2>1 DEF t
  <2>2. CASE k \in 1..c
    <3>1. s[k].base < t.base
      BY <1>1, <1>5, <2>2 DEF IsPacked, t
    <3>2. s[k] \in Slot /\ t \in Slot
      BY <1>1, <1>5, <2>2 DEF IsPacked, t
    <3>3. s[k].base \in Nat /\ t.base \in Nat
      BY <3>2, BasesAreNaturals DEF Slot
    <3>4. s[k].base # t.base
      BY <3>1, <3>3
    <3>5. m[s[k].base] = s[k].state
      BY <1>5, <2>2 DEF MapOf
    <3> QED
      BY <1>2, <1>3, <2>2, <3>4, <3>5
  <2> QED
    BY <1>1, <2>1, <2>2
<1>6. MapOf(r, s, c + 1)
  BY <1>4, <1>5 DEF MapOf
<1> QED
  BY <1>6 DEF r, t

LEMMA MapSlotKeeps == ASSUME PInv, MapSlot PROVE PInv'
<1> DEFINE s    == Segment(u)
           slot == pool[start[u] + passed + 1]
           m    == uedgeMap[u]
           r    == [x \in DOMAIN m \cup {slot.base} |-> IF x = slot.base THEN slot.state ELSE m[x]]
<1>1. /\ loop = "map" /\ u <= NumUsers /\ passed < deg[u] /\ u' = u /\ passed' = passed + 1 /\ loop' = loop
      /\ uedgeMap' = [uedgeMap EXCEPT ![u] = r]
      /\ UNCHANGED <<edges, mapIndex, truncNum, Uedge, pool, start, deg>>
  BY DEF MapSlot
<1>2. /\ u \in Users /\ u \in Int /\ passed \in Nat /\ NumUsers \in Nat
      /\ \A w \in Users : w \in Int /\ deg[w] \in Nat
      /\ PackTypeOK /\ SegmentsInOrder /\ Reo \in BOOLEAN
  BY <1>1, ParametersOK DEF PInv, PackTypeOK, Users
<1>3. /\ s \in Seq(Slot) /\ Len(s) = deg[u] /\ start[u] \in Int
      /\ \A k \in 1..deg[u] : s[k] \in Slot /\ s[k] = pool[start[u] + k]
  BY <1>2, SegmentFacts
<1>4. passed + 1 \in 1..deg[u] /\ start[u] + (passed + 1) = start[u] + passed + 1
  BY <1>1, <1>2, <1>3
<1>5. slot = s[passed + 1] /\ slot \in Slot
  BY <1>3, <1>4
<1>6. MappedCount(u) = passed /\ MappedCount(u)' = passed + 1
  <2>1. ~ (u < u)
    BY <1>2
  <2> QED
    BY <1>1, <2>1 DEF MappedCount
<1>7. MapOf(m, s, passed) /\ (Reo => IsPacked(s))
  BY <1>2, <1>6 DEF PInv, MapsFollow, SegmentsPacked
<1>8. MapOf(r, s, passed + 1)
  <2>1. /\ s \in Seq(Slot) /\ passed \in Nat /\ passed + 1 \in 1..Len(s)
        /\ MapOf(m, s, passed) /\ (Reo => IsPacked(s))
    BY <1>2, <1>3, <1>4, <1>7
  <2> HIDE DEF s, slot, m
  <2>2. MapOf([x \in DOMAIN m \cup {s[passed + 1].base} |->
                  IF x = s[passed + 1].base THEN s[passed + 1].state ELSE m[x]], s, passed + 1)
    BY ONLY <2>1, MapGrows
  <2> QED
    BY ONLY <1>5, <2>2 DEF r
<1> HIDE DEF r, s, slot, m
<1>9. \A w \in Users : (Taken(w)' <=> Taken(w)) /\ PackedCount(w)' = PackedCount(w)
  BY <1>1 DEF Taken, PackedCount
<1>10. /\ ListsTaken' /\ SegmentsInOrder' /\ SegmentsHold' /\ SegmentsPacked'
       /\ \A w \in Users : Segment(w)' = Segment(w)
  BY <1>1, <1>9, StageKeeps
<1>11. /\ DOMAIN uedgeMap' = Users /\ uedgeMap'[u] = r
       /\ \A w \in Users : w # u => uedgeMap'[w] = uedgeMap[w]
  BY <1>1, <1>2 DEF PackTypeOK
<1>12. DOMAIN r = DOMAIN m \cup {slot.base}
       /\ \A x \in DOMAIN r : r[x] = IF x = slot.base THEN slot.state ELSE m[x]
  BY DEF r
<1>13. DOMAIN r \subseteq Base /\ \A x \in DOMAIN r : r[x] \in State
  <2>1. slot.base \in Base /\ slot.state \in State
    BY <1>5 DEF Slot
  <2>2. DOMAIN m \subseteq Base /\ \A x \in DOMAIN m : m[x] \in State
    BY <1>2 DEF PackTypeOK, m
  <2> QED
    BY <1>12, <2>1, <2>2
<1>14. \A w \in Users : /\ DOMAIN uedgeMap'[w] \subseteq Base
                        /\ \A x \in DOMAIN uedgeMap'[w] : uedgeMap'[w][x] \in State
  <2> TAKE w \in Users
  <2>1. CASE w = u
    BY <1>11, <1>13, <2>1
  <2>2. CASE w # u
    BY <1>2, <1>11, <2>2 DEF PackTypeOK
  <2> QED
    BY <2>1, <2>2
<1>15. PackTypeOK'
  BY <1>1, <1>2, <1>11, <1>14 DEF PackTypeOK
<1>16. Shape'
  BY <1>1, <1>9 DEF PInv, Shape
<1>17. MapsFollow'
  <2>1. \A w \in Users : w # u => MappedCount(w)' = MappedCount(w)
    BY <1>1 DEF MappedCount
  <2>2. MapOf(r, Segment(u)', MappedCount(u)')
    <3>1. Segment(u)' = s
      BY <1>1, <1>2, <1>10 DEF s, Segment
    <3> QED
      BY <1>6, <1>8, <3>1
  <2>3. ASSUME NEW w \in Users PROVE MapOf(uedgeMap'[w], Segment(w)', MappedCount(w)')
    <3>1. CASE w = u
      <4>1. uedgeMap'[w] = r /\ Segment(w)' = Segment(u)' /\ MappedCount(w)' = MappedCount(u)'
        BY <1>1, <1>11, <3>1 DEF MappedCount, Segment
      <4> QED
        BY <2>2, <4>1
    <3>2. CASE w # u
      BY <1>10, <1>11, <2>1, <3>2 DEF PInv, MapsFollow
    <3> QED
      BY <3>1, <3>2
  <2>4. passed' <= deg'[u']
    BY <1>1, <1>2
  <2> QED
    BY <1>1, <2>3, <2>4 DEF MapsFollow, MapOf
<1> QED
  BY <1>10, <1>15, <1>16, <1>17 DEF PInv

-----------------------------------------------------------------------------
(* The theorems.                                                           *)

\* The strengthened invariant is inductive: where the loops are, the copies taken,
\* the order and the contents of the segments, and the maps filled so far.
THEOREM PackedInductive == PackSpec => []PInv
<1>1. PackInit => PInv
  BY InitHolds
<1>2. PInv /\ [PackNext]_packVars => PInv'
  <2> SUFFICES ASSUME PInv, [PackNext]_packVars PROVE PInv'
    OBVIOUS
  <2>1. CASE TakeList
    BY <2>1, TakeKeeps
  <2>2. CASE PackFirst
    BY <2>2, PackFirstPacks, PackKeeps
  <2>3. CASE PackSame
    BY <2>3, PackSamePacks, PackKeeps
  <2>4. CASE PackNew
    BY <2>4, PackNewPacks, PackKeeps
  <2>5. CASE NextUser
    BY <2>5, NextUserKeeps
  <2>6. CASE StartMap
    BY <2>6, StartMapKeeps
  <2>7. CASE MapSlot
    BY <2>7, MapSlotKeeps
  <2>8. CASE MapNextUser
    BY <2>8, MapNextUserKeeps
  <2>9. CASE PackFinish
    BY <2>9, FinishKeeps
  <2>10. CASE UNCHANGED packVars
    <3>1. UNCHANGED <<edges, mapIndex, truncNum, Uedge, pool, start, deg>> /\ loop' = loop /\ u' = u /\ passed' = passed
          /\ uedgeMap' = uedgeMap
      BY <2>10 DEF packVars
    <3>2. \A w \in Users : /\ (Taken(w)' <=> Taken(w)) /\ PackedCount(w)' = PackedCount(w)
                           /\ MappedCount(w)' = MappedCount(w)
      BY <3>1 DEF Taken, PackedCount, MappedCount
    <3>3. /\ ListsTaken' /\ SegmentsInOrder' /\ SegmentsHold' /\ SegmentsPacked'
          /\ \A w \in Users : Segment(w)' = Segment(w)
      BY <3>1, <3>2, StageKeeps
    <3>4. PackTypeOK'
      BY <3>1 DEF PInv, PackTypeOK
    <3>5. Shape'
      BY <3>1, <3>2 DEF PInv, Shape
    <3>6. MapsFollow'
      BY <3>1, <3>2, <3>3 DEF PInv, MapsFollow, MapOf
    <3> QED
      BY <3>3, <3>4, <3>5, <3>6 DEF PInv
  <2> QED
    BY <2>1, <2>2, <2>3, <2>4, <2>5, <2>6, <2>7, <2>8, <2>9, <2>10 DEF PackNext, PackTerminating
<1> QED
  BY <1>1, <1>2, PTL DEF PackSpec

\* Every variable keeps its type.
THEOREM PackedTypes == PackSpec => []PackTypeOK
<1>1. PInv => PackTypeOK
  BY DEF PInv
<1> QED
  BY <1>1, PackedInductive, PTL

\* At every point of the build each user's segment holds exactly what was packed of
\* its list, the segments follow one another, and a finished user's segment holds
\* all its neighbours, or TruncNum positions of them.
THEOREM SegmentsHoldTheLists == PackSpec => []SegmentsHoldLists
<1>1. ASSUME PInv PROVE SegmentsHoldLists
  <2> SUFFICES ASSUME NEW w \in Users, w < u \/ loop \in {"map", "done"}
               PROVE  IF Len(edges[w]) <= truncNum
                      THEN Items(Segment(w)) = NewNeighbours(w)
                      ELSE /\ Items(Segment(w)) \subseteq NewNeighbours(w)
                           /\ Len(Uedge[w]) = truncNum
    BY <1>1 DEF PInv, SegmentsHold, SegmentsHoldLists
  <2>1. PackedCount(w) = Len(Uedge[w])
    BY <1>1 DEF PackedCount, PInv, PackTypeOK
  <2>2. Items(Segment(w)) = {Uedge[w][k] : k \in 1..Len(Uedge[w])}
    BY <1>1, <2>1 DEF PInv, SegmentsHold
  <2>3. IsCopy(Uedge[w], w)
    BY <1>1 DEF PInv, ListsTaken, Taken
  <2> QED
    BY <2>2, <2>3 DEF IsCopy, SizeOf
<1> QED
  BY <1>1, PackedInductive, PTL

\* With renumbered items every segment is a packed list, as the intersection
\* kernels require, at every point of the build.
THEOREM SegmentsArePacked == PackSpec => []SegmentsPacked
<1>1. PInv => SegmentsPacked
  BY DEF PInv
<1> QED
  BY <1>1, PackedInductive, PTL

\* When mapBuild has finished, every user's hash map answers exactly as its list.
THEOREM MapsHoldTheLists == PackSpec => []MapsHoldLists
<1>1. ASSUME PInv PROVE MapsHoldLists
  <2> SUFFICES ASSUME loop = "done", Reo, NEW w \in Users
               PROVE  UNION {{x * PackWidth + bit : bit \in uedgeMap[w][x]} :
                               x \in DOMAIN uedgeMap[w]}
                      = {Uedge[w][k] : k \in 1..Len(Uedge[w])}
    BY DEF MapsHoldLists
  <2> DEFINE s == Segment(w)
             m == uedgeMap[w]
  <2>1. w < u
    BY <1>1, ParametersOK DEF PInv, Shape, Users
  <2>2. MappedCount(w) = deg[w] /\ PackedCount(w) = Len(Uedge[w])
    BY <2>1 DEF MappedCount, PackedCount
  <2>3. MapOf(m, s, deg[w]) /\ Items(s) = {Uedge[w][k] : k \in 1..Len(Uedge[w])}
    BY <1>1, <2>2 DEF PInv, MapsFollow, SegmentsHold
  <2>4. Len(s) = deg[w]
    BY <1>1, SegmentFacts DEF PInv
  <2> HIDE DEF s, m
  <2>5. DOMAIN m = {s[k].base : k \in 1..deg[w]} /\ \A k \in 1..deg[w] : m[s[k].base] = s[k].state
    BY <2>3 DEF MapOf
  <2>6. Items(s) = UNION {{x * PackWidth + bit : bit \in m[x]} : x \in DOMAIN m}
    BY ONLY <2>4, <2>5 DEF Items
  <2> QED
    BY <2>3, <2>6 DEF m
<1> QED
  BY <1>1, PackedInductive, PTL

-----------------------------------------------------------------------------
(* The build and the kernels together.                                     *)

\* The neighbours of a user by the ids of the file.
FileItems(w) == {edges[w][k] : k \in 1..Len(edges[w])}

Renumbered(S) == {mapIndex[v] : v \in S}

\* The build is over and left nothing of the user's list out.
Whole(w) == loop \in {"map", "done"} /\ w \in Users /\ Len(edges[w]) <= truncNum

\* The common items of two segments are the common neighbours of the two users:
\* as many, and the same ones by their new numbers.
SegmentsMeetAsLists ==
    Reo => \A w, x \in Users :
              Whole(w) /\ Whole(x) =>
                 LET both == Items(Segment(w)) \cap Items(Segment(x))
                 IN  /\ both = Renumbered(FileItems(w) \cap FileItems(x))
                     /\ Cardinality(both) = Cardinality(FileItems(w) \cap FileItems(x))

\* A renumbering keeps what two lists have in common, and how much it is.
LEMMA RenumberedMeet ==
    ASSUME mapIndex \in Numberings, NEW S \in SUBSET ItemIds, NEW T \in SUBSET ItemIds,
           IsFiniteSet(S)
    PROVE  /\ Renumbered(S) \cap Renumbered(T) = Renumbered(S \cap T)
           /\ Cardinality(Renumbered(S \cap T)) = Cardinality(S \cap T)
<1>1. /\ mapIndex \in [ItemIds -> Ids]
      /\ \A v, y \in ItemIds : mapIndex[v] = mapIndex[y] => v = y
  BY ParametersOK
<1>2. Renumbered(S) \cap Renumbered(T) = Renumbered(S \cap T)
  BY <1>1 DEF Renumbered
<1> DEFINE M == S \cap T
           f == [v \in M |-> mapIndex[v]]
<1>3. IsFiniteSet(M)
  BY FS_Subset
<1>4. f \in Bijection(M, Renumbered(M))
  <2>1. f \in [M -> Renumbered(M)]
    BY DEF Renumbered
  <2>2. \A v, y \in M : f[v] = f[y] => v = y
    BY <1>1
  <2>3. \A n \in Renumbered(M) : \E v \in M : f[v] = n
    BY DEF Renumbered
  <2> QED
    BY <2>1, <2>2, <2>3 DEF Bijection, Injection, Surjection, IsInjective
<1>5. ExistsBijection(M, Renumbered(M))
  BY <1>4 DEF ExistsBijection
<1>6. Cardinality(Renumbered(M)) = Cardinality(M)
  BY <1>3, <1>5, FS_Bijection
<1> QED
  BY <1>2, <1>6

\* After the build, what two users' segments have in common is what their lists in
\* the file have in common, renumbered.
THEOREM SegmentsAnswerForTheLists == PackSpec => []SegmentsMeetAsLists
<1>1. ASSUME PInv, SegmentsHoldLists PROVE SegmentsMeetAsLists
  <2> SUFFICES ASSUME Reo, NEW w \in Users, NEW x \in Users, Whole(w), Whole(x)
               PROVE  LET both == Items(Segment(w)) \cap Items(Segment(x))
                      IN  /\ both = Renumbered(FileItems(w) \cap FileItems(x))
                          /\ Cardinality(both) = Cardinality(FileItems(w) \cap FileItems(x))
    BY DEF SegmentsMeetAsLists
  <2>1. mapIndex \in Numberings /\ edges \in [Users -> Seq(ItemIds)]
    BY <1>1 DEF PInv, PackTypeOK
  <2>2. ASSUME NEW y \in Users, Whole(y)
        PROVE  /\ Items(Segment(y)) = Renumbered(FileItems(y))
               /\ FileItems(y) \in SUBSET ItemIds
    <3>1. Items(Segment(y)) = NewNeighbours(y)
      BY <1>1, <2>2 DEF SegmentsHoldLists, Whole
    <3>2. NewNeighbours(y) = Renumbered(FileItems(y))
      BY DEF NewNeighbours, Renumbered, FileItems
    <3>3. edges[y] \in Seq(ItemIds)
      BY <2>1
    <3> QED
      BY <3>1, <3>2, <3>3, ElementOfSeq DEF FileItems
  <2>3. IsFiniteSet(FileItems(w))
    <3>1. edges[w] \in Seq(ItemIds) /\ Len(edges[w]) \in Nat
      BY <2>1
    <3>2. IsFiniteSet(1..Len(edges[w]))
      <4>1. 1 \in Int /\ Len(edges[w]) \in Int
        BY <3>1
      <4> QED
        BY <4>1, FS_Interval
    <3> DEFINE g == [k \in 1..Len(edges[w]) |-> edges[w][k]]
    <3>3. g \in Surjection(1..Len(edges[w]), FileItems(w))
      BY DEF Surjection, FileItems
    <3> QED
      BY <3>2, <3>3, FS_Surjection
  <2> DEFINE S == FileItems(w)
             T == FileItems(x)
  <2>4. /\ S \in SUBSET ItemIds /\ T \in SUBSET ItemIds /\ IsFiniteSet(S)
        /\ Items(Segment(w)) = Renumbered(S) /\ Items(Segment(x)) = Renumbered(T)
    BY <2>2, <2>3
  <2> HIDE DEF S, T
  <2>5. /\ Renumbered(S) \cap Renumbered(T) = Renumbered(S \cap T)
        /\ Cardinality(Renumbered(S \cap T)) = Cardinality(S \cap T)
    BY ONLY <2>1, <2>4, RenumberedMeet
  <2>6. /\ Items(Segment(w)) \cap Items(Segment(x)) = Renumbered(S \cap T)
        /\ Cardinality(Items(Segment(w)) \cap Items(Segment(x))) = Cardinality(S \cap T)
    BY ONLY <2>4, <2>5
  <2> QED
    BY ONLY <2>6 DEF S, T
<1> QED
  BY <1>1, PackedInductive, SegmentsHoldTheLists, PTL

\* A call that was given the segments of two users and has returned.
Returned(w, x) == pc = "done" /\ a = Segment(w) /\ b = Segment(x)

\* The counting kernel's answer for two users is the number of their common
\* neighbours; the other kernel's answer holds these, renumbered.
PairsCounted ==
    Reo => \A w, x \in Users :
              Whole(w) /\ Whole(x) /\ Returned(w, x) =>
                 res = Cardinality(FileItems(w) \cap FileItems(x))

PairsIntersected ==
    Reo => \A w, x \in Users :
              Whole(w) /\ Whole(x) /\ Returned(w, x) =>
                 Items(out) = Renumbered(FileItems(w) \cap FileItems(x))

\* The counting kernel, called with two users' segments of the finished pool,
\* returns the number of common neighbours that the scores are divided by.
THEOREM KernelCountsCommonNeighbours == PackSpec /\ CountSpec => []PairsCounted
<1>1. SegmentsMeetAsLists /\ ReturnsSize => PairsCounted
  BY DEF SegmentsMeetAsLists, ReturnsSize, PairsCounted, Returned
<1> QED
  BY <1>1, SegmentsAnswerForTheLists, ReturnsTheSize, PTL

\* The storing kernel, called with them, returns the common neighbours, renumbered:
\* the items whose scores the callers raise.
THEOREM KernelFindsCommonNeighbours == PackSpec /\ Spec => []PairsIntersected
<1>1. SegmentsMeetAsLists /\ ReturnsIntersection => PairsIntersected
  BY DEF SegmentsMeetAsLists, ReturnsIntersection, PairsIntersected, Returned
<1> QED
  BY <1>1, SegmentsAnswerForTheLists, ReturnsCommonItems, PTL
=============================================================================
