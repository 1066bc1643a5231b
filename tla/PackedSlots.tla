---------------------------- MODULE PackedSlots ----------------------------
(***************************************************************************)
(* The packed form of a neighbour list, and the one-block comparison of    *)
(* two packed lists that every intersection of K-ASC is built from.        *)
(*                                                                         *)
(* A list of item ids is packed into SLOTS: a slot holds a base (the id    *)
(* shifted right by PACK_SHIFT) and a state, the set of the bits that are  *)
(* 1 in the 32-bit PackState word, so that & is \cap and "word # 0" is     *)
(* "state # {}".  The vector kernels compare four slots of each list at a  *)
(* time; a lane is the position of a slot in its block.                    *)
(***************************************************************************)
EXTENDS Integers, FiniteSets, Sequences

PackWidth == 32
Bit       == 0..(PackWidth - 1)
State     == SUBSET Bit

\* A base is a non-negative 32-bit int: its highest byte is below 128.
Base == {x \in Nat : x \div 16777216 < 128}
Slot == [base : Base, state : State]

\* What the builders leave in the pool for one user: bases strictly ascending,
\* no slot without a bit.
IsPacked(list) ==
    /\ \A k \in 1..Len(list) : list[k] \in Slot /\ list[k].state # {}
    /\ \A k, l \in 1..Len(list) : k < l => list[k].base < list[l].base

\* The item ids a packed list stands for.
Items(list) ==
    UNION {{list[k].base * PackWidth + bit : bit \in list[k].state} :
              k \in 1..Len(list)}

-----------------------------------------------------------------------------
(* The byte filter.                                                        *)

Lane == 1..4

\* Byte d (0 is the lowest) of a base: the lane of the d-th shuffle order.
Byte(x, d) == << x % 256, (x \div 256) % 256,
                 (x \div 65536) % 256, x \div 16777216 >>[d + 1]

\* The 16-bit compare mask after the bytes 0..d were compared and ANDed:
\* the pairs of lanes whose bases agree on all of these bytes.
ByteMask(A, B, d) ==
    {pq \in Lane \X Lane :
        \A e \in 0..d : Byte(A[pq[1]].base, e) = Byte(B[pq[2]].base, e)}

\* Dictionary value -1: some lane of A has more than one candidate in B.
IsMultiMatch(mask) ==
    \E p, q, r \in Lane : q # r /\ <<p, q>> \in mask /\ <<p, r>> \in mask

\* Faulty: the cascade stops after three bytes.
LastByteOfThree(A, B) ==
    CHOOSE d \in 0..2 :
        /\ \A e \in 0..(d - 1) : IsMultiMatch(ByteMask(A, B, e))
        /\ d < 2 => ~ IsMultiMatch(ByteMask(A, B, d))

\* The bytes compared before the candidates are unique: one byte more as long
\* as the dictionary answers -1, and never more than four.
LastByte(A, B) ==
    CHOOSE d \in 0..3 :
        /\ \A e \in 0..(d - 1) : IsMultiMatch(ByteMask(A, B, e))
        /\ d < 3 => ~ IsMultiMatch(ByteMask(A, B, d))

FilterMask(A, B) == ByteMask(A, B, LastByte(A, B))

\* The other dictionary values: for each lane of A the lane of B to compare it
\* with, its own lane when it has no candidate.
MatchOrder(mask) ==
    [p \in Lane |-> IF \E q \in Lane : <<p, q>> \in mask
                    THEN CHOOSE q \in Lane : <<p, q>> \in mask
                    ELSE p]

\* B gathered into that order.
Gather(mask, B) == [p \in Lane |-> B[MatchOrder(mask)[p]]]

\* The lanes that survive the full comparison: equal bases, and a common bit.
HitLanes(A, G) ==
    {p \in Lane : A[p].base = G[p].base /\ A[p].state \cap G[p].state # {}}

\* The four slots of a list from position n on (positions count from 1).
Block(list, n) == [p \in Lane |-> list[n + p]]

\* The vector loops run over the whole blocks of a list, the scalar loop over
\* what is left.
WholeBlocks(list) == Len(list) - (Len(list) % 4)
=============================================================================
