--------------------------- MODULE MCPackedLists ---------------------------
(***************************************************************************)
(* Sets of packed lists for the instances of the intersection kernels.     *)
(* The bases are chosen so that two of them agree on their low byte, on    *)
(* their two low bytes, and on all bytes but the highest: the byte filter  *)
(* then needs each of its four stages.                                     *)
(***************************************************************************)
EXTENDS PackedSlots

\* The packed list over the bases of S whose words are given by word.
PackedList(S, word(_)) ==
    LET nth(k) == CHOOSE x \in S : Cardinality({y \in S : y < x}) = k - 1
    IN  [k \in 1..Cardinality(S) |->
            LET x == nth(k) IN [base |-> x, state |-> word(x)]]

\* Six bases; every subset of them, hence zero to six slots: up to one
\* whole block and a tail of up to three slots.
ByteBases == {0, 1, 256, 65536, 16777216, 16777217}

\* Lists of even length hold words with bit 0, the others words with bit 31 or
\* with both, by the base: equal bases meet with equal, overlapping and disjoint
\* words.
ByteLists ==
    {PackedList(S, LAMBDA x : IF Cardinality(S) % 2 = 0 THEN {0}
                              ELSE IF x % 2 = 0 THEN {0, 31} ELSE {31}) :
        S \in SUBSET ByteBases}

\* Nine small bases, lists of eight or nine slots and of four or five: one or
\* two whole blocks, with every relative position of the block ends.
LongLists ==
    {PackedList(S, LAMBDA x : {0}) :
        S \in {T \in SUBSET (0..8) : Cardinality(T) >= 8}}
    \cup {PackedList(S, LAMBDA x : {x % 2}) :
             S \in {T \in SUBSET {0, 1, 4, 5, 7, 8} : Cardinality(T) \in 4..5}}

MCLists == ByteLists \cup LongLists
=============================================================================
