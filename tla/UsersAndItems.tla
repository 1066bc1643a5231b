--------------------------- MODULE UsersAndItems ---------------------------
(* The ids of a graph: users are 0 .. m_nu - 1, items 0 .. m_nv - 1. *)
EXTENDS Integers

CONSTANTS NumUsers, NumItems        \* m_nu and m_nv, as stat.txt has them

ASSUME SizesOK == NumUsers \in Nat /\ NumItems \in Nat

User == 0..(NumUsers - 1)
Item == 0..(NumItems - 1)
=============================================================================
