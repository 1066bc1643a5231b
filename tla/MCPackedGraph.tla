--------------------------- MODULE MCPackedGraph ---------------------------
(***************************************************************************)
(* Instances of PackedGraph.  The ids lie on both sides of the bounds of   *)
(* the bases 0, 1 and 2, so that one user's list has slots of one, two and *)
(* three bits, and the first item of a user often has the base of the last *)
(* slot of the user before.                                                *)
(***************************************************************************)
EXTENDS PackedGraph

Lists(S, len) == UNION {[1..k -> S] : k \in 0..len}

ThreeIds == {0, 1, 2}

\* Three users of up to two edges, the one in the middle of at most one, so that
\* an empty user often lies between two others; a repeated edge included.
MCGraphs ==
    {<<x, y, z>> : x \in Lists(ThreeIds, 2), y \in Lists({0}, 1), z \in Lists(ThreeIds, 2)}
    \cup {<<x, << >>, z>> : x \in Lists(ThreeIds, 3), z \in [1..3 -> ThreeIds]}

MCNumberings == {[x \in ThreeIds |-> <<0, 31, 32>>[x + 1]],
                 [x \in ThreeIds |-> <<33, 0, 32>>[x + 1]]}
=============================================================================
