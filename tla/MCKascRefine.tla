---------------------------- MODULE MCKascRefine ----------------------------
(***************************************************************************)
(* An instance of KascRefine: five users, four items, and numbers of       *)
(* rounds on both sides of every threshold of the code.  Depending on how  *)
(* many users have an item of Refine, three rounds and more lead to all    *)
(* pairs, to direct draws or to collected ones.  A mask has three bits, so *)
(* that one list is longer than a mask.                                    *)
(***************************************************************************)
EXTENDS KascRefine

MCItems == {1, 2, 3, 4}

\* Item 1 is had by the first users or by the last, item 2 by some in between;
\* item 3, when it is in no list, by users that are put aside; item 4 shares its
\* bit with item 1 in the long list.
MCNeighbours ==
    {[w \in Users |-> (IF w \in S THEN {1} ELSE {}) \cup (IF w \in T THEN {2} ELSE {})
                      \cup (IF w > 3 THEN {3} ELSE {}) \cup (IF w \in {2, 5} THEN {4} ELSE {})] :
        S \in {{}, {1, 2}, {3, 4, 5}}, T \in {{}, {2}, {2, 3, 4}}}

MCRefineLists == {<< >>, <<1>>, <<1, 2>>, <<2, 3>>, <<1, 2, 3>>, <<1, 2, 3, 4>>}
=============================================================================
