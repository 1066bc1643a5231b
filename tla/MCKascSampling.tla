--------------------------- MODULE MCKascSampling ---------------------------
(***************************************************************************)
(* An instance of KascSampling: five users of the query item 0, two other  *)
(* items.  One and three rounds are used as they are drawn, four are       *)
(* collected.                                                              *)
(***************************************************************************)
EXTENDS KascSampling

MCItems == {0, 1, 2}

\* Neighbourhoods in which pairs of users have one, two and three items in
\* common, so that the contributions to an item differ.
MCNeighbours ==
    {[u \in Users |-> {0} \cup (IF u \in S THEN {1} ELSE {})
                          \cup (IF u \in T THEN {2} ELSE {})] :
        S \in {{0, 1, 2, 3}, {0, 1, 2, 3, 4}},
        T \in {{}, {1, 2}, {2, 3, 4}}}
=============================================================================
