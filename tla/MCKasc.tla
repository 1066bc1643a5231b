------------------------------- MODULE MCKasc -------------------------------
(***************************************************************************)
(* An instance of Kasc with two items above the border and up to two       *)
(* below.  Of six items with few different scores one or two are evicted   *)
(* from the heap or never enter it; of four items with wider intervals all *)
(* ways to cross the border are tried.                                     *)
(***************************************************************************)
EXTENDS Kasc

Rows(ids, scores, radii) == [ids -> [score : scores, radius : radii]]

MCEstimates ==
    UNION {Rows(1..n, {1, 2}, {1}) : n \in 0..6}
    \cup Rows(1..4, {2, 4}, {1, 2})
    \cup Rows(1..3, {1, 3, 5}, {1, 3})

MCWidths == {-3, 0, 1, 7}
MCItems  == 1..6
=============================================================================
