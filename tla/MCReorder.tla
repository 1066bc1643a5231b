----------------------------- MODULE MCReorder -----------------------------
(***************************************************************************)
(* An instance of Reorder: five items, two users and files of two to six  *)
(* edges, with windows of four numbers (the last window is cut short by    *)
(* the end of the items, and others by an empty queue), samples of one     *)
(* edge, so that the window often misses a user, and the degree limit of   *)
(* five items.                                                             *)
(***************************************************************************)
EXTENDS Reorder

Pairs == User \X Item

PairNumber(p) == p[1] * NumItems + p[2]

\* The order of the edges in the file does not matter to a renumbering: files
\* without a repeated edge in one order, and files of two edges repeated.
FileOf(S) ==
    [k \in 1..Cardinality(S) |->
        CHOOSE p \in S :
            Cardinality({q \in S : PairNumber(q) < PairNumber(p)}) = k - 1]

MCGraphs ==
    {FileOf(S) : S \in {T \in SUBSET Pairs : Cardinality(T) \in 2..6}}
    \cup {<<p, p, q, r, r>> : p \in Pairs, q \in Pairs, r \in {<<0, 0>>, <<1, 1>>}}
=============================================================================
