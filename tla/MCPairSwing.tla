---------------------------- MODULE MCPairSwing ----------------------------
(***************************************************************************)
(* An instance of PairSwing: up to four users, slots of two items.  The    *)
(* graphs have users with one edge, repeated edges, lists that share       *)
(* nothing but the query item 0, and lists of four slots, which are        *)
(* sampled at a rate that depends on what they share.                      *)
(***************************************************************************)
EXTENDS PairSwing

MCUser == 1..4
MCItem == 0..7

\* The edges of a function from users to lists of items.
Edges(f) ==
    LET of(u) == [k \in 1..Len(f[u]) |-> <<u, f[u][k]>>]
    IN  of(1) \o of(2) \o of(3) \o of(4)

MCGraphs ==
    {Edges(<< <<0, 1>>, <<0, 1, 2>>, <<0>>, <<2, 0, 1>> >>),
     Edges(<< <<0>>, <<0, 3>>, <<0, 0>>, <<3>> >>),
     Edges(<< <<3, 0, 3>>, <<0, 1, 3>>, <<0, 0>>, <<1, 3>> >>),
     Edges(<< <<0, 1, 2, 4, 6>>, <<0, 2, 5, 7>>, <<0, 3, 5, 7>>, <<5>> >>),
     Edges(<< <<0, 1>>, <<0, 1, 2>>, <<0, 2>>, <<0, 1, 2, 3>> >>)}

\* The ids as they are, and an order that puts other items together in a slot.
MCNumberings == {[v \in MCItem |-> v], [v \in MCItem |-> (v + 3) % 8]}

MCEps == <<4, 5>>
MCAdaptRho == <<1, 2>>
=============================================================================
