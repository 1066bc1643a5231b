---------------------------- MODULE KascSampling ----------------------------
(***************************************************************************)
(* The first stage of FastKASC: n_rounds pairs of users of the query item  *)
(* are drawn with replacement; every item the two users have in common     *)
(* gets a running mean and a running variance of its contributions, over   *)
(* the rounds that reached it.  The rounds that did not are then brought   *)
(* in as zeros.                                                            *)
(*                                                                         *)
(* With few rounds for the number of pairs each draw is used at once;      *)
(* otherwise the draws are collected in a map S, and each distinct pair    *)
(* is used once with its number of draws.  Doubles are exact fractions.    *)
(***************************************************************************)
EXTENDS Sums, FiniteSets

CONSTANTS
    Items,          \* the new numbers of the items
    VqMap,          \* the query item's
    Dvq,            \* users of the query item
    Neighbours,     \* the possible neighbourhoods of these users
    Alpha,
    Rounds,         \* the possible n_rounds
    DirectOver      \* 10: pairs per round above which draws are not collected

Users    == 0..(Dvq - 1)
Pairs    == {p \in Users \X Users : p[1] < p[2]}
NumPairs == (Dvq * (Dvq - 1)) \div 2

ASSUME ParametersOK ==
    /\ IsFiniteSet(Items) /\ Dvq \in Nat /\ Dvq >= 2
    /\ Neighbours \subseteq [Users -> {N \in SUBSET Items : VqMap \in N}]
    /\ Alpha \in Nat \ {0} /\ Rounds \subseteq Nat /\ DirectOver \in Nat

VARIABLES
    nbrs,           \* the users' items
    rounds,         \* n_rounds
    pc,             \* "direct", "draw", "update", "scale" or "done"
    drawn,          \* how often each pair was drawn; S, when draws are collected
    todo,           \* what the loop over S, or over Act, has not reached
    Act,            \* the items that were reached
    exRound, swing, variance

vars == <<nbrs, rounds, pc, drawn, todo, Act, exRound, swing, variance>>

NaN  == <<0, 0>>
Zero == Whole(0)

RoundsDrawn == Total(drawn, Pairs)

Init ==
    /\ nbrs \in Neighbours /\ rounds \in Rounds
    /\ pc = IF NumPairs > DirectOver * rounds THEN "direct" ELSE "draw"
    /\ drawn = [p \in Pairs |-> 0]
    /\ todo = {} /\ Act = {}
    /\ exRound = [v \in Items |-> 0]
    /\ swing = [v \in Items |-> Zero]
    /\ variance = [v \in Items |-> Zero]

-----------------------------------------------------------------------------

\* The two indices, the second from a range that is one shorter.
DrawnPairSkewed(k1, k2) == IF k1 > k2 THEN <<k2, k1>> ELSE <<k1, k2>> \* faulty
DrawnPair(k1, k2) ==
    LET l == IF k2 >= k1 THEN k2 + 1 ELSE k2
    IN  IF k1 > l THEN <<l, k1>> ELSE <<k1, l>>

Common(p) == nbrs[p[1]] \cap nbrs[p[2]]
Gamma(p)  == Frac(NumPairs, Alpha + Cardinality(Common(p)))

\* The running variance when c contributions diff away from the mean m of the
\* r before them come in: with the wrong mean, and as it is.
NextVarianceNewMean(v, c, diff) ==
    LET r    == exRound[v]
        ex   == r + c
        left == Minus(diff, DividedBy(Times(Whole(c), diff), ex))
    IN  IF ex > c
        THEN Plus(variance[v],
                  DividedBy(Times(Whole(c), Minus(Times(left, left), variance[v])), ex - 1))
        ELSE variance[v]

NextVariance(v, c, diff) ==
    LET r  == exRound[v]
        ex == r + c
        sq == DividedBy(Times(Whole(r), Times(diff, diff)), ex)
    IN  IF ex > c
        THEN Plus(variance[v],
                  DividedBy(Times(Whole(c), Minus(sq, variance[v])), ex - 1))
        ELSE variance[v]

\* c draws of p: every common item but the query item is brought up to date.
Use(p, c) ==
    LET reached == Common(p) \ {VqMap}
        diff(v) == Minus(Gamma(p), swing[v])
    IN  /\ Act' = Act \cup reached
        /\ exRound' = [v \in Items |-> IF v \in reached THEN exRound[v] + c ELSE exRound[v]]
        /\ swing' = [v \in Items |->
                        IF v \in reached
                        THEN Plus(swing[v], DividedBy(Times(Whole(c), diff(v)), exRound[v] + c))
                        ELSE swing[v]]
        /\ variance' = [v \in Items |->
                          IF v \in reached THEN NextVariance(v, c, diff(v)) ELSE variance[v]]

Draw(p) == drawn' = [drawn EXCEPT ![p] = @ + 1]

DrawAndUse ==
    /\ pc = "direct" /\ RoundsDrawn < rounds
    /\ \E k1 \in 0..(Dvq - 1), k2 \in 0..(Dvq - 2) :
          /\ Draw(DrawnPair(k1, k2))
          /\ Use(DrawnPair(k1, k2), 1)
    /\ UNCHANGED <<nbrs, rounds, pc, todo>>

Collect ==
    /\ pc = "draw" /\ RoundsDrawn < rounds
    /\ \E k1 \in 0..(Dvq - 1), k2 \in 0..(Dvq - 2) : Draw(DrawnPair(k1, k2))
    /\ UNCHANGED <<nbrs, rounds, pc, todo, Act, exRound, swing, variance>>

StartUpdates ==
    /\ pc = "draw" /\ RoundsDrawn = rounds
    /\ pc' = "update"
    /\ todo' = {p \in Pairs : drawn[p] > 0}
    /\ UNCHANGED <<nbrs, rounds, drawn, Act, exRound, swing, variance>>

\* The entries of S, in the order of the hash map.
UseCollected ==
    /\ pc = "update"
    /\ \E p \in todo :
          /\ todo' = todo \ {p}
          /\ Use(p, drawn[p])
    /\ UNCHANGED <<nbrs, rounds, pc, drawn>>

StartScaling ==
    /\ \/ pc = "direct" /\ RoundsDrawn = rounds
       \/ pc = "update" /\ todo = {}
    /\ pc' = "scale"
    /\ todo' = Act
    /\ UNCHANGED <<nbrs, rounds, drawn, Act, exRound, swing, variance>>

-----------------------------------------------------------------------------

\* The rounds that did not reach v join as zeros.  With a single round the code
\* divides zero by zero.
ScaledVariance(v, s) ==
    LET r      == exRound[v]
        square == Times(Times(DividedBy(s, r), Whole(rounds)), s)
    IN  IF rounds = 1 THEN NaN
        ELSE Plus(variance[v],
                  DividedBy(Times(Whole(rounds - r), Minus(square, variance[v])),
                            rounds - 1))

Scale ==
    /\ pc = "scale"
    /\ \E v \in todo :
          LET s == DividedBy(Times(Whole(exRound[v]), swing[v]), rounds)
          IN  /\ todo' = todo \ {v}
              /\ swing' = [swing EXCEPT ![v] = s]
              /\ variance' = [variance EXCEPT ![v] = ScaledVariance(v, s)]
              /\ exRound' = [exRound EXCEPT ![v] = rounds]
    /\ UNCHANGED <<nbrs, rounds, pc, drawn, Act>>

Finish ==
    /\ pc = "scale" /\ todo = {}
    /\ pc' = "done"
    /\ UNCHANGED <<nbrs, rounds, drawn, todo, Act, exRound, swing, variance>>

Terminating == pc = "done" /\ UNCHANGED vars

Next ==
    \/ DrawAndUse \/ Collect \/ StartUpdates \/ UseCollected
    \/ StartScaling \/ Scale \/ Finish \/ Terminating

Spec == Init /\ [][Next]_vars

-----------------------------------------------------------------------------
(* Properties.                                                             *)

IsFraction(x) == x \in Int \X (Nat \ {0})

\* Every variable keeps its type: an index is never drawn together with itself.
TypeOK ==
    /\ nbrs \in Neighbours /\ rounds \in Rounds
    /\ pc \in {"direct", "draw", "update", "scale", "done"}
    /\ drawn \in [Pairs -> 0..rounds]
    /\ IF pc = "update" THEN todo \subseteq Pairs ELSE todo \subseteq Items
    /\ Act \subseteq Items \ {VqMap}
    /\ exRound \in [Items -> 0..rounds]
    /\ \A v \in Items : IsFraction(swing[v]) /\ (variance[v] = NaN \/ IsFraction(variance[v]))

\* The draws that have been used so far, and the pairs that reach v.
Used        == [p \in Pairs |->
                  IF pc = "draw" \/ (pc = "update" /\ p \in todo) THEN 0 ELSE drawn[p]]
Reaching(v) == {p \in Pairs : v \in Common(p)}
Hits(v)     == Total(Used, Reaching(v))

\* The sum of f over the used draws that reach v; of the contributions, and of
\* their squared distances from m.
Weighted(f, v) == SumOf([p \in Pairs |-> Times(Whole(Used[p]), f[p])], Reaching(v))
Contributed(v) == Weighted([p \in Pairs |-> Gamma(p)], v)
Squares(v, m)  ==
    Weighted([p \in Pairs |-> Times(Minus(Gamma(p), m), Minus(Gamma(p), m))], v)

\* While the draws are used, an item's numbers are the mean and the unbiased
\* variance of the contributions that reached it, in whatever order and in
\* whatever multiples they came in.
StreamingMoments ==
    pc \in {"direct", "draw", "update"} =>
        \A v \in Items \ {VqMap} :
            /\ exRound[v] = Hits(v)
            /\ Times(Whole(Hits(v)), swing[v]) = Contributed(v)
            /\ Hits(v) >= 1 =>
                  Times(Whole(Hits(v) - 1), variance[v]) = Squares(v, swing[v])

\* At the end, they are those of all the rounds, a round that did not reach the
\* item counted as zero; an item no round reached, and the query item, have
\* none.  (The variance of a single round is not a number.)
FinalMoments ==
    pc = "done" =>
        /\ \A v \in Act :
              LET m       == swing[v]
                  missing == Times(Whole(rounds - Hits(v)), Times(m, m))
              IN  /\ exRound[v] = rounds
                  /\ Times(Whole(rounds), m) = Contributed(v)
                  /\ rounds >= 2 =>
                        Times(Whole(rounds - 1), variance[v]) = Plus(Squares(v, m), missing)
        /\ \A v \in Items \ Act :
              /\ v = VqMap \/ Hits(v) = 0
              /\ swing[v] = Zero

\* The moments are right at every point of the stage.
Moments == StreamingMoments /\ FinalMoments
=============================================================================
