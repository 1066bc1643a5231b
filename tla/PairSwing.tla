----------------------------- MODULE PairSwing -----------------------------
(***************************************************************************)
(* The procedures that score all items against the query item vq by going  *)
(* over pairs of its users: ExactSwing and FastExactSwing, which follow    *)
(* the definition; PRSwing, FastASC and FastKASC, which choose between all *)
(* pairs, all pairs with a sample of the slots of one list, and a sample   *)
(* of the pairs.  (FastKASC's sample of the pairs is in the modules        *)
(* KascSampling, KascBoundary and KascRefine.)  At the end the scores of   *)
(* the procedures that work on renumbered items are put back under the     *)
(* items' own ids.                                                         *)
(*                                                                         *)
(* A pair of users u, w adds 1 / (alpha + |N(u) \cap N(w)|) to the score   *)
(* of every item both have.  Scores are exact fractions.                   *)
(***************************************************************************)
EXTENDS Sums, FiniteSets, Sequences

CONSTANTS
    User, Item,
    Graphs,         \* the possible edge files: sequences of <<user, item>>
    Queries,        \* the possible query items
    Numberings,     \* the possible mapIndex
    PackWidth,      \* items per slot
    Alphas,         \* the possible alpha
    Rounds,         \* the possible n_rounds (total_rounds in FastKASC)
    Eps,            \* eps (0.8), a fraction
    AdaptRho,       \* AdaptRho (0.5), a fraction
    DirectOver      \* 10: pairs per round above which draws are not collected

Procedure == {"ExactSwing", "FastExactSwing", "PRSwing", "FastASC", "FastKASC"}

ASSUME ParametersOK ==
    /\ Item \subseteq Nat /\ Queries \subseteq Item
    /\ Graphs \subseteq Seq(User \X Item)
    /\ \A m \in Numberings : /\ m \in [Item -> Item]
                             /\ \A x, y \in Item : m[x] = m[y] => x = y
    /\ PackWidth \in Nat \ {0}
    /\ Alphas \subseteq Nat /\ Rounds \subseteq Nat /\ DirectOver \in Nat
    /\ Eps \in Nat \X (Nat \ {0}) /\ AdaptRho \in Nat \X (Nat \ {0})

VARIABLES
    edges, vq, mapIndex, alpha, rounds, proc,
    pc,             \* "start", "pairs", "slots", "slot", "direct", "collect",
                    \* "update", "stages", "back" or "done"
    branch,         \* the way Start chose
    Ustar,          \* U_star: a sequence of users
    i, j,           \* the pair the loops are at
    Isize, hits,    \* slots to draw for this pair, how often each was drawn
    drawn, todo,    \* draws per pair; entries of S that were not used
    swing

input   == <<edges, vq, mapIndex, alpha, rounds, proc>>
vars    == <<input, pc, branch, Ustar, i, j, Isize, hits, drawn, todo, swing>>

NoScore == [v \in Item |-> Whole(0)]
Empty   == [x \in {} |-> 0]

Init ==
    /\ edges \in Graphs /\ vq \in Queries /\ mapIndex \in Numberings
    /\ alpha \in Alphas /\ rounds \in Rounds /\ proc \in Procedure
    /\ pc = "start" /\ branch = "none"
    /\ Ustar = << >> /\ i = 1 /\ j = 1
    /\ Isize = 0 /\ hits = Empty /\ drawn = Empty /\ todo = {}
    /\ swing = NoScore

-----------------------------------------------------------------------------
(* The graph.                                                              *)

\* A user of m_vedges[v] stands for a place in the file: the user of an edge to v,
\* as often as the edge is repeated.
UserAt(k) == edges[k][1]
At(v)     == {k \in DOMAIN edges : edges[k][2] = v}
UDeg(u)   == Cardinality({k \in DOMAIN edges : UserAt(k) = u})

\* Does preprocess keep u in the lists vSorted?  Faulty: one edge too many.
KeptAboveTwo(u) == UDeg(u) > 2
Kept(u)         == UDeg(u) >= 2

KeptAt(v)       == {k \in At(v) : Kept(UserAt(k))}

\* The members of S one after the other, in any order; the users at these places.
Orders(S) == Bijection(1..Cardinality(S), S)
Users(f)  == [k \in DOMAIN f |-> UserAt(f[k])]

InFileOrder(f) == \A k, l \in DOMAIN f : k < l => f[k] < f[l]

\* The order of vSorted[v]: users of equal degree as the sort leaves them.
ByDegree(us) == \A k, l \in DOMAIN us : k < l => UDeg(us[k]) <= UDeg(us[l])

\* The users' lists: of packed new numbers, or hash sets of ids.
Renumbered == proc \in {"FastExactSwing", "FastASC", "FastKASC"}
Number(v)  == IF Renumbered THEN mapIndex[v] ELSE v
N(u)       == {Number(edges[k][2]) : k \in {l \in DOMAIN edges : edges[l][1] = u}}

Common(u, w)  == N(u) \cap N(w)
Gain(u, w)    == Frac(1, alpha + Cardinality(Common(u, w)))

\* gain is added to the score of the items of S.
Add(S, gain) == [v \in Item |-> IF v \in S THEN Plus(swing[v], gain) ELSE swing[v]]

-----------------------------------------------------------------------------
(* The choice between the branches.                                        *)

NumPairs(d) == (d * (d - 1)) \div 2
VNDeg(us)   == Total([k \in DOMAIN us |-> UDeg(us[k])], DOMAIN us)

\* AdaptRho d (d - 1) < (1 + d / Deg) 2 n_rounds.
AllPairsPay(us) ==
    LET d == Len(us)
    IN  Less(Times(AdaptRho, Whole(d * (d - 1))),
             Times(Frac(VNDeg(us) + d, VNDeg(us)), Whole(2 * rounds)))

\* r, which is n_rounds per pair and at most 1.
Rate(d) == IF rounds >= NumPairs(d) THEN Whole(1) ELSE Frac(rounds, NumPairs(d))

Branch(us) ==
    CASE Len(us) < 2 -> "return"
      [] Len(us) >= 2 /\ AllPairsPay(us) ->
            IF proc = "PRSwing" \/ Less(Eps, Rate(Len(us))) THEN "pairs" ELSE "slots"
      [] Len(us) >= 2 /\ ~ AllPairsPay(us) ->
            IF proc = "FastKASC" THEN "stages"
            ELSE IF NumPairs(Len(us)) > DirectOver * rounds THEN "direct" ELSE "collect"

\* Pairs of positions or of places in the file, the smaller one first.
PairsOf(S) == {p \in S \X S : p[1] < p[2]}

StartExact ==
    /\ pc = "start" /\ proc \in {"ExactSwing", "FastExactSwing"}
    /\ \E f \in Orders(At(vq)) : InFileOrder(f) /\ Ustar' = Users(f)
    /\ pc' = "pairs" /\ branch' = "pairs"
    /\ UNCHANGED <<input, i, j, Isize, hits, drawn, todo, swing>>

Start ==
    /\ pc = "start" /\ proc \in {"PRSwing", "FastASC", "FastKASC"}
    /\ \E f \in Orders(KeptAt(vq)) : ByDegree(Users(f)) /\ Ustar' = Users(f)
    /\ branch' = Branch(Ustar')
    /\ drawn' = IF branch' \in {"direct", "collect"}
                THEN [p \in PairsOf(DOMAIN Ustar') |-> 0]
                ELSE Empty
    /\ pc' = IF branch' = "return" THEN "back" ELSE branch'
    /\ j' = IF branch' = "slots" THEN 2 ELSE 1
    /\ UNCHANGED <<input, i, Isize, hits, todo, swing>>

-----------------------------------------------------------------------------
(* All pairs: each user with those before it.                              *)

AddPair ==
    /\ pc = "pairs" /\ i <= Len(Ustar) /\ j < i
    /\ LET u == Ustar[i]
           w == Ustar[j]
       IN  swing' = IF Common(u, w) = {} THEN swing ELSE Add(Common(u, w), Gain(u, w))
    /\ j' = j + 1
    /\ UNCHANGED <<input, pc, branch, Ustar, i, Isize, hits, drawn, todo>>

NextUser ==
    /\ pc = "pairs" /\ i <= Len(Ustar) /\ j = i
    /\ i' = i + 1 /\ j' = 1
    /\ UNCHANGED <<input, pc, branch, Ustar, Isize, hits, drawn, todo, swing>>

-----------------------------------------------------------------------------
(* All pairs with a sample of slots: each user with those after it.        *)

BaseOf(v) == v \div PackWidth
Slots(u)  == {BaseOf(v) : v \in N(u)}
Deg(u)    == Cardinality(Slots(u))

\* The user whose slots are drawn; the other's are looked up.
Drawee == IF Deg(Ustar[i]) < Deg(Ustar[j]) THEN Ustar[i] ELSE Ustar[j]

Floor(x) == x[1] \div x[2]                         \* faulty for the number of slots
Ceil(x)  == (x[1] + x[2] - 1) \div x[2]

\* Short lists are sampled at the rate r, and counted only when something was
\* found; the others are counted first, and sampled at a rate that depends on it.
SampleRate(d) ==
    LET r == Rate(Len(Ustar))
    IN  IF ~ Less(Whole(2), Times(Whole(d), r)) THEN r
        ELSE Times(r, Frac(alpha + 2, alpha + Cardinality(Common(Ustar[i], Ustar[j]))))

InSlots == pc = "slots" /\ i < Len(Ustar)

\* A pair of long lists with nothing in common is passed over (both have vq, so
\* there is none).
StartSlots ==
    /\ InSlots /\ j <= Len(Ustar)
    /\ LET d == Deg(Drawee)
       IN  IF Less(Whole(2), Times(Whole(d), Rate(Len(Ustar))))
              /\ Common(Ustar[i], Ustar[j]) = {}
           THEN j' = j + 1 /\ UNCHANGED <<pc, Isize, hits>>
           ELSE /\ Isize' = Ceil(Times(SampleRate(d), Whole(d)))
                /\ hits' = [x \in Slots(Drawee) |-> 0]
                /\ pc' = "slot" /\ j' = j
    /\ UNCHANGED <<input, branch, Ustar, i, drawn, todo, swing>>

SlotsDrawn == Total(hits, DOMAIN hits)

DrawSlot ==
    /\ pc = "slot" /\ SlotsDrawn < Isize
    /\ \E x \in DOMAIN hits : hits' = [hits EXCEPT ![x] = @ + 1]
    /\ UNCHANGED <<input, pc, branch, Ustar, i, j, Isize, drawn, todo, swing>>

\* p, the share of the slots that were drawn.  Faulty: the rate that was asked
\* for instead of the one that was rounded up.
ShareAsked == SampleRate(Deg(Drawee))
Share      == Frac(Isize, Deg(Drawee))

\* Every draw of a slot adds 1 / (p (alpha + Csize)) to the common items in it.
UseSlots ==
    /\ pc = "slot" /\ SlotsDrawn = Isize
    /\ LET both   == Common(Ustar[i], Ustar[j])
           gain   == Frac(Share[2], Share[1] * (alpha + Cardinality(both)))
           found  == {v \in both : hits[BaseOf(v)] > 0}
       IN  swing' = [v \in Item |->
                        IF v \in found
                        THEN Plus(swing[v], Times(Whole(hits[BaseOf(v)]), gain))
                        ELSE swing[v]]
    /\ j' = j + 1
    /\ pc' = "slots" /\ Isize' = 0 /\ hits' = Empty
    /\ UNCHANGED <<input, branch, Ustar, i, drawn, todo>>

NextFirst ==
    /\ InSlots /\ j > Len(Ustar)
    /\ i' = i + 1 /\ j' = i + 2
    /\ UNCHANGED <<input, pc, branch, Ustar, Isize, hits, drawn, todo, swing>>

-----------------------------------------------------------------------------
(* A sample of the pairs, used at once or collected first.                 *)

RoundsDrawn == Total(drawn, DOMAIN drawn)

\* The weight of one draw, gamma0 / (alpha + |Cij|).
DrawGain(p) ==
    Frac(NumPairs(Len(Ustar)),
         rounds * (alpha + Cardinality(Common(Ustar[p[1]], Ustar[p[2]]))))

UsePair(p, c) ==
    LET both == Common(Ustar[p[1]], Ustar[p[2]])
    IN  swing' = IF both = {} THEN swing ELSE Add(both, Times(Whole(c), DrawGain(p)))

DrawAndUse ==
    /\ pc = "direct" /\ RoundsDrawn < rounds
    /\ \E p \in DOMAIN drawn :
          /\ drawn' = [drawn EXCEPT ![p] = @ + 1]
          /\ UsePair(p, 1)
    /\ UNCHANGED <<input, pc, branch, Ustar, i, j, Isize, hits, todo>>

Collect ==
    /\ pc = "collect" /\ RoundsDrawn < rounds
    /\ \E p \in DOMAIN drawn : drawn' = [drawn EXCEPT ![p] = @ + 1]
    /\ UNCHANGED <<input, pc, branch, Ustar, i, j, Isize, hits, todo, swing>>

StartUpdates ==
    /\ pc = "collect" /\ RoundsDrawn = rounds
    /\ pc' = "update" /\ todo' = {p \in DOMAIN drawn : drawn[p] > 0}
    /\ UNCHANGED <<input, branch, Ustar, i, j, Isize, hits, drawn, swing>>

CollectedOnce(p) == 1                      \* faulty: the draws are not counted
Collected(p)     == drawn[p]

UseCollected ==
    /\ pc = "update"
    /\ \E p \in todo :
          /\ todo' = todo \ {p}
          /\ UsePair(p, Collected(p))
    /\ UNCHANGED <<input, pc, branch, Ustar, i, j, Isize, hits, drawn>>

-----------------------------------------------------------------------------

LoopsEnd ==
    /\ \/ pc = "pairs" /\ i > Len(Ustar)
       \/ pc = "slots" /\ i >= Len(Ustar)
       \/ pc = "direct" /\ RoundsDrawn = rounds
       \/ pc = "update" /\ todo = {}
    /\ pc' = "back"
    /\ UNCHANGED <<input, branch, Ustar, i, j, Isize, hits, drawn, todo, swing>>

\* The scores go back to the items' own ids: swing[oriIndex[k]] = swCopy[k].
PutBack ==
    /\ pc = "back"
    /\ swing' = [v \in Item |-> swing[Number(v)]]
    /\ pc' = "done"
    /\ UNCHANGED <<input, branch, Ustar, i, j, Isize, hits, drawn, todo>>

\* Done, or in the hands of FastKASC's stages.
Terminating == pc \in {"done", "stages"} /\ UNCHANGED vars

Next ==
    \/ StartExact \/ Start
    \/ AddPair \/ NextUser
    \/ StartSlots \/ DrawSlot \/ UseSlots \/ NextFirst
    \/ DrawAndUse \/ Collect \/ StartUpdates \/ UseCollected
    \/ LoopsEnd \/ PutBack \/ Terminating

Spec == Init /\ [][Next]_vars

-----------------------------------------------------------------------------
(* Properties.                                                             *)

IsFraction(x) == x \in Int \X (Nat \ {0})

\* Every variable keeps its type; the loops over the slots stand on two users in
\* order, and at least one slot is drawn for a pair that is not skipped.
TypeOK ==
    /\ edges \in Graphs /\ vq \in Queries /\ mapIndex \in Numberings
    /\ alpha \in Alphas /\ rounds \in Rounds /\ proc \in Procedure
    /\ pc \in {"start", "pairs", "slots", "slot", "direct", "collect", "update",
               "stages", "back", "done"}
    /\ branch \in {"none", "return", "pairs", "slots", "direct", "collect", "stages"}
    /\ Ustar \in Seq(User)
    /\ i \in Nat \ {0} /\ j \in Nat \ {0}
    /\ pc = "slot" => /\ i < j /\ j <= Len(Ustar)
                      /\ Isize >= 1 /\ hits \in [Slots(Drawee) -> 0..Isize]
    /\ \A p \in DOMAIN drawn : drawn[p] \in 0..rounds
    /\ todo \subseteq DOMAIN drawn
    /\ \A v \in Item : IsFraction(swing[v])

\* The definition of the score, on the edges of the file and the items' own ids:
\* the users of vq in pairs, no user left out.
ItemsOf(u) == {edges[k][2] : k \in {l \in DOMAIN edges : edges[l][1] = u}}
Worth(u, w) == Frac(1, alpha + Cardinality(ItemsOf(u) \cap ItemsOf(w)))

Definition(v) ==
    LET both == {p \in PairsOf(At(vq)) :
                    v \in ItemsOf(UserAt(p[1])) \cap ItemsOf(UserAt(p[2]))}
    IN  SumOf([p \in both |-> Worth(UserAt(p[1]), UserAt(p[2]))], both)

\* All procedures agree with the definition when they go over all pairs, and when
\* they return at once: on every item but vq, although they leave users out, sort
\* them, renumber the items and put the scores back, and although an edge may be
\* repeated in the file.  The procedures of the ground truth agree on vq as well.
ExactScores ==
    pc = "done" /\ branch \in {"pairs", "return"} =>
        \A v \in Item :
            v # vq \/ proc \in {"ExactSwing", "FastExactSwing"} =>
                swing[v] = Definition(v)

\* Sampling slots is unbiased: if every slot of the list were drawn equally often,
\* each common item would get exactly 1 / (alpha + |N(u) \cap N(w)|), because it
\* lies in one slot of the list and is found in the other user's map; and so each
\* draw of its slot is worth that, times slots, over draws.
SlotGain ==
    [][ pc = "slot" /\ pc' = "slots" =>
          LET both == ItemsOf(Ustar[i]) \cap ItemsOf(Ustar[j])
          IN  \A v \in Item :
                 LET gained == Minus(swing'[Number(v)], swing[Number(v)])
                     times  == hits[BaseOf(Number(v))]
                 IN  IF v \in both
                     THEN Times(gained, Whole(Isize)) =
                          Times(Worth(Ustar[i], Ustar[j]), Whole(Deg(Drawee) * times))
                     ELSE gained = Whole(0)
      ]_vars

\* Sampling pairs: every draw of a pair counts for each item both users have, at
\* NumPairs / n_rounds times its worth, whether it was used at once or collected.
DrawScores ==
    pc = "done" /\ branch \in {"direct", "collect"} =>
        /\ RoundsDrawn = rounds
        /\ \A v \in Item :
              LET reached == {p \in DOMAIN drawn :
                                v \in ItemsOf(Ustar[p[1]]) \cap ItemsOf(Ustar[p[2]])}
                  sum == SumOf([p \in reached |-> Times(Whole(drawn[p]),
                                                        Worth(Ustar[p[1]], Ustar[p[2]]))],
                               reached)
              IN  Times(swing[v], Whole(rounds)) = Times(sum, Whole(NumPairs(Len(Ustar))))
=============================================================================
