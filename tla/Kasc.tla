-------------------------------- MODULE Kasc --------------------------------
(***************************************************************************)
(* The second and the third stage of FastKASC together, up to the ranking  *)
(* of the scores they leave: what the choice of the items to refine is     *)
(* for.  The refinement (KascRefine) gives the items of the list their     *)
(* true scores when it goes over all pairs; otherwise it gives them other  *)
(* estimates, or leaves them with the zeros they were set to.              *)
(***************************************************************************)
EXTENDS KascBoundary

CONSTANTS
    Items,          \* all items but the query
    Unseen          \* the possible true scores of items that no draw met

ASSUME ItemsOK ==
    /\ IsFiniteSet(Items) /\ Unseen \subseteq 0..Zeta
    /\ \A e \in Estimates : DOMAIN e \subseteq Items

VARIABLES
    swing,          \* the scores as FastKASC leaves them
    truth,          \* the true scores; nothing depends on them before the refinement
    exact           \* did the refinement go over all pairs?

kvars == <<vars, swing, truth, exact>>

\* The sampling leaves an item that it met with its estimate, any other with zero.
Sampled == [v \in Items |-> IF v \in DOMAIN est THEN est[v].score ELSE 0]

KInit ==
    /\ Init
    /\ swing = Sampled
    /\ truth = [v \in Items |-> 0]
    /\ exact = FALSE

-----------------------------------------------------------------------------

Listed == ItemsOf(Refine)

\* True scores that the intervals of the sampling stage hold.
IntervalsHold(t) ==
    \A v \in Items : t[v] \in IF v \in DOMAIN est THEN L(v)..R(v) ELSE Unseen

\* Faulty: the refined scores are added to the estimates.
RefinedOnTop(t) == [v \in Items |-> IF v \in Listed THEN swing[v] + t[v] ELSE swing[v]]
Refined(t)      == [v \in Items |-> IF v \in Listed THEN t[v] ELSE swing[v]]

RefineExactly ==
    /\ pc = "refine"
    /\ truth' \in [Items -> 0..Zeta] /\ IntervalsHold(truth')
    /\ swing' = Refined(truth')
    /\ exact' = TRUE
    /\ pc' = "done"
    /\ UNCHANGED <<est, todo, Q, Bq, rfWid, rank, Refine>>

\* Pairs are drawn, from users that have items of the list or from all: the scores
\* are again estimates.  Without rounds no pair is drawn.
RefineByDraws ==
    /\ pc = "refine"
    /\ \E s \in {0, Zeta} :
          swing' = [v \in Items |-> IF v \in Listed THEN s ELSE swing[v]]
    /\ exact' = FALSE
    /\ pc' = "done"
    /\ UNCHANGED <<est, todo, Q, Bq, rfWid, rank, Refine, truth>>

Terminating == pc = "done" /\ UNCHANGED kvars

Boundary == Next /\ UNCHANGED <<swing, truth, exact>>

KNext == Boundary \/ RefineExactly \/ RefineByDraws \/ Terminating

KSpec == KInit /\ [][KNext]_kvars

-----------------------------------------------------------------------------
(* Properties.                                                             *)

\* RfWid lets every item above the border in whose interval reaches across it.
WindowEnough ==
    \A k \in 1..K : ReachesDown(Bq[k]) => K - k < rfWid

\* Only the two items at the border are asked for their bounds: theirs have to
\* reach as far as any on their side, those of unlisted ranks included.
BorderReachesFarthest ==
    /\ \A k \in 1..K : L(Bq[K]) <= L(Bq[k])
    /\ \A k \in (K + 1)..Len(Bq) : R(Bq[k]) <= R(Bq[K + 1])
    /\ \A v \in DOMAIN est \ ItemsOf(Bq) : R(v) <= BetaMin
    /\ \A v \in Items \ DOMAIN est : truth[v] <= BetaMin

\* The sets that a ranking by the final scores may put first.
BestByScore ==
    {S \in SUBSET Items :
        /\ Cardinality(S) = K
        /\ \A v \in S, w \in Items \ S : swing[v] >= swing[w]}

\* FastKASC finds the K best items, although it corrects only the scores it lists:
\* if the true scores lie in the intervals, the refinement goes over all pairs, the
\* window is wide enough and the border reaches farthest, then no item that is
\* ranked among the first K is truly worse than one that is not.
TopKRight ==
    pc = "done" /\ exact /\ WindowEnough /\ BorderReachesFarthest =>
        \A S \in BestByScore : \A v \in S, w \in Items \ S : truth[v] >= truth[w]
=============================================================================
