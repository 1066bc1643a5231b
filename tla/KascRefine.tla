----------------------------- MODULE KascRefine -----------------------------
(***************************************************************************)
(* The third stage of FastKASC: the items of Refine are estimated again,   *)
(* with what is left of the rounds.  With rounds enough, the users that    *)
(* have none of these items are put aside first; then either all pairs of  *)
(* the other users are used, or pairs are drawn from them.  With few       *)
(* rounds, pairs are drawn from all the users of the query item.  Draws    *)
(* are used at once, or collected and used per distinct pair, as in the    *)
(* first stage.                                                            *)
(*                                                                         *)
(* A score is kept as its contributions: uses[v][p] says how often pair p  *)
(* was added to swing[v].  What one addition is worth depends on p and on  *)
(* the branch only: 1 / (alpha + |N(u) \cap N(v)|) for all pairs, gamma0   *)
(* times as much for drawn ones.                                           *)
(***************************************************************************)
EXTENDS Sums, FiniteSets, Sequences

CONSTANTS
    Items,
    Dvq,            \* users of the query item
    Neighbours,     \* the possible neighbourhoods of these users
    RefineLists,    \* the possible Refine, sorted
    ReRounds,       \* the possible reRounds
    MaskWidth       \* bits of an int (32): a position of Refine each

Users == 1..Dvq
Pairs == {p \in Users \X Users : p[1] < p[2]}

ASSUME ParametersOK ==
    /\ Dvq \in Nat /\ Dvq >= 2
    /\ Neighbours \subseteq [Users -> SUBSET Items]
    /\ ReRounds \subseteq Nat /\ MaskWidth \in Nat \ {0}
    /\ \A s \in RefineLists :
          /\ s \in Seq(Items)
          /\ \A k, l \in 1..Len(s) : k < l => s[k] < s[l]

VARIABLES
    nbrs, Refine, reRounds,
    pc,             \* "start", "filter", "rows", "draw", "use" or "done"
    branch,         \* "none", "exact", "direct", "collect", "directAll", "collectAll"
    u,              \* users, or rows of pairs, that are behind the loop
    Uvalid, Iu,     \* the users kept, and their masks: sets of bits
    drawn,          \* how often each pair was drawn; S, when draws are collected
    todo,           \* entries of S that were not used
    uses

vars == <<nbrs, Refine, reRounds, pc, branch, u, Uvalid, Iu, drawn, todo, uses>>
input == <<nbrs, Refine, reRounds>>

NoPair == [p \in Pairs |-> 0]

Init ==
    /\ nbrs \in Neighbours /\ Refine \in RefineLists /\ reRounds \in ReRounds
    /\ pc = "start" /\ branch = "none" /\ u = 0
    /\ Uvalid = << >> /\ Iu = [n \in Users |-> {}]
    /\ drawn = NoPair /\ todo = {}
    /\ uses = [v \in Items |-> NoPair]

RoundsDrawn == Total(drawn, Pairs)

-----------------------------------------------------------------------------

\* The branch for rounds enough, gamma0 being the pairs per round.
Start ==
    /\ pc = "start"
    /\ IF 2 * reRounds >= Dvq
       THEN pc' = "filter" /\ branch' = "none"
       ELSE /\ pc' = "draw"
            /\ branch' = IF Dvq * (Dvq - 1) > 2 * 5 * reRounds
                         THEN "directAll" ELSE "collectAll"
    /\ UNCHANGED <<input, u, Uvalid, Iu, drawn, todo, uses>>

\* 1 << k: the shift of an int counts modulo its width, so that a long list
\* wraps around (undefined in C++, this on the machines the code is for).
BitAt(k)     == ((k - 1) % MaskWidth) + 1
Positions(w) == {BitAt(k) : k \in {l \in 1..Len(Refine) : Refine[l] \in nbrs[w]}}

AnyUser(w)  == TRUE                    \* faulty: no user is put aside
IsValid(w)  == Positions(w) # {}

MaskOfUser  == u + 1                   \* faulty: the mask at the user's own index
MaskOfValid == Len(Uvalid) + 1

Filter ==
    /\ pc = "filter" /\ u < Dvq
    /\ u' = u + 1
    /\ IF IsValid(u + 1)
       THEN /\ Uvalid' = Append(Uvalid, u + 1)
            /\ Iu' = [Iu EXCEPT ![MaskOfValid] = Positions(u + 1)]
       ELSE UNCHANGED <<Uvalid, Iu>>
    /\ UNCHANGED <<input, pc, branch, drawn, todo, uses>>

\* Are all pairs of the users fewer than the rounds?
FewOfAll == Dvq * (Dvq - 1) < 2 * reRounds          \* faulty: the old dvq
Few      == Len(Uvalid) * (Len(Uvalid) - 1) < 2 * reRounds

Choose ==
    /\ pc = "filter" /\ u = Dvq
    /\ LET d == Len(Uvalid)
       IN  /\ branch' = IF Few THEN "exact"
                        ELSE IF d * (d - 1) > 2 * 2 * reRounds THEN "direct" ELSE "collect"
           /\ pc' = IF Few THEN "rows" ELSE "draw"
    /\ u' = 0
    /\ UNCHANGED <<input, Uvalid, Iu, drawn, todo, uses>>

-----------------------------------------------------------------------------

\* times additions of p to the items of S.
Use(p, times, S) ==
    [v \in Items |-> IF v \in S THEN [uses[v] EXCEPT ![p] = @ + times] ELSE uses[v]]

\* The items at the bits of both masks.
BothMasks(n, m) == {Refine[k] : k \in Iu[n] \cap Iu[m]}

\* All pairs, a row at a time: the next user with those before it.
UseRow ==
    /\ pc = "rows" /\ u < Len(Uvalid)
    /\ uses' = [v \in Items |->
                  [p \in Pairs |->
                     IF \E m \in 1..u : p = <<Uvalid[m], Uvalid[u + 1]>>
                                        /\ v \in BothMasks(u + 1, m)
                     THEN uses[v][p] + 1 ELSE uses[v][p]]]
    /\ u' = u + 1
    /\ UNCHANGED <<input, pc, branch, Uvalid, Iu, drawn, todo>>

\* The number of users the draws are from, and the pair of two of their indices.
FromAll == branch \in {"directAll", "collectAll"}
Drawees == IF FromAll THEN Dvq ELSE Len(Uvalid)
PairAt(n, m) ==
    LET lo == IF n < m THEN n ELSE m
        hi == IF n < m THEN m ELSE n
    IN  IF FromAll THEN <<lo, hi>> ELSE <<Uvalid[lo], Uvalid[hi]>>

\* The items of Refine both users of a pair have: by the masks, or looked up in
\* the hash map of the user with fewer slots and then in the other.
Shared(p) ==
    IF FromAll
    THEN {Refine[k] : k \in 1..Len(Refine)} \cap nbrs[p[1]] \cap nbrs[p[2]]
    ELSE {v \in Items : \E n, m \in 1..Len(Uvalid) :
                             <<Uvalid[n], Uvalid[m]>> = p /\ v \in BothMasks(n, m)}

DrawPair(P(_)) ==
    \E n, m \in 1..Drawees :
        /\ n # m
        /\ drawn' = [drawn EXCEPT ![PairAt(n, m)] = @ + 1]
        /\ P(PairAt(n, m))

DrawAndUse ==
    /\ pc = "draw" /\ branch \in {"direct", "directAll"}
    /\ RoundsDrawn < reRounds
    /\ DrawPair(LAMBDA p : uses' = Use(p, 1, Shared(p)))
    /\ UNCHANGED <<input, pc, branch, u, Uvalid, Iu, todo>>

Collect ==
    /\ pc = "draw" /\ branch \in {"collect", "collectAll"}
    /\ RoundsDrawn < reRounds
    /\ DrawPair(LAMBDA p : TRUE)
    /\ UNCHANGED <<input, pc, branch, u, Uvalid, Iu, todo, uses>>

StartUses ==
    /\ pc = "draw" /\ branch \in {"collect", "collectAll"}
    /\ RoundsDrawn = reRounds
    /\ pc' = "use" /\ todo' = {p \in Pairs : drawn[p] > 0}
    /\ UNCHANGED <<input, branch, u, Uvalid, Iu, drawn, uses>>

\* A collected pair is worth its number of draws, but only gamma0 once when the
\* draws were from all the users.
UsesOnce(p) == 1                        \* faulty: the draws are not counted
UsesOf(p)   == IF branch = "collectAll" THEN 1 ELSE drawn[p]

UseCollected ==
    /\ pc = "use"
    /\ \E p \in todo :
          /\ uses' = Use(p, UsesOf(p), Shared(p))
          /\ todo' = todo \ {p}
    /\ UNCHANGED <<input, pc, branch, u, Uvalid, Iu, drawn>>

Finish ==
    /\ \/ pc = "rows" /\ u = Len(Uvalid)
       \/ pc = "draw" /\ branch \in {"direct", "directAll"} /\ RoundsDrawn = reRounds
       \/ pc = "use" /\ todo = {}
    /\ pc' = "done"
    /\ UNCHANGED <<input, branch, u, Uvalid, Iu, drawn, todo, uses>>

Terminating == pc = "done" /\ UNCHANGED vars

Next ==
    \/ Start \/ Filter \/ Choose \/ UseRow
    \/ DrawAndUse \/ Collect \/ StartUses \/ UseCollected
    \/ Finish \/ Terminating

Spec == Init /\ [][Next]_vars

-----------------------------------------------------------------------------
(* Properties.                                                             *)

Refined == {Refine[k] : k \in 1..Len(Refine)}
Sharing(v) == {p \in Pairs : v \in nbrs[p[1]] \cap nbrs[p[2]]}

\* Every variable keeps its type; the users kept are in order, each with at
\* least one bit in its mask.
TypeOK ==
    /\ nbrs \in Neighbours /\ Refine \in RefineLists /\ reRounds \in ReRounds
    /\ pc \in {"start", "filter", "rows", "draw", "use", "done"}
    /\ branch \in {"none", "exact", "direct", "collect", "directAll", "collectAll"}
    /\ u \in 0..Dvq
    /\ \A n \in 1..Len(Uvalid) : Uvalid[n] \in Users /\ Iu[n] # {}
    /\ \A n, m \in 1..Len(Uvalid) : n < m => Uvalid[n] < Uvalid[m]
    /\ \A n \in Users : Iu[n] \subseteq {BitAt(k) : k \in 1..Len(Refine)}
    /\ drawn \in [Pairs -> 0..reRounds] /\ todo \subseteq Pairs
    /\ uses \in [Items -> [Pairs -> Nat]]

\* The items whose position has a bit of its own, and whether the masks tell all
\* the items of the list apart.
Within     == {Refine[k] : k \in {l \in 1..Len(Refine) : l <= MaskWidth}}
MasksHold  == Len(Refine) <= MaskWidth

\* When no pair is drawn, the new scores are the exact ones: every pair of users
\* of the query item that share an item of Refine was added to it once, whichever
\* users were put aside; the other items were left alone.  If the list is longer
\* than a mask, the items behind its width lose their scores, and those within
\* it get all of theirs and no pair twice, but also pairs that share another.
ExactlyOncePerPair ==
    pc = "done" /\ branch = "exact" =>
        \A v \in Items, p \in Pairs :
            LET due == IF v \in Refined /\ p \in Sharing(v) THEN 1 ELSE 0
            IN  IF MasksHold THEN uses[v][p] = due
                ELSE uses[v][p] \in IF v \in Within THEN due..1 ELSE {0}

\* When pairs are drawn, every draw of a pair counts for each item of Refine the
\* two users share and for no other item, and a pair that could not be drawn
\* shares none; but pairs that were collected from all the users count once,
\* however often they were drawn.  A list longer than a mask is all right when
\* the draws are from all the users.
DrawsCounted ==
    pc = "done" /\ branch # "exact" =>
        /\ RoundsDrawn = reRounds
        /\ MasksHold \/ FromAll =>
              \A v \in Items, p \in Pairs :
                 LET counts == IF branch = "collectAll" /\ drawn[p] > 1 THEN 1 ELSE drawn[p]
                 IN  uses[v][p] = IF v \in Refined /\ p \in Sharing(v) THEN counts ELSE 0
        /\ \A v \in Refined : \A p \in Sharing(v) :
              FromAll \/ \E n, m \in 1..Len(Uvalid) : p = <<Uvalid[n], Uvalid[m]>>

\* Pairs are drawn only from two users or more: the ranges the indices are drawn
\* from are not empty, though the users were put aside after dvq >= 2 was tested.
EnoughUsersToDraw == pc = "draw" /\ RoundsDrawn < reRounds => Drawees >= 2
=============================================================================
