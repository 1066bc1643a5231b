---------------------------- MODULE KascBoundary ----------------------------
(***************************************************************************)
(* The second stage of FastKASC: from the estimated scores to the list of  *)
(* the items that are estimated again.  A heap keeps the K + Ext best      *)
(* items; around the border between rank K and rank K + 1, items whose     *)
(* confidence interval reaches across the border go to the list.  Kasc     *)
(* adds what becomes of that list.                                         *)
(*                                                                         *)
(* Scores, radii and zeta are integers here: only their order matters.     *)
(* Equal scores are kept apart by the ids, as in pair<double, uint>.       *)
(***************************************************************************)
EXTENDS Integers, FiniteSets, Sequences

CONSTANTS
    Estimates,      \* the possible results of the sampling stage: functions from
                    \* the items it met (Act) to their score and radius
    K, Ext,         \* maxTopk, ext_k
    Zeta,           \* no score exceeds it
    Widths,         \* what RfWid may hold: no option sets it
    NoRefine

ASSUME ParametersOK ==
    /\ K \in Nat \ {0} /\ Ext \in Nat /\ Zeta \in Nat
    /\ Widths \subseteq Int /\ NoRefine \in BOOLEAN
    /\ \A e \in Estimates :
          /\ DOMAIN e \subseteq Nat /\ IsFiniteSet(DOMAIN e)
          /\ \A v \in DOMAIN e : e[v] \in [score : 1..Zeta, radius : Nat \ {0}]

VARIABLES
    est,            \* swing[vt] and EmpiricalFun of variance[vt]
    todo,           \* items of Act that the loop has not reached
    Q,              \* the heap: pairs <<score, item>>
    Bq,             \* the items popped from it, best first
    rfWid,          \* RfWid, as it was read
    rank,           \* the rank of Bq that is looked at next
    Refine,
    pc              \* "visit", "pop", "down", "up", "refine" or "done"

vars == <<est, todo, Q, Bq, rfWid, rank, Refine, pc>>

Init ==
    /\ est \in Estimates
    /\ todo = DOMAIN est
    /\ Q = {} /\ Bq = << >> /\ rfWid = 0 /\ rank = 0 /\ Refine = << >>
    /\ pc = "visit"

-----------------------------------------------------------------------------

Less(x, y) == x[1] < y[1] \/ (x[1] = y[1] /\ x[2] < y[2])
IsTop(x)   == x \in Q /\ \A y \in Q : x = y \/ Less(x, y)

IsFullLate == Cardinality(Q) > K + Ext      \* faulty: one pair too many
IsFull     == Cardinality(Q) >= K + Ext

\* An item enters the heap while there is room, or in place of a smaller score.
Visit ==
    /\ pc = "visit"
    /\ \E v \in todo :
          LET x == <<est[v].score, v>>
          IN  /\ todo' = todo \ {v}
              /\ \/ /\ ~ IsFull
                    /\ Q' = Q \cup {x}
                 \/ /\ IsFull
                    /\ \E top \in Q :
                          /\ IsTop(top)
                          /\ Q' = IF top[1] < x[1] THEN (Q \ {top}) \cup {x} ELSE Q
    /\ UNCHANGED <<est, Bq, rfWid, rank, Refine, pc>>

\* No more than K items have a score: there is no border.
ReturnEarly ==
    /\ pc = "visit" /\ todo = {}
    /\ Cardinality(Q) <= K
    /\ pc' = "done"
    /\ UNCHANGED <<est, todo, Q, Bq, rfWid, rank, Refine>>

StartPops ==
    /\ pc = "visit" /\ todo = {}
    /\ Cardinality(Q) > K
    /\ pc' = "pop"
    /\ UNCHANGED <<est, todo, Q, Bq, rfWid, rank, Refine>>

\* The heap is emptied from its smallest pair on; Bq is filled from the back.
Pop ==
    /\ pc = "pop"
    /\ \E top \in Q :
          /\ IsTop(top)
          /\ Bq' = <<top[2]>> \o Bq
          /\ Q' = Q \ {top}
    /\ UNCHANGED <<est, todo, rfWid, rank, Refine, pc>>

-----------------------------------------------------------------------------

L(v) == est[v].score - est[v].radius
R(v) == est[v].score + est[v].radius

Larger(x, y)  == IF x < y THEN y ELSE x
Smaller(x, y) == IF y < x THEN y ELSE x

\* Bq counts from 1: the K best items are Bq[1] to Bq[K].
BetaMax     == Larger(0, R(Bq[K + 1]))
BetaMinHigh == Smaller(Zeta, R(Bq[K]))       \* faulty: the wrong end
BetaMin     == Smaller(Zeta, L(Bq[K]))

ReachesDownScore(v) == est[v].score < BetaMax   \* faulty: the score, not its bound
ReachesDown(v)      == L(v) < BetaMax
ReachesUp(v)        == R(v) > BetaMin

\* The item at this rank goes to the list if it meets the test.
Push(isMet) == Refine' = IF isMet THEN Append(Refine, Bq[rank]) ELSE Refine

\* RfWid is read; the first loop starts at rank K, or faulty, one below it.
FirstRankNext == K + 1
FirstRank     == K

StartDown ==
    /\ pc = "pop" /\ Q = {}
    /\ rfWid' \in Widths
    /\ rank' = FirstRank
    /\ pc' = "down"
    /\ UNCHANGED <<est, todo, Q, Bq, Refine>>

\* Towards the best, at most RfWid ranks.
InWindow == rank >= 1 /\ K - rank < rfWid

LookDown ==
    /\ pc = "down" /\ InWindow
    /\ Push(ReachesDown(Bq[rank]))
    /\ rank' = rank - 1
    /\ UNCHANGED <<est, todo, Q, Bq, rfWid, pc>>

StartUp ==
    /\ pc = "down" /\ ~ InWindow
    /\ rank' = K + 1
    /\ pc' = "up"
    /\ UNCHANGED <<est, todo, Q, Bq, rfWid, Refine>>

\* From rank K + 1 to the end.
LookUp ==
    /\ pc = "up" /\ rank <= Len(Bq)
    /\ Push(ReachesUp(Bq[rank]))
    /\ rank' = rank + 1
    /\ UNCHANGED <<est, todo, Q, Bq, rfWid, pc>>

Finish ==
    /\ pc = "up" /\ rank > Len(Bq)
    /\ pc' = IF NoRefine THEN "done" ELSE "refine"
    /\ UNCHANGED <<est, todo, Q, Bq, rfWid, rank, Refine>>

Next ==
    \/ Visit \/ ReturnEarly \/ StartPops \/ Pop
    \/ StartDown \/ LookDown \/ StartUp \/ LookUp \/ Finish

Spec == Init /\ [][Next]_vars

-----------------------------------------------------------------------------
(* Properties.                                                             *)

ItemsOf(s) == {s[k] : k \in 1..Len(s)}

\* Every variable keeps its type; heap, Bq and list hold visited items, Bq is in the
\* order of the scores, and neither Bq nor the list names an item twice.
TypeOK ==
    /\ est \in Estimates /\ todo \subseteq DOMAIN est
    /\ \A x \in Q : x \in Int \X (DOMAIN est \ todo) /\ x[1] = est[x[2]].score
    /\ IsFiniteSet(Q) /\ Cardinality(Q) + Len(Bq) <= K + Ext
    /\ Bq \in Seq(DOMAIN est) /\ Refine \in Seq(ItemsOf(Bq))
    /\ \A k, l \in 1..Len(Bq) :
          k < l => Bq[k] # Bq[l] /\ est[Bq[k]].score >= est[Bq[l]].score
    /\ \A k, l \in 1..Len(Refine) : k < l => Refine[k] # Refine[l]
    /\ rfWid \in Widths \cup {0} /\ rank \in 0..(K + Ext + 1)
    /\ pc \in {"visit", "pop", "down", "up", "refine", "done"}

\* Whatever the order in which the hash set yields the items, the heap and what was
\* popped from it are the K + Ext best of those visited, or all of them: nothing
\* outside beats anything inside.
Inside == {x[2] : x \in Q} \cup ItemsOf(Bq)
HeapHoldsBest ==
    LET visited == DOMAIN est \ todo
    IN  /\ Cardinality(Q) + Len(Bq) = Smaller(K + Ext, Cardinality(visited))
        /\ \A v \in visited \ Inside, w \in Inside : est[v].score <= est[w].score
=============================================================================
