----------------------------- MODULE BlockCount -----------------------------
(***************************************************************************)
(* bp_intersect_filter_simd4x_count: the number of common items of two     *)
(* packed lists.  The two loops advance as in BlockIntersect; nothing is   *)
(* stored, and the population count of the ANDed words is added up.  Here  *)
(* the words are ANDed with the compare mask instead of being selected by  *)
(* it, and the scalar loop counts a pair whatever its words are.           *)
(***************************************************************************)
EXTENDS BlockScan

VARIABLE res            \* common items counted so far

countVars == <<a, b, i, j, res, pc>>

CountInit == ScanInit /\ res = 0

\* Faulty: the compare mask is not ANDed in, so that a lane without a partner
\* counts the bits it shares with its own lane of b.
LaneBitsUnmasked(A, G) ==
    UNION {{p} \X (A[p].state \cap G[p].state) : p \in Lane}

\* The 1-bits of the four ANDed words, where the bases are equal.
LaneBits(A, G) ==
    UNION {{p} \X (A[p].state \cap G[p].state) : p \in HitLanes(A, G)}

CountBlock ==
    /\ pc = "block" /\ InBlocks
    /\ LET A    == Block(a, i)
           B    == Block(b, j)
           mask == FilterMask(A, B)
       IN  res' = IF mask = {} THEN res
                  ELSE res + Cardinality(LaneBits(A, Gather(mask, B)))
    /\ AdvanceBlock
    /\ UNCHANGED <<a, b, pc>>

LeaveCount == ExitBlocks /\ UNCHANGED res

CountTail ==
    /\ pc = "tail" /\ InTail
    /\ LET x == a[i + 1]
           y == b[j + 1]
       IN  /\ res' = IF x.base = y.base
                     THEN res + Cardinality(x.state \cap y.state) ELSE res
           /\ i' = IF x.base <= y.base THEN i + 1 ELSE i
           /\ j' = IF y.base <= x.base THEN j + 1 ELSE j
    /\ UNCHANGED <<a, b, pc>>

FinishCount == ExitTail /\ UNCHANGED res

CountNext == CountBlock \/ LeaveCount \/ CountTail \/ FinishCount

CountSpec     == CountInit /\ [][CountNext]_countVars
CountFairSpec == CountSpec /\ WF_countVars(CountNext)

-----------------------------------------------------------------------------
(* Properties.                                                             *)

\* Every variable keeps its type; i and j are block boundaries while the vector
\* loop runs, so that a vector iteration never reads past the end of a list.
CountTypeOK == ScanOK /\ res \in Nat

\* The first n slots of a list.
Consumed(list, n) == SubSeq(list, 1, n)

\* At every point of the loops, each common item is counted once as soon as one
\* of its two slots has been consumed, and not before: a pair is counted when
\* its blocks meet and never again when a kept block meets the next one.
CountedOnce ==
    res = Cardinality((Items(Consumed(a, i)) \cap Items(b))
                      \cup (Items(a) \cap Items(Consumed(b, j))))

\* The size the call returns is the number of common items: what the exact and
\* the sampled swing use as |N(u) \cap N(v)|.
ReturnsSize == pc = "done" => res = Cardinality(Items(a) \cap Items(b))

\* The two loops come to an end.
Termination == <>(pc = "done")
=============================================================================
