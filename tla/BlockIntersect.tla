--------------------------- MODULE BlockIntersect ---------------------------
(***************************************************************************)
(* bp_intersect_filter_simd4x: the intersection of two packed lists, four  *)
(* slots against four slots at a time behind a byte filter, and slot by    *)
(* slot once one of the lists has no whole block left.                     *)
(*                                                                         *)
(* A step of the model is one iteration of one of the two loops.  out is   *)
(* the written part of bases_c/states_c, so that size_c is Len(out).       *)
(***************************************************************************)
EXTENDS BlockScan

VARIABLE out            \* slots written to the scratch arrays

vars == <<a, b, i, j, out, pc>>

Init == ScanInit /\ out = << >>

-----------------------------------------------------------------------------
(* The vector loop.                                                        *)

\* s lists the lanes of H in ascending order (the shuffle of the store).
Compresses(s, H) ==
    /\ \A k, l \in DOMAIN s : k < l => s[k] < s[l]
    /\ \A p \in H : \E k \in DOMAIN s : s[k] = p

\* No lane of the a-block has a candidate: nothing is stored.
SkipBlock ==
    /\ pc = "block" /\ InBlocks
    /\ FilterMask(Block(a, i), Block(b, j)) = {}
    /\ AdvanceBlock
    /\ UNCHANGED <<a, b, out, pc>>

\* The surviving lanes are stored next to each other at the end of out.
StoreBlock ==
    /\ pc = "block" /\ InBlocks
    /\ LET A    == Block(a, i)
           B    == Block(b, j)
           mask == FilterMask(A, B)
           G    == Gather(mask, B)
           H    == HitLanes(A, G)
       IN  /\ mask # {}
           /\ \E n \in 0..4 : \E s \in [1..n -> H] :
                 /\ Compresses(s, H)
                 /\ out' = out \o [k \in 1..n |->
                                     [base  |-> A[s[k]].base,
                                      state |-> A[s[k]].state \cap G[s[k]].state]]
    /\ AdvanceBlock
    /\ UNCHANGED <<a, b, pc>>

LeaveBlocks == ExitBlocks /\ UNCHANGED out

-----------------------------------------------------------------------------
(* The scalar loop.                                                        *)

\* A faulty scalar loop that keeps a slot whose words have no common bit.
TailKeepsEmpty ==
    /\ pc = "tail" /\ InTail
    /\ a[i + 1].base = b[j + 1].base
    /\ out' = Append(out, [base  |-> a[i + 1].base,
                           state |-> a[i + 1].state \cap b[j + 1].state])
    /\ i' = i + 1 /\ j' = j + 1
    /\ UNCHANGED <<a, b, pc>>

\* Equal bases: the slot is kept when the words have a common bit.
TailEqual ==
    /\ pc = "tail" /\ InTail
    /\ a[i + 1].base = b[j + 1].base
    /\ LET common == a[i + 1].state \cap b[j + 1].state
       IN  out' = IF common = {} THEN out
                  ELSE Append(out, [base |-> a[i + 1].base, state |-> common])
    /\ i' = i + 1 /\ j' = j + 1
    /\ UNCHANGED <<a, b, pc>>

TailDiffer ==
    /\ pc = "tail" /\ InTail
    /\ a[i + 1].base # b[j + 1].base
    /\ IF a[i + 1].base < b[j + 1].base
       THEN i' = i + 1 /\ j' = j
       ELSE j' = j + 1 /\ i' = i
    /\ UNCHANGED <<a, b, out, pc>>

Finish == ExitTail /\ UNCHANGED out

\* The call has returned.
Terminating == pc = "done" /\ UNCHANGED vars

Next ==
    \/ SkipBlock \/ StoreBlock \/ LeaveBlocks
    \/ TailEqual \/ TailDiffer \/ Finish
    \/ Terminating

Spec == Init /\ [][Next]_vars

-----------------------------------------------------------------------------
(* Properties.                                                             *)

\* Every variable keeps its type, and a vector iteration never reads past the
\* end of a list: i and j are block boundaries while the vector loop runs.
TypeOK == ScanOK /\ out \in Seq(Slot)

\* A pair of slots is behind the loops when one of the two has been consumed.
Behind(p, q) == p <= i \/ q <= j

Match(p, q) ==
    /\ a[p].base = b[q].base
    /\ a[p].state \cap b[q].state # {}

Common(p, q) == [base |-> a[p].base, state |-> a[p].state \cap b[q].state]

\* Every stored slot comes from a matching pair that is behind the loops: the
\* byte filter's false candidates and the default lanes leave no trace.
OutSound ==
    \A k \in 1..Len(out) :
        \E p \in 1..Len(a), q \in 1..Len(b) :
            Behind(p, q) /\ Match(p, q) /\ out[k] = Common(p, q)

\* No matching pair falls behind unstored, whether its block was dropped, kept
\* for the next block of the other list, or handed over to the scalar loop.
OutComplete ==
    \A p \in 1..Len(a), q \in 1..Len(b) :
        Behind(p, q) /\ Match(p, q) =>
            \E k \in 1..Len(out) : out[k] = Common(p, q)

\* The stored slots form a packed list at all times: none is stored twice and
\* the order across blocks, and from blocks to the scalar loop, is kept.
OutPacked == IsPacked(out)

\* What is stored is what is behind: no more (the filter's false candidates and
\* the default lanes leave no trace) and no less.
OutExact == OutSound /\ OutComplete

\* The dictionary never answers "multiple" after the fourth byte: the answer is
\* used as an index, and -1 would read in front of the shuffle table.
FilterDecides ==
    pc = "block" /\ InBlocks =>
        ~ IsMultiMatch(FilterMask(Block(a, i), Block(b, j)))

\* What is returned stands for exactly the items that are in both lists.
ReturnsIntersection ==
    pc = "done" => Items(out) = Items(a) \cap Items(b)

\* The call implements the one-step intersection its callers rely on.
Abstract == INSTANCE SetIntersection
                WITH done <- (pc = "done"),
                     c    <- IF pc = "done" THEN out ELSE << >>

ImplementsIntersection == Abstract!Spec

\* Every iteration moves at least one list on, so that the loops, which never
\* block and never pass the ends of the lists, come to an end.
Phase == CASE pc = "block" -> 0 [] pc = "tail" -> 1 [] pc = "done" -> 2

StepsAdvance == [][i' + j' + Phase' > i + j + Phase]_vars
=============================================================================
