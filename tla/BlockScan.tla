----------------------------- MODULE BlockScan -----------------------------
(***************************************************************************)
(* The way both intersection kernels go through their arguments: by blocks *)
(* of four slots as long as both lists have a whole one left, then slot by *)
(* slot.  i and j count the slots of a and b that are behind the loop.     *)
(* What a kernel does with the slots that meet is in BlockIntersect and    *)
(* BlockCount.                                                             *)
(***************************************************************************)
EXTENDS PackedSlots

CONSTANT Lists          \* the packed lists a caller may pass

\* The builders leave only packed lists in the pool.
ASSUME ListsPacked ==
    \A list \in Lists : list \in Seq(Slot) /\ IsPacked(list)

VARIABLES a, b,         \* the arguments (pool_base/pool_state from start on)
          i, j,         \* slots consumed of each
          pc            \* "block", "tail" or "done"

ScanInit ==
    /\ a \in Lists /\ b \in Lists
    /\ i = 0 /\ j = 0
    /\ pc = "block"

InBlocks == i < WholeBlocks(a) /\ j < WholeBlocks(b)
InTail   == i < Len(a) /\ j < Len(b)

\* Faulty ways to move on: by one slot instead of four; past the block with the
\* larger last base; not at all when the last bases are equal.
AdvanceOneSlot ==
    LET aMax == a[i + 4].base
        bMax == b[j + 4].base
    IN  /\ i' = IF aMax <= bMax THEN i + 1 ELSE i
        /\ j' = IF bMax <= aMax THEN j + 1 ELSE j

AdvanceLarger ==
    LET aMax == a[i + 4].base
        bMax == b[j + 4].base
    IN  /\ i' = IF aMax >= bMax THEN i + 4 ELSE i
        /\ j' = IF bMax >= aMax THEN j + 4 ELSE j

AdvanceStrictly ==
    LET aMax == a[i + 4].base
        bMax == b[j + 4].base
    IN  /\ i' = IF aMax < bMax THEN i + 4 ELSE i
        /\ j' = IF bMax < aMax THEN j + 4 ELSE j

\* The block with the smaller last base is done with, both when they are equal.
AdvanceBlock ==
    LET aMax == a[i + 4].base
        bMax == b[j + 4].base
    IN  /\ i' = IF aMax <= bMax THEN i + 4 ELSE i
        /\ j' = IF bMax <= aMax THEN j + 4 ELSE j

\* The vector loop ends, and then the scalar loop.
ExitBlocks ==
    /\ pc = "block" /\ ~ InBlocks
    /\ pc' = "tail"
    /\ UNCHANGED <<a, b, i, j>>

ExitTail ==
    /\ pc = "tail" /\ ~ InTail
    /\ pc' = "done"
    /\ UNCHANGED <<a, b, i, j>>

\* The arguments are packed lists, and i and j are block boundaries while the
\* vector loop runs, so that a vector iteration never reads past the end of a list.
ScanOK ==
    /\ a \in Seq(Slot) /\ IsPacked(a)
    /\ b \in Seq(Slot) /\ IsPacked(b)
    /\ i \in 0..Len(a) /\ j \in 0..Len(b)
    /\ pc \in {"block", "tail", "done"}
    /\ pc = "block" => i % 4 = 0 /\ j % 4 = 0
=============================================================================
