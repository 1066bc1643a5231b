-------------------------- MODULE SetIntersection --------------------------
(***************************************************************************)
(* What an intersection call promises its caller: from two packed lists,   *)
(* in one step, the packed form of the set of items they have in common.   *)
(***************************************************************************)
EXTENDS PackedSlots

CONSTANT Lists          \* the packed lists a caller may pass

VARIABLES a, b,         \* the two arguments
          done,         \* has the call returned?
          c             \* the packed list it returned

vars == <<a, b, done, c>>

Init ==
    /\ a \in Lists /\ b \in Lists
    /\ done = FALSE
    /\ c = << >>

Return ==
    /\ ~ done
    /\ done' = TRUE
    /\ IsPacked(c')
    /\ Items(c') = Items(a) \cap Items(b)
    /\ UNCHANGED <<a, b>>

Next == Return

Spec == Init /\ [][Next]_vars
=============================================================================
