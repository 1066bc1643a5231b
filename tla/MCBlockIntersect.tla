-------------------------- MODULE MCBlockIntersect --------------------------
\* BlockIntersect over the lists of MCPackedLists.
EXTENDS BlockIntersect, MCPackedLists
=============================================================================
