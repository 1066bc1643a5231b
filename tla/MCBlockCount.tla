---------------------------- MODULE MCBlockCount ----------------------------
\* BlockCount over the lists of MCPackedLists.
EXTENDS BlockCount, MCPackedLists
=============================================================================
