SPECIFICATION CountFairSpec
CONSTANT Lists <- MCLists
INVARIANTS CountTypeOK CountedOnce
PROPERTIES Termination
CHECK_DEADLOCK FALSE
