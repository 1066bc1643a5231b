SPECIFICATION Spec
CONSTANTS
    Items <- MCItems
    Dvq = 5
    Neighbours <- MCNeighbours
    RefineLists <- MCRefineLists
    MaskWidth = 3
    ReRounds = {0, 1, 2, 3, 4, 11}
INVARIANTS TypeOK ExactlyOncePerPair DrawsCounted EnoughUsersToDraw
