SPECIFICATION Spec
CONSTANTS
    Items <- MCItems
    VqMap = 0
    Dvq = 5
    Neighbours <- MCNeighbours
    Alpha = 1
    Rounds = {0, 1, 3, 4}
    DirectOver = 3
INVARIANTS TypeOK Moments
