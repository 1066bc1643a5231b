SPECIFICATION FairLoadSpec
CONSTANTS
    NumUsers = 3
    NumItems = 2
    MaxReads = 6
    Files <- MCFiles
INVARIANTS
    LoadTypeOK
    FileLoaded
    NeighbourSums
PROPERTIES
    Loads
