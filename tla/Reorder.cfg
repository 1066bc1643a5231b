SPECIFICATION Spec
CONSTANTS
    NumUsers = 2
    NumItems = 5
    Graphs <- MCGraphs
    Orders = {"none", "Deg", "Sample"}
    WindowSize = 4
    Lim = 1
    Pos = 1
INVARIANTS TypeOK NumberedOnce CurrentEntryFirst
PROPERTIES HeaviestNext
