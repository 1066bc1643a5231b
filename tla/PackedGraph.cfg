SPECIFICATION PackSpec
CONSTANTS
    NumUsers = 3
    ItemIds <- ThreeIds
    Graphs <- MCGraphs
    Numberings <- MCNumberings
    Reo = TRUE
    TruncNums = {2, 9}
INVARIANTS PackTypeOK SegmentsHoldLists SegmentsPacked MapsHoldLists
