SPECIFICATION Spec
CONSTANTS
    NumItems = 5
    Vq = 1
    Scores <- MCScores
    Numberings <- MCNumberings
    MaxLines = 3
    Ks = {1, 2}
    Ext = 1
    Stored <- MCStored
    Discount <- MCDiscount
INVARIANTS TypeOK ExactIsPerfect MetricsBounded
