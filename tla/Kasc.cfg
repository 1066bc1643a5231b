SPECIFICATION KSpec
CONSTANTS
    Estimates <- MCEstimates
    K = 2
    Ext = 2
    Zeta = 5
    Widths <- MCWidths
    NoRefine = FALSE
    Items <- MCItems
    Unseen = {0, 1}
INVARIANTS TypeOK HeapHoldsBest TopKRight
