CONSTANT
    MaxPairs = 4

SPECIFICATION PairSpec

INVARIANT
    WaiterCleansUp
