SPECIFICATION Spec
CONSTANTS
    N = 1
    Limit = 1
    Orders <- MCOneOrder
    HalfRange = 4
    Answer <- MCOneAnswer
    MaxFaults = 0
INVARIANT
    ExpectedWhole
CHECK_DEADLOCK FALSE
