SPECIFICATION FairSpec
CONSTANTS
    N = 3
    Limit = 2
    Orders <- MCOrders
    HalfRange = 4
    Answer <- MCAnswer
    MaxFaults = 1
INVARIANTS
    TypeOK
    ResponseComplete
    FailuresStayApart
PROPERTY
    AlwaysResponds
CHECK_DEADLOCK FALSE
