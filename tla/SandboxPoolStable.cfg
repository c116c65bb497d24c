SPECIFICATION FairSpec
CONSTANTS
    RunQueueAmount = 1
    GradeQueueAmount = 1
    RunClients = {r1, r2}
    GradeClients = {g1}
    Compares = {k1, k2}
    Unlimited = {}
    Refetches = FALSE
INVARIANTS
    BoxExclusive
    BoxIntegrity
PROPERTY
    BoxGranted
