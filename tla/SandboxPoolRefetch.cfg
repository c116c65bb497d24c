SPECIFICATION Spec
CONSTANTS
    RunQueueAmount = 1
    GradeQueueAmount = 1
    RunClients = {r1}
    GradeClients = {g1}
    Compares = {k1}
    Unlimited = {}
    Refetches = TRUE
INVARIANT
    BoxIntegrity
