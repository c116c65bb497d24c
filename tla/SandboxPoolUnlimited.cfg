SPECIFICATION FairSpec
CONSTANTS
    RunQueueAmount = 1
    GradeQueueAmount = 1
    RunClients = {r1, r2}
    GradeClients = {g1}
    Compares = {}
    Unlimited = {r2}
    Refetches = FALSE
PROPERTY
    BoxGranted
