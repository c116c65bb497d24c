SPECIFICATION Spec
CONSTANTS
    RunQueueAmount = 1
    GradeQueueAmount = 1
    RunClients = {r1, r2}
    GradeClients = {g1, g2, g3}
    Compares = {k1}
    Unlimited = {}
    Refetches = TRUE
SYMMETRY Symmetry
INVARIANTS
    TypeOK
    BoxConservation
    SendNeverBlocks
PROPERTY
    LeaseSpec
