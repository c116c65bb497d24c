SPECIFICATION FairSpec
CONSTANTS
    Runners <- MCRunners
    Compares <- MCCompares
    Kind <- MCKind
    Jobs <- MCJobs
    MaxVersion = 4
    MaxFaults = 1
INVARIANTS
    TypeOK
    ReloadWhole
    UndisturbedWhole
PROPERTY
    RefetchServed
CHECK_DEADLOCK FALSE
