SPECIFICATION FairSpec
CONSTANTS
    Submissions <- MCSubmissions
    Groups <- MCGroups
    Cases <- MCCases
    GroupOf <- MCGroupOf
    Solves <- MCSolves
    GradeQueueAmount = 1
    GroupConcurrency = 2
    MaxFaults = 1
INVARIANTS
    TypeOK
    CreditSound
    OneVerdict
    NoOrphans
    NoBlame
PROPERTIES
    QueueSpec
    EveryGradeAnswered
CHECK_DEADLOCK FALSE
