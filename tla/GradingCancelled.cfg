SPECIFICATION Spec
CONSTANTS
    Submissions <- MCOne
    Groups <- MCGroups
    Cases <- MCWideCases
    GroupOf <- MCWideGroupOf
    Solves <- MCWideSolves
    GradeQueueAmount = 1
    GroupConcurrency = 2
    MaxFaults = 1
PROPERTY
    CleanupAlwaysRuns
CHECK_DEADLOCK FALSE
