SPECIFICATION FairSpec
CONSTANTS
    Requests <- MCOne
    Outcome <- MCOneOutcome
    Workers = {w1}
    NoWorker = none
    RunQueueAmount = 1
    Leaving <- MCOne
    MaxFaults = 1
PROPERTY
    CallerAlwaysAnswered
CHECK_DEADLOCK FALSE
