SPECIFICATION FairSpec
CONSTANTS
    Requests <- MCRequests
    Outcome <- MCOutcome
    Workers = {w1, w2}
    NoWorker = none
    RunQueueAmount = 1
    Leaving <- MCLeaving
    MaxFaults = 1
INVARIANTS
    TypeOK
    Truthful
    AnswerOnTheWay
    QueueDeleted
PROPERTIES
    StreamShape
    CallReturns
CHECK_DEADLOCK FALSE
