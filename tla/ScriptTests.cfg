SPECIFICATION MCSpec
CONSTANTS
    RunnerTests <- MCRunnerTests
    CompareTests <- MCCompareTests
    Incomplete <- MCIncomplete
    HasBuild <- MCHasBuild
    BuildEnds <- MCBuildEnds
    RunEnds <- MCRunEnds
    Huge <- MCHuge
    MaxFaults = 2
    MaxOutput = 5
    MaxResult = 6
    Int32 = 8
INVARIANTS
    TypeOK
    ErrorFirst
    OneVerdict
    PassesEarned
    ErrorsTheGraders
    ExecutorsAgree
    LimitsBounded
    CapturesExact
    AveragesBetween
    ResultsBounded
PROPERTIES
    AnsweredInOrder
    EveryTestAnswered
CHECK_DEADLOCK FALSE
