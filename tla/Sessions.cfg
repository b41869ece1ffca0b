SPECIFICATION SessionsSpec
CONSTANTS
    w1 = w1
    w2 = w2
    e1 = e1
    e2 = e2
    e3 = e3
    Writers <- TwoWriters
    Runs <- ThreeRuns
    Endpoints <- AllEndpoints
    StageArgs <- StageKinds
    MaxClock = 3
    MaxExecutions = 4
SYMMETRY Slots
CHECK_DEADLOCK FALSE
INVARIANTS TimestampsFollowStatus StageAgreesWithStatus
PROPERTIES FinalUnlessEvaluated ConcurrentWritesSurvive ImplementsExecutionLog
