CONSTANTS
    w1 = w1
    w2 = w2
    e1 = e1
    e2 = e2
    e3 = e3
    Writers <- TwoWriters
    Runs <- NoRuns
    Endpoints <- TransitionEndpoints
    StageArgs <- StageKinds
    MaxClock = 2
    MaxExecutions = 0
SPECIFICATION Spec
PROPERTIES TerminalStatusIsFinal
CHECK_DEADLOCK FALSE
