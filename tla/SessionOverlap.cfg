SPECIFICATION Spec
CONSTANTS
    p1 = p1
    p2 = p2
    Callers <- TwoCallers
    MaxQueue = 1
    MaxRetries = 1
    MaxContinue = 1
    MaxTurns = 1
    MaxCalls = 1
    AuthAwaits = TRUE
INVARIANT
    IdleMeansNoRun
CHECK_DEADLOCK FALSE
