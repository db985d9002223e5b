SPECIFICATION FairSpec
CONSTANTS
    p1 = p1
    p2 = p2
    Callers <- TwoCallers
    MaxQueue = 1
    MaxRetries = 1
    MaxContinue = 1
    MaxTurns = 0
    MaxCalls = 0
    AuthAwaits = TRUE
PROPERTIES
    Settles
    AbortReturns
CHECK_DEADLOCK FALSE
