CONSTANTS
    s1 = s1
    s2 = s2
    e1 = e1
    None = None
    Never <- MCNever
    Sessions <- TwoSessions
    Names <- OneName
    schedule <- EveryTick
    Day = 3
    QueuedTTL = 2
    RETRIES = 1
    MaxTime = 2
    MaxKids = 3
    MaxMade = 2
    MaxCrashes = 1
SPECIFICATION Spec
CHECK_DEADLOCK FALSE
INVARIANTS
    NoDoubleFireUndisturbed
PROPERTIES
    MarkClearedByItsRun
    DeletedReturnsOnlyByPass
