SPECIFICATION FairSpec
CONSTANTS
    c1 = c1
    c2 = c2
    p1 = p1
    p2 = p2
    None = None
    Compactors <- TwoCompactors
    Prompters <- TwoPrompters
PROPERTIES
    CancelledWritesNothing
    WaitersWake
CHECK_DEADLOCK FALSE
