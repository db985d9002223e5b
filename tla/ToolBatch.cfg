SPECIFICATION FairSpec
CONSTANT NCalls = 3
INVARIANTS
    BatchContract
    PendingExact
PROPERTIES
    
    BatchSettles
\* A batch ends.
CHECK_DEADLOCK FALSE
