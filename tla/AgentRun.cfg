SPECIFICATION FairSpec
CONSTANTS
    MaxMsg = 2
    MaxCalls = 2
    MaxTurns = 2
INVARIANTS
    ExactlyOnce
    RequestSeesTranscript
    NoBareAssistantRequest
    AbortStopsRequests
PROPERTIES
    KeepsPromise
    AbortSettles
