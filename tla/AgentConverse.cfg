SPECIFICATION ConverseSpec
CONSTANTS
    MaxMsg = 3
    MaxCalls = 1
    MaxTurns = 2
INVARIANTS
    OneSteeringDrainPerTurn
PROPERTIES
    FollowUpsYieldToSteering
CHECK_DEADLOCK FALSE
