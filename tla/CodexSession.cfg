SPECIFICATION Spec
CONSTANTS
    Absent = Absent
    Setups <- MCSetups
    History = 2
    MaxTurns = 2
    MaxFrames = 5
    MaxQueue = 2
    MaxTokens = 1
INVARIANTS
    
    SurvivorOwesNothing
    ContainedRunsNothing
CHECK_DEADLOCK FALSE
