SPECIFICATION Spec
CONSTANTS
    MaxTurns = 2
    MaxFrames = 1
    Requests <- MCRequests
INVARIANTS
    TurnIsOwn
    
PROPERTIES
    GatedInOrder
    AsksOwnTurn
CHECK_DEADLOCK FALSE
