SPECIFICATION FairSpec
CONSTANTS
    MaxTurns = 1
    MaxEvents = 2
    QueueSize = 1
    Overlap = FALSE
    Impatient = FALSE
INVARIANTS
    EndedIsSettled
PROPERTIES
    CloseEnds
