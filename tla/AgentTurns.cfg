SPECIFICATION Spec
CONSTANTS
    MaxTurns = 2
    MaxEvents = 2
    QueueSize = 1
    Overlap = FALSE
    Impatient = TRUE
INVARIANTS
    OneDriver
    RaisedIsOwn
    ClosedIsQuiet
