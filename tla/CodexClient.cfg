SPECIFICATION FairSpec
CONSTANTS
    Requests = {open, r1, r2}
    Opening = open
    Reader = reader
    MaxFrames = 2
    QueueLimit = 1
    PendingLimit = 2
INVARIANTS
    FailureReleases
    FailureComesLast
    OwnThreadOnly
    
PROPERTIES
    CloseEnds
