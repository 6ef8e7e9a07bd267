SPECIFICATION TurnSpec
CONSTANTS
    NoTurn = NoTurn
    Turns = {t1, t0}
    Replayed = t0
    MaxMessages = 2
    Controls = {"steer"}
    HasDeadline = TRUE
INVARIANTS
    NotSubmittedIsProof
    EvidenceIsHonest
    
PROPERTIES
    EvidenceSharpens
    SlotReleasedQuiet
