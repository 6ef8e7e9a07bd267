SPECIFICATION FairTurnSpec
CONSTANTS
    NoTurn = NoTurn
    Turns = {t1}
    Replayed = t0
    MaxMessages = 1
    Controls = {"steer", "interrupt"}
    HasDeadline = FALSE
PROPERTIES
    SubmitEnds
    CloseAlwaysEnds
