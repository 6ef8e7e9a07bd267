SPECIFICATION FairRuntimeSpec
CONSTANTS
    Prober = p
    Ops = {p, o}
    MaxCancels = 2

    
PROPERTIES
    CloseIsBounded
CHECK_DEADLOCK FALSE
