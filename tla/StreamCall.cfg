SPECIFICATION FairSpec
CONSTANTS
    Absent = Absent
    MaxAttempts = 3
    InitialDelay = 1
    MaxDelay = 2
    Jitter = 0
    Deadline = 6
    RetryAfterCap = 4
    RetryAfters <- MCRetryAfters
    AttemptTimes <- MCTimes
    Oversleeps <- MCNoOversleep
    MaxEvents = 2
INVARIANTS
    Grammar
PROPERTIES
    StreamEnds
    ImplementsContract
