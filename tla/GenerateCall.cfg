SPECIFICATION FairSpec
CONSTANTS
    Absent = Absent
    MaxAttempts = 3
    InitialDelay = 1
    MaxDelay = 2
    Jitter = 1
    Deadline = 7
    RetryAfterCap = 4
    RetryAfters <- MCRetryAfters
    AttemptTimes <- MCAttemptTimes
    Oversleeps <- MCOversleeps
INVARIANTS
    TraceFaithful
    WindowsHonoured
    DeadlineHonoured
    ChargesReported
PROPERTIES
    CallEnds
    ImplementsContract
