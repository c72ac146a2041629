SPECIFICATION FairSpec
CONSTANTS
    Charts = {c1}
    Lifecycle = FALSE
    Atomic = TRUE
    Triggers <- TimeoutOnly
    FailureCount = 1
    MaxLag = 1
    MaxEdits = 1
    MaxCreates = 1
    MaxFaults = 0
PROPERTIES DeletedGoesAway
CHECK_DEADLOCK FALSE
