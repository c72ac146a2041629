SPECIFICATION Spec
CONSTANTS
    Charts = {c1, c2}
    Lifecycle = TRUE
    Atomic = FALSE
    Triggers <- AllTriggers
    FailureCount = 1
    MaxLag = 2
    MaxEdits = 1
    MaxCreates = 1
    MaxFaults = 2
CHECK_DEADLOCK FALSE
INVARIANT ReconcilerInv
