SPECIFICATION PSpec
CONSTANTS
    Callers = {p1, p2}
    FailureThreshold = 2
    SuccessThreshold = 1
    MaxHalfOpenCalls = 1
    MaxEvents = 3
    MaxInput = 2
CHECK_DEADLOCK FALSE
INVARIANT ProducerInv
PROPERTY UsesBreaker
