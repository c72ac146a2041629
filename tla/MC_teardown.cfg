SPECIFICATION FairSpec
CONSTANTS
    Callers = {c1, c2}
    Roosts = {r1}
    Triggers <- TwoTriggers
    EnableSafetyChecks = TRUE
    MaxConcurrentExecutions = 1
    MaxRequests = 2
    MaxEvents = 2
CHECK_DEADLOCK FALSE
INVARIANTS ExecutionsAreBounded ReportsAreTrue
PROPERTIES ApprovalIsRespected SeenVolumesArePreserved SlotsAreFreed
