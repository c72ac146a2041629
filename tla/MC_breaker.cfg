SPECIFICATION FairSpec
CONSTANTS
    Callers = {p1, p2, p3}
    FailureThreshold = 2
    SuccessThreshold = 2
    MaxHalfOpenCalls = 1
 
PROPERTIES OpensForCause Recovers
