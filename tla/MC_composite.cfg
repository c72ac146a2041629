SPECIFICATION FairSpec
CONSTANTS
    Evaluators = {e1, e2}
    Checks = {k1}
    Misspecified = {e2}
    FailureThreshold = 2
    SuccessThreshold = 2
    Timeout = 2
    HalfOpenTimeout = 5
    TTL = 1
INVARIANT CompositeInv
PROPERTIES StepsHaveCause 
