SPECIFICATION PerfSpec
CONSTANTS
    WorkerCount = 1
    QueueSize = 1
    PrioritySize = 1
    MaxJobs = 3
    MaxStarts = 2
    CacheUsers = {u1, u2}
    CacheKeys = {k1, k2}
    MaxSize = 1
    CacheTTL = 1
    MaxRequests = 3
    PoolUsers = {u1, u2}
    MaxConns = 1
    MaxIdleTime = 1
    MaxAge = 1
    MaxCreated = 2
    GoodUpdater = g
    BadUpdater = b
    Updaters = {g, b}
    NewImage <- Images
    BadImages = {"bad"}
    Replicas = 2
    HaPods = {"p1", "p2"}
    MaxTerms = 2
CHECK_DEADLOCK FALSE
INVARIANTS PoolInv RCInv  
PROPERTIES AcceptedIsProcessed UpdateEnds
