SPECIFICATION FairSpec
CONSTANTS
    Checks = {c1}
    Runners = {r1, r2}
    HttpTTL = 2
    MaxHttpEdits = 2
    TcpChecks = {t1, t2}
    Conns = {n1, n2}
    PoolSize = 1
    GrpcCallers = {g1, g2}
    FailureThreshold = 2
    SuccessThreshold = 2
    RecoveryTimeout = 1
    MaxAttempts = 2
    MaxConnections = 2
    MaxGrpcChanges = 2
    GrpcConfigs <- SomeGrpcConfigs
    PromRoosts = {p1, p2}
    PromConfigs <- SomePromConfigs
    PromSeries <- SomeSeries
    PromTTL = 1
    MaxPromChanges = 1
    K8sRunners = {k1, k2}
    K8sSpecs <- SomeK8sSpecs
    Clusters <- SomeClusters
    DefaultTTL = 2
    MaxTTL = 2
    MaxK8sChanges = 1
    DispatchRoosts <- SomeDispatchRoosts
    HasClient = "yes"
    Timeout = 4
    ReadTimeout = 2
    UdpRetries = 0
CHECK_DEADLOCK FALSE
  
PROPERTY GrpcRecovers
