SPECIFICATION ApiSpec
CONSTANTS
    Clients = {c1, c2}
    Senders = {s1}
    SendCap = 1
    BroadcastCap = 1
    ApiCallers = {a1, a2}
    ApiSpecs <- SomeSpecs
    ValidationTTL = 1
    StatusTTL = 1
    MaxEvents = 2
    MaxGeneration = 2
    MaxApiChanges = 2
    MaxTracked = 4
    Requests = {q1, q2}
    Addresses = {"ip1"}
    ApiTokens <- SomeTokens
    RateLimit = 1
    Burst = 3
    CleanupInterval = 2
    MaxApiTicks = 4
    Manifests <- SomeManifests
    Registrations = {"mutating", "validating"}
    CertReplicas = {p1, p2}
    Validity = 2
    RenewBefore = 1
    MaxDays = 3
    MaxWritten = 3
    MaxHarm = 1
    r1 = r1
    r2 = r2
    RbacRoosts = {r1, r2}
    Placements <- SomePlacements
    RbacSpecs <- SomeRbacSpecs
    MaxRbacEdits = 2
CHECK_DEADLOCK FALSE
SYMMETRY Symmetry
INVARIANTS HubInv  ServerInv  CertInv  
