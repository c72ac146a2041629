SPECIFICATION FairSpec
CONSTANTS
    Charts = {c1, c2}
    Lifecycle = FALSE
    Atomic = TRUE
    Triggers <- TimeoutOnly
    FailureCount = 1
    MaxLag = 2
    MaxEdits = 1
    MaxCreates = 2
    MaxFaults = 2
CHECK_DEADLOCK FALSE
INVARIANTS FinalizerGuardsRelease ReadyHasRelease
PROPERTIES NeverUninstallsLive ImplementsLifecycle UnwantedIsUninstalled 
