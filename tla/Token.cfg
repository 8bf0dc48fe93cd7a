\* The failure branch as built and as docs/auth.md describes it.
SPECIFICATION FairSpec
CONSTANTS
    Callers = {c1, c2}
    MaxHandles = 2
    MaxGeneration = 2
    ExpiresIn = {8}
    Suspensions = {4}
    Jitter = {1}
    RefreshMargin = 5
    MinLifetime = 3
    MaxNap = 2
    Debounce = 1
    WaitTimeout = 3
    FetchTimeout = 2
    MaxBackoff = 3
    MaxExponent = 2
    GuardHeldAcrossSend = {TRUE, FALSE}
INVARIANTS TypeOK AnsweredByNewer NoLostWakeup TimeoutIsExplained NoticesWithinOneNap RefresherOutlivesCalls
PROPERTIES ImplementsService EveryCallEnds ShutdownStops
CHECK_DEADLOCK FALSE
