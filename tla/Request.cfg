\* The failure branch as built and as docs/auth.md describes it.
SPECIFICATION RequestSpec
CONSTANTS
    Callers = {c1, c2}
    MaxHandles = 1
    MaxGeneration = 3
    ExpiresIn = {8}
    Suspensions = {}
    Jitter = {0}
    RefreshMargin = 5
    MinLifetime = 3
    MaxNap = 3
    Debounce = 1
    WaitTimeout = 3
    FetchTimeout = 2
    MaxBackoff = 3
    MaxExponent = 1
    GuardHeldAcrossSend = {TRUE, FALSE}
    MaxRetries = 6
INVARIANTS RefresherOutlivesRequests RetryUsesNewerToken RejectionIsRetriedOnce HealthyTokenIsValid
CHECK_DEADLOCK FALSE
