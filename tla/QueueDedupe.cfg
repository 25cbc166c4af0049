\* One queue for everything: a send fails, and the caller tries again.
CONSTANTS
    c1 = c1
    c2 = c2
    a1 = a1
    a2 = a2
    k1 = k1
    NoKey = NoKey
    Caller <- MCCaller
    Console <- MCConsole
    Key <- MCKey
    Batches <- MCBatches
    Single = TRUE
    Bound <- MCBound
    ChainQueue = FALSE
    ChainBound <- MCChainBound
    MaxCalls = 2
    MaxExpiries = 0
    MaxFaults = 1
    MaxAttempts = 2
    PlatformMax = 3
    MaxServed = 1
    MaxAdmin = 2
    MaxJobs = 3
SPECIFICATION MCSpec
CHECK_DEADLOCK FALSE
INVARIANTS
    SkippedWasSent
