\* Two callers under one key, a queue per priority, the consumer and two admins.
CONSTANTS
    c1 = c1
    c2 = c2
    a1 = a1
    a2 = a2
    k1 = k1
    NoKey = NoKey
    Caller <- MCCaller
    Console <- MCConsole
    Key <- MCKey
    Batches <- MCBatches
    Single = FALSE
    Bound <- MCBound
    ChainQueue = FALSE
    ChainBound <- MCChainBound
    MaxCalls = 2
    MaxExpiries = 1
    MaxFaults = 1
    MaxAttempts = 2
    PlatformMax = 3
    MaxServed = 2
    MaxAdmin = 2
    MaxJobs = 3
SPECIFICATION MCSpec
SYMMETRY Symmetry
CHECK_DEADLOCK FALSE
INVARIANTS
    TypeOK
    DuplicatesOverlap
    SkipsAreCovered
    RunsAgainOnlyAfterFault
    ChainFollowsSuccess
    ChainIsSent
    GivenUpIsKept
    LetterIsKept
    RetriedOnce
