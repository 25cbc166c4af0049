\* One alert under fairness: every kind of disturbance once.
CONSTANTS
    w1 = w1
    w2 = w2
    s1 = s1
    s2 = s2
    a1 = a1
    a2 = a2
    Worker <- MCWorker
    Sweeper <- MCOneSweeper
    Alert <- MCOneAlert
    None = None
    RetryDelay <- MCRetryDelay
    Stale = 2
    PendingGrace = 1
    Hour = 1
    MaxPerHour = 1
    Day = 2
    DigestHour = 1
    MaxEdits = 1
    MaxRetries = 1
    MaxFaults = 1
    MaxTrouble = 3
SPECIFICATION FairSpec
INVARIANTS
    OneSender
    AttemptsBounded
PROPERTIES
    OwedIsSettled
