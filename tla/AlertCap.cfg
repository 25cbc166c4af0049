\* Two raises at once, no fault and no edit.
CONSTANTS
    w1 = w1
    w2 = w2
    s1 = s1
    s2 = s2
    a1 = a1
    a2 = a2
    Worker <- MCWorker
    Sweeper <- MCOneSweeper
    Alert <- MCAlerts
    None = None
    RetryDelay <- MCRetryDelay
    Stale = 2
    PendingGrace = 1
    Hour = 2
    MaxPerHour = 1
    Day = 2
    DigestHour = 1
    MaxEdits = 0
    MaxRetries = 0
    MaxFaults = 0
    MaxTrouble = 1
SPECIFICATION Spec
INVARIANTS
    CapRespected
