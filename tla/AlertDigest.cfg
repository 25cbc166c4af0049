\* One alert, one edit of the channel, sweeps that are never late.
CONSTANTS
    w1 = w1
    w2 = w2
    s1 = s1
    s2 = s2
    a1 = a1
    a2 = a2
    Worker <- MCWorker
    Sweeper <- MCOneSweeper
    Alert <- MCOneAlert
    None = None
    RetryDelay <- MCRetryDelay
    Stale = 2
    PendingGrace = 1
    Hour = 2
    MaxPerHour = 1
    Day = 3
    DigestHour = 1
    MaxEdits = 1
    MaxRetries = 0
    MaxFaults = 0
    MaxTrouble = 1
SPECIFICATION TimelySpec
PROPERTIES
    DigestEnds
