\* One alert, two requests and two sweeps that may overlap: every kind of disturbance once.
CONSTANTS
    w1 = w1
    w2 = w2
    s1 = s1
    s2 = s2
    a1 = a1
    a2 = a2
    Worker <- MCWorker
    Sweeper <- MCSweepers
    Alert <- MCOneAlert
    None = None
    RetryDelay <- MCRetryDelay
    Stale = 1
    PendingGrace = 0
    Hour = 1
    MaxPerHour = 1
    Day = 1
    DigestHour = 0
    MaxEdits = 1
    MaxRetries = 1
    MaxFaults = 1
    MaxTrouble = 3
SPECIFICATION Spec
SYMMETRY Symmetry
INVARIANTS
    TypeOK
    NoNeedlessRepeat
PROPERTIES
    ImplementsOutbox
