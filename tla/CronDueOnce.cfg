\* No crash and no failed call: only a handler that outlasts the lock.
CONSTANTS
    w1 = w1
    w2 = w2
    Worker <- MCWorker
    Slots <- MCSlots
    Minute = 2
    LockTimeout = 2
    MaxAttempts = 2
    Queued = TRUE
    MaxTime = 5
    MaxManual = 1
    MaxFaults = 0
SPECIFICATION Spec
SYMMETRY Symmetry
CHECK_DEADLOCK FALSE
INVARIANTS
    DueTimeRunOnce
