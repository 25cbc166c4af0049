\* The admin's pause switch racing executions, crashes and failed calls.
CONSTANTS
    w1 = w1
    w2 = w2
    Worker <- MCWorker
    Slots <- MCSlots
    Minute = 2
    LockTimeout = 2
    MaxAttempts = 1
    Queued = TRUE
    MaxTime = 4
    MaxManual = 1
    MaxFaults = 0
    MaxToggles = 1
SPECIFICATION AdminSpec
SYMMETRY Symmetry
CHECK_DEADLOCK FALSE
INVARIANTS
    OneWorkerPerTask
