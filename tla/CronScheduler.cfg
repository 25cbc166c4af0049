\* One row, two invocations, a queue: slow handlers, and two crashes or failed calls.
CONSTANTS
    w1 = w1
    w2 = w2
    Worker <- MCWorker
    Slots <- MCSlots
    Minute = 2
    LockTimeout = 1
    MaxAttempts = 2
    Queued = TRUE
    MaxTime = 4
    MaxManual = 1
    MaxFaults = 2
SPECIFICATION Spec
SYMMETRY Symmetry
CHECK_DEADLOCK FALSE
INVARIANTS
    TypeOK
    LeaseRespected
    DueTimesApart
    FencesUnique
    ManualAtMostOnce
    RunsCountResults
PROPERTIES
    ImplementsFencedLease
