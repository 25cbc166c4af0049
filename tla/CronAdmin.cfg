\* The admin's pause switch racing executions the trigger and the admin run inline, with no
\* queue bound; a crash or a failed call, then the lock lapses.
CONSTANTS
    w1 = w1
    w2 = w2
    Worker <- MCWorker
    Slots <- MCSlots
    Minute = 2
    LockTimeout = 1
    MaxAttempts = 1
    Queued = FALSE
    MaxTime = 4
    MaxManual = 1
    MaxFaults = 1
    MaxToggles = 1
SPECIFICATION AdminFairSpec
CHECK_DEADLOCK FALSE
INVARIANTS
    ActiveCanBecomeDue
    SafeUnlessUndone
PROPERTIES
    DueIsServed
