\* One AI call, two other users of the balance, a renewal or purchase, and the end of
\* the period.
CONSTANTS
    c1 = c1
    c2 = c2
    c3 = c3
    Null = Null
    Caller <- MCCaller
    Call <- MCOneCall
    Amount <- MCAmount
    Credits <- MCCredits
    Estimate = 1
    Period = 1
    MaxTime = 1
    MaxAdmin = 1
    MaxOps = 2
SPECIFICATION Spec
SYMMETRY Symmetry
CHECK_DEADLOCK FALSE
INVARIANTS
    TypeOK
    NetSpend
    LedgerFollows
PROPERTIES
    FreeOnlyIfRacedOrLate
    ImplementsAllowance
