\* Two calls on a balance nobody renews: only the calls race.
CONSTANTS
    c1 = c1
    c2 = c2
    c3 = c3
    Null = Null
    Caller <- MCCaller
    Call <- MCCall
    Amount <- MCAmount
    Credits <- MCCredits
    Estimate = 1
    Period = 1
    MaxTime = 1
    MaxAdmin = 0
    MaxOps = 0
SPECIFICATION Spec
CHECK_DEADLOCK FALSE
PROPERTIES
    OverrunEmpties
