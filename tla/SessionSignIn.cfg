SPECIFICATION MCSpec
CONSTANTS
    s1 = s1
    s2 = s2
    o1 = o1
    o2 = o2
    r1 = r1
    Session = {s1, s2}
    Req = {r1}
    Op = {o1, o2}
    Grace = 1
    MaxTime = 3
    MaxChanges = 1
    MaxOps = 2
    MaxFaults = 0
SYMMETRY MCSymmetry
CHECK_DEADLOCK FALSE
INVARIANTS
    SnapshotReflects
