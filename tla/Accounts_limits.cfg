SPECIFICATION Spec
CONSTANTS
    t1 = t1
    t2 = t2
    p1 = p1
    p2 = p2
    None = None
    Threads = {t1, t2}
    Passwords = {p1}
    Max <- MaxMain
    Window <- WindowMain
    CodeLife = 1
    MaxTime = 2
    MaxRequests = 4
    MaxOutages = 1
SYMMETRY Symmetry
INVARIANTS TypeOK OneVerifiedOwner SpentCodeDead WindowBound
CHECK_DEADLOCK FALSE
