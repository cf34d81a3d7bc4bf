SPECIFICATION Spec
CONSTANTS
    t1 = t1
    t2 = t2
    p1 = p1
    p2 = p2
    None = None
    Threads = {t1, t2}
    Passwords = {p1, p2}
    Max <- MaxWide
    Window <- WindowMain
    CodeLife = 2
    MaxTime = 1
    MaxRequests = 5
    MaxOutages = 0
INVARIANT ResetOnce
\* or PROPERTY ChangeFromCurrent
CHECK_DEADLOCK FALSE
