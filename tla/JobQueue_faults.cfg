SPECIFICATION Spec
CONSTANTS
    j1 = j1
    j2 = j2
    Jobs = {j1,j2}
    BadHandlers = {}
    server = server
    Procs = {server}
    Server = server
    w1 = w1
    w2 = w2
    w3 = w3
    Workers = {w1,w2,w3}
    NoThread = NoThread
    r1 = r1
    r2 = r2
    Reqs = {r1,r2}
    NoJob = NoJob
    Limit <- LimitLoss
SYMMETRY Symmetry
INVARIANTS TypeOK PendingQueued ProcessingOwned
CHECK_DEADLOCK FALSE
