SPECIFICATION Spec
CONSTANTS
    j1 = j1
    Jobs = {j1}
    BadHandlers = {}
    server = server
    Procs = {server}
    Server = server
    w1 = w1
    Workers = {w1}
    NoThread = NoThread
    r1 = r1
    Reqs = {r1}
    NoJob = NoJob
    Limit <- LimitStop
INVARIANT OrphanDeadBeforeRerun
CHECK_DEADLOCK FALSE
