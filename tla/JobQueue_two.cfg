SPECIFICATION Spec
CONSTANTS
    j1 = j1
    j2 = j2
    Jobs = {j1,j2}
    BadHandlers = {}
    server = server
    tui = tui
    Procs = {server,tui}
    Server = server
    w1 = w1
    Workers = {w1}
    NoThread = NoThread
    r1 = r1
    Reqs = {r1}
    NoJob = NoJob
    Limit <- LimitPurge
INVARIANT OneJobAtATime
CHECK_DEADLOCK FALSE
