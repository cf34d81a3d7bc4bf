SPECIFICATION FairSpec
CONSTANTS
    c1 = c1
    c2 = c2
    c3 = c3
    j1 = j1
    j2 = j2
    g1 = g1
    Clients = {c1, c2}
    Jobs = {j1}
    NPU = NPU
    Gpu = {g1}
    Blocks = 1
    Faults = {"kill", "term", "crash", "quit", "nostart", "engine", "gpu", "hang", "heat"}
    Limit <- LimitLive
    Nobody = Nobody
INVARIANTS
    TypeOK
    SlotsMatch
    WaitersServed
    OutputFresh
PROPERTY ClientEnds
CHECK_DEADLOCK FALSE
