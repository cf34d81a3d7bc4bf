SPECIFICATION FairSpec
CONSTANTS
    c1 = c1
    c2 = c2
    c3 = c3
    j1 = j1
    j2 = j2
    g1 = g1
    Clients = {c1, c2}
    Jobs = {j1}
    NPU = NPU
    Gpu = {g1}
    Blocks = 1
    Faults = {"kill", "quit", "heat", "engine", "npuhang"}
    Limit <- LimitLive
    Nobody = Nobody
INVARIANT OutputMatches
\* or PROPERTY DrainFinishes
\* or PROPERTY ClientEnds
\* or PROPERTY EveryClientEnds
\*  Faults = {"quit", "hang"}
CHECK_DEADLOCK FALSE
