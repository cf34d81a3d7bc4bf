SPECIFICATION Spec
CONSTANTS
    c1 = c1
    c2 = c2
    d1 = d1
    d2 = d2
    d3 = d3
    Clients = {c1, c2}
    Daemons = {d1, d2, d3}
    Backlog = 2
    Limit <- LimitMain
    None = None
INVARIANT OneDaemon
\* or INVARIANT NeverRefused
\* or PROPERTY FileKept
CHECK_DEADLOCK FALSE
