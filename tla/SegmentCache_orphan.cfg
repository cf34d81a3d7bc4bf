SPECIFICATION Spec
CONSTANTS
    a = a
    b = b
    x = x
    y = y
    p1 = p1
    p2 = p2
    None = None
    Speech = {a, b, x, y}
    Scripts <- Correct
    Chunks <- TwoChunks
    Procs = {p1, p2}
    Slots = 2
    MaxCues = 3
    MaxChunks = 2
    Faults = {}
    Limit <- LimitOne
INVARIANT OutputSpeaks
CHECK_DEADLOCK FALSE
