SPECIFICATION Spec
CONSTANTS
    a = a
    b = b
    x = x
    y = y
    p1 = p1
    p2 = p2
    None = None
    Speech = {a, b, x, y}
    Scripts <- Correct
    Chunks <- TwoChunks
    Procs = {p1}
    Slots = 2
    MaxCues = 3
    MaxChunks = 2
    Faults = {"kill", "timeout", "tts", "nostart", "long"}
    Limit <- LimitOne
INVARIANT OutputSpeaks
\* or INVARIANT SuccessIsFresh
\* or INVARIANT NeverInflated
CHECK_DEADLOCK FALSE
