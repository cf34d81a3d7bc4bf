SPECIFICATION Spec
CONSTANTS
    a = a
    b = b
    x = x
    y = y
    p1 = p1
    p2 = p2
    None = None
    Speech = {a, b, x, y}
    Scripts <- Insert
    Chunks <- TwoChunks
    Procs = {p1}
    Slots = 2
    MaxCues = 4
    MaxChunks = 2
    Faults = {}
    Limit <- LimitMain
\* or Scripts <- Blank
INVARIANT FaultFreeSucceeds
\* or Scripts <- Moved and INVARIANT SpeechMatches
CHECK_DEADLOCK FALSE
