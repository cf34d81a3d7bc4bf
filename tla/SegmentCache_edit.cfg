SPECIFICATION Spec
CONSTANTS
    a = a
    b = b
    x = x
    y = y
    p1 = p1
    p2 = p2
    None = None
    Speech = {a, b, x, y}
    Scripts <- InPlace
    Chunks <- TwoChunks
    Procs = {p1}
    Slots = 2
    MaxCues = 3
    MaxChunks = 2
    Faults = {"term", "kill", "die", "nostart", "timeout", "busy", "tts", "long"}
    Limit <- LimitMain
INVARIANTS TypeOK SpeechMatches WorkRecorded FaultFreeSucceeds
CHECK_DEADLOCK FALSE
