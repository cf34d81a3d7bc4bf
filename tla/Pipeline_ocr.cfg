SPECIFICATION Spec
CONSTANTS
    Handler <- VideoOcrJob
    Users = {}
    EditFiles = {"ocr_srt", "translated"}
    DeleteFiles = {"ocr_srt", "translated", "copy", "out"}
    Limit <- LimitTwo
INVARIANTS TypeOK EditsReachOutput MarkedPresent
CHECK_DEADLOCK FALSE
