SPECIFICATION Spec
CONSTANTS
    Handler <- VideoNingOcrJob
    Users = {"busy", "tui", "again"}
    EditFiles = {"ocr_srt", "translated"}
    DeleteFiles = {"video_in", "ocr_srt", "translated", "copy", "out"}
    Limit <- LimitOne
INVARIANT MarkedOnce
CHECK_DEADLOCK FALSE
