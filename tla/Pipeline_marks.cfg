SPECIFICATION Spec
\* The speech file is deleted.
CONSTANTS
    Handler <- VideoAutoJob
    Users = {}
    EditFiles = {}
    DeleteFiles = {"speech"}
    Limit <- LimitOne
INVARIANT MarkedPresent
\* or a restart in the TUI
\*  Handler <- VideoNingOcrJob
\*  Users = {"tui"}
\*  DeleteFiles = {}
\* or one after a deletion, which leaves the marks out of order
\*  Handler <- VideoOcrJob
\*  Users = {"tui"}
\*  DeleteFiles = {"translated"}
\* PROPERTY RestartClears
\* or a fault before the speech step of a resumed job
\*  Handler <- VideoNingOcrJob
\*  Users = {}
\*  DeleteFiles = {}
\* PROPERTY ResumeCompletes
\* or a speech step that fails with status 0
\*  Handler <- VideoOcrJob
\*  Users = {}
\*  DeleteFiles = {}
\* INVARIANT MarkedHasOutput
CHECK_DEADLOCK FALSE
