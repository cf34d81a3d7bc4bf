SPECIFICATION Spec
\* A second submission with another subtitle.
CONSTANTS
    Handler <- VideoJob
    Users = {"again"}
    EditFiles = {}
    DeleteFiles = {}
    Limit <- LimitOne
\* or an edit of an uploaded subtitle
\*  Handler <- VideoJob
\*  Users = {}
\*  EditFiles = {"upload"}
\* or an edit while the job runs
\*  Handler <- VideoOcrJob
\*  Users = {"busy"}
\*  EditFiles = {"translated"}
INVARIANT EditsReachOutput
CHECK_DEADLOCK FALSE
