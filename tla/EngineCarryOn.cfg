SPECIFICATION FairSpec
CONSTANTS
    Names = {a, b, c}
    None = None
    Cancellers = {u}
    Modes = {"callback"}
    StopOnError = FALSE
    Debug = FALSE
    SnapshotMayFail = TRUE
    MaxRuns = 2
    MaxCancels = 2
INVARIANTS
    ReportTruthful
PROPERTIES
    ThreadReports
    CancelReturns
