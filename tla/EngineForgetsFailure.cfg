SPECIFICATION Spec
CONSTANTS
    Names = {a, b}
    None = None
    Cancellers = {u}
    Modes = {"callback"}
    StopOnError = FALSE
    Debug = FALSE
    SnapshotMayFail = FALSE
    MaxRuns = 3
    MaxCancels = 0
PROPERTIES
    ResumesAfterCompleted
