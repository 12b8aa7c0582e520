SPECIFICATION Spec
CONSTANTS
    Names = {a, b, c}
    None = None
    Cancellers = {u}
    Modes = {"callback"}
    StopOnError = TRUE
    Debug = FALSE
    SnapshotMayFail = TRUE
    MaxRuns = 3
    MaxCancels = 2
SYMMETRY Symmetry
INVARIANTS
    TypeOK
    CompletedPrefix
    DocRecordsCompleted
    RollbackReady
    EventCleared
PROPERTIES
    CancelHoldsExecution
    ImplementsContract
