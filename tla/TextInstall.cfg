SPECIFICATION TextFairSpec
CONSTANTS
    prep = prep
    root = root
    boot = boot
    Names <- ThreeNames
    List <- ThreeCheckpoints
    Populate = root
    None = None
    Ui = ui
    Cancellers = {ui}
    Modes = {"callback", "blocking"}
    StopOnError = TRUE
    Debug = FALSE
    SnapshotMayFail = FALSE
    MaxRuns = 2
    MaxCancels = 2
    UiMayRaise = TRUE
    Capacity = 2
    MaxMessages = 4
INVARIANTS
    SuccessIsComplete
    ConcludedWhenIdle
PROPERTIES
    InstallConcludes
CHECK_DEADLOCK FALSE
