SPECIFICATION TextSpec
CONSTANTS
    prep = prep
    root = root
    boot = boot
    Names <- ThreeNames
    List <- ThreeCheckpoints
    Populate = root
    None = None
    Ui = ui
    Cancellers = {ui}
    Modes = {"callback", "blocking"}
    StopOnError = TRUE
    Debug = FALSE
    SnapshotMayFail = TRUE
    MaxRuns = 2
    MaxCancels = 2
    UiMayRaise = FALSE
    Capacity = 2
    MaxMessages = 2
INVARIANTS
    SuccessIsComplete
