SPECIFICATION DistroSpec
CONSTANTS
    Subjects = {"resume"}
    Invocations = {p, q, r}
    Resuming = {r}
    Lists <- EditedLists
    Prelude = 1
    Torn = Torn
    None = None
    StopOnError = {TRUE}
    MaxProcesses = 2
    MaxRuns = 1
INVARIANTS
    ResumableCanResume
CHECK_DEADLOCK FALSE
