SPECIFICATION DistroSpec
CONSTANTS
    Subjects = {"resume", "lock"}
    Invocations = {p, q, r}
    Resuming = {r}
    Lists <- EditedLists
    Prelude = 1
    Torn = Torn
    None = None
    StopOnError = {TRUE, FALSE}
    MaxProcesses = 4
    MaxRuns = 2
INVARIANTS
    ConsistentBuild
    StoppedCanResume
    LockSound
CHECK_DEADLOCK FALSE
