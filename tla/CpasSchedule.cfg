SPECIFICATION Spec
CONSTANTS
    None = None
    Peers = {p1}
    Grants = {g1}
    Workers = {w1}
    Requests = {r1}
    Writers = {i1}
    ScheduleEnabled = TRUE
    SeparateProcess = TRUE
    Databases = {"federal"}
    UncountedWrites = FALSE
    ReuseStamps = FALSE
    MaxDumps = 2
    MaxInjections = 1
    MaxRuns = 2
    MaxFailures = 1
CHECK_DEADLOCK FALSE
INVARIANTS
    OneCommitPerRun
