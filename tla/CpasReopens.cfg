SPECIFICATION FairSpec
CONSTANTS
    None = None
    Peers = {p1}
    Grants = {g1}
    Workers = {w1}
    Requests = {r1}
    Writers = {i1}
    ScheduleEnabled = TRUE
    SeparateProcess = TRUE
    Databases = {"federal", "pal", "cpi"}
    UncountedWrites = TRUE
    ReuseStamps = TRUE
    MaxDumps = 2
    MaxInjections = 2
    MaxRuns = 2
    MaxFailures = 1
CHECK_DEADLOCK FALSE
PROPERTIES
    AdmissionReopens
