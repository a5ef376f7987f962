SPECIFICATION Spec
CONSTANTS
    None = None
    Peers = {p1}
    Grants = {g1, g2}
    Workers = {w1}
    Requests = {r1}
    Writers = {i1}
    ScheduleEnabled = FALSE
    SeparateProcess = TRUE
    Databases = {"federal", "pal", "cpi"}
    UncountedWrites = FALSE
    ReuseStamps = FALSE
    MaxDumps = 3
    MaxInjections = 2
    MaxRuns = 3
    MaxFailures = 1
SYMMETRY MCSymmetry
CHECK_DEADLOCK FALSE
INVARIANTS
    TypeOK
    
    
    OneCommitPerRun
PROPERTIES
    AdmittedOnLiveBaseline
