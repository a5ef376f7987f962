SPECIFICATION FairSpec
CONSTANTS
    None = None
    Modes <- MCModes
    Execs = {e1, e2, e3}
    HoursPerDay = 3
    StartHour = 2
    EndHour = 1
    MaxTime = 5
    Faults <- FaultKinds
    MaxTriggers = 2
    MaxFaults = 2
CHECK_DEADLOCK FALSE
INVARIANTS
    TypeOK
    StatusIsHonest
    OneRunAtATime
    FlagHasOwner
PROPERTIES
    WindowIsUsed
