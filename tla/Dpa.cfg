SPECIFICATION FairSpec
CONSTANTS
    DpaIds <- TwoDpas
    BandsOf <- OneBandEach
    Grants <- OneGrant
    GrantBands <- OnFirstBand
    Sessions = {s1, s2}
    Horizon = 1
    None = None
    MaxOps = 3
INVARIANTS
    TypeOK
    UnscheduledActivationsRetained
PROPERTIES
    EventuallySilent
    ResumesAfterDeactivation
CHECK_DEADLOCK FALSE
