CONSTANTS
    Origin = 0
    Width = 2
    CatAEdge = 4
    NearKm = 2
    FarKm = 4
    Floor = 1
    BandLow = 0
    BandHigh = 6
    CoexLow = 4
    ExzMargin = 1
    FssKm = 2
    TtcKm = 1
    NtiaContour = {}
    NrqzRing <- MCNrqz
    Offices = {50}
    OfficeKm <- MCOfficeKm
    Mountain = 60
    MountainKmA = 1
    MountainKmB = {}
    MountainKmMost = 4
    QuietAreas = {}
    BorderVertices = {0}
    BorderKm = 1
    BorderInnerKm = 1
    PfdLimit = 10
    Snapshots <- MCSnapshots
    Profile <- MCProfile
    PathGain <- MCPathGain
    TtcHigh = 8
    EscPassband <- MCEscPassband
    PeerEscKm = 2
    PeerPpaKm = 1
    HeightSplit = 6
SPECIFICATION Spec
INVARIANTS
    BudgetKept
    FairGrantsKeepPower
    RoomCutsNobody
    PlanKeepsLimits
    AdmittedGrantIsNotMoved
PROPERTIES
    EvaluationEnds
CHECK_DEADLOCK FALSE
