SPECIFICATION Spec
CONSTANTS
    None = None
    Deleted = Deleted
    Cbsds = {c1}
    Grants = {g1, g2}
    Certs = {ka, kb}
    Sessions = {s1, s2}
    Ranges <- MCRanges
    PalRanges <- MCPalRanges
    LicenceEnds = {1, 3}
    GrantDuration = 2
    Horizons = {1}
    CpasActions = {"reduce_power", "terminate"}
    PostgreSQL = FALSE
    MaxTime = 2
    MaxReg = 2
SYMMETRY MCSymmetry
CHECK_DEADLOCK FALSE
INVARIANTS
    FlagsMatchState
