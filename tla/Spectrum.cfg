CONSTANTS
    BandLow = 2
    BandHigh = 8
    CoexLow = 6
    Channel = 2
    ExzMargin = 1
    FssKm = 2
    TtcKm = 1
    NtiaContour <- MCNtia
    NrqzRing <- MCNrqz
    Offices = {15}
    OfficeKm <- MCOfficeKm
    Mountain = 9
    MountainKmA = 1
    MountainKmB <- MCMountainB
    MountainKmMost = 4
    QuietAreas <- MCQuietAreas
    BorderVertices = {0}
    BorderKm = 4
    BorderInnerKm = 1
    PfdLimit = 10
    CategoryMax <- MCCategoryMax
    TenMHz = 10
    Cbsds <- MCCbsds
    CountyFiles <- MCCounties
    Census = {}
    RequireCensus = FALSE
    RequireServiceArea = FALSE
    RadialMax = 3
    PathLoss <- MCPathLoss
    BackLoss = 20
    Threshold <- MCThreshold
    ExclusionZones <- MCExclusionZones
    ExzFeeds <- MCExzFeeds
    FssRecords <- MCFss
    FssFeeds <- MCFssFeeds
    WispRecords <- MCWisp
    GwblPoints <- MCGwbl
    GwblFeeds <- MCGwblFeeds
    PalRecords <- MCPalRecords
    PalFeeds <- MCPalFeeds
    PpaZones <- MCPpaZones
    ClusterLists <- MCClusterLists
    PpaRequests <- MCPpaRequests
    Creators = {p1}
    Requests <- MCRequests
    InitialPals <- MCPals
    InitialFss <- MCInitialFss
    InitialFeed <- MCInitialFeed
    MaxEdits = 2
    MaxLive = 1
SPECIFICATION Spec
INVARIANTS
    OffersAreScreened
    InquiryIsExact
PROPERTIES
    AdminFssRetained
    ProtectedGrantsEnd
CHECK_DEADLOCK FALSE
