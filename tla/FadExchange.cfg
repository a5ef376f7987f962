SPECIFICATION FairSpec
CONSTANTS
    Types <- TwoTypes
    Ids = {1, 2}
    InitialRecords <- MCRecords
    PageSize = 1
    MaxFiles = 3
    Publishers = {p1, p2}
    Syncs = {s1, s2}
    None = None
    MaxTime = 1
    MaxChanges = 1
    MaxDumps = 2
    MaxFailures = 1
INVARIANTS TypeOK OneCurrentDump
PROPERTIES StoresWholeDumps FreshSyncStoresItsDump SyncCatchesUp
CHECK_DEADLOCK FALSE
