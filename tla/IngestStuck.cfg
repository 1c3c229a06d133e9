SPECIFICATION FairSpec
CONSTANTS
    Controllers = {c1}
    Readers = {r1}
    NoReader = NoReader
    Windows = {0, 9}
    PageSize = 2
    MaxPages = 2
    StuckCursor = TRUE
    HomeLead = 1
    Leads = {1}
    MaxLog = 3
    MaxTime = 1
    MaxLoads = 1
    MaxDrops = 0
    MaxCrashes = 1
INVARIANTS
    TypeOK
    ReplayCountsOnce
PROPERTIES
    BackfillTerminates
CHECK_DEADLOCK FALSE
