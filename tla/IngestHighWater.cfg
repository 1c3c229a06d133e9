SPECIFICATION Spec
CONSTANTS
    Controllers = {c1}
    Readers = {r1}
    NoReader = NoReader
    Windows = {9}
    PageSize = 1
    MaxPages = 3
    StuckCursor = FALSE
    HomeLead = 1
    Leads = {1}
    MaxLog = 2
    MaxTime = 2
    MaxLoads = 2
    MaxDrops = 0
    MaxCrashes = 0
INVARIANTS
    HighWaterCovers
CHECK_DEADLOCK FALSE
