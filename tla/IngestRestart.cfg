SPECIFICATION Spec
CONSTANTS
    Controllers = {c1}
    Readers = {r1, r2}
    NoReader = NoReader
    Windows = {0, 1}
    PageSize = 1
    MaxPages = 3
    StuckCursor = FALSE
    HomeLead = 1
    Leads = {0, 2}
    MaxLog = 2
    MaxTime = 2
    MaxLoads = 2
    MaxDrops = 1
    MaxCrashes = 1
SYMMETRY Symmetry
INVARIANTS
    RestartNeverRefires
    MarkNamesOneEvent
    DowntimeReplayed
    DoubleFireOnlyAtLoad
PROPERTIES
    ImplementsLedger
CHECK_DEADLOCK FALSE
