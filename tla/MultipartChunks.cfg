CONSTANTS
    Symbols = {"-", "B", "#", "e1", "e2", "heartbeat", "[]", "null", "inf", "deep"}
    Parts <- MCParts
    Normalized = {"e1", "e2"}
    NotObjects = {"[]"}
    InnerNotObjects = {"null"}
    Infinite = {"inf"}
    TooDeep = {"deep"}
    MaxBuffer = 9
    MaxParts = 3
    MaxDrops = 1
SPECIFICATION FairSpec
INVARIANTS
    TypeOK
    YieldsAsSent
    EndsOnlyForCause
PROPERTIES
    NextPartReleases
CHECK_DEADLOCK FALSE
