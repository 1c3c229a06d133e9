CONSTANTS
    c1 = c1
    c2 = c2
    c3 = c3
    Cards <- MCCards
    NoCard = NoCard
    Events <- MCDayEvents
    MaxCards = 2
    NumSlots = 2
    NumDoors = 1
    MaxSlots = 2
    MaxDay = 2
    MaxChanges = 0
    MaxLoads = 3
    MaxHeard = 3
    MaxCrashes = 1
SPECIFICATION Spec
INVARIANTS
    TypeOK
    OnlyToday
    TodayKept
    NamesCounted
PROPERTIES
    CountersOnlyGrow
CHECK_DEADLOCK FALSE
