CONSTANTS
    c1 = c1
    c2 = c2
    c3 = c3
    Cards <- MCCards
    NoCard = NoCard
    Events <- MCEvents
    MaxCards = 1
    NumSlots = 3
    NumDoors = 2
    MaxSlots = 3
    MaxDay = 1
    MaxChanges = 2
    MaxLoads = 2
    MaxHeard = 1
    MaxCrashes = 0
SPECIFICATION Spec
INVARIANTS
    StatusIsOwn
PROPERTIES
    OneCategoryEach
CHECK_DEADLOCK FALSE
