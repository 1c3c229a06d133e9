CONSTANTS
    k1 = k1
    k2 = k2
    a = a
    b = b
    umlaut = umlaut
    Slots <- MCSlots
    Ids <- MCIds
    ValidIds <- MCValid
    Namings <- MCNamings
    MaxTasks = 2
    MaxHour = 2
    MaxSwipes = 1
    MaxCrashes = 1
SPECIFICATION FairSpec
INVARIANTS
    
    NeverOvercounts
PROPERTIES
    EveryHourStored
CHECK_DEADLOCK FALSE
