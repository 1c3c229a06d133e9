CONSTANTS
    h1 = h1
    h2 = h2
    s1 = s1
    f1 = f1
    f2 = f2
    e1 = e1
    e2 = e2
    Hosts <- MCHosts
    Serials <- MCSerials
    NoSerial = NoSerial
    NoId = NoId
    Flows <- MCFlows
    Entries <- MCEntries
    Days = {0, 1}
    Unset = Unset
    DefaultDays = 0
    MaxSwaps = 1
    MaxSubmits = 4
SPECIFICATION Spec
SYMMETRY Symmetry
INVARIANTS
    TypeOK
    NoEntryReplaced
    BoundToOwnDevice
    SettingsApplied
PROPERTIES
    ReconfigureKeepsWindow
CHECK_DEADLOCK FALSE
