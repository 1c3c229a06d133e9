SPECIFICATION FairSpec
CONSTANTS
    Floor = 25
    Ceiling = 60
    AuthFailLimit = 2
    MaxSetups = 2
INVARIANTS
    TypeOK
    StreamUsesOpenSession
    NoSessionLeak
    EndsOnlyForCause
    LockoutGuard
    WaitFollowsOutage
    PollsUntilStreamEnds
PROPERTIES
    SessionReleased
CHECK_DEADLOCK FALSE
