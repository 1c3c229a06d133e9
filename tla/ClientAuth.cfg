SPECIFICATION Spec
CONSTANTS
    Floor = 25
    Ceiling = 60
    AuthFailLimit = 2
    MaxSetups = 2
INVARIANTS
    AuthSurfaces
CHECK_DEADLOCK FALSE
