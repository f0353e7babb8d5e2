SPECIFICATION Spec
CONSTANTS
    Ttl = 2
    MaxCodes = 2
    MaxRooms = 2
    MaxPending = 3
CHECK_DEADLOCK FALSE
INVARIANT SingleUse
