\* The client's user disconnects while holding a key.
SPECIFICATION Spec
CONSTANTS
    Codes = {k1, k2}
    Modifiers = {k1, k2}
    Pressable = {}
    Points = {p1}
    NoPoint = NoPoint
    MaxEvents = 2
    MaxShares = 1
    MaxFailures = 0
INVARIANT NoStuckKeys
CHECK_DEADLOCK FALSE
