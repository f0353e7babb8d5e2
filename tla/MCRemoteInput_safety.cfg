SPECIFICATION FairSpec
CONSTANTS
    k1 = k1
    p1 = p1
    p2 = p2
    Codes <- MCCodes
    Modifiers <- MCModifiers
    Pressable = {}
    Points <- MCPoints
    NoPoint = NoPoint
    MaxEvents = 3
    MaxShares = 1
    MaxFailures = 1
    Lengths <- MCLengths
    Offsets <- MCOffsets
    Deltas <- MCDeltas
    KeyLengths <- MCKeyLengths
    CodeLength = 2
    MaxWheelDelta = 80
    MaxSharedDimension = 5
    MaxKeyLength = 3
    MaxWheelNotches = 20
    WheelNotchPx = 3
INVARIANTS TypeOK DownIsHeldOrLost LatestMoveKept PressLandsWhereAimed SharedScreenIsHit SharedScreenTakesInput
PROPERTIES ReleasedKeyComesUp CursorCatchesUp
ACTION_CONSTRAINT PointsInOrder
CHECK_DEADLOCK FALSE
