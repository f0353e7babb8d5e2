CONSTANTS
    ann = ann
    bob = bob
    a1 = a1
    a2 = a2
    b1 = b1
    r1 = r1
    r2 = r2
    code = code
    NoDevice = NoDevice
    NoSocket = NoSocket
    NoRoomId = NoRoomId
    NoPayload = NoPayload
    Devices <- MCDevices
    Sockets <- MCSockets
    DeviceOf <- MCDeviceOf
    RoomIds = {r1, r2}
    Payloads <- MCPayloads
    Token = code
    PendingRoomTtl = 1
    SweepLateness = 0
    MaxRequests = 2
    MaxHangups = 1
    MaxFaults = 1
    MaxReoffers = 1
    MaxShares = 2
    MaxSettings = 1
    MaxPcs = 3
SPECIFICATION AllSpec
INVARIANTS
    SessionTypeOK
    NobodyWaitsUnwatched
    SharedIsShown
PROPERTIES
    MediaNeedsConsent
VIEW SessionView
ACTION_CONSTRAINT UplinkFirst IdleSweepFirst SocketsInOrder AnnAsksLast FewEvents
CHECK_DEADLOCK FALSE
