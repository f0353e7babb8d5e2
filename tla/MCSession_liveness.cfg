CONSTANTS
    ann = ann
    bob = bob
    a1 = a1
    a2 = a2
    b1 = b1
    r1 = r1
    r2 = r2
    code = code
    NoDevice = NoDevice
    NoSocket = NoSocket
    NoRoomId = NoRoomId
    NoPayload = NoPayload
    Devices <- MCDevices
    Sockets <- SmallSockets
    DeviceOf <- SmallDeviceOf
    RoomIds = {r1}
    Payloads <- MCPayloads
    Token = code
    PendingRoomTtl = 1
    SweepLateness = 0
    MaxRequests = 1
    MaxHangups = 1
    MaxFaults = 1
    MaxReoffers = 0
    MaxShares = 0
    MaxSettings = 1
    MaxPcs = 3
SPECIFICATION AllFairSpec
PROPERTIES
    AttemptEnds
    RoomResolves
    DeadRoomForgotten
VIEW SessionView
ACTION_CONSTRAINT UplinkFirst IdleSweepFirst SocketsInOrder FewEvents
CHECK_DEADLOCK FALSE
