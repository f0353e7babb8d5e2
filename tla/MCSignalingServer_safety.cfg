CONSTANTS
    a = a
    b = b
    c = c
    a1 = a1
    a2 = a2
    b1 = b1
    c1 = c1
    r1 = r1
    r2 = r2
    NoDevice = NoDevice
    NoSocket = NoSocket
    NoRoomId = NoRoomId
    NoPayload = NoPayload
    Devices <- MCDevices
    Sockets <- MCSockets
    DeviceOf <- MCDeviceOf
    RoomIds <- MCRoomIds
    Payloads = {p}
    PendingRoomTtl = 2
    SweepLateness = 1
SPECIFICATION FairSpec
INVARIANTS
    TypeOK
    RoomIndexConsistent
    PartiesPresent
    PendingRoomBounded
    ServerInv
PROPERTIES
    EndIsAnnounced
    EndedByPartyOrTtl
    RelayStaysInSession
    SessionNeedsConsent
    ServerRefinement
    PendingEnds
VIEW StateView
ACTION_CONSTRAINT RoomsInOrder
