------------------------ MODULE SignalingServerProofs ------------------------
(***************************************************************************)
(* Theorems about the signaling server for every number of devices,        *)
(* sockets and room ids, every TTL and every lateness of the sweep: the    *)
(* types, then the invariants that tie the registry, the rooms, their      *)
(* index and the socket.io memberships together.                           *)
(***************************************************************************)
EXTENDS SignalingServer, TLAPS

-----------------------------------------------------------------------------
(* Typing of what a step emits *)

LEMMA EventTyped ==
    ASSUME NEW name \in EventName, NEW r \in RoomIds \cup {NoRoomId},
           NEW d \in Devices \cup {NoDevice},
           NEW p \in Payloads \cup {NoPayload},
           NEW why \in RejectionReason \cup DisconnectReason \cup {NoReason}
    PROVE  /\ RoomEvent(name, r, d, p, why) \in Event
           /\ Presence(name, d) \in Event
           /\ Relayed(name, r, p) \in Event
BY DEF RoomEvent, Presence, Relayed, Event, NoReason

LEMMA EndTyped ==
    ASSUME NEW r \in RoomIds \cup {NoRoomId}, NEW why \in DisconnectReason
    PROVE  PeerDisconnected(r, why) \in Event
BY EventTyped DEF PeerDisconnected, RoomEvent, Event, EventName, NoReason

LEMMA ToTyped ==
    ASSUME NEW S, NEW e \in Event, NEW x
    PROVE  To(S, e, x) \in Seq(Event)
BY DEF To

LEMMA EmitTyped ==
    ASSUME NEW S, NEW e \in Event, EmitTo(S, e)
    PROVE  sent' \in [Sockets -> Seq(Event)]
BY ToTyped DEF EmitTo

LEMMA SilentTyped == Silent => sent' \in [Sockets -> Seq(Event)]
BY DEF Silent

LEMMA AckTyped ==
    ASSUME NEW s \in Sockets, NEW r \in RoomIds \cup {NoRoomId}, AckOk(s, r)
    PROVE  ack' \in Ack
BY DEF AckOk, Ack

-----------------------------------------------------------------------------
(* The type invariant *)

\* A refused request answers one of the error codes and changes nothing else.
LEMMA RefusalTyped ==
    ASSUME TypeOK, NEW s \in Sockets, NEW code \in SignalingErrorCode,
           AckErr(s, code)
    PROVE  TypeOK'
<1>1. sent' \in [Sockets -> Seq(Event)]
  BY SilentTyped DEF AckErr
<1>2. ack' \in Ack
  BY DEF AckErr, Ack
<1>3. QED
  BY <1>1, <1>2 DEF AckErr, TypeOK, RegistryTypeOK, RoomsTypeOK, registryVars,
                    roomVars

LEMMA RefusalCodes ==
    ASSUME NEW s, NEW r, NEW target
    PROVE  /\ RequestRefusal(s, target) \in SignalingErrorCode \cup {"ok"}
           /\ AcceptRefusal(s, r) \in SignalingErrorCode \cup {"ok"}
           /\ RejectRefusal(s, r) \in SignalingErrorCode \cup {"ok"}
           /\ DisconnectRefusal(s, r) \in SignalingErrorCode \cup {"ok"}
           /\ \A name \in RelayName :
                 RelayRefusal(s, r, name) \in SignalingErrorCode \cup {"ok"}
<1>1. /\ RequestRefusal(s, target) \in SignalingErrorCode \cup {"ok"}
      /\ AcceptRefusal(s, r) \in SignalingErrorCode \cup {"ok"}
      /\ RejectRefusal(s, r) \in SignalingErrorCode \cup {"ok"}
      /\ DisconnectRefusal(s, r) \in SignalingErrorCode \cup {"ok"}
  BY DEF RequestRefusal, AcceptRefusal, RejectRefusal, DisconnectRefusal,
         SignalingErrorCode
<1>2. ASSUME NEW name \in RelayName
      PROVE  RelayRefusal(s, r, name) \in SignalingErrorCode \cup {"ok"}
  <2>1. IceRefusal(s, r) \in SignalingErrorCode \cup {"ok"}
    BY DEF IceRefusal, SignalingErrorCode
  <2>2. /\ SessionRefusal(s, r, "client") \in SignalingErrorCode \cup {"ok"}
        /\ SessionRefusal(s, r, "host") \in SignalingErrorCode \cup {"ok"}
    BY DEF SessionRefusal, SignalingErrorCode
  <2>3. QED
    BY <2>1, <2>2 DEF RelayRefusal, RelayName
<1>3. QED
  BY <1>1, <1>2

LEMMA RemoveAllTyped ==
    ASSUME RoomsTypeOK, NEW R \in SUBSET RoomIds, RemoveAll(R)
    PROVE  RoomsTypeOK'
BY DEF RoomsTypeOK, RemoveAll, NoRoom, ConnectionRoom, RoomStatus

LEMMA AcceptTyped ==
    ASSUME RoomsTypeOK, NEW r \in RoomIds, NEW s \in Sockets, Accept(r, s)
    PROVE  RoomsTypeOK'
<1> DEFINE accepted == [rooms[r] EXCEPT !.status = "accepted", !.hostSocket = s]
<1>1. accepted \in ConnectionRoom /\ rooms[r] \in ConnectionRoom
  BY DEF RoomsTypeOK, ConnectionRoom, RoomStatus
<1>2. rooms' = [rooms EXCEPT ![r] = IF Pending(r) THEN accepted ELSE rooms[r]]
  BY DEF Accept
<1>3. QED
  BY <1>1, <1>2 DEF Accept, RoomsTypeOK

LEMMA AgeTyped ==
    ASSUME RoomsTypeOK, AgeRooms
    PROVE  RoomsTypeOK'
<1>1. ASSUME NEW r \in RoomIds
      PROVE  [rooms[r] EXCEPT !.age = rooms[r].age + 1] \in ConnectionRoom
  BY DEF RoomsTypeOK, ConnectionRoom
<1>2. QED
  BY <1>1 DEF AgeRooms, RoomsTypeOK

\* The initial state has its types.
THEOREM TypeInit == Init => TypeOK
BY DeviceAssumption, TimingAssumption
   DEF Init, TypeOK, RegistryInit, RegistryTypeOK, RoomsInit, RoomsTypeOK, NoRoom,
       ConnectionRoom, RoomStatus

LEMMA GetByDeviceTyped ==
    ASSUME RoomsTypeOK, NEW d
    PROVE  GetByDevice(d) \in RoomIds \cup {NoRoomId}
BY DEF GetByDevice, Live

\* Every action that a socket's message can trigger keeps the types.
LEMMA TypeFromClient ==
    ASSUME TypeOK, NEW s \in Sockets, FromClient(s)
    PROVE  TypeOK'
<1> USE DeviceAssumption, TimingAssumption
<1>1. CASE SocketConnect(s)
  <2>1. sent' \in [Sockets -> Seq(Event)]
    BY <1>1, SilentTyped DEF SocketConnect
  <2>2. QED
    BY <1>1, <2>1 DEF SocketConnect, TypeOK, RegistryTypeOK, RoomsTypeOK,
                      registryVars, roomVars
<1>2. CASE SocketDisconnect(s)
  <2> DEFINE d == GetDeviceId(s)
             r == IF d = NoDevice THEN NoRoomId ELSE GetByDevice(d)
  <2>1. d \in Devices \cup {NoDevice} /\ r \in RoomIds \cup {NoRoomId}
    BY GetByDeviceTyped DEF TypeOK, RegistryTypeOK, GetDeviceId
  <2>2. /\ PeerDisconnected(r, "offline") \in Event
        /\ Presence("device-offline", d) \in Event
    BY <2>1, EventTyped, EndTyped
       DEF EventName, DisconnectReason, NoReason
  <2>3. sent' \in [Sockets -> Seq(Event)]
    BY <1>2, <2>2, ToTyped DEF SocketDisconnect
  <2>4. RegistryTypeOK'
    BY <1>2 DEF SocketDisconnect, UnregisterSocket, TypeOK, RegistryTypeOK
  <2>5. RoomsTypeOK'
    <3>1. RemoveAll(IF r = NoRoomId THEN {} ELSE {r})
      BY <1>2 DEF SocketDisconnect
    <3>2. (IF r = NoRoomId THEN {} ELSE {r}) \in SUBSET RoomIds
      BY <2>1
    <3>3. QED
      BY <3>1, <3>2, RemoveAllTyped DEF TypeOK
  <2>6. QED
    BY <1>2, <2>3, <2>4, <2>5 DEF SocketDisconnect, TypeOK
<1>3. CASE RegisterDevice(s)
  <2> DEFINE d == DeviceOf[s]
             r == GetByDevice(d)
             previous == Displaced(d, s)
             endsRoom == previous # NoSocket /\ r # NoRoomId
  <2>1. d \in Devices /\ r \in RoomIds \cup {NoRoomId}
    BY GetByDeviceTyped DEF TypeOK
  <2>2. /\ PeerDisconnected(r, "offline") \in Event
        /\ Presence("device-online", d) \in Event
    BY <2>1, EventTyped, EndTyped
       DEF EventName, DisconnectReason, NoReason
  <2>3. sent' \in [Sockets -> Seq(Event)]
    BY <1>3, <2>2, ToTyped DEF RegisterDevice
  <2>4. RegistryTypeOK'
    BY <1>3, <2>1 DEF RegisterDevice, Register, TypeOK, RegistryTypeOK
  <2>5. RoomsTypeOK'
    <3>1. RemoveAll(IF endsRoom THEN {r} ELSE {})
      BY <1>3 DEF RegisterDevice
    <3>2. (IF endsRoom THEN {r} ELSE {}) \in SUBSET RoomIds
      BY <2>1
    <3>3. QED
      BY <3>1, <3>2, RemoveAllTyped DEF TypeOK
  <2>6. ack' \in Ack
    BY <1>3, AckTyped DEF RegisterDevice
  <2>7. QED
    BY <1>3, <2>3, <2>4, <2>5, <2>6 DEF RegisterDevice, TypeOK
<1>4. CASE RegisterMalformed(s)
  BY <1>4, RefusalTyped DEF RegisterMalformed, SignalingErrorCode
<1>5. ASSUME NEW target \in Devices, NEW r \in RoomIds, NEW token \in Payloads,
             ConnectionRequest(s, target, r, token)
      PROVE  TypeOK'
  <2>1. GetDeviceId(s) \in Devices
    BY <1>5 DEF ConnectionRequest, RequestRefusal, TypeOK, RegistryTypeOK, GetDeviceId
  <2>2. RoomEvent("incoming-connection", r, GetDeviceId(s), token, NoReason) \in Event
    BY <2>1, EventTyped DEF EventName
  <2>3. sent' \in [Sockets -> Seq(Event)]
    BY <1>5, <2>2, EmitTyped DEF ConnectionRequest
  <2>4. RoomsTypeOK'
    BY <1>5, <2>1 DEF ConnectionRequest, CreatePending, TypeOK, RoomsTypeOK,
                      ConnectionRoom, RoomStatus
  <2>5. ack' \in Ack
    BY <1>5, AckTyped DEF ConnectionRequest
  <2>6. QED
    BY <1>5, <2>3, <2>4, <2>5
       DEF ConnectionRequest, TypeOK, RegistryTypeOK, registryVars
<1>6. ASSUME NEW target \in Devices \cup {NoDevice},
             ConnectionRequestRefused(s, target)
      PROVE  TypeOK'
  BY <1>6, RefusalTyped, RefusalCodes DEF ConnectionRequestRefused
<1>7. ASSUME NEW r \in RoomIds, ConnectionAccepted(s, r)
      PROVE  TypeOK'
  <2>1. GetDeviceId(s) \in Devices
    BY <1>7 DEF ConnectionAccepted, AcceptRefusal, TypeOK, RegistryTypeOK, GetDeviceId
  <2>2. RoomEvent("connection-accepted", r, GetDeviceId(s), NoPayload, NoReason)
            \in Event
    BY <2>1, EventTyped DEF EventName
  <2>3. sent' \in [Sockets -> Seq(Event)]
    BY <1>7, <2>2, EmitTyped DEF ConnectionAccepted
  <2>4. RoomsTypeOK'
    BY <1>7, AcceptTyped DEF ConnectionAccepted, TypeOK
  <2>5. ack' \in Ack
    BY <1>7, AckTyped DEF ConnectionAccepted
  <2>6. QED
    BY <1>7, <2>3, <2>4, <2>5
       DEF ConnectionAccepted, TypeOK, RegistryTypeOK, registryVars
<1>8. ASSUME NEW r \in RoomIds, NEW why \in RejectionReason,
             ConnectionRejected(s, r, why)
      PROVE  TypeOK'
  <2>1. GetDeviceId(s) \in Devices
    BY <1>8 DEF ConnectionRejected, RejectRefusal, TypeOK, RegistryTypeOK, GetDeviceId
  <2>2. RoomEvent("connection-rejected", r, GetDeviceId(s), NoPayload, why) \in Event
    BY <2>1, EventTyped DEF EventName
  <2>3. sent' \in [Sockets -> Seq(Event)]
    BY <1>8, <2>2, EmitTyped DEF ConnectionRejected
  <2>4. RoomsTypeOK'
    BY <1>8, RemoveAllTyped DEF ConnectionRejected, Remove, TypeOK
  <2>5. ack' \in Ack
    BY <1>8, AckTyped DEF ConnectionRejected
  <2>6. QED
    BY <1>8, <2>3, <2>4, <2>5
       DEF ConnectionRejected, TypeOK, RegistryTypeOK, registryVars
<1>9. ASSUME NEW r \in RoomIds, NEW name \in RelayName, NEW payload \in Payloads,
             Relay(s, r, name, payload)
      PROVE  TypeOK'
  <2>1. Relayed(name, r, payload) \in Event
    BY EventTyped DEF EventName, RelayName
  <2>2. sent' \in [Sockets -> Seq(Event)]
    BY <1>9, <2>1, EmitTyped DEF Relay
  <2>3. ack' \in Ack
    BY <1>9, AckTyped DEF Relay
  <2>4. QED
    BY <1>9, <2>2, <2>3
       DEF Relay, TypeOK, RegistryTypeOK, RoomsTypeOK, registryVars, roomVars
<1>10. ASSUME NEW r \in RoomIds \cup {NoRoomId}, DisconnectDevice(s, r)
       PROVE  TypeOK'
  <2> DEFINE q == RoomToLeave(s, r)
  <2>1. q \in RoomIds
    BY <1>10 DEF DisconnectDevice, DisconnectRefusal, Live
  <2>2. sent' \in [Sockets -> Seq(Event)]
    BY <1>10, <2>1, EndTyped, EmitTyped DEF DisconnectDevice, DisconnectReason
  <2>3. RoomsTypeOK'
    BY <1>10, <2>1, RemoveAllTyped DEF DisconnectDevice, Remove, TypeOK
  <2>4. ack' \in Ack
    BY <1>10, <2>1, AckTyped DEF DisconnectDevice
  <2>5. QED
    BY <1>10, <2>2, <2>3, <2>4
       DEF DisconnectDevice, TypeOK, RegistryTypeOK, registryVars
<1>11. ASSUME NEW r \in RoomIds \cup {NoRoomId}, ConnectionAcceptedRefused(s, r)
       PROVE  TypeOK'
  BY <1>11, RefusalTyped, RefusalCodes DEF ConnectionAcceptedRefused
<1>12. ASSUME NEW r \in RoomIds \cup {NoRoomId}, ConnectionRejectedRefused(s, r)
       PROVE  TypeOK'
  BY <1>12, RefusalTyped, RefusalCodes DEF ConnectionRejectedRefused
<1>13. ASSUME NEW r \in RoomIds \cup {NoRoomId}, DisconnectDeviceRefused(s, r)
       PROVE  TypeOK'
  BY <1>13, RefusalTyped, RefusalCodes DEF DisconnectDeviceRefused
<1>14. ASSUME NEW r \in RoomIds \cup {NoRoomId}, NEW name \in RelayName,
              RelayRefused(s, r, name)
       PROVE  TypeOK'
  BY <1>14, RefusalTyped, RefusalCodes DEF RelayRefused
<1>15. QED
  BY <1>1, <1>2, <1>3, <1>4, <1>5, <1>6, <1>7, <1>8, <1>9, <1>10, <1>11, <1>12,
     <1>13, <1>14 DEF FromClient

LEMMA TypeStep == TypeOK /\ [Next]_vars => TypeOK'
<1> SUFFICES ASSUME TypeOK, [Next]_vars PROVE TypeOK'
  OBVIOUS
<1>1. CASE \E s \in Sockets : FromClient(s)
  BY <1>1, TypeFromClient
<1>2. CASE Tick
  <2>1. sent' \in [Sockets -> Seq(Event)]
    BY <1>2, SilentTyped DEF Tick
  <2>2. RoomsTypeOK'
    BY <1>2, AgeTyped DEF Tick, TypeOK
  <2>3. sweepIn' \in -SweepLateness..PendingRoomTtl
    BY <1>2, TimingAssumption DEF Tick, TypeOK
  <2>4. QED
    BY <1>2, <2>1, <2>2, <2>3 DEF Tick, TypeOK, RegistryTypeOK, registryVars
<1>3. CASE SweepExpired
  <2>1. ASSUME NEW x \in Sockets
        PROVE  sent'[x] \in Seq(Event) 
    <3> DEFINE mine == {r \in ExpiredPending :
                           x \in {rooms[r].clientSocket, GetSocket(rooms[r].host)}}
    <3>1. CASE mine = {}
      BY <1>3, <3>1 DEF SweepExpired
    <3>2. CASE mine # {}
      <4>1. (CHOOSE r \in mine : TRUE) \in RoomIds
        BY <3>2 DEF ExpiredPending
      <4>2. PeerDisconnected(CHOOSE r \in mine : TRUE, "timeout") \in Event
        BY <4>1, EndTyped DEF DisconnectReason
      <4>3. QED
        BY <1>3, <3>2, <4>2, ToTyped DEF SweepExpired
    <3>3. QED
      BY <3>1, <3>2
  <2>2. sent' \in [Sockets -> Seq(Event)]
    BY <1>3, <2>1 DEF SweepExpired
  <2>3. RoomsTypeOK'
    BY <1>3, RemoveAllTyped DEF SweepExpired, ExpiredPending, TypeOK
  <2>4. sweepIn' \in -SweepLateness..PendingRoomTtl
    BY <1>3, TimingAssumption DEF SweepExpired
  <2>5. QED
    BY <1>3, <2>2, <2>3, <2>4 DEF SweepExpired, TypeOK, RegistryTypeOK, registryVars
<1>4. CASE UNCHANGED vars
  BY <1>4 DEF vars, outputs, registryVars, roomVars, TypeOK, RegistryTypeOK,
              RoomsTypeOK
<1>5. QED
  BY <1>1, <1>2, <1>3, <1>4 DEF Next

\* Every variable of the server keeps its type: what the handlers store and emit
\* is always a room, a socket, an event or an acknowledgement of the protocol.
THEOREM ServerTypeCorrect == Spec => []TypeOK
BY TypeInit, TypeStep, PTL DEF Spec

-----------------------------------------------------------------------------
(* The registry *)

RegistryInv == RegistryConsistent /\ SocketIdentity

LEMMA RegisterKeepsRegistry ==
    ASSUME TypeOK, RegistryInv, NEW s \in Sockets, RegisterDevice(s)
    PROVE  RegistryInv'
<1>1. DeviceOf[s] \in Devices /\ NoDevice \notin Devices /\ NoSocket \notin Sockets
  BY DeviceAssumption
<1>2. RegistryConsistent'
  BY <1>1 DEF RegistryInv, RegisterDevice, Register, Displaced, RegistryConsistent,
              SocketIdentity, GetSocket, GetDeviceId, TypeOK, RegistryTypeOK
<1>3. SocketIdentity'
  BY <1>1 DEF RegistryInv, RegisterDevice, Register, Displaced, SocketIdentity,
              RegistryConsistent, GetSocket, GetDeviceId, Open, TypeOK, RegistryTypeOK
<1>4. QED
  BY <1>2, <1>3 DEF RegistryInv

LEMMA UnregisterKeepsRegistry ==
    ASSUME TypeOK, RegistryInv, NEW s \in Sockets, SocketDisconnect(s)
    PROVE  RegistryInv'
<1>1. NoDevice \notin Devices /\ NoSocket \notin Sockets
  BY DeviceAssumption
<1>2. RegistryConsistent'
  BY <1>1 DEF RegistryInv, SocketDisconnect, UnregisterSocket, RegistryConsistent,
              GetSocket, GetDeviceId, TypeOK, RegistryTypeOK
<1>3. SocketIdentity'
  BY <1>1 DEF RegistryInv, SocketDisconnect, UnregisterSocket, SocketIdentity,
              GetSocket, GetDeviceId, Open, TypeOK, RegistryTypeOK
<1>4. QED
  BY <1>2, <1>3 DEF RegistryInv

-----------------------------------------------------------------------------
(* The rooms and their index *)

LEMMA RemoveAllKeepsIndex ==
    ASSUME RoomsTypeOK, RoomIndexConsistent, NEW R \in SUBSET RoomIds,
           \A r \in R : Live(r), RemoveAll(R)
    PROVE  RoomIndexConsistent'
<1>1. \A r \in RoomIds : Live(r)' <=> Live(r) /\ r \notin R
  BY DEF RemoveAll, Live, NoRoom
<1>2. \A r \in RoomIds \ R : Parties(r)' = Parties(r)
  BY DEF RemoveAll, Parties
<1>3. \A r \in RoomIds :
         Live(r)' => Parties(r)' \subseteq Devices /\ rooms'[r].client # rooms'[r].host
  BY <1>1 DEF RemoveAll, RoomIndexConsistent, Parties
<1>4. ASSUME NEW d \in Devices, NEW r \in RoomIds
      PROVE  byDevice'[d] = r <=> Live(r)' /\ d \in Parties(r)'
  <2>1. CASE r \in R
    BY <2>1, <1>1, DeviceAssumption DEF RemoveAll, RoomIndexConsistent
  <2>2. CASE r \notin R
    BY <2>2, <1>1, <1>2, DeviceAssumption DEF RemoveAll, RoomIndexConsistent
  <2>3. QED
    BY <2>1, <2>2
<1>5. QED
  BY <1>3, <1>4 DEF RoomIndexConsistent

\* A device that getByDevice finds idle is in no live room.
LEMMA IdleIsFree ==
    ASSUME RoomsTypeOK, RoomIndexConsistent, NEW d \in Devices,
           GetByDevice(d) = NoRoomId
    PROVE  byDevice[d] = NoRoomId
BY DeviceAssumption DEF RoomsTypeOK, RoomIndexConsistent, GetByDevice

LEMMA CreateKeepsIndex ==
    ASSUME RoomsTypeOK, RoomIndexConsistent, NEW r \in RoomIds,
           NEW c \in Devices, NEW h \in Devices, NEW s \in Sockets, c # h,
           rooms[r].status = "unused", byDevice[c] = NoRoomId,
           byDevice[h] = NoRoomId, CreatePending(r, c, h, s)
    PROVE  RoomIndexConsistent'
<1>1. \A q \in RoomIds : Live(q)' <=> Live(q) \/ q = r
  BY DEF CreatePending, Live, RoomsTypeOK
<1>2. \A q \in RoomIds \ {r} : Parties(q)' = Parties(q)
  BY DEF CreatePending, Parties, RoomsTypeOK
<1>3. Parties(r)' = {c, h} /\ rooms'[r].client = c /\ rooms'[r].host = h
  BY DEF CreatePending, Parties, RoomsTypeOK
<1>4. ~Live(r)
  BY DEF Live
<1>5. ASSUME NEW d \in Devices, NEW q \in RoomIds
      PROVE  byDevice'[d] = q <=> Live(q)' /\ d \in Parties(q)'
  BY <1>1, <1>2, <1>3, <1>4, DeviceAssumption DEF CreatePending, RoomIndexConsistent
<1>6. ASSUME NEW q \in RoomIds, Live(q)'
      PROVE  Parties(q)' \subseteq Devices /\ rooms'[q].client # rooms'[q].host
  <2>1. CASE q = r
    BY <2>1, <1>3
  <2>2. CASE q # r
    BY <2>2, <1>1, <1>2, <1>6 DEF RoomIndexConsistent, CreatePending, RoomsTypeOK
  <2>3. QED
    BY <2>1, <2>2
<1>7. QED
  BY <1>5, <1>6 DEF RoomIndexConsistent

\* Accepting a room and letting it age change neither its parties nor whether
\* it is live.
LEMMA SamePartiesKeepIndex ==
    ASSUME RoomIndexConsistent, UNCHANGED byDevice,
           \A r \in RoomIds : /\ Live(r)' <=> Live(r)
                              /\ rooms'[r].client = rooms[r].client
                              /\ rooms'[r].host = rooms[r].host
    PROVE  RoomIndexConsistent'
BY DEF RoomIndexConsistent, Parties

LEMMA InitInv == Init => ServerInv
BY DeviceAssumption, TimingAssumption
   DEF Init, RegistryInit, RoomsInit, NoRoom, ServerInv, RegistryConsistent,
       SocketIdentity, RoomIndexConsistent, PartiesPresent, MembersMatchRoom,
       UnusedEmpty, SweepKeepsUp, Live, Pending, GetSocket, GetDeviceId

-----------------------------------------------------------------------------
(* The actions, one lemma each *)

\* Steps that only answer or relay leave every part of the invariant alone.
LEMMA FrameInv ==
    ASSUME ServerInv, UNCHANGED <<registryVars, roomVars, conn, joined, sweepIn>>
    PROVE  ServerInv'
BY DEF ServerInv, RegistryConsistent, SocketIdentity, RoomIndexConsistent,
       PartiesPresent, MembersMatchRoom, UnusedEmpty, SweepKeepsUp, Live, Pending,
       Accepted, Parties, GetSocket, GetDeviceId, Open, Connected, registryVars,
       roomVars

LEMMA ConnectInv ==
    ASSUME TypeOK, ServerInv, NEW s \in Sockets, SocketConnect(s)
    PROVE  ServerInv'
<1>1. \A x \in Sockets : conn[x] = "open" => conn'[x] = "open"
  BY DEF SocketConnect, TypeOK
<1>2. UNCHANGED <<byDeviceId, bySocketId, rooms, byDevice, joined, sweepIn>>
  BY DEF SocketConnect, registryVars, roomVars
<1>3. SocketIdentity'
  BY <1>1, <1>2 DEF ServerInv, SocketIdentity, GetDeviceId, Open
<1>4. PartiesPresent'
  BY <1>1, <1>2 DEF ServerInv, PartiesPresent, Live, Accepted, Connected, Open,
                    GetSocket
<1>5. RegistryConsistent' /\ RoomIndexConsistent' /\ MembersMatchRoom'
      /\ UnusedEmpty' /\ SweepKeepsUp'
  BY <1>2 DEF ServerInv, RegistryConsistent, RoomIndexConsistent, MembersMatchRoom,
              UnusedEmpty, SweepKeepsUp, Live, Pending, Parties, GetSocket, GetDeviceId
<1>6. QED
  BY <1>3, <1>4, <1>5 DEF ServerInv

\* Removing live rooms keeps what is said of each of the remaining rooms alone.
LEMMA RemovedRooms ==
    ASSUME RoomsTypeOK, NEW R \in SUBSET RoomIds, RemoveAll(R)
    PROVE  \A r \in RoomIds :
              /\ Live(r)' <=> Live(r) /\ r \notin R
              /\ Accepted(r)' <=> Accepted(r) /\ r \notin R
              /\ Pending(r)' <=> Pending(r) /\ r \notin R
              /\ r \notin R => rooms'[r] = rooms[r]
              /\ rooms'[r].status = "unused" => rooms[r] = rooms'[r]
BY DEF RemoveAll, Live, Accepted, Pending, NoRoom

\* The room that a closing or displaced socket ends is the only one that has
\* the socket as an end.
LEMMA OnlyRoomOfSocket ==
    ASSUME TypeOK, ServerInv, NEW s \in Sockets, GetDeviceId(s) # NoDevice,
           NEW r \in RoomIds, Live(r),
           GetByDevice(GetDeviceId(s)) # r
    PROVE  /\ s # rooms[r].clientSocket
           /\ s # rooms[r].hostSocket
           /\ s # GetSocket(rooms[r].host)
           /\ GetDeviceId(s) \notin Parties(r)
<1>1. GetDeviceId(s) \in Devices /\ GetSocket(GetDeviceId(s)) = s
  BY DEF ServerInv, RegistryConsistent, TypeOK, RegistryTypeOK, GetDeviceId
<1>2. GetDeviceId(s) \notin Parties(r)
  BY <1>1 DEF ServerInv, RoomIndexConsistent, GetByDevice
<1>3. Parties(r) \subseteq Devices
  BY DEF ServerInv, RoomIndexConsistent
<1>4. GetSocket(rooms[r].client) # s /\ GetSocket(rooms[r].host) # s
  BY <1>2, <1>3, DeviceAssumption DEF ServerInv, RegistryConsistent, Parties
<1>5. QED
  BY <1>2, <1>4, DeviceAssumption DEF ServerInv, PartiesPresent

LEMMA UnregisteredNoRoom ==
    ASSUME TypeOK, ServerInv, NEW s \in Sockets, GetDeviceId(s) = NoDevice,
           NEW r \in RoomIds, Live(r)
    PROVE  /\ s # rooms[r].clientSocket
           /\ s # rooms[r].hostSocket
           /\ s # GetSocket(rooms[r].host)
<1>1. Parties(r) \subseteq Devices
  BY DEF ServerInv, RoomIndexConsistent
<1>2. GetSocket(rooms[r].client) # s /\ GetSocket(rooms[r].host) # s
  BY <1>1, DeviceAssumption DEF ServerInv, RegistryConsistent, Parties
<1>3. QED
  BY <1>2, DeviceAssumption DEF ServerInv, PartiesPresent

LEMMA DisconnectInv ==
    ASSUME TypeOK, ServerInv, NEW s \in Sockets, SocketDisconnect(s)
    PROVE  ServerInv'
<1> DEFINE d == GetDeviceId(s)
           r == IF d = NoDevice THEN NoRoomId ELSE GetByDevice(d)
           R == IF r = NoRoomId THEN {} ELSE {r}
<1>1. R \in SUBSET RoomIds /\ (\A q \in R : Live(q)) /\ RemoveAll(R)
  BY DEF SocketDisconnect, GetByDevice, Live
<1>2. RegistryConsistent' /\ SocketIdentity'
  BY UnregisterKeepsRegistry DEF RegistryInv, ServerInv
<1>3. RoomIndexConsistent'
  BY <1>1, RemoveAllKeepsIndex DEF ServerInv, TypeOK
<1>4. ASSUME NEW q \in RoomIds, Live(q)'
      PROVE  /\ Live(q) /\ rooms'[q] = rooms[q]
             /\ Accepted(q)' <=> Accepted(q)
             /\ s # rooms[q].clientSocket
             /\ s # rooms[q].hostSocket
             /\ s # GetSocket(rooms[q].host)
  <2>1. Live(q) /\ q \notin R /\ rooms'[q] = rooms[q] /\ (Accepted(q)' <=> Accepted(q))
    BY <1>1, <1>4, RemovedRooms DEF TypeOK
  <2>2. CASE d = NoDevice
    BY <2>1, <2>2, UnregisteredNoRoom
  <2>3. CASE d # NoDevice
    BY <2>1, <2>3, OnlyRoomOfSocket, DeviceAssumption
  <2>4. QED
    BY <2>1, <2>2, <2>3
<1>5. PartiesPresent'
  <2> SUFFICES ASSUME NEW q \in RoomIds, Live(q)'
               PROVE  /\ Open(rooms[q].clientSocket)'
                      /\ GetSocket(rooms[q].client)' = rooms'[q].clientSocket
                      /\ Connected(rooms[q].host)'
                      /\ rooms'[q].hostSocket =
                           IF Accepted(q)' THEN GetSocket(rooms[q].host)' ELSE NoSocket
    BY DEF PartiesPresent
  <2>1. Parties(q) \subseteq Devices
    BY <1>4 DEF ServerInv, RoomIndexConsistent
  <2>2. /\ byDeviceId'[rooms[q].client] = byDeviceId[rooms[q].client]
        /\ byDeviceId'[rooms[q].host] = byDeviceId[rooms[q].host]
    <3>1. byDeviceId[rooms[q].client] # s /\ byDeviceId[rooms[q].host] # s
      BY <1>4 DEF ServerInv, PartiesPresent, GetSocket
    <3>2. QED
      BY <2>1, <3>1 DEF SocketDisconnect, UnregisterSocket, Parties
  <2>3. \A x \in Sockets : x # s => conn'[x] = conn[x]
    BY DEF SocketDisconnect, TypeOK
  <2>4. QED
    BY <1>4, <2>2, <2>3 DEF ServerInv, PartiesPresent, Open, Connected, GetSocket
<1>6. MembersMatchRoom'
  BY <1>4 DEF ServerInv, MembersMatchRoom, SocketDisconnect, TypeOK
<1>7. UnusedEmpty'
  BY <1>1, RemovedRooms DEF ServerInv, UnusedEmpty, SocketDisconnect, TypeOK
<1>8. SweepKeepsUp'
  BY <1>1, RemovedRooms DEF ServerInv, SweepKeepsUp, SocketDisconnect, TypeOK, Pending
<1>9. QED
  BY <1>2, <1>3, <1>5, <1>6, <1>7, <1>8 DEF ServerInv

LEMMA RegisterInv ==
    ASSUME TypeOK, ServerInv, NEW s \in Sockets, RegisterDevice(s)
    PROVE  ServerInv'
<1> DEFINE d == DeviceOf[s]
           r == GetByDevice(d)
           previous == Displaced(d, s)
           R == IF previous # NoSocket /\ r # NoRoomId THEN {r} ELSE {}
<1>1. R \in SUBSET RoomIds /\ (\A q \in R : Live(q)) /\ RemoveAll(R)
  BY DEF RegisterDevice, GetByDevice, Live
<1>2. RegistryConsistent' /\ SocketIdentity'
  BY RegisterKeepsRegistry DEF RegistryInv, ServerInv
<1>3. RoomIndexConsistent'
  BY <1>1, RemoveAllKeepsIndex DEF ServerInv, TypeOK
<1>4. d \in Devices /\ byDeviceId[d] \in Sockets \cup {NoSocket}
  BY DeviceAssumption DEF TypeOK, RegistryTypeOK
<1>5. ASSUME NEW q \in RoomIds, Live(q)'
      PROVE  /\ Live(q) /\ rooms'[q] = rooms[q]
             /\ Accepted(q)' <=> Accepted(q)
             /\ d \notin Parties(q) \/ byDeviceId[d] = s
             /\ previous \notin Sockets \/
                  /\ previous # rooms[q].clientSocket
                  /\ previous # rooms[q].hostSocket
                  /\ previous # GetSocket(rooms[q].host)
  <2>1. Live(q) /\ q \notin R /\ rooms'[q] = rooms[q] /\ (Accepted(q)' <=> Accepted(q))
    BY <1>1, <1>5, RemovedRooms DEF TypeOK
  <2>2. CASE byDeviceId[d] = s
    BY <2>1, <2>2, DeviceAssumption DEF Displaced
  <2>3. CASE byDeviceId[d] # s /\ byDeviceId[d] = NoSocket
    <3>1. d \notin Parties(q)
      BY <2>1, <2>3, DeviceAssumption
         DEF ServerInv, PartiesPresent, Parties, Connected, Open, GetSocket
    <3>2. QED
      BY <2>1, <2>3, <3>1, DeviceAssumption DEF Displaced
  <2>4. CASE byDeviceId[d] # s /\ byDeviceId[d] # NoSocket
    <3>1. previous \in Sockets /\ previous # NoSocket /\ GetDeviceId(previous) = d
      BY <1>4, <2>4, DeviceAssumption
         DEF Displaced, ServerInv, RegistryConsistent, GetSocket
    <3>2. GetByDevice(d) # q
      BY <2>1, <3>1, DeviceAssumption
    <3>3. QED
      BY <1>4, <2>1, <3>1, <3>2, OnlyRoomOfSocket, DeviceAssumption
  <2>5. QED
    BY <2>2, <2>3, <2>4
<1>6. \A x \in Sockets : x # previous => conn'[x] = conn[x]
  BY DEF RegisterDevice, TypeOK
<1>7. PartiesPresent'
  <2> SUFFICES ASSUME NEW q \in RoomIds, Live(q)'
               PROVE  /\ Open(rooms[q].clientSocket)'
                      /\ GetSocket(rooms[q].client)' = rooms'[q].clientSocket
                      /\ Connected(rooms[q].host)'
                      /\ rooms'[q].hostSocket =
                           IF Accepted(q)' THEN GetSocket(rooms[q].host)' ELSE NoSocket
    BY DEF PartiesPresent
  <2>1. Parties(q) \subseteq Devices
    BY <1>5 DEF ServerInv, RoomIndexConsistent
  <2>2. /\ byDeviceId'[rooms[q].client] = byDeviceId[rooms[q].client]
        /\ byDeviceId'[rooms[q].host] = byDeviceId[rooms[q].host]
    BY <1>4, <1>5, <2>1 DEF RegisterDevice, Register, Parties, TypeOK, RegistryTypeOK
  <2>3. Open(rooms[q].clientSocket) /\ Open(byDeviceId[rooms[q].host])
    BY <1>5 DEF ServerInv, PartiesPresent, Connected, GetSocket
  <2>4. QED
    BY <1>5, <1>6, <2>2, <2>3 DEF ServerInv, PartiesPresent, Open, Connected, GetSocket
<1>8. MembersMatchRoom'
  <2> SUFFICES ASSUME NEW q \in RoomIds, Live(q)'
               PROVE  joined'[q] =
                        {rooms'[q].clientSocket, rooms'[q].hostSocket} \ {NoSocket}
    BY DEF MembersMatchRoom
  <2>1. joined'[q] = joined[q] \ {previous}
    BY DEF RegisterDevice
  <2>2. previous \notin joined[q]
    <3>1. joined[q] \subseteq Sockets
      BY DEF TypeOK
    <3>2. joined[q] = {rooms[q].clientSocket, rooms[q].hostSocket} \ {NoSocket}
      BY <1>5 DEF ServerInv, MembersMatchRoom
    <3>3. QED
      BY <1>5, <3>1, <3>2
  <2>3. QED
    BY <1>5, <2>1, <2>2 DEF ServerInv, MembersMatchRoom
<1>9. UnusedEmpty'
  BY <1>1, RemovedRooms DEF ServerInv, UnusedEmpty, RegisterDevice, TypeOK
<1>10. SweepKeepsUp'
  BY <1>1, RemovedRooms DEF ServerInv, SweepKeepsUp, RegisterDevice, TypeOK, Pending
<1>11. QED
  BY <1>2, <1>3, <1>7, <1>8, <1>9, <1>10 DEF ServerInv

LEMMA RequestInv ==
    ASSUME TypeOK, ServerInv, NEW s \in Sockets, NEW target \in Devices,
           NEW r \in RoomIds, NEW token \in Payloads,
           ConnectionRequest(s, target, r, token)
    PROVE  ServerInv'
<1> DEFINE c == GetDeviceId(s)
<1>1. c \in Devices /\ c # target /\ Connected(target)
  BY DEF ConnectionRequest, RequestRefusal, TypeOK, RegistryTypeOK, GetDeviceId
<1>2. GetByDevice(c) = NoRoomId /\ GetByDevice(target) = NoRoomId
  BY DEF ConnectionRequest, RequestRefusal
<1>3. byDevice[c] = NoRoomId /\ byDevice[target] = NoRoomId
  BY <1>1, <1>2, IdleIsFree DEF ServerInv, TypeOK
<1>4. CreatePending(r, c, target, s) /\ rooms[r].status = "unused"
  BY DEF ConnectionRequest
<1>5. UNCHANGED <<byDeviceId, bySocketId, conn, sweepIn>>
  BY DEF ConnectionRequest, registryVars
<1>6. /\ rooms'[r].client = c /\ rooms'[r].host = target
      /\ rooms'[r].clientSocket = s /\ rooms'[r].hostSocket = NoSocket
      /\ rooms'[r].status = "pending" /\ rooms'[r].age = 0
      /\ \A q \in RoomIds \ {r} : rooms'[q] = rooms[q]
  BY <1>4 DEF CreatePending, TypeOK, RoomsTypeOK
<1>7. RegistryConsistent' /\ SocketIdentity'
  BY <1>5 DEF ServerInv, RegistryConsistent, SocketIdentity, GetSocket, GetDeviceId, Open
<1>8. RoomIndexConsistent'
  BY <1>1, <1>3, <1>4, CreateKeepsIndex DEF ServerInv, TypeOK
<1>9. PartiesPresent'
  <2>1. Open(s) /\ GetSocket(c) = s
    BY <1>1, DeviceAssumption
       DEF ConnectionRequest, Open, ServerInv, RegistryConsistent
  <2>2. QED
    BY <1>1, <1>5, <1>6, <2>1
       DEF ServerInv, PartiesPresent, Live, Accepted, Open, Connected, GetSocket
<1>10. MembersMatchRoom'
  <2>1. joined'[r] = {s} /\ \A q \in RoomIds \ {r} : joined'[q] = joined[q]
    BY <1>4 DEF ConnectionRequest, ServerInv, UnusedEmpty, TypeOK
  <2>2. QED
    BY <1>6, <2>1, DeviceAssumption DEF ServerInv, MembersMatchRoom, Live
<1>11. UnusedEmpty'
  BY <1>6 DEF ServerInv, UnusedEmpty, ConnectionRequest, TypeOK
<1>12. SweepKeepsUp'
  BY <1>5, <1>6, TimingAssumption DEF ServerInv, SweepKeepsUp, Pending, Live, TypeOK
<1>13. QED
  BY <1>7, <1>8, <1>9, <1>10, <1>11, <1>12 DEF ServerInv

LEMMA AcceptInv ==
    ASSUME TypeOK, ServerInv, NEW s \in Sockets, NEW r \in RoomIds,
           ConnectionAccepted(s, r)
    PROVE  ServerInv'
<1>1. /\ GetDeviceId(s) # NoDevice /\ Pending(r)
      /\ rooms[r].host = GetDeviceId(s)
  BY DEF ConnectionAccepted, AcceptRefusal, Pending
<1>2. GetSocket(rooms[r].host) = s
  BY <1>1 DEF ServerInv, RegistryConsistent
<1>3. UNCHANGED <<byDeviceId, bySocketId, byDevice, conn, sweepIn>>
  BY DEF ConnectionAccepted, Accept, registryVars
<1>4. /\ rooms'[r].client = rooms[r].client /\ rooms'[r].host = rooms[r].host
      /\ rooms'[r].clientSocket = rooms[r].clientSocket
      /\ rooms'[r].hostSocket = s /\ rooms'[r].status = "accepted"
      /\ \A q \in RoomIds \ {r} : rooms'[q] = rooms[q]
  <2>1. rooms' = [rooms EXCEPT ![r] =
                    [rooms[r] EXCEPT !.status = "accepted", !.hostSocket = s]]
    BY <1>1 DEF ConnectionAccepted, Accept
  <2>2. rooms[r] \in ConnectionRoom
    BY DEF TypeOK, RoomsTypeOK
  <2>3. QED
    BY <2>1, <2>2 DEF TypeOK, RoomsTypeOK, ConnectionRoom
<1>5. RegistryConsistent' /\ SocketIdentity'
  BY <1>3 DEF ServerInv, RegistryConsistent, SocketIdentity, GetSocket, GetDeviceId, Open
<1>6. RoomIndexConsistent'
  <2>1. \A q \in RoomIds : /\ Live(q)' <=> Live(q)
                           /\ rooms'[q].client = rooms[q].client
                           /\ rooms'[q].host = rooms[q].host
    BY <1>1, <1>4 DEF Live, Pending
  <2>2. QED
    BY <1>3, <2>1, SamePartiesKeepIndex DEF ServerInv
<1>7. PartiesPresent'
  BY <1>1, <1>2, <1>3, <1>4
     DEF ServerInv, PartiesPresent, Live, Pending, Accepted, Open, Connected, GetSocket
<1>8. MembersMatchRoom'
  <2>1. joined'[r] = joined[r] \cup {s} /\ \A q \in RoomIds \ {r} : joined'[q] = joined[q]
    BY DEF ConnectionAccepted, TypeOK
  <2>2. joined[r] = {rooms[r].clientSocket} \ {NoSocket}
    BY <1>1 DEF ServerInv, MembersMatchRoom, PartiesPresent, Pending, Accepted
  <2>3. QED
    BY <1>4, <2>1, <2>2, DeviceAssumption DEF ServerInv, MembersMatchRoom, Live
<1>9. UnusedEmpty'
  BY <1>4 DEF ServerInv, UnusedEmpty, ConnectionAccepted, TypeOK
<1>10. SweepKeepsUp'
  BY <1>3, <1>4 DEF ServerInv, SweepKeepsUp, Pending, Live
<1>11. QED
  BY <1>5, <1>6, <1>7, <1>8, <1>9, <1>10 DEF ServerInv

\* Removing rooms while every connection stays as it is: a rejection, a release
\* and the sweep.
LEMMA RemoveInv ==
    ASSUME TypeOK, ServerInv, NEW R \in SUBSET RoomIds, \A r \in R : Live(r),
           RemoveAll(R), UNCHANGED <<registryVars, conn, joined>>
    PROVE  /\ RegistryConsistent' /\ SocketIdentity' /\ RoomIndexConsistent'
           /\ PartiesPresent' /\ MembersMatchRoom' /\ UnusedEmpty'
<1>1. UNCHANGED <<byDeviceId, bySocketId, conn, joined>>
  BY DEF registryVars
<1>2. RegistryConsistent' /\ SocketIdentity'
  BY <1>1 DEF ServerInv, RegistryConsistent, SocketIdentity, GetSocket, GetDeviceId, Open
<1>3. RoomIndexConsistent'
  BY RemoveAllKeepsIndex DEF ServerInv, TypeOK
<1>4. \A q \in RoomIds :
         /\ Live(q)' => Live(q) /\ rooms'[q] = rooms[q] /\ (Accepted(q)' <=> Accepted(q))
         /\ rooms'[q].status = "unused" => rooms[q] = rooms'[q]
  BY RemovedRooms DEF TypeOK
<1>5. PartiesPresent'
  BY <1>1, <1>4 DEF ServerInv, PartiesPresent, Open, Connected, GetSocket
<1>6. MembersMatchRoom' /\ UnusedEmpty'
  BY <1>1, <1>4 DEF ServerInv, MembersMatchRoom, UnusedEmpty
<1>7. QED
  BY <1>2, <1>3, <1>5, <1>6

LEMMA RejectInv ==
    ASSUME TypeOK, ServerInv, NEW s \in Sockets, NEW r \in RoomIds,
           NEW why \in RejectionReason, ConnectionRejected(s, r, why)
    PROVE  ServerInv'
<1>1. RemoveAll({r}) /\ Live(r) /\ UNCHANGED <<registryVars, conn, joined, sweepIn>>
  BY DEF ConnectionRejected, Remove, RejectRefusal
<1>2. SweepKeepsUp'
  BY <1>1, RemovedRooms DEF ServerInv, SweepKeepsUp, TypeOK, Pending
<1>3. QED
  BY <1>1, <1>2, RemoveInv DEF ServerInv

LEMMA ReleaseInv ==
    ASSUME TypeOK, ServerInv, NEW s \in Sockets, NEW r \in RoomIds \cup {NoRoomId},
           DisconnectDevice(s, r)
    PROVE  ServerInv'
<1> DEFINE q == RoomToLeave(s, r)
<1>1. /\ RemoveAll({q}) /\ Live(q) /\ q \in RoomIds
      /\ UNCHANGED <<registryVars, conn, joined, sweepIn>>
  BY DEF DisconnectDevice, Remove, DisconnectRefusal, Live
<1>2. SweepKeepsUp'
  BY <1>1, RemovedRooms DEF ServerInv, SweepKeepsUp, TypeOK, Pending
<1>3. QED
  BY <1>1, <1>2, RemoveInv DEF ServerInv

LEMMA TickInv ==
    ASSUME TypeOK, ServerInv, Tick
    PROVE  ServerInv'
<1>1. UNCHANGED <<byDeviceId, bySocketId, byDevice, conn, joined>>
  BY DEF Tick, AgeRooms, registryVars
<1>2. sweepIn' = sweepIn - 1 /\ sweepIn \in Int
  BY TimingAssumption DEF Tick, TypeOK
<1>3. ASSUME NEW q \in RoomIds
      PROVE  /\ rooms'[q].client = rooms[q].client
             /\ rooms'[q].host = rooms[q].host
             /\ rooms'[q].clientSocket = rooms[q].clientSocket
             /\ rooms'[q].hostSocket = rooms[q].hostSocket
             /\ rooms'[q].status = rooms[q].status
             /\ Pending(q) => rooms'[q].age = rooms[q].age + 1
             /\ rooms[q].age \in Nat
  <2>1. rooms[q] \in ConnectionRoom
    BY DEF TypeOK, RoomsTypeOK
  <2>2. rooms'[q] = IF Pending(q) THEN [rooms[q] EXCEPT !.age = rooms[q].age + 1]
                    ELSE rooms[q]
    BY DEF Tick, AgeRooms
  <2>3. QED
    BY <2>1, <2>2 DEF ConnectionRoom
<1>4. \A q \in RoomIds : /\ Live(q)' <=> Live(q)
                         /\ Accepted(q)' <=> Accepted(q)
                         /\ Pending(q)' <=> Pending(q)
  BY <1>3 DEF Live, Accepted, Pending
<1>5. RegistryConsistent' /\ SocketIdentity'
  BY <1>1 DEF ServerInv, RegistryConsistent, SocketIdentity, GetSocket, GetDeviceId, Open
<1>6. RoomIndexConsistent'
  BY <1>1, <1>3, <1>4, SamePartiesKeepIndex DEF ServerInv
<1>7. PartiesPresent'
  BY <1>1, <1>3, <1>4 DEF ServerInv, PartiesPresent, Open, Connected, GetSocket
<1>8. MembersMatchRoom' /\ UnusedEmpty'
  BY <1>1, <1>3, <1>4 DEF ServerInv, MembersMatchRoom, UnusedEmpty
<1>9. SweepKeepsUp'
  BY <1>2, <1>3, <1>4, TimingAssumption DEF ServerInv, SweepKeepsUp
<1>10. QED
  BY <1>5, <1>6, <1>7, <1>8, <1>9 DEF ServerInv

\* After a sweep the remaining requests are younger than the TTL.
LEMMA SweepInv ==
    ASSUME TypeOK, ServerInv, SweepExpired
    PROVE  ServerInv'
<1>1. /\ RemoveAll(ExpiredPending) /\ ExpiredPending \in SUBSET RoomIds
      /\ \A r \in ExpiredPending : Live(r)
      /\ UNCHANGED <<registryVars, conn, joined>>
      /\ sweepIn' = PendingRoomTtl
  BY DEF SweepExpired, ExpiredPending, Pending
<1>2. ASSUME NEW q \in RoomIds, Pending(q)'
      PROVE  rooms'[q].age + sweepIn' < 2 * PendingRoomTtl
  <2>1. Pending(q) /\ q \notin ExpiredPending /\ rooms'[q] = rooms[q]
    BY <1>1, <1>2, RemovedRooms DEF TypeOK
  <2>2. rooms[q].age \in Nat
    BY DEF TypeOK, RoomsTypeOK, ConnectionRoom
  <2>3. QED
    BY <1>1, <2>1, <2>2, TimingAssumption DEF ExpiredPending
<1>3. QED
  BY <1>1, <1>2, RemoveInv DEF ServerInv, SweepKeepsUp

-----------------------------------------------------------------------------
(* The inductive step and its consequences *)

LEMMA ClientInv ==
    ASSUME TypeOK, ServerInv, NEW s \in Sockets, FromClient(s)
    PROVE  ServerInv'
<1>1. CASE SocketConnect(s) \/ SocketDisconnect(s) \/ RegisterDevice(s)
  BY <1>1, ConnectInv, DisconnectInv, RegisterInv
<1>2. CASE \/ RegisterMalformed(s)
           \/ \E target \in Devices \cup {NoDevice} :
                  ConnectionRequestRefused(s, target)
           \/ \E r \in RoomIds \cup {NoRoomId} :
                 \/ ConnectionAcceptedRefused(s, r)
                 \/ ConnectionRejectedRefused(s, r)
                 \/ DisconnectDeviceRefused(s, r)
                 \/ \E name \in RelayName : RelayRefused(s, r, name)
  <2>1. UNCHANGED <<registryVars, roomVars, conn, joined, sweepIn>>
    BY <1>2 DEF RegisterMalformed, ConnectionRequestRefused,
                ConnectionAcceptedRefused, ConnectionRejectedRefused,
                DisconnectDeviceRefused, RelayRefused, AckErr
  <2>2. QED
    BY <2>1, FrameInv
<1>3. CASE \E r \in RoomIds, name \in RelayName, payload \in Payloads :
              Relay(s, r, name, payload)
  <2>1. UNCHANGED <<registryVars, roomVars, conn, joined, sweepIn>>
    BY <1>3 DEF Relay
  <2>2. QED
    BY <2>1, FrameInv
<1>4. CASE \E target \in Devices, r \in RoomIds, token \in Payloads :
              ConnectionRequest(s, target, r, token)
  BY <1>4, RequestInv
<1>5. CASE \E r \in RoomIds : ConnectionAccepted(s, r)
  BY <1>5, AcceptInv
<1>6. CASE \E r \in RoomIds, why \in RejectionReason : ConnectionRejected(s, r, why)
  BY <1>6, RejectInv
<1>7. CASE \E r \in RoomIds \cup {NoRoomId} : DisconnectDevice(s, r)
  BY <1>7, ReleaseInv
<1>8. QED
  BY <1>1, <1>2, <1>3, <1>4, <1>5, <1>6, <1>7 DEF FromClient

LEMMA StepInv == TypeOK /\ ServerInv /\ [Next]_vars => ServerInv'
<1> SUFFICES ASSUME TypeOK, ServerInv, [Next]_vars PROVE ServerInv'
  OBVIOUS
<1>1. CASE \E s \in Sockets : FromClient(s)
  BY <1>1, ClientInv
<1>2. CASE Tick \/ SweepExpired
  BY <1>2, TickInv, SweepInv
<1>3. CASE UNCHANGED vars
  <2>1. UNCHANGED <<registryVars, roomVars, conn, joined, sweepIn>>
    BY <1>3 DEF vars
  <2>2. QED
    BY <2>1, FrameInv
<1>4. QED
  BY <1>1, <1>2, <1>3 DEF Next

\* The server's registry, rooms, index and memberships agree in every reachable
\* state, through every takeover, disconnect, verdict, release and sweep.
THEOREM ServerInvariant == Spec => [](TypeOK /\ ServerInv)
<1>1. TypeOK /\ ServerInv /\ [Next]_vars => (TypeOK /\ ServerInv)'
  BY TypeStep, StepInv
<1>2. QED
  BY TypeInit, InitInv, <1>1, PTL DEF Spec

\* A device is indexed to a room exactly while it is a party of it, so it is in
\* one room at most and is never refused for a room that is gone.
THEOREM RoomIndexAlwaysConsistent == Spec => []RoomIndexConsistent
<1>1. ServerInv => RoomIndexConsistent
  BY DEF ServerInv
<1>2. QED
  BY ServerInvariant, <1>1, PTL

\* The maps device -> socket and socket -> device stay inverse to each other.
THEOREM RegistryAlwaysConsistent == Spec => []RegistryConsistent
<1>1. ServerInv => RegistryConsistent
  BY DEF ServerInv
<1>2. QED
  BY ServerInvariant, <1>1, PTL

\* Both parties of every live room are connected by the sockets it stores, so a
\* relay never finds its target offline.
THEOREM PartiesAlwaysPresent == Spec => []PartiesPresent
<1>1. ServerInv => PartiesPresent
  BY DEF ServerInv
<1>2. QED
  BY ServerInvariant, <1>1, PTL

\* No request outlives two TTLs and the lateness of the sweep.
THEOREM PendingAlwaysBounded == Spec => []PendingRoomBounded
<1>1. TypeOK /\ ServerInv => PendingRoomBounded
  <2> SUFFICES ASSUME TypeOK, ServerInv, NEW r \in RoomIds, Pending(r)
               PROVE  rooms[r].age < 2 * PendingRoomTtl + SweepLateness
    BY DEF PendingRoomBounded
  <2>1. rooms[r].age \in Nat /\ sweepIn \in Int /\ sweepIn >= -SweepLateness
    BY TimingAssumption DEF TypeOK, RoomsTypeOK, ConnectionRoom
  <2>2. QED
    BY <2>1, TimingAssumption DEF ServerInv, SweepKeepsUp
<1>2. QED
  BY ServerInvariant, <1>1, PTL
=============================================================================
