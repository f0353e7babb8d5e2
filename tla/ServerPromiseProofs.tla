------------------------- MODULE ServerPromiseProofs -------------------------
(***************************************************************************)
(* What the steps of the signaling server may never do, for every value of *)
(* the constants: how rooms end and who is told, where relayed messages    *)
(* go, what starts a session; and that the server implements               *)
(* SessionDirectory.                                                       *)
(***************************************************************************)
EXTENDS SignalingServerProofs

-----------------------------------------------------------------------------
(* The steps of the server, by what they do *)

Refuses ==
    Silent /\ UNCHANGED <<registryVars, roomVars, conn, joined, sweepIn>>

\* A refusal answers its sender and does nothing else, whatever was refused.
LEMMA StepCases ==
    ASSUME Next
    PROVE  \/ \E s \in Sockets :
                 \/ SocketConnect(s) \/ SocketDisconnect(s) \/ RegisterDevice(s)
                 \/ \E target \in Devices, r \in RoomIds, token \in Payloads :
                       ConnectionRequest(s, target, r, token)
                 \/ \E r \in RoomIds : ConnectionAccepted(s, r)
                 \/ \E r \in RoomIds, why \in RejectionReason :
                       ConnectionRejected(s, r, why)
                 \/ \E r \in RoomIds, name \in RelayName, payload \in Payloads :
                       Relay(s, r, name, payload)
                 \/ \E r \in RoomIds \cup {NoRoomId} : DisconnectDevice(s, r)
           \/ Refuses
           \/ Tick
           \/ SweepExpired
<1>1. ASSUME NEW s \in Sockets, NEW code, AckErr(s, code)
      PROVE  Refuses
  BY <1>1 DEF AckErr, Refuses, registryVars, roomVars
<1>2. ASSUME NEW s \in Sockets,
             \/ RegisterMalformed(s)
             \/ \E target \in Devices \cup {NoDevice} :
                   ConnectionRequestRefused(s, target)
             \/ \E r \in RoomIds \cup {NoRoomId} :
                   \/ ConnectionAcceptedRefused(s, r)
                   \/ ConnectionRejectedRefused(s, r)
                   \/ DisconnectDeviceRefused(s, r)
                   \/ \E name \in RelayName : RelayRefused(s, r, name)
      PROVE  Refuses
  BY <1>1, <1>2 DEF RegisterMalformed, ConnectionRequestRefused,
                    ConnectionAcceptedRefused, ConnectionRejectedRefused,
                    DisconnectDeviceRefused, RelayRefused
<1>3. QED
  BY <1>2 DEF Next, FromClient

\* The parties of a live room, by device and by socket.
LEMMA LiveRoomParties ==
    ASSUME TypeOK, ServerInv, NEW r \in RoomIds, Live(r)
    PROVE  /\ rooms[r].client \in Devices /\ rooms[r].host \in Devices
           /\ rooms[r].client # rooms[r].host
           /\ byDevice[rooms[r].client] = r /\ byDevice[rooms[r].host] = r
           /\ rooms[r].clientSocket \in Sockets
           /\ Open(rooms[r].clientSocket)
           /\ GetSocket(rooms[r].client) = rooms[r].clientSocket
           /\ GetDeviceId(rooms[r].clientSocket) = rooms[r].client
           /\ GetSocket(rooms[r].host) \in Sockets
           /\ Open(GetSocket(rooms[r].host))
           /\ GetDeviceId(GetSocket(rooms[r].host)) = rooms[r].host
           /\ Accepted(r) => rooms[r].hostSocket = GetSocket(rooms[r].host)
           /\ Pending(r) => rooms[r].hostSocket = NoSocket
           /\ joined[r] = {rooms[r].clientSocket, rooms[r].hostSocket} \ {NoSocket}
           /\ Pending(r) \/ Accepted(r)
           /\ ~(Pending(r) /\ Accepted(r))
<1>1. /\ rooms[r].client \in Devices /\ rooms[r].host \in Devices
      /\ rooms[r].client # rooms[r].host
      /\ byDevice[rooms[r].client] = r /\ byDevice[rooms[r].host] = r
  BY DEF ServerInv, RoomIndexConsistent, Parties
<1>2. /\ Pending(r) \/ Accepted(r)
      /\ ~(Pending(r) /\ Accepted(r))
  BY DEF Pending, Accepted, Live
<1>3. /\ rooms[r].clientSocket \in Sockets
      /\ Open(rooms[r].clientSocket)
      /\ GetSocket(rooms[r].client) = rooms[r].clientSocket
      /\ GetSocket(rooms[r].host) \in Sockets
      /\ Open(GetSocket(rooms[r].host))
      /\ Accepted(r) => rooms[r].hostSocket = GetSocket(rooms[r].host)
      /\ Pending(r) => rooms[r].hostSocket = NoSocket
  BY <1>2 DEF ServerInv, PartiesPresent, Connected, Open
<1>4. /\ GetDeviceId(rooms[r].clientSocket) = rooms[r].client
      /\ GetDeviceId(GetSocket(rooms[r].host)) = rooms[r].host
  BY <1>1, <1>3, DeviceAssumption DEF ServerInv, RegistryConsistent
<1>5. joined[r] = {rooms[r].clientSocket, rooms[r].hostSocket} \ {NoSocket}
  BY DEF ServerInv, MembersMatchRoom
<1>6. QED
  BY <1>1, <1>2, <1>3, <1>4, <1>5

\* A registered socket is the current one of its device.
LEMMA SenderIdentity ==
    ASSUME TypeOK, ServerInv, NEW s \in Sockets, GetDeviceId(s) # NoDevice
    PROVE  /\ GetDeviceId(s) \in Devices
           /\ DeviceOf[s] = GetDeviceId(s)
           /\ GetSocket(GetDeviceId(s)) = s
           /\ Open(s)
BY DEF TypeOK, RegistryTypeOK, ServerInv, SocketIdentity, RegistryConsistent, GetDeviceId

-----------------------------------------------------------------------------
(* How rooms end *)

LEMMA RemovalEnds ==
    ASSUME TypeOK, NEW R \in SUBSET RoomIds, RemoveAll(R), NEW r \in RoomIds, Ends(r)
    PROVE  r \in R
BY RemovedRooms DEF Ends, TypeOK

\* The steps that end a room, and which room each of them ends.
LEMMA EndingSteps ==
    ASSUME TypeOK, ServerInv, Next, NEW r \in RoomIds, Ends(r)
    PROVE  \/ \E s \in Sockets :
                 \/ /\ SocketDisconnect(s)
                    /\ GetDeviceId(s) # NoDevice /\ r = GetByDevice(GetDeviceId(s))
                 \/ /\ RegisterDevice(s)
                    /\ Displaced(DeviceOf[s], s) # NoSocket
                    /\ r = GetByDevice(DeviceOf[s])
                 \/ \E why \in RejectionReason : ConnectionRejected(s, r, why)
                 \/ \E q \in RoomIds \cup {NoRoomId} :
                       DisconnectDevice(s, q) /\ r = RoomToLeave(s, q)
           \/ SweepExpired /\ r \in ExpiredPending
<1>1. ASSUME UNCHANGED rooms PROVE FALSE
  BY <1>1 DEF Ends, Live
<1>2. ASSUME NEW s \in Sockets, SocketDisconnect(s)
      PROVE  GetDeviceId(s) # NoDevice /\ r = GetByDevice(GetDeviceId(s))
  <2> DEFINE q == IF GetDeviceId(s) = NoDevice THEN NoRoomId
                  ELSE GetByDevice(GetDeviceId(s))
  <2>1. q \in RoomIds \cup {NoRoomId}
    BY GetByDeviceTyped DEF TypeOK
  <2>2. RemoveAll(IF q = NoRoomId THEN {} ELSE {q})
    BY <1>2 DEF SocketDisconnect
  <2>3. r \in IF q = NoRoomId THEN {} ELSE {q}
    BY <2>1, <2>2, RemovalEnds
  <2>4. QED
    BY <2>3, DeviceAssumption
<1>3. ASSUME NEW s \in Sockets, RegisterDevice(s)
      PROVE  Displaced(DeviceOf[s], s) # NoSocket /\ r = GetByDevice(DeviceOf[s])
  <2> DEFINE R == IF Displaced(DeviceOf[s], s) # NoSocket
                     /\ GetByDevice(DeviceOf[s]) # NoRoomId
                  THEN {GetByDevice(DeviceOf[s])} ELSE {}
  <2>1. R \in SUBSET RoomIds
    BY GetByDeviceTyped DEF TypeOK
  <2>2. RemoveAll(R)
    BY <1>3 DEF RegisterDevice
  <2>3. r \in R
    BY <2>1, <2>2, RemovalEnds
  <2>4. QED
    BY <2>3
<1>4. ASSUME NEW s \in Sockets, NEW q \in RoomIds, NEW why \in RejectionReason,
             ConnectionRejected(s, q, why)
      PROVE  r = q
  BY <1>4, RemovalEnds DEF ConnectionRejected, Remove
<1>5. ASSUME NEW s \in Sockets, NEW q \in RoomIds \cup {NoRoomId},
             DisconnectDevice(s, q)
      PROVE  r = RoomToLeave(s, q)
  <2>1. RoomToLeave(s, q) \in RoomIds /\ RemoveAll({RoomToLeave(s, q)})
    BY <1>5 DEF DisconnectDevice, DisconnectRefusal, Live, Remove
  <2>2. QED
    BY <2>1, RemovalEnds
<1>6. ASSUME NEW s \in Sockets, NEW target \in Devices, NEW q \in RoomIds,
             NEW token \in Payloads, ConnectionRequest(s, target, q, token)
      PROVE  FALSE
  BY <1>6 DEF ConnectionRequest, CreatePending, Ends, Live, TypeOK, RoomsTypeOK
<1>7. ASSUME NEW s \in Sockets, NEW q \in RoomIds, ConnectionAccepted(s, q)
      PROVE  FALSE
  <2>1. rooms' = [rooms EXCEPT ![q] = [rooms[q] EXCEPT !.status = "accepted",
                                                       !.hostSocket = s]]
    BY <1>7 DEF ConnectionAccepted, Accept, AcceptRefusal, Pending
  <2>2. rooms[q] \in ConnectionRoom
    BY DEF TypeOK, RoomsTypeOK
  <2>3. r # q => rooms'[r] = rooms[r]
    BY <2>1
  <2>4. r = q => rooms'[r].status = "accepted"
    BY <2>1, <2>2 DEF TypeOK, RoomsTypeOK, ConnectionRoom
  <2>5. QED
    BY <2>3, <2>4 DEF Ends, Live
<1>8. ASSUME Tick PROVE FALSE
  <2>1. rooms[r] \in ConnectionRoom
    BY DEF TypeOK, RoomsTypeOK
  <2>2. rooms'[r].status = rooms[r].status
    BY <1>8, <2>1 DEF Tick, AgeRooms, ConnectionRoom
  <2>3. QED
    BY <2>2 DEF Ends, Live
<1>9. ASSUME SweepExpired PROVE r \in ExpiredPending
  BY <1>9, RemovalEnds DEF SweepExpired, ExpiredPending
<1>10. QED
  BY StepCases, <1>1, <1>2, <1>3, <1>4, <1>5, <1>6, <1>7, <1>8, <1>9
     DEF SocketConnect, Relay, Refuses, roomVars

\* A room ended by the steps of a third device would show here: whoever ends a
\* room is a party of it, unless the room is a request of TTL age.
LEMMA StepEndedByPartyOrTtl ==
    ASSUME TypeOK, ServerInv, Next, NEW r \in RoomIds, Ends(r)
    PROVE  \/ ack'.to \in Sockets /\ DeviceOf[ack'.to] \in Parties(r)
           \/ \E d \in Parties(r) : Connected(d) /\ ~Open(GetSocket(d))'
           \/ Pending(r) /\ rooms[r].age >= PendingRoomTtl
<1>0. Live(r)
  BY DEF Ends
<1>1. ASSUME NEW s \in Sockets, SocketDisconnect(s), GetDeviceId(s) # NoDevice,
             r = GetByDevice(GetDeviceId(s))
      PROVE  \E d \in Parties(r) : Connected(d) /\ ~Open(GetSocket(d))'
  <2> DEFINE d == GetDeviceId(s)
  <2>1. d \in Devices /\ GetSocket(d) = s /\ Open(s)
    BY <1>1, SenderIdentity
  <2>2. d \in Parties(r)
    BY <1>0, <1>1, <2>1, DeviceAssumption DEF GetByDevice, ServerInv, RoomIndexConsistent
  <2>3. byDeviceId'[d] = NoSocket
    BY <1>1, <2>1 DEF SocketDisconnect, UnregisterSocket, GetDeviceId, GetSocket
  <2>4. QED
    BY <2>1, <2>2, <2>3, DeviceAssumption DEF Connected, Open, GetSocket
<1>2. ASSUME NEW s \in Sockets, RegisterDevice(s), r = GetByDevice(DeviceOf[s])
      PROVE  ack'.to \in Sockets /\ DeviceOf[ack'.to] \in Parties(r)
  <2>1. ack'.to = s
    BY <1>2 DEF RegisterDevice, AckOk
  <2>2. DeviceOf[s] \in Parties(r)
    BY <1>0, <1>2, DeviceAssumption DEF GetByDevice, ServerInv, RoomIndexConsistent
  <2>3. QED
    BY <2>1, <2>2
<1>3. ASSUME NEW s \in Sockets, NEW why, ConnectionRejected(s, r, why)
      PROVE  ack'.to \in Sockets /\ DeviceOf[ack'.to] \in Parties(r)
  <2>1. ack'.to = s /\ GetDeviceId(s) # NoDevice /\ rooms[r].host = GetDeviceId(s)
    BY <1>3 DEF ConnectionRejected, AckOk, RejectRefusal
  <2>2. QED
    BY <2>1, SenderIdentity DEF Parties
<1>4. ASSUME NEW s \in Sockets, NEW q, DisconnectDevice(s, q), r = RoomToLeave(s, q)
      PROVE  ack'.to \in Sockets /\ DeviceOf[ack'.to] \in Parties(r)
  <2>1. ack'.to = s /\ GetDeviceId(s) # NoDevice /\ GetDeviceId(s) \in Parties(r)
    BY <1>4 DEF DisconnectDevice, AckOk, DisconnectRefusal
  <2>2. QED
    BY <2>1, SenderIdentity
<1>5. ASSUME r \in ExpiredPending
      PROVE  Pending(r) /\ rooms[r].age >= PendingRoomTtl
  BY <1>5 DEF ExpiredPending
<1>6. QED
  BY EndingSteps, <1>1, <1>2, <1>3, <1>4, <1>5

\* A live room ends only at the hands of a party, by a party's connection closing,
\* or as an unanswered request of TTL age (handlers.ts, every call of rooms.remove).
THEOREM EndedByPartyAlways == Spec => EndedByPartyOrTtl
<1>1. ASSUME TypeOK, ServerInv, [Next]_vars
      PROVE  [\A r \in RoomIds : Ends(r) =>
                \/ ack'.to \in Sockets /\ DeviceOf[ack'.to] \in Parties(r)
                \/ \E d \in Parties(r) : Connected(d) /\ ~Open(GetSocket(d))'
                \/ Pending(r) /\ rooms[r].age >= PendingRoomTtl]_vars
  BY <1>1, StepEndedByPartyOrTtl
<1>2. QED
  BY <1>1, ServerInvariant, PTL DEF Spec, EndedByPartyOrTtl

-----------------------------------------------------------------------------
(* Who is told that a room ended *)

\* Somewhere in what x receives there is what was emitted to it while open.
LEMMA ToldAfter ==
    ASSUME NEW x \in Sockets, NEW r \in RoomIds, NEW S, NEW e \in Event,
           NEW before \in Seq(Event), NEW after \in Seq(Event),
           x \in S, Open(x), e.room = r,
           e.name \in {"peer-disconnected", "connection-rejected"},
           sent'[x] = (before \o To(S, e, x)) \o after
    PROVE  Told(x, r)
<1> DEFINE i == Len(before) + 1
<1>1. To(S, e, x) = <<e>>
  BY DEF To
<1>2. sent'[x] = (before \o <<e>>) \o after
  BY <1>1
<1>3. i \in DOMAIN sent'[x] /\ sent'[x][i] = e
  BY <1>2
<1>4. QED
  BY <1>3 DEF Told

LEMMA ToldByEmit ==
    ASSUME NEW x \in Sockets, NEW r \in RoomIds, NEW S, NEW e,
           x \in S, Open(x), e.room = r,
           e.name \in {"peer-disconnected", "connection-rejected"}, EmitTo(S, e)
    PROVE  Told(x, r)
<1>1. sent'[x] = <<e>>
  BY DEF EmitTo, To
<1>2. 1 \in DOMAIN sent'[x] /\ sent'[x][1] = e
  BY <1>1
<1>3. QED
  BY <1>2 DEF Told

LEMMA PeerDisconnectedFields ==
    ASSUME NEW r \in RoomIds, NEW why \in DisconnectReason
    PROVE  /\ PeerDisconnected(r, why) \in Event
           /\ PeerDisconnected(r, why).room = r
           /\ PeerDisconnected(r, why).name = "peer-disconnected"
<1>1. PeerDisconnected(r, why) \in Event
  BY EndTyped
<1>2. QED
  BY <1>1 DEF PeerDisconnected, RoomEvent

\* A connection closes: whoever of the room's sockets stays open has joined the
\* socket.io room, and is told by the broadcast.
LEMMA DisconnectTells ==
    ASSUME TypeOK, ServerInv, NEW r \in RoomIds, Live(r), NEW s \in Sockets,
           SocketDisconnect(s), GetDeviceId(s) # NoDevice,
           r = GetByDevice(GetDeviceId(s)),
           NEW x \in {rooms[r].clientSocket, rooms[r].hostSocket}, Open(x)'
    PROVE  Told(x, r)
<1> DEFINE offline == PeerDisconnected(r, "offline")
           peer == IF rooms[r].clientSocket = s
                   THEN rooms[r].hostSocket ELSE rooms[r].clientSocket
           presence == To(Sockets, Presence("device-offline", GetDeviceId(s)), x)
<1>1. x \in Sockets /\ x # s /\ Open(x)
  BY DEF SocketDisconnect, Open, TypeOK
<1>2. x \in joined[r]
  BY <1>1, LiveRoomParties, DeviceAssumption
<1>3. r # NoRoomId
  BY DeviceAssumption
<1>4. sent'[x] = (To(joined[r], offline, x) \o To({peer}, offline, x)) \o presence
  BY <1>1, <1>3 DEF SocketDisconnect
<1>5. offline \in Event /\ offline.room = r /\ offline.name = "peer-disconnected"
  BY PeerDisconnectedFields DEF DisconnectReason
<1>6. presence \in Seq(Event)
  <2>1. GetDeviceId(s) \in Devices
    BY SenderIdentity
  <2>2. Presence("device-offline", GetDeviceId(s)) \in Event
    BY <2>1, EventTyped DEF EventName, NoReason
  <2>3. QED
    BY <2>2, ToTyped
<1>7. To({peer}, offline, x) \in Seq(Event) /\ To(joined[r], offline, x) \in Seq(Event)
  BY <1>5, ToTyped
<1>8. sent'[x] = (<<>> \o To(joined[r], offline, x))
                 \o (To({peer}, offline, x) \o presence)
  BY <1>4, <1>6, <1>7
<1>9. To({peer}, offline, x) \o presence \in Seq(Event) /\ <<>> \in Seq(Event)
  BY <1>6, <1>7
<1>10. QED
  BY <1>1, <1>2, <1>5, <1>8, <1>9, ToldAfter

\* A device is taken over: its displaced socket is closed, the other party is the
\* peer that is told.
LEMMA TakeoverTells ==
    ASSUME TypeOK, ServerInv, NEW r \in RoomIds, Live(r), NEW s \in Sockets,
           RegisterDevice(s), Displaced(DeviceOf[s], s) # NoSocket,
           r = GetByDevice(DeviceOf[s]),
           NEW x \in {rooms[r].clientSocket, rooms[r].hostSocket}, Open(x)'
    PROVE  Told(x, r)
<1> DEFINE d == DeviceOf[s]
           previous == Displaced(d, s)
           offline == PeerDisconnected(r, "offline")
           peer == GetSocket(OtherParty(r, d))
           presence == To({s}, Presence("device-online", d), x)
<1>1. previous = GetSocket(d) /\ d \in Devices
  BY DeviceAssumption DEF Displaced, GetSocket
<1>2. x \in Sockets /\ x # previous /\ Open(x)
  BY DEF RegisterDevice, Open
<1>3. d \in Parties(r) /\ r # NoRoomId
  BY <1>1, DeviceAssumption DEF GetByDevice, ServerInv, RoomIndexConsistent
<1>4. x = peer
  BY <1>1, <1>2, <1>3, LiveRoomParties, DeviceAssumption DEF OtherParty, Parties
<1>5. sent'[x] = (To({previous}, offline, x) \o To({peer}, offline, x)) \o presence
  BY <1>2, <1>3 DEF RegisterDevice
<1>6. offline \in Event /\ offline.room = r /\ offline.name = "peer-disconnected"
  BY PeerDisconnectedFields DEF DisconnectReason
<1>7. Presence("device-online", d) \in Event
  BY <1>1, EventTyped DEF EventName, NoReason
<1>8. presence \in Seq(Event) /\ To({previous}, offline, x) \in Seq(Event)
  BY <1>6, <1>7, ToTyped
<1>9. QED
  BY <1>2, <1>4, <1>5, <1>6, <1>8, ToldAfter

\* A request expires: its requester is told about this room and no other, as it
\* is in no other.
LEMMA SweepTells ==
    ASSUME TypeOK, ServerInv, NEW r \in RoomIds, SweepExpired, r \in ExpiredPending,
           NEW x \in {rooms[r].clientSocket, rooms[r].hostSocket}, Open(x)'
    PROVE  Told(x, r)
<1> DEFINE mine == {q \in ExpiredPending :
                       x \in {rooms[q].clientSocket, GetSocket(rooms[q].host)}}
<1>1. Live(r) /\ Pending(r)
  BY DEF ExpiredPending, Pending
<1>2. x = rooms[r].clientSocket /\ x \in Sockets /\ Open(x) /\ r \in mine
  BY <1>1, LiveRoomParties, DeviceAssumption DEF Open
<1>3. ASSUME NEW q \in mine PROVE q = r
  <2>1. q \in RoomIds /\ Live(q)
    BY DEF ExpiredPending, Pending
  <2>2. GetDeviceId(x) = rooms[r].client /\ byDevice[rooms[r].client] = r
    BY <1>1, <1>2, LiveRoomParties
  <2>3. CASE x = rooms[q].clientSocket
    BY <2>1, <2>2, <2>3, LiveRoomParties
  <2>4. CASE x = GetSocket(rooms[q].host)
    BY <2>1, <2>2, <2>4, LiveRoomParties
  <2>5. QED
    BY <2>3, <2>4
<1>4. (CHOOSE q \in mine : TRUE) = r
  BY <1>2, <1>3
<1>5. sent'[x] = To({x}, PeerDisconnected(r, "timeout"), x)
  BY <1>2, <1>4 DEF SweepExpired
<1>6. sent'[x] = <<PeerDisconnected(r, "timeout")>>
  BY <1>2, <1>5 DEF To
<1>7. 1 \in DOMAIN sent'[x] /\ sent'[x][1] = PeerDisconnected(r, "timeout")
  BY <1>6
<1>8. QED
  BY <1>7, PeerDisconnectedFields DEF Told, DisconnectReason

LEMMA StepEndIsAnnounced ==
    ASSUME TypeOK, ServerInv, Next, NEW r \in RoomIds, Ends(r),
           NEW x \in {rooms[r].clientSocket, rooms[r].hostSocket}, Open(x)'
    PROVE  Told(x, r) \/ ack'.to = x
<1>1. Live(r)
  BY DEF Ends
<1>2. ASSUME NEW s \in Sockets, NEW why \in RejectionReason,
             ConnectionRejected(s, r, why)
      PROVE  Told(x, r) \/ ack'.to = x
  <2> DEFINE rejected == RoomEvent("connection-rejected", r, GetDeviceId(s),
                                   NoPayload, why)
  <2>1. /\ ack'.to = s /\ GetDeviceId(s) # NoDevice /\ rooms[r].host = GetDeviceId(s)
        /\ EmitTo({rooms[r].clientSocket}, rejected) /\ UNCHANGED conn
    BY <1>2 DEF ConnectionRejected, AckOk, RejectRefusal
  <2>2. CASE x = rooms[r].clientSocket
    BY <1>1, <2>1, <2>2, LiveRoomParties, ToldByEmit DEF RoomEvent
  <2>3. CASE x = rooms[r].hostSocket
    <3>1. x = GetSocket(rooms[r].host)
      BY <1>1, <2>3, LiveRoomParties, DeviceAssumption DEF Open
    <3>2. QED
      BY <2>1, <3>1, SenderIdentity
  <2>4. QED
    BY <2>2, <2>3
<1>3. ASSUME NEW s \in Sockets, NEW q \in RoomIds \cup {NoRoomId},
             DisconnectDevice(s, q), r = RoomToLeave(s, q)
      PROVE  Told(x, r)
  <2>1. EmitTo(joined[r], PeerDisconnected(r, "left")) /\ UNCHANGED conn
    BY <1>3 DEF DisconnectDevice
  <2>2. x \in Sockets /\ Open(x)
    BY <2>1 DEF Open
  <2>3. x \in joined[r]
    BY <1>1, <2>2, LiveRoomParties, DeviceAssumption
  <2>4. QED
    BY <2>1, <2>2, <2>3, ToldByEmit, PeerDisconnectedFields DEF DisconnectReason
<1>4. QED
  BY <1>1, <1>2, <1>3, EndingSteps, DisconnectTells, TakeoverTells, SweepTells

\* Nobody is left in a room that is gone: every end of a room reaches the sockets
\* of both its parties, by broadcast, by socket id or by the acknowledgement.
THEOREM EndAlwaysAnnounced == Spec => EndIsAnnounced
<1>1. ASSUME TypeOK, ServerInv, [Next]_vars
      PROVE  [\A r \in RoomIds : Ends(r) =>
                \A x \in {rooms[r].clientSocket, rooms[r].hostSocket} :
                    Open(x)' => Told(x, r) \/ ack'.to = x]_vars
  BY <1>1, StepEndIsAnnounced
<1>2. QED
  BY <1>1, ServerInvariant, PTL DEF Spec, EndIsAnnounced

-----------------------------------------------------------------------------
(* Where relayed messages go *)

\* A sequence of events without an SDP or ICE message.
NoRelay(q) == \A i \in DOMAIN q : q[i].name \notin RelayName

LEMMA ToIsNoRelay ==
    ASSUME NEW S, NEW e \in Event, NEW x, e.name \notin RelayName
    PROVE  To(S, e, x) \in Seq(Event) /\ NoRelay(To(S, e, x))
<1>1. CASE To(S, e, x) = <<e>>
  BY <1>1 DEF NoRelay
<1>2. CASE To(S, e, x) = <<>>
  BY <1>2 DEF NoRelay
<1>3. QED
  BY <1>1, <1>2 DEF To

LEMMA NoRelayConcat ==
    ASSUME NEW a \in Seq(Event), NEW b \in Seq(Event), NoRelay(a), NoRelay(b)
    PROVE  a \o b \in Seq(Event) /\ NoRelay(a \o b)
BY DEF NoRelay

LEMMA EmptyIsNoRelay == <<>> \in Seq(Event) /\ NoRelay(<<>>)
BY DEF NoRelay

LEMMA EmitIsNoRelay ==
    ASSUME NEW S, NEW name, NEW r, NEW d, NEW p, NEW why, name \notin RelayName,
           EmitTo(S, RoomEvent(name, r, d, p, why)), NEW x \in Sockets
    PROVE  NoRelay(sent'[x])
<1>1. sent'[x] = <<RoomEvent(name, r, d, p, why)>> \/ sent'[x] = <<>>
  BY DEF EmitTo, To
<1>2. QED
  BY <1>1 DEF NoRelay, RoomEvent

\* The presence and end-of-room events of connects and disconnects.
LEMMA ServerEventsNoRelay ==
    ASSUME NEW r \in RoomIds \cup {NoRoomId}, NEW why \in DisconnectReason,
           NEW d \in Devices \cup {NoDevice},
           NEW name \in {"device-online", "device-offline"}, NEW S, NEW x
    PROVE  /\ To(S, PeerDisconnected(r, why), x) \in Seq(Event)
           /\ NoRelay(To(S, PeerDisconnected(r, why), x))
           /\ To(S, Presence(name, d), x) \in Seq(Event)
           /\ NoRelay(To(S, Presence(name, d), x))
<1>1. PeerDisconnected(r, why) \in Event /\ Presence(name, d) \in Event
  BY EndTyped, EventTyped DEF EventName, NoReason
<1>2. /\ PeerDisconnected(r, why).name \notin RelayName
      /\ Presence(name, d).name \notin RelayName
  BY DEF PeerDisconnected, Presence, RoomEvent, RelayName
<1>3. QED
  BY <1>1, <1>2, ToIsNoRelay

\* Only the relay handlers emit such messages.
LEMMA OthersRelayNothing ==
    ASSUME TypeOK, NEW x \in Sockets,
           \/ \E s \in Sockets :
                 \/ SocketConnect(s) \/ SocketDisconnect(s) \/ RegisterDevice(s)
                 \/ \E target \in Devices, r \in RoomIds, token \in Payloads :
                       ConnectionRequest(s, target, r, token)
                 \/ \E r \in RoomIds : ConnectionAccepted(s, r)
                 \/ \E r \in RoomIds, why \in RejectionReason :
                       ConnectionRejected(s, r, why)
                 \/ \E r \in RoomIds \cup {NoRoomId} : DisconnectDevice(s, r)
           \/ Refuses
           \/ Tick
           \/ SweepExpired
    PROVE  NoRelay(sent'[x])
<1>1. ASSUME Silent PROVE NoRelay(sent'[x])
  BY <1>1, EmptyIsNoRelay DEF Silent
<1>2. ASSUME NEW s \in Sockets, SocketDisconnect(s)
      PROVE  NoRelay(sent'[x])
  <2> DEFINE d == GetDeviceId(s)
             r == IF d = NoDevice THEN NoRoomId ELSE GetByDevice(d)
             peer == IF rooms[r].clientSocket = s
                     THEN rooms[r].hostSocket ELSE rooms[r].clientSocket
             a == To(joined[r], PeerDisconnected(r, "offline"), x)
             b == To({peer}, PeerDisconnected(r, "offline"), x)
             c == To(Sockets, Presence("device-offline", d), x)
  <2>1. d \in Devices \cup {NoDevice} /\ r \in RoomIds \cup {NoRoomId}
    BY GetByDeviceTyped DEF TypeOK, RegistryTypeOK, GetDeviceId
  <2>2. /\ a \in Seq(Event) /\ NoRelay(a) /\ b \in Seq(Event) /\ NoRelay(b)
        /\ c \in Seq(Event) /\ NoRelay(c)
    BY <2>1, ServerEventsNoRelay DEF DisconnectReason
  <2>3. sent'[x] \in {<<>>, <<>> \o c, (a \o b) \o c}
    BY <1>2 DEF SocketDisconnect
  <2>4. /\ a \o b \in Seq(Event) /\ NoRelay(a \o b)
    BY <2>2, NoRelayConcat
  <2>5. NoRelay(<<>> \o c) /\ NoRelay((a \o b) \o c)
    BY <2>2, <2>4, NoRelayConcat, EmptyIsNoRelay
  <2>6. QED
    BY <2>3, <2>5, EmptyIsNoRelay
<1>3. ASSUME NEW s \in Sockets, RegisterDevice(s)
      PROVE  NoRelay(sent'[x])
  <2> DEFINE d == DeviceOf[s]
             r == GetByDevice(d)
             previous == Displaced(d, s)
             endsRoom == previous # NoSocket /\ r # NoRoomId
             peer == IF endsRoom THEN GetSocket(OtherParty(r, d)) ELSE NoSocket
             a == To({previous}, PeerDisconnected(r, "offline"), x)
             b == To({peer}, PeerDisconnected(r, "offline"), x)
             c == To({s}, Presence("device-online", d), x)
  <2>1. d \in Devices /\ r \in RoomIds \cup {NoRoomId}
    BY GetByDeviceTyped, DeviceAssumption DEF TypeOK
  <2>2. /\ a \in Seq(Event) /\ NoRelay(a) /\ b \in Seq(Event) /\ NoRelay(b)
        /\ c \in Seq(Event) /\ NoRelay(c)
    BY <2>1, ServerEventsNoRelay DEF DisconnectReason
  <2>3. sent'[x] \in {<<>> \o c, (a \o b) \o c}
    BY <1>3 DEF RegisterDevice
  <2>4. /\ a \o b \in Seq(Event) /\ NoRelay(a \o b)
    BY <2>2, NoRelayConcat
  <2>5. NoRelay(<<>> \o c) /\ NoRelay((a \o b) \o c)
    BY <2>2, <2>4, NoRelayConcat, EmptyIsNoRelay
  <2>6. QED
    BY <2>3, <2>5
<1>4. ASSUME NEW s \in Sockets,
             \/ \E target \in Devices, r \in RoomIds, token \in Payloads :
                   ConnectionRequest(s, target, r, token)
             \/ \E r \in RoomIds : ConnectionAccepted(s, r)
             \/ \E r \in RoomIds, why \in RejectionReason :
                   ConnectionRejected(s, r, why)
             \/ \E r \in RoomIds \cup {NoRoomId} : DisconnectDevice(s, r)
      PROVE  NoRelay(sent'[x])
  <2>1. PICK S, name, r, d, p, why :
           /\ EmitTo(S, RoomEvent(name, r, d, p, why))
           /\ name \in {"incoming-connection", "connection-accepted",
                        "connection-rejected", "peer-disconnected"}
    BY <1>4, Zenon DEF ConnectionRequest, ConnectionAccepted, ConnectionRejected,
                DisconnectDevice, PeerDisconnected
  <2>2. QED
    BY <2>1, EmitIsNoRelay DEF RelayName
<1>5. ASSUME SweepExpired PROVE NoRelay(sent'[x])
  <2> DEFINE mine == {r \in ExpiredPending :
                         x \in {rooms[r].clientSocket, GetSocket(rooms[r].host)}}
  <2>1. CASE mine = {}
    BY <1>5, <2>1, EmptyIsNoRelay DEF SweepExpired
  <2>2. CASE mine # {}
    <3>1. (CHOOSE r \in mine : TRUE) \in RoomIds
      BY <2>2 DEF ExpiredPending
    <3>2. sent'[x] = To({x}, PeerDisconnected(CHOOSE r \in mine : TRUE, "timeout"), x)
      BY <1>5, <2>2 DEF SweepExpired
    <3>3. /\ PeerDisconnected(CHOOSE r \in mine : TRUE, "timeout") \in Event
          /\ PeerDisconnected(CHOOSE r \in mine : TRUE, "timeout").name \notin RelayName
      BY <3>1, PeerDisconnectedFields DEF DisconnectReason, RelayName
    <3>4. QED
      BY <3>2, <3>3, ToIsNoRelay
  <2>3. QED
    BY <2>1, <2>2
<1>6. QED
  BY <1>1, <1>2, <1>3, <1>4, <1>5 DEF SocketConnect, Refuses, Tick

\* The sender and the addressee of a relayed message are the two parties of an
\* accepted room, an offer comes from its client and an answer from its host.
LEMMA RelayAddressee ==
    ASSUME TypeOK, ServerInv, NEW s \in Sockets, NEW r \in RoomIds,
           NEW name \in RelayName, NEW payload \in Payloads, Relay(s, r, name, payload),
           NEW x \in Sockets, NEW i \in DOMAIN sent'[x]
    PROVE  /\ sent'[x][i] = Relayed(name, r, payload)
           /\ Accepted(r)
           /\ {x, s} = {rooms[r].clientSocket, rooms[r].hostSocket}
           /\ x # s
           /\ name = "webrtc-offer" => x = rooms[r].hostSocket
           /\ name = "webrtc-answer" => x = rooms[r].clientSocket
<1> DEFINE d == GetDeviceId(s)
<1>1. EmitTo({GetSocket(OtherParty(r, d))}, Relayed(name, r, payload))
  BY DEF Relay
<1>2. sent'[x] = <<Relayed(name, r, payload)>> /\ x = GetSocket(OtherParty(r, d))
  <2>1. sent'[x] = To({GetSocket(OtherParty(r, d))}, Relayed(name, r, payload), x)
    BY <1>1 DEF EmitTo
  <2>2. sent'[x] # <<>>
    OBVIOUS
  <2>3. QED
    BY <2>1, <2>2 DEF To
<1>3. /\ d # NoDevice /\ Accepted(r) /\ d \in Parties(r)
      /\ name = "webrtc-offer" => rooms[r].client = d
      /\ name = "webrtc-answer" => rooms[r].host = d
  BY DEF Relay, RelayRefusal, SessionRefusal, IceRefusal, RelayName, Accepted, Parties
<1>4. Live(r)
  BY <1>3 DEF Accepted
<1>5. GetSocket(d) = s
  BY <1>3, SenderIdentity
<1>6. /\ rooms[r].clientSocket = GetSocket(rooms[r].client)
      /\ rooms[r].hostSocket = GetSocket(rooms[r].host)
      /\ rooms[r].client # rooms[r].host
      /\ rooms[r].clientSocket # rooms[r].hostSocket
  BY <1>3, <1>4, LiveRoomParties
<1>7. sent'[x][i] = Relayed(name, r, payload)
  BY <1>2
<1>8. CASE d = rooms[r].client
  BY <1>2, <1>3, <1>5, <1>6, <1>7, <1>8 DEF OtherParty
<1>9. CASE d = rooms[r].host
  BY <1>2, <1>3, <1>5, <1>6, <1>7, <1>9 DEF OtherParty
<1>10. QED
  BY <1>3, <1>8, <1>9 DEF Parties

LEMMA StepRelayStaysInSession ==
    ASSUME TypeOK, ServerInv, Next, NEW x \in Sockets, NEW i \in DOMAIN sent'[x],
           sent'[x][i].name \in RelayName
    PROVE  LET e == sent'[x][i]
           IN  /\ Accepted(e.room)
               /\ {x, ack'.to} =
                     {rooms[e.room].clientSocket, rooms[e.room].hostSocket}
               /\ x # ack'.to
               /\ e.name = "webrtc-offer" => x = rooms[e.room].hostSocket
               /\ e.name = "webrtc-answer" => x = rooms[e.room].clientSocket
<1>1. ~NoRelay(sent'[x])
  BY DEF NoRelay
<1>2. PICK s \in Sockets : \E r \in RoomIds, name \in RelayName, payload \in Payloads :
         Relay(s, r, name, payload)
  BY <1>1, StepCases, OthersRelayNothing
<1>3. PICK r \in RoomIds, name \in RelayName, payload \in Payloads :
         Relay(s, r, name, payload)
  BY <1>2
<1>4. ack'.to = s
  BY <1>3 DEF Relay, AckOk
<1>5. /\ sent'[x][i].room = r
      /\ sent'[x][i].name = name
  <2>1. sent'[x][i] = Relayed(name, r, payload)
    BY <1>3, RelayAddressee
  <2>2. QED
    BY <2>1 DEF Relayed, RoomEvent
<1>6. QED
  BY <1>3, <1>4, <1>5, RelayAddressee

\* An SDP or ICE message never leaves the session it belongs to, although the relay
\* looks its target up by device: the registry and the room agree on the sockets.
THEOREM RelayAlwaysInSession == Spec => RelayStaysInSession
<1>1. ASSUME TypeOK, ServerInv, [Next]_vars
      PROVE  [\A x \in Sockets : \A i \in DOMAIN sent'[x] :
                LET e == sent'[x][i]
                IN  e.name \in RelayName =>
                      /\ Accepted(e.room)
                      /\ {x, ack'.to} =
                            {rooms[e.room].clientSocket, rooms[e.room].hostSocket}
                      /\ x # ack'.to
                      /\ e.name = "webrtc-offer" => x = rooms[e.room].hostSocket
                      /\ e.name = "webrtc-answer" => x = rooms[e.room].clientSocket]_vars
  BY <1>1, StepRelayStaysInSession
<1>2. QED
  BY <1>1, ServerInvariant, PTL DEF Spec, RelayStaysInSession

-----------------------------------------------------------------------------
(* What starts a session *)

\* Only an acceptance makes a room accepted: removals, requests and time do not.
LEMMA StartingSteps ==
    ASSUME TypeOK, Next, NEW r \in RoomIds, ~Accepted(r), Accepted(r)'
    PROVE  \E s \in Sockets : ConnectionAccepted(s, r)
<1>1. ASSUME UNCHANGED rooms PROVE FALSE
  BY <1>1 DEF Accepted, Live
<1>2. ASSUME NEW R \in SUBSET RoomIds, RemoveAll(R) PROVE FALSE
  BY <1>2, RemovedRooms DEF TypeOK
<1>3. ASSUME NEW s \in Sockets, SocketDisconnect(s)
      PROVE  \E R \in SUBSET RoomIds : RemoveAll(R)
  <2> DEFINE q == IF GetDeviceId(s) = NoDevice THEN NoRoomId
                  ELSE GetByDevice(GetDeviceId(s))
             R == IF q = NoRoomId THEN {} ELSE {q}
  <2>1. R \in SUBSET RoomIds
    BY GetByDeviceTyped DEF TypeOK
  <2>2. RemoveAll(R)
    BY <1>3 DEF SocketDisconnect
  <2>3. QED
    BY <2>1, <2>2
<1>4. ASSUME NEW s \in Sockets, RegisterDevice(s)
      PROVE  \E R \in SUBSET RoomIds : RemoveAll(R)
  <2> DEFINE R == IF Displaced(DeviceOf[s], s) # NoSocket
                     /\ GetByDevice(DeviceOf[s]) # NoRoomId
                  THEN {GetByDevice(DeviceOf[s])} ELSE {}
  <2>1. R \in SUBSET RoomIds
    BY GetByDeviceTyped DEF TypeOK
  <2>2. RemoveAll(R)
    BY <1>4 DEF RegisterDevice
  <2>3. QED
    BY <2>1, <2>2
<1>5. ASSUME NEW s \in Sockets, NEW q \in RoomIds, NEW why \in RejectionReason,
             ConnectionRejected(s, q, why)
      PROVE  \E R \in SUBSET RoomIds : RemoveAll(R)
  BY <1>5 DEF ConnectionRejected, Remove
<1>6. ASSUME NEW s \in Sockets, NEW q \in RoomIds \cup {NoRoomId},
             DisconnectDevice(s, q)
      PROVE  \E R \in SUBSET RoomIds : RemoveAll(R)
  BY <1>6 DEF DisconnectDevice, DisconnectRefusal, Live, Remove
<1>7. ASSUME SweepExpired
      PROVE  \E R \in SUBSET RoomIds : RemoveAll(R)
  BY <1>7 DEF SweepExpired, ExpiredPending
<1>8. ASSUME NEW s \in Sockets, NEW target \in Devices, NEW q \in RoomIds,
             NEW token \in Payloads, ConnectionRequest(s, target, q, token)
      PROVE  FALSE
  BY <1>8 DEF ConnectionRequest, CreatePending, Accepted, Live, TypeOK, RoomsTypeOK
<1>9. ASSUME Tick PROVE FALSE
  <2>1. rooms[r] \in ConnectionRoom
    BY DEF TypeOK, RoomsTypeOK
  <2>2. rooms'[r].status = rooms[r].status
    BY <1>9, <2>1 DEF Tick, AgeRooms, ConnectionRoom
  <2>3. QED
    BY <2>2 DEF Accepted, Live
<1>10. ASSUME NEW s \in Sockets, NEW q \in RoomIds, ConnectionAccepted(s, q)
       PROVE  q = r
  <2>1. \A p \in RoomIds \ {q} : rooms'[p] = rooms[p]
    BY <1>10 DEF ConnectionAccepted, Accept, TypeOK, RoomsTypeOK
  <2>2. QED
    BY <2>1 DEF Accepted, Live
<1>11. ASSUME \/ \E s \in Sockets : SocketConnect(s)
              \/ \E s \in Sockets, q \in RoomIds, name \in RelayName, payload \in Payloads :
                    Relay(s, q, name, payload)
              \/ Refuses
       PROVE  UNCHANGED rooms
  BY <1>11 DEF SocketConnect, Relay, Refuses, roomVars
<1>12. QED
  BY StepCases, <1>1, <1>2, <1>3, <1>4, <1>5, <1>6, <1>7, <1>8, <1>9, <1>10, <1>11

LEMMA StepSessionNeedsConsent ==
    ASSUME TypeOK, ServerInv, Next, NEW r \in RoomIds, ~Accepted(r), Accepted(r)'
    PROVE  /\ Pending(r)
           /\ Parties(r)' = Parties(r)
           /\ ack'.to = GetSocket(rooms[r].host)
           /\ \E i \in DOMAIN sent'[rooms[r].clientSocket] :
                 sent'[rooms[r].clientSocket][i].name = "connection-accepted"
<1>1. PICK s \in Sockets : ConnectionAccepted(s, r)
  BY StartingSteps
<1> DEFINE accepted == RoomEvent("connection-accepted", r, GetDeviceId(s),
                                 NoPayload, NoReason)
<1>2. /\ GetDeviceId(s) # NoDevice /\ Pending(r) /\ rooms[r].host = GetDeviceId(s)
      /\ ack'.to = s /\ EmitTo({rooms[r].clientSocket}, accepted)
  BY <1>1 DEF ConnectionAccepted, AcceptRefusal, Pending, AckOk
<1>3. GetSocket(rooms[r].host) = s
  BY <1>2, SenderIdentity
<1>4. Parties(r)' = Parties(r)
  <2>1. rooms' = [rooms EXCEPT ![r] = [rooms[r] EXCEPT !.status = "accepted",
                                                       !.hostSocket = s]]
    BY <1>1, <1>2 DEF ConnectionAccepted, Accept
  <2>2. rooms[r] \in ConnectionRoom
    BY DEF TypeOK, RoomsTypeOK
  <2>3. rooms'[r].client = rooms[r].client /\ rooms'[r].host = rooms[r].host
    BY <2>1, <2>2 DEF TypeOK, RoomsTypeOK, ConnectionRoom
  <2>4. QED
    BY <2>3 DEF Parties
<1>5. Open(rooms[r].clientSocket) /\ rooms[r].clientSocket \in Sockets
  BY <1>2, LiveRoomParties DEF Pending
<1>6. sent'[rooms[r].clientSocket] = <<accepted>>
  BY <1>2, <1>5 DEF EmitTo, To
<1>7. /\ 1 \in DOMAIN sent'[rooms[r].clientSocket]
      /\ sent'[rooms[r].clientSocket][1].name = "connection-accepted"
  BY <1>6 DEF RoomEvent
<1>8. QED
  BY <1>2, <1>3, <1>4, <1>7

\* No session without the requested host's own acceptance, made on the socket that
\* is current for the host; the requester is told in the same step.
THEOREM SessionAlwaysConsented == Spec => SessionNeedsConsent
<1>1. ASSUME TypeOK, ServerInv, [Next]_vars
      PROVE  [\A r \in RoomIds : ~Accepted(r) /\ Accepted(r)' =>
                /\ Pending(r)
                /\ Parties(r)' = Parties(r)
                /\ ack'.to = GetSocket(rooms[r].host)
                /\ \E i \in DOMAIN sent'[rooms[r].clientSocket] :
                      sent'[rooms[r].clientSocket][i].name = "connection-accepted"]_vars
  BY <1>1, StepSessionNeedsConsent
<1>2. QED
  BY <1>1, ServerInvariant, PTL DEF Spec, SessionNeedsConsent

-----------------------------------------------------------------------------
(* The server implements the directory of calls *)

\* The abstract state that the server's state is read as.
OnlineBar == {d \in Devices : GetSocket(d) # NoSocket}
CallBar == [d \in Devices |-> CallOf(d)]

\* What a device's place in a call is, read through the index.
LEMMA CallOfDevice ==
    ASSUME TypeOK, ServerInv, NEW d \in Devices
    PROVE  /\ byDevice[d] = NoRoomId => CallOf(d) = Directory!Idle
           /\ byDevice[d] # NoRoomId =>
                 /\ byDevice[d] \in RoomIds /\ Live(byDevice[d])
                 /\ d \in Parties(byDevice[d])
                 /\ CallOf(d).peer = OtherParty(byDevice[d], d)
                 /\ CallOf(d).phase = rooms[byDevice[d]].status
                 /\ CallOf(d).role =
                       (IF rooms[byDevice[d]].client = d THEN "client" ELSE "host")
                 /\ CallOf(d) # Directory!Idle
<1>1. CASE byDevice[d] = NoRoomId
  BY <1>1 DEF CallOf, Directory!Idle
<1>2. CASE byDevice[d] # NoRoomId
  <2>1. byDevice[d] \in RoomIds
    BY <1>2 DEF TypeOK, RoomsTypeOK
  <2>2. Live(byDevice[d]) /\ d \in Parties(byDevice[d])
    BY <2>1 DEF ServerInv, RoomIndexConsistent
  <2>3. CallOf(d) = [role |-> IF rooms[byDevice[d]].client = d
                              THEN "client" ELSE "host",
                     peer |-> OtherParty(byDevice[d], d),
                     phase |-> rooms[byDevice[d]].status]
    BY <1>2 DEF CallOf
  <2>4. CallOf(d).role # "none"
    BY <2>3
  <2>5. QED
    BY <1>2, <2>1, <2>2, <2>3, <2>4 DEF Directory!Idle
<1>3. QED
  BY <1>1, <1>2

\* Steps that leave the registry and the rooms alone are not seen at all.
LEMMA FrameStutters ==
    ASSUME UNCHANGED <<byDeviceId, rooms, byDevice>>
    PROVE  UNCHANGED <<OnlineBar, CallBar>>
BY DEF OnlineBar, CallBar, CallOf, OtherParty, GetSocket

LEMMA NoRemovalStutters ==
    ASSUME TypeOK, RemoveAll({})
    PROVE  UNCHANGED CallBar
<1>1. rooms' = rooms /\ byDevice' = byDevice
  BY DEF RemoveAll, TypeOK, RoomsTypeOK
<1>2. QED
  BY <1>1 DEF CallBar, CallOf, OtherParty

\* Removing the rooms of some devices is hanging up on these devices.
LEMMA RemovalHangsUp ==
    ASSUME TypeOK, ServerInv, NEW R \in SUBSET RoomIds, \A r \in R : Live(r),
           RemoveAll(R), NEW D \in SUBSET Devices,
           \A d \in D : byDevice[d] \in R \cup {NoRoomId},
           \A r \in R : \E d \in D : d \in Parties(r)
    PROVE  Directory!HangUp(D)
<1> DEFINE Reached == D \cup {CallBar[e].peer : e \in D}
<1>1. ASSUME NEW d \in Devices
      PROVE  byDevice[d] \in R => d \in Reached
  <2> SUFFICES ASSUME byDevice[d] \in R, d \notin D
               PROVE  d \in {CallBar[e].peer : e \in D}
    OBVIOUS
  <2> DEFINE r == byDevice[d]
  <2>1. PICK e \in D : e \in Parties(r)
    OBVIOUS
  <2>2. r \in RoomIds /\ Live(r) /\ d \in Parties(r)
    BY DEF ServerInv, RoomIndexConsistent
  <2>3. byDevice[e] = r
    BY <2>1, <2>2 DEF ServerInv, RoomIndexConsistent
  <2>4. CallBar[e].peer = OtherParty(r, e)
    BY <2>2, <2>3, CallOfDevice, DeviceAssumption DEF CallBar
  <2>5. OtherParty(r, e) = d
    BY <2>1, <2>2 DEF OtherParty, Parties
  <2>6. QED
    BY <2>4, <2>5
<1>2. ASSUME NEW d \in Devices, d \in Reached
      PROVE  byDevice[d] \in R \cup {NoRoomId}
  <2>1. CASE d \in D
    BY <2>1
  <2>2. ASSUME NEW e \in D, d = CallBar[e].peer
        PROVE  byDevice[d] \in R
    <3>1. CallBar[e] = CallOf(e) /\ e \in Devices
      BY DEF CallBar
    <3>2. byDevice[e] # NoRoomId
      BY <2>2, <3>1, CallOfDevice, DeviceAssumption DEF Directory!Idle
    <3>3. /\ byDevice[e] \in R /\ Live(byDevice[e]) /\ e \in Parties(byDevice[e])
          /\ d = OtherParty(byDevice[e], e)
      BY <2>2, <3>1, <3>2, CallOfDevice
    <3>4. d \in Parties(byDevice[e])
      BY <3>3 DEF OtherParty, Parties
    <3>5. byDevice[d] = byDevice[e]
      BY <3>3, <3>4 DEF ServerInv, RoomIndexConsistent
    <3>6. QED
      BY <3>3, <3>5
  <2>3. QED
    BY <1>2, <2>1, <2>2
<1>3. ASSUME NEW d \in Devices
      PROVE  CallOf(d)' = IF d \in Reached THEN Directory!Idle ELSE CallOf(d)
  <2>1. (\E r \in R : d \in Parties(r)) <=> byDevice[d] \in R
    BY DEF ServerInv, RoomIndexConsistent
  <2>2. byDevice'[d] = IF byDevice[d] \in R THEN NoRoomId ELSE byDevice[d]
    BY <2>1 DEF RemoveAll
  <2>3. byDevice'[d] = NoRoomId => CallOf(d)' = Directory!Idle
    BY DEF CallOf, Directory!Idle
  <2>4. CASE d \in Reached
    BY <1>2, <2>2, <2>3, <2>4
  <2>5. CASE d \notin Reached
    <3>1. byDevice'[d] = byDevice[d] /\ byDevice[d] \notin R
      BY <1>1, <2>2, <2>5
    <3>2. CASE byDevice[d] = NoRoomId
      BY <2>3, <2>5, <3>1, <3>2, CallOfDevice
    <3>3. CASE byDevice[d] # NoRoomId
      <4>1. rooms'[byDevice[d]] = rooms[byDevice[d]]
        BY <3>1, <3>3 DEF RemoveAll, TypeOK, RoomsTypeOK
      <4>2. CallOf(d)' = CallOf(d)
        BY <3>1, <4>1 DEF CallOf, OtherParty
      <4>3. QED
        BY <2>5, <4>2
    <3>4. QED
      BY <3>2, <3>3
  <2>6. QED
    BY <2>4, <2>5
<1>4. QED
  BY <1>3 DEF CallBar, Directory!HangUp, Directory!WithPeers

LEMMA RegisterRefines ==
    ASSUME TypeOK, ServerInv, NEW s \in Sockets, RegisterDevice(s)
    PROVE  Directory!Appear(DeviceOf[s])
<1> DEFINE d == DeviceOf[s]
           r == GetByDevice(d)
           endsRoom == Displaced(d, s) # NoSocket /\ r # NoRoomId
<1>1. d \in Devices /\ s # NoSocket
  BY DeviceAssumption
<1>2. OnlineBar' = OnlineBar \cup {d}
  BY <1>1 DEF RegisterDevice, Register, OnlineBar, GetSocket, TypeOK, RegistryTypeOK
<1>3. CASE endsRoom
  <2>1. d \in OnlineBar
    BY <1>1, <1>3 DEF Displaced, OnlineBar, GetSocket
  <2>2. r \in RoomIds /\ Live(r) /\ byDevice[d] = r /\ RemoveAll({r})
    BY <1>3 DEF GetByDevice, Live, RegisterDevice
  <2>3. d \in Parties(r)
    BY <1>1, <2>2 DEF ServerInv, RoomIndexConsistent
  <2>4. Directory!HangUp({d})
    BY <1>1, <2>2, <2>3, RemovalHangsUp
  <2>5. QED
    BY <1>2, <2>1, <2>4 DEF Directory!Appear, OnlineBar
<1>4. CASE ~endsRoom
  <2>1. RemoveAll({})
    BY <1>4 DEF RegisterDevice
  <2>2. QED
    BY <1>2, <2>1, NoRemovalStutters DEF Directory!Appear, OnlineBar, CallBar
<1>5. QED
  BY <1>3, <1>4

LEMMA DisconnectRefines ==
    ASSUME TypeOK, ServerInv, NEW s \in Sockets, SocketDisconnect(s)
    PROVE  \/ UNCHANGED <<OnlineBar, CallBar>>
           \/ \E d \in Devices : Directory!Disappear(d)
<1> DEFINE d == GetDeviceId(s)
           r == IF d = NoDevice THEN NoRoomId ELSE GetByDevice(d)
           R == IF r = NoRoomId THEN {} ELSE {r}
<1>1. RemoveAll(R) /\ UnregisterSocket(s)
  BY DEF SocketDisconnect
<1>2. CASE d = NoDevice
  <2>1. byDeviceId' = byDeviceId
    BY <1>1, <1>2, DeviceAssumption
       DEF UnregisterSocket, GetDeviceId, TypeOK, RegistryTypeOK
  <2>2. RemoveAll({})
    BY <1>1, <1>2
  <2>3. QED
    BY <2>1, <2>2, NoRemovalStutters DEF OnlineBar, GetSocket
<1>3. CASE d # NoDevice
  <2>1. d \in Devices /\ GetSocket(d) = s
    BY <1>3, SenderIdentity
  <2>2. OnlineBar' = OnlineBar \ {d} /\ d \in OnlineBar
    <3>1. \A e \in Devices :
             byDeviceId'[e] = IF e = d THEN NoSocket ELSE byDeviceId[e]
      BY <1>1, <2>1 DEF UnregisterSocket, GetDeviceId, GetSocket
    <3>2. QED
      BY <2>1, <3>1, DeviceAssumption DEF OnlineBar, GetSocket
  <2>3. R \in SUBSET RoomIds /\ \A q \in R : Live(q)
    BY DEF GetByDevice, Live
  <2>4. byDevice[d] \in R \cup {NoRoomId}
    BY <1>3, <2>1, IdleIsFree DEF GetByDevice, TypeOK, ServerInv
  <2>5. \A q \in R : d \in Parties(q)
    BY <1>3, <2>1, <2>3 DEF GetByDevice, ServerInv, RoomIndexConsistent
  <2>6. Directory!HangUp({d})
    BY <1>1, <2>1, <2>3, <2>4, <2>5, RemovalHangsUp
  <2>7. Directory!Disappear(d)
    BY <2>2, <2>6 DEF Directory!Disappear, OnlineBar
  <2>8. QED
    BY <2>1, <2>7
<1>4. QED
  BY <1>2, <1>3

LEMMA RequestRefines ==
    ASSUME TypeOK, ServerInv, NEW s \in Sockets, NEW target \in Devices,
           NEW r \in RoomIds, NEW token \in Payloads,
           ConnectionRequest(s, target, r, token)
    PROVE  \E c \in Devices : Directory!Request(c, target)
<1>0. GetDeviceId(s) \in Devices
  BY DEF ConnectionRequest, RequestRefusal, TypeOK, RegistryTypeOK, GetDeviceId
<1>. PICK c \in Devices : c = GetDeviceId(s)
  BY <1>0
<1>1. c # target /\ Connected(target) /\ c # NoDevice
  BY DEF ConnectionRequest, RequestRefusal
<1>2. byDevice[c] = NoRoomId /\ byDevice[target] = NoRoomId
  <2>1. GetByDevice(c) = NoRoomId /\ GetByDevice(target) = NoRoomId
    BY DEF ConnectionRequest, RequestRefusal
  <2>2. QED
    BY <1>1, <2>1, IdleIsFree DEF ServerInv, TypeOK
<1>3. {c, target} \subseteq OnlineBar
  BY <1>1, SenderIdentity, DeviceAssumption DEF OnlineBar, Connected, Open
<1>4. CallOf(c) = Directory!Idle /\ CallOf(target) = Directory!Idle
  BY <1>1, <1>2, CallOfDevice
<1>5. /\ byDevice' = [d \in Devices |-> IF d \in {c, target} THEN r ELSE byDevice[d]]
      /\ rooms'[r].client = c /\ rooms'[r].host = target
      /\ rooms'[r].status = "pending"
      /\ \A q \in RoomIds \ {r} : rooms'[q] = rooms[q]
      /\ r # NoRoomId /\ ~Live(r)
  BY DeviceAssumption DEF ConnectionRequest, CreatePending, Live, TypeOK, RoomsTypeOK
<1>6. CallOf(c)' = Directory!Call("client", target, "pending")
  BY <1>1, <1>5 DEF CallOf, OtherParty, Directory!Call
<1>7. CallOf(target)' = Directory!Call("host", c, "pending")
  BY <1>1, <1>5 DEF CallOf, OtherParty, Directory!Call
<1>8. ASSUME NEW d \in Devices \ {c, target}
      PROVE  CallOf(d)' = CallOf(d)
  <2>1. byDevice'[d] = byDevice[d]
    BY <1>5
  <2>2. CASE byDevice[d] = NoRoomId
    BY <2>1, <2>2 DEF CallOf
  <2>3. CASE byDevice[d] # NoRoomId
    <3>1. byDevice[d] \in RoomIds \ {r}
      BY <1>5, <2>3, CallOfDevice
    <3>2. rooms'[byDevice[d]] = rooms[byDevice[d]]
      BY <1>5, <3>1
    <3>3. QED
      BY <2>1, <3>2 DEF CallOf, OtherParty
  <2>4. QED
    BY <2>2, <2>3
<1>9. CallBar' = [CallBar EXCEPT ![c] = Directory!Call("client", target, "pending"),
                                 ![target] = Directory!Call("host", c, "pending")]
  BY <1>1, <1>6, <1>7, <1>8 DEF CallBar
<1>10. OnlineBar' = OnlineBar
  BY DEF ConnectionRequest, registryVars, OnlineBar, GetSocket
<1>11. CallBar[c] = Directory!Idle /\ CallBar[target] = Directory!Idle
  BY <1>1, <1>4 DEF CallBar
<1>12. Directory!Request(c, target)
  BY <1>1, <1>3, <1>9, <1>10, <1>11 DEF Directory!Request, OnlineBar, CallBar
<1>13. QED
  BY <1>1, <1>12

LEMMA AcceptRefines ==
    ASSUME TypeOK, ServerInv, NEW s \in Sockets, NEW r \in RoomIds,
           ConnectionAccepted(s, r)
    PROVE  \E h \in Devices : Directory!AcceptCall(h)
<1>1. Pending(r) /\ Live(r) /\ Accept(r, s)
  BY DEF ConnectionAccepted, AcceptRefusal, Pending
<1>. PICK h \in Devices, c \in Devices : h = rooms[r].host /\ c = rooms[r].client
  BY <1>1, LiveRoomParties
<1>2. h # c /\ byDevice[h] = r /\ byDevice[c] = r
  BY <1>1, LiveRoomParties
<1>3. /\ CallOf(h) = [role |-> "host", peer |-> c, phase |-> "pending"]
      /\ CallOf(c) = [role |-> "client", peer |-> h, phase |-> "pending"]
  BY <1>1, <1>2, DeviceAssumption DEF CallOf, OtherParty, Pending
<1>4. /\ rooms'[r].client = c /\ rooms'[r].host = h
      /\ rooms'[r].status = "accepted"
      /\ \A q \in RoomIds \ {r} : rooms'[q] = rooms[q]
      /\ byDevice' = byDevice
  <2>1. rooms' = [rooms EXCEPT ![r] = [rooms[r] EXCEPT !.status = "accepted",
                                                       !.hostSocket = s]]
    BY <1>1 DEF Accept
  <2>2. rooms[r] \in ConnectionRoom
    BY DEF TypeOK, RoomsTypeOK
  <2>3. QED
    BY <1>1, <2>1, <2>2 DEF Accept, TypeOK, RoomsTypeOK, ConnectionRoom
<1>5. /\ CallOf(h)' = [role |-> "host", peer |-> c, phase |-> "accepted"]
      /\ CallOf(c)' = [role |-> "client", peer |-> h, phase |-> "accepted"]
  BY <1>2, <1>4, DeviceAssumption DEF CallOf, OtherParty
<1>6. ASSUME NEW d \in Devices \ {h, c}
      PROVE  CallOf(d)' = CallOf(d)
  <2>1. byDevice'[d] = byDevice[d]
    BY <1>4
  <2>2. CASE byDevice[d] = NoRoomId
    BY <2>1, <2>2 DEF CallOf
  <2>3. CASE byDevice[d] # NoRoomId
    <3>1. byDevice[d] \in RoomIds \ {r}
      BY <2>3, CallOfDevice DEF Parties
    <3>2. rooms'[byDevice[d]] = rooms[byDevice[d]]
      BY <1>4, <3>1
    <3>3. QED
      BY <2>1, <3>2 DEF CallOf, OtherParty
  <2>4. QED
    BY <2>2, <2>3
<1>7. /\ CallBar[h].role = "host" /\ CallBar[h].phase = "pending"
      /\ CallBar[h].peer = c
  BY <1>2, <1>3 DEF CallBar
<1>8. CallBar' = [CallBar EXCEPT ![h].phase = "accepted", ![c].phase = "accepted"]
  <2>1. [CallBar[h] EXCEPT !.phase = "accepted"] = CallOf(h)'
    BY <1>2, <1>3, <1>5 DEF CallBar
  <2>2. [CallBar[c] EXCEPT !.phase = "accepted"] = CallOf(c)'
    BY <1>2, <1>3, <1>5 DEF CallBar
  <2>3. CallBar' = [d \in Devices |-> CallOf(d)']
    BY DEF CallBar
  <2>4. [CallBar EXCEPT ![h].phase = "accepted", ![c].phase = "accepted"]
          = [d \in Devices |-> IF d \in {h, c} THEN [CallBar[d] EXCEPT !.phase = "accepted"]
                               ELSE CallBar[d]]
    BY <1>2 DEF CallBar
  <2>5. \A d \in Devices \ {h, c} : CallBar[d] = CallOf(d)'
    BY <1>6 DEF CallBar
  <2>6. QED
    BY <2>1, <2>2, <2>3, <2>4, <2>5
<1>9. OnlineBar' = OnlineBar
  BY DEF ConnectionAccepted, registryVars, OnlineBar, GetSocket
<1>10. Directory!AcceptCall(h)
  BY <1>7, <1>8, <1>9 DEF Directory!AcceptCall, OnlineBar, CallBar
<1>11. QED
  BY <1>2, <1>10

\* A rejection and a release are one of the parties leaving.
LEMMA LeaveRefines ==
    ASSUME TypeOK, ServerInv, NEW r \in RoomIds, Live(r), RemoveAll({r}),
           UNCHANGED registryVars, NEW d \in Parties(r)
    PROVE  d \in Devices /\ Directory!Leave(d)
<1>1. d \in Devices /\ byDevice[d] = r /\ r # NoRoomId
  BY LiveRoomParties, DeviceAssumption DEF Parties
<1>2. Directory!HangUp({d})
  BY <1>1, RemovalHangsUp
<1>3. CallBar[d] # Directory!Idle
  BY <1>1, CallOfDevice DEF CallBar
<1>4. OnlineBar' = OnlineBar
  BY DEF registryVars, OnlineBar, GetSocket
<1>5. QED
  BY <1>1, <1>2, <1>3, <1>4 DEF Directory!Leave, OnlineBar, CallBar

LEMMA TickStutters ==
    ASSUME TypeOK, ServerInv, Tick
    PROVE  UNCHANGED <<OnlineBar, CallBar>>
<1>1. ASSUME NEW q \in RoomIds
      PROVE  /\ rooms'[q].client = rooms[q].client
             /\ rooms'[q].host = rooms[q].host
             /\ rooms'[q].status = rooms[q].status
  <2>1. rooms[q] \in ConnectionRoom
    BY DEF TypeOK, RoomsTypeOK
  <2>2. rooms'[q] = IF Pending(q) THEN [rooms[q] EXCEPT !.age = rooms[q].age + 1]
                    ELSE rooms[q]
    BY DEF Tick, AgeRooms
  <2>3. QED
    BY <2>1, <2>2 DEF ConnectionRoom
<1>2. byDevice' = byDevice /\ byDeviceId' = byDeviceId
  BY DEF Tick, AgeRooms, registryVars
<1>3. ASSUME NEW d \in Devices PROVE CallOf(d)' = CallOf(d)
  <2>1. byDevice[d] \in RoomIds \cup {NoRoomId}
    BY DEF TypeOK, RoomsTypeOK
  <2>2. QED
    BY <1>1, <1>2, <2>1 DEF CallOf, OtherParty
<1>4. QED
  BY <1>2, <1>3 DEF OnlineBar, CallBar, GetSocket

LEMMA SweepRefines ==
    ASSUME TypeOK, ServerInv, SweepExpired
    PROVE  Directory!GiveUp
<1> DEFINE D == {d \in Devices : byDevice[d] \in ExpiredPending}
<1>1. /\ RemoveAll(ExpiredPending) /\ ExpiredPending \in SUBSET RoomIds
      /\ \A r \in ExpiredPending : Live(r) /\ rooms[r].status = "pending"
      /\ UNCHANGED registryVars
  BY DEF SweepExpired, ExpiredPending, Pending
<1>2. \A r \in ExpiredPending : \E d \in D : d \in Parties(r)
  BY <1>1, LiveRoomParties DEF Parties
<1>3. Directory!HangUp(D)
  BY <1>1, <1>2, RemovalHangsUp
<1>4. D \in SUBSET {d \in Devices : CallBar[d].phase = "pending"}
  BY <1>1, CallOfDevice, DeviceAssumption DEF CallBar
<1>5. OnlineBar' = OnlineBar
  BY <1>1 DEF registryVars, OnlineBar, GetSocket
<1>6. QED
  BY <1>3, <1>4, <1>5 DEF Directory!GiveUp, OnlineBar, CallBar

LEMMA InitRefines == Init => Directory!DirectoryInit
BY DEF Init, RegistryInit, RoomsInit, Directory!DirectoryInit, Directory!Idle, CallOf,
       GetSocket

\* Each handler is one step of the directory, or none.
LEMMA StepRefines ==
    ASSUME TypeOK, ServerInv, Next
    PROVE  Directory!DirectoryNext \/ UNCHANGED <<OnlineBar, CallBar>>
<1>1. ASSUME NEW s \in Sockets, RegisterDevice(s)
      PROVE  Directory!DirectoryNext
  BY <1>1, RegisterRefines, DeviceAssumption DEF Directory!DirectoryNext
<1>2. ASSUME NEW s \in Sockets, SocketDisconnect(s)
      PROVE  Directory!DirectoryNext \/ UNCHANGED <<OnlineBar, CallBar>>
  BY <1>2, DisconnectRefines DEF Directory!DirectoryNext
<1>3. ASSUME NEW s \in Sockets, NEW target \in Devices, NEW r \in RoomIds,
             NEW token \in Payloads, ConnectionRequest(s, target, r, token)
      PROVE  Directory!DirectoryNext
  BY <1>3, RequestRefines DEF Directory!DirectoryNext
<1>4. ASSUME NEW s \in Sockets, NEW r \in RoomIds, ConnectionAccepted(s, r)
      PROVE  Directory!DirectoryNext
  BY <1>4, AcceptRefines DEF Directory!DirectoryNext
<1>5. ASSUME NEW s \in Sockets, NEW r \in RoomIds, NEW why \in RejectionReason,
             ConnectionRejected(s, r, why)
      PROVE  Directory!DirectoryNext
  <2>1. Live(r) /\ RemoveAll({r}) /\ UNCHANGED registryVars /\ rooms[r].host \in Parties(r)
    BY <1>5 DEF ConnectionRejected, RejectRefusal, Remove, Parties
  <2>2. QED
    BY <2>1, LeaveRefines DEF Directory!DirectoryNext
<1>6. ASSUME NEW s \in Sockets, NEW r \in RoomIds \cup {NoRoomId}, DisconnectDevice(s, r)
      PROVE  Directory!DirectoryNext
  <2> DEFINE q == RoomToLeave(s, r)
  <2>1. /\ Live(q) /\ q \in RoomIds /\ RemoveAll({q}) /\ UNCHANGED registryVars
        /\ GetDeviceId(s) \in Parties(q)
    BY <1>6 DEF DisconnectDevice, DisconnectRefusal, Remove, Live
  <2>2. QED
    BY <2>1, LeaveRefines DEF Directory!DirectoryNext
<1>7. ASSUME SweepExpired PROVE Directory!DirectoryNext
  BY <1>7, SweepRefines DEF Directory!DirectoryNext
<1>8. ASSUME \/ \E s \in Sockets : SocketConnect(s)
             \/ \E s \in Sockets, r \in RoomIds, name \in RelayName, payload \in Payloads :
                   Relay(s, r, name, payload)
             \/ Refuses
      PROVE  UNCHANGED <<OnlineBar, CallBar>>
  BY <1>8, FrameStutters DEF SocketConnect, Relay, Refuses, registryVars, roomVars
<1>9. QED
  BY StepCases, TickStutters, <1>1, <1>2, <1>3, <1>4, <1>5, <1>6, <1>7, <1>8

\* The server keeps the promise of the directory for any number of devices,
\* sockets and rooms: its registry, rooms and index, read as who is online and who
\* is in a call with whom, only ever take the directory's steps.
THEOREM ServerImplementsDirectory == Spec => ServerRefinement
<1>1. Init => Directory!DirectoryInit
  BY InitRefines
<1>2. ASSUME TypeOK, ServerInv, [Next]_vars
      PROVE  [Directory!DirectoryNext]_(Directory!directoryVars)
  <2>1. CASE Next
    BY <1>2, <2>1, StepRefines DEF Directory!directoryVars, OnlineBar, CallBar
  <2>2. CASE UNCHANGED vars
    <3>1. UNCHANGED <<OnlineBar, CallBar>>
      BY <2>2, FrameStutters DEF vars, registryVars, roomVars
    <3>2. QED
      BY <3>1 DEF Directory!directoryVars, OnlineBar, CallBar
  <2>3. QED
    BY <1>2, <2>1, <2>2
<1>3. QED
  BY <1>1, <1>2, ServerInvariant, PTL DEF Spec, ServerRefinement, Directory!DirectorySpec

\* What is proved of the directory (SessionDirectoryProofs), read of the server.
Promise ==
    INSTANCE SessionDirectoryProofs WITH online <- OnlineBar, call <- CallBar

\* The two ends of every room agree on it and are both registered: a device never
\* stays in a call with one that is idle, offline or in another call.
THEOREM ServerPairsCalls == Spec => []Promise!CallsPaired
<1>1. Directory!DirectoryInit => Promise!DirectoryInit
  BY DEF Directory!DirectoryInit, Promise!DirectoryInit, Directory!Idle, Promise!Idle,
         OnlineBar, CallBar
<1>2. ASSUME Directory!DirectoryNext
      PROVE  Promise!DirectoryNext
  <2> USE DEF OnlineBar, CallBar, Directory!Idle, Promise!Idle, Directory!Call,
              Promise!Call, Directory!HangUp, Promise!HangUp, Directory!WithPeers,
              Promise!WithPeers
  <2>1. ASSUME NEW d \in Devices
        PROVE  /\ Directory!Appear(d) => Promise!Appear(d)
               /\ Directory!Disappear(d) => Promise!Disappear(d)
               /\ Directory!AcceptCall(d) => Promise!AcceptCall(d)
               /\ Directory!Leave(d) => Promise!Leave(d)
    BY Zenon DEF Directory!Appear, Promise!Appear, Directory!Disappear,
       Promise!Disappear, Directory!AcceptCall, Promise!AcceptCall,
       Directory!Leave, Promise!Leave
  <2>2. ASSUME NEW c \in Devices, NEW h \in Devices
        PROVE  Directory!Request(c, h) => Promise!Request(c, h)
    BY Zenon DEF Directory!Request, Promise!Request
  <2>3. Directory!GiveUp => Promise!GiveUp
    BY Zenon DEF Directory!GiveUp, Promise!GiveUp
  <2>4. QED
    BY <1>2, <2>1, <2>2, <2>3 DEF Directory!DirectoryNext, Promise!DirectoryNext
<1>3. (UNCHANGED Directory!directoryVars) => (UNCHANGED Promise!directoryVars)
  BY DEF Directory!directoryVars, Promise!directoryVars, OnlineBar, CallBar
<1>4. [Directory!DirectoryNext]_(Directory!directoryVars)
        => [Promise!DirectoryNext]_(Promise!directoryVars)
  BY <1>2, <1>3
<1>5. Promise!DirectorySpec => []Promise!CallsPaired
  BY DeviceAssumption, Promise!DirectoryPairsCalls
<1>6. QED
  BY <1>1, <1>4, <1>5, ServerImplementsDirectory, PTL
     DEF ServerRefinement, Directory!DirectorySpec, Promise!DirectorySpec
=============================================================================
