--------------------------- MODULE SignalingServer ---------------------------
(***************************************************************************)
(* The signaling server: src/server/socket/handlers.ts and the wiring of   *)
(* src/server/index.ts, over the device registry and the connection rooms. *)
(*                                                                         *)
(* Node runs one handler at a time to its end, so every handler is one     *)
(* action.  `sent` and `ack` are what the last step emitted to each socket *)
(* (in order) and answered; they are overwritten by every step and no      *)
(* guard reads them.                                                       *)
(***************************************************************************)
EXTENDS DeviceRegistry, ConnectionRooms

VARIABLES
    conn,      \* socket.io connection: "new" -> "open" -> "closed"
    joined,    \* socket.io room membership: room id -> sockets
    sweepIn,   \* ticks until the sweep's interval is due (negative: late)
    sent,      \* socket -> the events the last step emitted to it
    ack        \* the acknowledgement of the last step

outputs == <<sent, ack>>
vars == <<registryVars, roomVars, conn, joined, sweepIn, outputs>>

TypeOK ==
    /\ RegistryTypeOK
    /\ RoomsTypeOK
    /\ conn \in [Sockets -> {"new", "open", "closed"}]
    /\ joined \in [RoomIds -> SUBSET Sockets]
    /\ sweepIn \in -SweepLateness..PendingRoomTtl
    /\ sent \in [Sockets -> Seq(Event)]
    /\ ack \in Ack \cup {NoAck}

Init ==
    /\ RegistryInit
    /\ RoomsInit
    /\ conn = [s \in Sockets |-> "new"]
    /\ joined = [r \in RoomIds |-> {}]
    /\ sweepIn = PendingRoomTtl
    /\ sent = [s \in Sockets |-> <<>>]
    /\ ack = NoAck

-----------------------------------------------------------------------------
Open(s) == s \in Sockets /\ conn[s] = "open"

\* registry.getSocket(d)?.connected
Connected(d) == Open(GetSocket(d))

\* What x receives of an event emitted to the sockets S: io.to(..) and emit
\* reach open sockets only.
To(S, event, x) == IF x \in S /\ Open(x) THEN <<event>> ELSE <<>>

Silent == sent' = [x \in Sockets |-> <<>>]
EmitTo(S, event) == sent' = [x \in Sockets |-> To(S, event, x)]

AckOk(s, r) == ack' = [to |-> s, code |-> "ok", room |-> r]
AckErr(s, code) ==
    /\ ack' = [to |-> s, code |-> code, room |-> NoRoomId]
    /\ Silent
    /\ UNCHANGED <<registryVars, roomVars, conn, joined, sweepIn>>

OtherParty(r, d) ==
    IF rooms[r].client = d THEN rooms[r].host ELSE rooms[r].client

-----------------------------------------------------------------------------
(* Connection life cycle *)

SocketConnect(s) ==
    /\ conn[s] = "new"
    /\ conn' = [conn EXCEPT ![s] = "open"]
    /\ ack' = NoAck
    /\ Silent
    /\ UNCHANGED <<registryVars, roomVars, joined, sweepIn>>

\* Registering takes the device over from another socket: a room of the device
\* ends and both its ends are told, then the old socket is closed.  Its
\* 'disconnect' handler runs inside this call and finds no device to clean up.
RegisterDevice(s) ==
    LET d == DeviceOf[s]
        r == GetByDevice(d)
        previous == Displaced(d, s)
        endsRoom == previous # NoSocket /\ r # NoRoomId
        ended == IF endsRoom THEN {r} ELSE {}
        peer == IF endsRoom THEN GetSocket(OtherParty(r, d)) ELSE NoSocket
        offline == PeerDisconnected(r, "offline")
    IN  /\ conn[s] = "open"
        /\ RemoveAll(ended)
        /\ Register(d, s)
        /\ conn' = [x \in Sockets |->
                       IF x = previous THEN "closed" ELSE conn[x]]
        /\ joined' = [q \in RoomIds |-> joined[q] \ {previous}]
        /\ sent' = [x \in Sockets |->
                       (IF endsRoom
                        THEN To({previous}, offline, x) \o To({peer}, offline, x)
                        ELSE <<>>)
                       \o To({s}, Presence("device-online", d), x)]
        /\ AckOk(s, NoRoomId)
        /\ UNCHANGED sweepIn

RegisterMalformed(s) ==
    /\ conn[s] = "open"
    /\ AckErr(s, "INVALID_ID")

\* The socket has left its socket.io rooms when 'disconnect' is delivered.  A
\* peer that had joined the room is told twice: once as a member of the room,
\* once by its socket id.
SocketDisconnect(s) ==
    LET d == GetDeviceId(s)
        r == IF d = NoDevice THEN NoRoomId ELSE GetByDevice(d)
        peerSocket == IF rooms[r].clientSocket = s
                      THEN rooms[r].hostSocket ELSE rooms[r].clientSocket
        offline == PeerDisconnected(r, "offline")
    IN  /\ conn[s] = "open"
        /\ conn' = [conn EXCEPT ![s] = "closed"]
        /\ joined' = [q \in RoomIds |-> joined[q] \ {s}]
        /\ UnregisterSocket(s)
        /\ RemoveAll(IF r = NoRoomId THEN {} ELSE {r})
        /\ sent' = [x \in Sockets |->
                       IF x = s \/ d = NoDevice THEN <<>>
                       ELSE (IF r = NoRoomId THEN <<>>
                             ELSE To(joined[r], offline, x)
                                  \o To({peerSocket}, offline, x))
                            \o To(Sockets, Presence("device-offline", d), x)]
        /\ ack' = NoAck
        /\ UNCHANGED sweepIn

-----------------------------------------------------------------------------
(* Request and verdict *)

\* Fault: only the requester's own room makes it busy.
RequestRefusalSkipsTarget(s, target) ==
    IF GetDeviceId(s) = NoDevice THEN "NOT_REGISTERED"
    ELSE IF target = NoDevice THEN "INVALID_ID"
    ELSE IF target = GetDeviceId(s) THEN "SELF_CONNECT"
    ELSE IF GetByDevice(GetDeviceId(s)) # NoRoomId THEN "ALREADY_IN_SESSION"
    ELSE IF ~Connected(target) THEN "DEVICE_OFFLINE"
    ELSE "ok"

\* Fault: a request may name a device that is not online.
RequestRefusalSkipsOnline(s, target) ==
    IF GetDeviceId(s) = NoDevice THEN "NOT_REGISTERED"
    ELSE IF target \in {NoDevice, GetDeviceId(s)} THEN "INVALID_ID"
    ELSE IF \E d \in {GetDeviceId(s), target} : GetByDevice(d) # NoRoomId
    THEN "ALREADY_IN_SESSION"
    ELSE "ok"

RequestRefusal(s, target) ==
    IF GetDeviceId(s) = NoDevice THEN "NOT_REGISTERED"
    ELSE IF target = NoDevice THEN "INVALID_ID"
    ELSE IF target = GetDeviceId(s) THEN "SELF_CONNECT"
    ELSE IF \E d \in {GetDeviceId(s), target} : GetByDevice(d) # NoRoomId
    THEN "ALREADY_IN_SESSION"
    ELSE IF ~Connected(target) THEN "DEVICE_OFFLINE"
    ELSE "ok"

ConnectionRequest(s, target, r, token) ==
    /\ conn[s] = "open"
    /\ RequestRefusal(s, target) = "ok"
    /\ rooms[r].status = "unused"
    /\ CreatePending(r, GetDeviceId(s), target, s)
    /\ joined' = [joined EXCEPT ![r] = @ \cup {s}]
    /\ EmitTo({GetSocket(target)},
              RoomEvent("incoming-connection", r, GetDeviceId(s), token, NoReason))
    /\ AckOk(s, r)
    /\ UNCHANGED <<registryVars, conn, sweepIn>>

ConnectionRequestRefused(s, target) ==
    /\ conn[s] = "open"
    /\ RequestRefusal(s, target) # "ok"
    /\ AckErr(s, RequestRefusal(s, target))

\* Fault: whoever knows the room may accept.
AcceptRefusalSkipsHost(s, r) ==
    IF GetDeviceId(s) = NoDevice THEN "NOT_REGISTERED"
    ELSE IF ~Pending(r) THEN "ROOM_NOT_FOUND"
    ELSE "ok"

AcceptRefusal(s, r) ==
    IF GetDeviceId(s) = NoDevice THEN "NOT_REGISTERED"
    ELSE IF ~Live(r) THEN "ROOM_NOT_FOUND"
    ELSE IF rooms[r].host # GetDeviceId(s) \/ rooms[r].status # "pending"
    THEN "UNAUTHORIZED"
    ELSE "ok"

\* Fault: the host never joins the socket.io room.
ConnectionAcceptedWithoutJoin(s, r) ==
    /\ conn[s] = "open"
    /\ AcceptRefusal(s, r) = "ok"
    /\ Accept(r, s)
    /\ EmitTo({rooms[r].clientSocket},
              RoomEvent("connection-accepted", r, GetDeviceId(s), NoPayload, NoReason))
    /\ AckOk(s, r)
    /\ UNCHANGED <<registryVars, conn, joined, sweepIn>>

ConnectionAccepted(s, r) ==
    /\ conn[s] = "open"
    /\ AcceptRefusal(s, r) = "ok"
    /\ Accept(r, s)
    /\ joined' = [joined EXCEPT ![r] = @ \cup {s}]
    /\ EmitTo({rooms[r].clientSocket},
              RoomEvent("connection-accepted", r, GetDeviceId(s), NoPayload, NoReason))
    /\ AckOk(s, r)
    /\ UNCHANGED <<registryVars, conn, sweepIn>>

ConnectionAcceptedRefused(s, r) ==
    /\ conn[s] = "open"
    /\ AcceptRefusal(s, r) # "ok"
    /\ AckErr(s, AcceptRefusal(s, r))

RejectRefusal(s, r) ==
    IF GetDeviceId(s) = NoDevice THEN "NOT_REGISTERED"
    ELSE IF ~Live(r) THEN "ROOM_NOT_FOUND"
    ELSE IF rooms[r].host # GetDeviceId(s) THEN "UNAUTHORIZED"
    ELSE "ok"

ConnectionRejected(s, r, why) ==
    /\ conn[s] = "open"
    /\ RejectRefusal(s, r) = "ok"
    /\ Remove(r)
    /\ EmitTo({rooms[r].clientSocket},
              RoomEvent("connection-rejected", r, GetDeviceId(s), NoPayload, why))
    /\ AckOk(s, r)
    /\ UNCHANGED <<registryVars, conn, joined, sweepIn>>

ConnectionRejectedRefused(s, r) ==
    /\ conn[s] = "open"
    /\ RejectRefusal(s, r) # "ok"
    /\ AckErr(s, RejectRefusal(s, r))

-----------------------------------------------------------------------------
(* Leaving a room *)

\* Without a well-formed room id the device's own room is meant.
RoomToLeave(s, r) == IF r = NoRoomId THEN GetByDevice(GetDeviceId(s)) ELSE r

\* Fault: any registered device may release any room.
DisconnectRefusalSkipsParties(s, r) ==
    IF GetDeviceId(s) = NoDevice THEN "NOT_REGISTERED"
    ELSE IF ~Live(RoomToLeave(s, r)) THEN "ROOM_NOT_FOUND"
    ELSE "ok"

DisconnectRefusal(s, r) ==
    IF GetDeviceId(s) = NoDevice THEN "NOT_REGISTERED"
    ELSE IF ~Live(RoomToLeave(s, r)) THEN "ROOM_NOT_FOUND"
    ELSE IF GetDeviceId(s) \notin Parties(RoomToLeave(s, r)) THEN "UNAUTHORIZED"
    ELSE "ok"

\* The broadcast reaches whoever joined the room, the sender included; the
\* host of a pending room has not joined it.
DisconnectDevice(s, r) ==
    LET q == RoomToLeave(s, r)
    IN  /\ conn[s] = "open"
        /\ DisconnectRefusal(s, r) = "ok"
        /\ Remove(q)
        /\ EmitTo(joined[q], PeerDisconnected(q, "left"))
        /\ AckOk(s, q)
        /\ UNCHANGED <<registryVars, conn, joined, sweepIn>>

DisconnectDeviceRefused(s, r) ==
    /\ conn[s] = "open"
    /\ DisconnectRefusal(s, r) # "ok"
    /\ AckErr(s, DisconnectRefusal(s, r))

-----------------------------------------------------------------------------
(* WebRTC relay *)

\* An offer is sent by the client, an answer by the host.
SessionRefusal(s, r, sender) ==
    IF GetDeviceId(s) = NoDevice THEN "NOT_REGISTERED"
    ELSE IF ~Live(r) THEN "ROOM_NOT_FOUND"
    ELSE IF rooms[r].status # "accepted" \/ rooms[r][sender] # GetDeviceId(s)
    THEN "UNAUTHORIZED"
    ELSE IF ~Connected(OtherParty(r, GetDeviceId(s))) THEN "DEVICE_OFFLINE"
    ELSE "ok"

\* Fault: a candidate is relayed whoever sends it.
IceRefusalSkipsParties(s, r) ==
    IF GetDeviceId(s) = NoDevice THEN "NOT_REGISTERED"
    ELSE IF ~Accepted(r) THEN "ROOM_NOT_FOUND"
    ELSE IF ~Connected(OtherParty(r, GetDeviceId(s))) THEN "DEVICE_OFFLINE"
    ELSE "ok"

IceRefusal(s, r) ==
    IF GetDeviceId(s) = NoDevice THEN "NOT_REGISTERED"
    ELSE IF ~Accepted(r) THEN "ROOM_NOT_FOUND"
    ELSE IF GetDeviceId(s) \notin Parties(r) THEN "UNAUTHORIZED"
    ELSE IF ~Connected(OtherParty(r, GetDeviceId(s))) THEN "DEVICE_OFFLINE"
    ELSE "ok"

RelayRefusal(s, r, name) ==
    CASE name = "webrtc-offer" -> SessionRefusal(s, r, "client")
      [] name = "webrtc-answer" -> SessionRefusal(s, r, "host")
      [] name = "ice-candidate" -> IceRefusal(s, r)

RelayName == {"webrtc-offer", "webrtc-answer", "ice-candidate"}

Relay(s, r, name, payload) ==
    /\ conn[s] = "open"
    /\ RelayRefusal(s, r, name) = "ok"
    /\ EmitTo({GetSocket(OtherParty(r, GetDeviceId(s)))}, Relayed(name, r, payload))
    /\ AckOk(s, r)
    /\ UNCHANGED <<registryVars, roomVars, conn, joined, sweepIn>>

RelayRefused(s, r, name) ==
    /\ conn[s] = "open"
    /\ RelayRefusal(s, r, name) # "ok"
    /\ AckErr(s, RelayRefusal(s, r, name))

-----------------------------------------------------------------------------
(* The sweep of expired pending rooms *)

\* Time passes; setInterval never fires early and at most SweepLateness late.
Tick ==
    /\ sweepIn > -SweepLateness
    /\ sweepIn' = sweepIn - 1
    /\ AgeRooms
    /\ ack' = NoAck
    /\ Silent
    /\ UNCHANGED <<registryVars, conn, joined>>

SweepExpired ==
    /\ sweepIn <= 0
    /\ sweepIn' = PendingRoomTtl
    /\ RemoveAll(ExpiredPending)
    /\ sent' = [x \in Sockets |->
                   LET mine == {r \in ExpiredPending :
                                   x \in {rooms[r].clientSocket,
                                          GetSocket(rooms[r].host)}}
                   IN  IF mine = {} THEN <<>>
                       ELSE To({x}, PeerDisconnected(CHOOSE r \in mine : TRUE,
                                                     "timeout"), x)]
    /\ ack' = NoAck
    /\ UNCHANGED <<registryVars, conn, joined>>

-----------------------------------------------------------------------------
FromClient(s) ==
    \/ SocketConnect(s)
    \/ SocketDisconnect(s)
    \/ RegisterDevice(s)
    \/ RegisterMalformed(s)
    \/ \E target \in Devices, r \in RoomIds, token \in Payloads :
          ConnectionRequest(s, target, r, token)
    \/ \E target \in Devices \cup {NoDevice} :
          ConnectionRequestRefused(s, target)
    \/ \E r \in RoomIds : ConnectionAccepted(s, r)
    \/ \E r \in RoomIds, why \in RejectionReason : ConnectionRejected(s, r, why)
    \/ \E r \in RoomIds, name \in RelayName, payload \in Payloads :
          Relay(s, r, name, payload)
    \/ \E r \in RoomIds \cup {NoRoomId} :
          \/ DisconnectDevice(s, r)
          \/ ConnectionAcceptedRefused(s, r)
          \/ ConnectionRejectedRefused(s, r)
          \/ DisconnectDeviceRefused(s, r)
          \/ \E name \in RelayName : RelayRefused(s, r, name)

Next ==
    \/ \E s \in Sockets : FromClient(s)
    \/ Tick
    \/ SweepExpired

\* Clients act when they like; the clock and Node's interval timer do not stop.
Fairness == WF_vars(Tick) /\ WF_vars(SweepExpired)

Spec == Init /\ [][Next]_vars
FairSpec == Spec /\ Fairness

-----------------------------------------------------------------------------
(* Properties *)

\* Every live room joins two devices that are both connected now, and the
\* socket ids stored in it are their current sockets: a room never outlives
\* the connection of a party, whether it closed or was taken over by another
\* socket of the same device.
PartiesPresent ==
    \A r \in RoomIds :
        Live(r) =>
            /\ Open(rooms[r].clientSocket)
            /\ GetSocket(rooms[r].client) = rooms[r].clientSocket
            /\ Connected(rooms[r].host)
            /\ rooms[r].hostSocket =
                  IF Accepted(r) THEN GetSocket(rooms[r].host) ELSE NoSocket

\* The socket.io room a broadcast goes to holds exactly the sockets of the
\* session: the requester while pending, both parties once accepted.
MembersMatchRoom ==
    \A r \in RoomIds :
        Live(r) => joined[r] =
            {rooms[r].clientSocket, rooms[r].hostSocket} \ {NoSocket}

\* No request stays pending for two TTLs: the sweep runs once per TTL, so a
\* request is removed at the latest by the second sweep after it was made.
PendingRoomBounded ==
    \A r \in RoomIds :
        Pending(r) => rooms[r].age < 2 * PendingRoomTtl + SweepLateness

\* What makes the invariants above inductive: a registered socket is open and
\* speaks for its own device, an id not minted yet has no members, and the age
\* of a request and the sweep's countdown are bounded together.
SocketIdentity ==
    \A s \in Sockets :
        GetDeviceId(s) # NoDevice => GetDeviceId(s) = DeviceOf[s] /\ Open(s)

UnusedEmpty ==
    \A r \in RoomIds : rooms[r].status = "unused" => joined[r] = {}

SweepKeepsUp ==
    \A r \in RoomIds :
        Pending(r) => rooms[r].age + sweepIn < 2 * PendingRoomTtl

\* The inductive invariant of the server: it implies every state invariant
\* of this module.
ServerInv ==
    /\ RegistryConsistent
    /\ SocketIdentity
    /\ RoomIndexConsistent
    /\ PartiesPresent
    /\ MembersMatchRoom
    /\ UnusedEmpty
    /\ SweepKeepsUp

Ends(r) == Live(r) /\ ~Live(r)'

Told(x, r) ==
    \E i \in DOMAIN sent'[x] :
        /\ sent'[x][i].room = r
        /\ sent'[x][i].name \in {"peer-disconnected", "connection-rejected"}

\* When a room ends, the requester's socket, and the host's once it accepted,
\* is told by that step if it is still open, or is the one that asked for it and
\* gets the acknowledgement: the broadcast to the socket.io room misses nobody.
EndIsAnnounced ==
    [][\A r \in RoomIds : Ends(r) =>
          \A x \in {rooms[r].clientSocket, rooms[r].hostSocket} :
              Open(x)' => Told(x, r) \/ ack'.to = x]_vars

\* A room is ended by a request of one of its parties, by one of their sockets
\* closing, or by the sweep once it is an unanswered request of TTL age: never
\* by a third device, and an accepted session never by the sweep.
EndedByPartyOrTtl ==
    [][\A r \in RoomIds : Ends(r) =>
          \/ ack'.to \in Sockets /\ DeviceOf[ack'.to] \in Parties(r)
          \/ \E d \in Parties(r) : Connected(d) /\ ~Open(GetSocket(d))'
          \/ Pending(r) /\ rooms[r].age >= PendingRoomTtl]_vars

\* An SDP or ICE message goes from one party of an accepted session to the
\* other and to nobody else, offers from client to host and answers from host
\* to client, although the target is looked up by device and not by room.
RelayStaysInSession ==
    [][\A x \in Sockets : \A i \in DOMAIN sent'[x] :
          LET e == sent'[x][i]
          IN  e.name \in RelayName =>
                /\ Accepted(e.room)
                /\ {x, ack'.to} =
                      {rooms[e.room].clientSocket, rooms[e.room].hostSocket}
                /\ x # ack'.to
                /\ e.name = "webrtc-offer" => x = rooms[e.room].hostSocket
                /\ e.name = "webrtc-answer" => x = rooms[e.room].clientSocket]_vars

\* A session starts only by the current socket of the requested host accepting
\* the pending request, and the requester hears of it in the same step.
SessionNeedsConsent ==
    [][\A r \in RoomIds : ~Accepted(r) /\ Accepted(r)' =>
          /\ Pending(r)
          /\ Parties(r)' = Parties(r)
          /\ ack'.to = GetSocket(rooms[r].host)
          /\ \E i \in DOMAIN sent'[rooms[r].clientSocket] :
                sent'[rooms[r].clientSocket][i].name = "connection-accepted"]_vars

\* Nobody waits for ever: every request is answered, released or swept, also
\* when its host never answers.  That the requester is told is EndIsAnnounced
\* and SessionNeedsConsent.
PendingEnds == \A r \in RoomIds : Pending(r) ~> ~Pending(r)

-----------------------------------------------------------------------------
(* The abstract specification this one implements *)

CallOf(d) ==
    LET r == byDevice[d]
    IN  IF r = NoRoomId
        THEN [role |-> "none", peer |-> NoDevice, phase |-> "none"]
        ELSE [role |-> IF rooms[r].client = d THEN "client" ELSE "host",
              peer |-> OtherParty(r, d),
              phase |-> rooms[r].status]

Directory ==
    INSTANCE SessionDirectory
        WITH online <- {d \in Devices : GetSocket(d) # NoSocket},
             call <- [d \in Devices |-> CallOf(d)]

\* The server keeps the promise of SessionDirectory, read through its index:
\* each handler is one step of a directory of paired calls, or none.
ServerRefinement == Directory!DirectorySpec
=============================================================================
