--------------------------- MODULE ConnectionRooms ---------------------------
(***************************************************************************)
(* src/server/rooms/connectionRooms.ts: rooms from pending request to      *)
(* accepted session, with the index from a device to its room.             *)
(*                                                                         *)
(* A room id is a fresh UUID: it goes "unused" -> "pending" -> "accepted"  *)
(* -> "removed" and is never minted again.  The map `rooms` of the code    *)
(* holds the ids that are pending or accepted.  `createdAt` is kept as the *)
(* age of the room, which only matters (and only grows) while pending.     *)
(***************************************************************************)
EXTENDS Signaling

VARIABLES
    rooms,     \* room id -> the room
    byDevice   \* device id -> the room it is in

roomVars == <<rooms, byDevice>>

RoomStatus == {"unused", "pending", "accepted", "removed"}

ConnectionRoom ==
    [client : Devices \cup {NoDevice}, host : Devices \cup {NoDevice},
     clientSocket : Sockets \cup {NoSocket},
     hostSocket : Sockets \cup {NoSocket},
     status : RoomStatus, age : Nat]

NoRoom(status) ==
    [client |-> NoDevice, host |-> NoDevice, clientSocket |-> NoSocket,
     hostSocket |-> NoSocket, status |-> status, age |-> 0]

RoomsInit ==
    /\ rooms = [r \in RoomIds |-> NoRoom("unused")]
    /\ byDevice = [d \in Devices |-> NoRoomId]

RoomsTypeOK ==
    /\ rooms \in [RoomIds -> ConnectionRoom]
    /\ byDevice \in [Devices -> RoomIds \cup {NoRoomId}]

\* rooms.get(r) finds a room; never for a malformed room id.
Live(r) == r \in RoomIds /\ rooms[r].status \in {"pending", "accepted"}
Pending(r) == Live(r) /\ rooms[r].status = "pending"
Accepted(r) == Live(r) /\ rooms[r].status = "accepted"
Parties(r) == {rooms[r].client, rooms[r].host}

GetByDevice(d) == IF Live(byDevice[d]) THEN byDevice[d] ELSE NoRoomId

CreatePending(r, client, host, s) ==
    /\ rooms' = [rooms EXCEPT ![r] =
                    [client |-> client, host |-> host, clientSocket |-> s,
                     hostSocket |-> NoSocket, status |-> "pending",
                     age |-> 0]]
    /\ byDevice' = [d \in Devices |->
                       IF d \in {client, host} THEN r ELSE byDevice[d]]

\* Fault: the host's device id is stored where its socket id belongs.
AcceptStoresDevice(r, s) ==
    /\ rooms' = [rooms EXCEPT ![r].status = "accepted", ![r].hostSocket = rooms[r].host]
    /\ UNCHANGED byDevice

Accept(r, s) ==
    /\ rooms' = [rooms EXCEPT ![r] =
                    IF Pending(r)
                    THEN [@ EXCEPT !.status = "accepted", !.hostSocket = s]
                    ELSE @]
    /\ UNCHANGED byDevice

\* Fault: the index entry of the host survives the room.
RemoveAllKeepsHost(R) ==
    /\ rooms' = [r \in RoomIds |->
                    IF r \in R THEN NoRoom("removed") ELSE rooms[r]]
    /\ byDevice' = [d \in Devices |->
                       IF \E r \in R : d = rooms[r].client
                       THEN NoRoomId ELSE byDevice[d]]

\* remove(r) for every r of a set: one room, or the ones a sweep expired.
RemoveAll(R) ==
    /\ rooms' = [r \in RoomIds |->
                    IF r \in R THEN NoRoom("removed") ELSE rooms[r]]
    /\ byDevice' = [d \in Devices |->
                       IF \E r \in R : d \in Parties(r)
                       THEN NoRoomId ELSE byDevice[d]]

Remove(r) == RemoveAll({r})

\* Fault: a room of exactly the TTL's age is kept for one more sweep.
ExpiredPendingStrict ==
    {r \in RoomIds : Pending(r) /\ rooms[r].age > PendingRoomTtl}

ExpiredPending ==
    {r \in RoomIds : Pending(r) /\ rooms[r].age >= PendingRoomTtl}

\* Fault: a pending room does not grow older, as if createdAt were set anew.
AgeRoomsRenewed == UNCHANGED <<rooms, byDevice>>

\* One tick of the wall clock that createdAt is compared with.
AgeRooms ==
    /\ rooms' = [r \in RoomIds |->
                    IF Pending(r) THEN [rooms[r] EXCEPT !.age = @ + 1]
                    ELSE rooms[r]]
    /\ UNCHANGED byDevice

\* The index and the rooms agree: a device is indexed to r exactly when r is
\* live and the device is one of its two, different, parties.  Hence at most
\* one room per device, and no removed room keeps a device "in session".
RoomIndexConsistent ==
    /\ \A d \in Devices, r \in RoomIds :
          byDevice[d] = r <=> Live(r) /\ d \in Parties(r)
    /\ \A r \in RoomIds :
          Live(r) => /\ Parties(r) \subseteq Devices
                     /\ rooms[r].client # rooms[r].host
=============================================================================
