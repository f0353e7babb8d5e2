----------------------------- MODULE Signaling -----------------------------
(***************************************************************************)
(* The signaling vocabulary of src/shared/signaling.ts: identities, error  *)
(* codes, event names and the payloads the server emits.                   *)
(*                                                                         *)
(* Device ids, socket ids and room ids are opaque values; a token, an SDP  *)
(* text or an ICE candidate is one of Payloads.  A payload that its parser *)
(* rejects is represented by the null of the field the handler reads       *)
(* (NoDevice for a device id, NoRoomId for a room id): the parsers reject  *)
(* by returning null and every handler then takes its error branch.        *)
(***************************************************************************)
EXTENDS Integers, Sequences

CONSTANTS
    Devices,          \* device ids (LAN-XXXX-XXXX)
    Sockets,          \* socket ids; a reconnect is a fresh socket
    RoomIds,          \* UUIDs the server may mint
    Payloads,         \* tokens, SDP texts and ICE candidates
    NoDevice, NoSocket, NoRoomId, NoPayload,
    DeviceOf,         \* the device id of the application behind each socket
    PendingRoomTtl,   \* PENDING_ROOM_TTL_MS in clock ticks
    SweepLateness     \* how many ticks late the sweep's timer may fire

\* The app keeps one device id per process and registers it on every connect
\* (SignalingService.connect), so a socket speaks for one device only.
ASSUME DeviceAssumption ==
    /\ NoDevice \notin Devices
    /\ NoSocket \notin Sockets
    /\ NoRoomId \notin RoomIds
    /\ NoPayload \notin Payloads
    /\ DeviceOf \in [Sockets -> Devices]

ASSUME TimingAssumption ==
    /\ PendingRoomTtl \in Nat \ {0}
    /\ SweepLateness \in Nat

SignalingErrorCode ==
    {"INVALID_ID", "SELF_CONNECT", "DEVICE_OFFLINE", "NOT_REGISTERED",
     "ALREADY_IN_SESSION", "UNAUTHORIZED", "ROOM_NOT_FOUND"}

EventName ==
    {"device-online", "device-offline", "incoming-connection",
     "connection-accepted", "connection-rejected", "webrtc-offer",
     "webrtc-answer", "ice-candidate", "peer-disconnected"}

RejectionReason == {"declined", "invalid-token"}
DisconnectReason == {"left", "offline", "timeout"}
NoReason == "none"

\* One emitted event.  `device` and `reason` are null where the payload has
\* no such field.
Event ==
    [name : EventName, room : RoomIds \cup {NoRoomId},
     device : Devices \cup {NoDevice}, payload : Payloads \cup {NoPayload},
     reason : RejectionReason \cup DisconnectReason \cup {NoReason}]

RoomEvent(name, r, d, p, why) ==
    [name |-> name, room |-> r, device |-> d, payload |-> p, reason |-> why]

Presence(name, d) == RoomEvent(name, NoRoomId, d, NoPayload, NoReason)
PeerDisconnected(r, why) ==
    RoomEvent("peer-disconnected", r, NoDevice, NoPayload, why)
Relayed(name, r, p) == RoomEvent(name, r, NoDevice, p, NoReason)

\* SignalingAck: ok with an optional room id, or one error code.
Ack == [to : Sockets, code : SignalingErrorCode \cup {"ok"},
        room : RoomIds \cup {NoRoomId}]
NoAck == [to |-> NoSocket, code |-> "none", room |-> NoRoomId]
=============================================================================
