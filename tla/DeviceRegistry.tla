--------------------------- MODULE DeviceRegistry ---------------------------
(***************************************************************************)
(* src/server/socket/deviceRegistry.ts: which live socket speaks for which *)
(* device.  Two maps kept in step by hand.                                 *)
(***************************************************************************)
EXTENDS Signaling

VARIABLES
    byDeviceId,   \* device id -> its current socket
    bySocketId    \* socket id -> the device it registered

registryVars == <<byDeviceId, bySocketId>>

RegistryInit ==
    /\ byDeviceId = [d \in Devices |-> NoSocket]
    /\ bySocketId = [s \in Sockets |-> NoDevice]

RegistryTypeOK ==
    /\ byDeviceId \in [Devices -> Sockets \cup {NoSocket}]
    /\ bySocketId \in [Sockets -> Devices \cup {NoDevice}]

GetSocket(d) == byDeviceId[d]
GetDeviceId(s) == bySocketId[s]

\* The socket that register(d, s) returns: the one it takes d over from.
Displaced(d, s) == IF byDeviceId[d] = s THEN NoSocket ELSE byDeviceId[d]

\* Fault: the displaced socket keeps its entry in bySocketId.
RegisterKeepsDisplaced(d, s) ==
    /\ byDeviceId' = [byDeviceId EXCEPT ![d] = s]
    /\ bySocketId' = [bySocketId EXCEPT ![s] = d]

Register(d, s) ==
    /\ byDeviceId' = [byDeviceId EXCEPT ![d] = s]
    /\ bySocketId' = [x \in Sockets |->
                         IF x = s THEN d
                         ELSE IF x = Displaced(d, s) THEN NoDevice
                         ELSE bySocketId[x]]

\* A socket that was displaced no longer owns its device id and removes
\* nothing from byDeviceId.
UnregisterSocket(s) ==
    /\ byDeviceId' = [d \in Devices |->
                         IF d = bySocketId[s] /\ byDeviceId[d] = s
                         THEN NoSocket ELSE byDeviceId[d]]
    /\ bySocketId' = [bySocketId EXCEPT ![s] = NoDevice]

\* The two maps are inverse to each other: a registered socket is the current
\* socket of its device, and the current socket of a device is registered as
\* that device.  A stale half would route a relay to a dead socket, or let a
\* displaced socket keep acting for the device.
RegistryConsistent ==
    /\ \A s \in Sockets :
          GetDeviceId(s) # NoDevice => GetSocket(GetDeviceId(s)) = s
    /\ \A d \in Devices :
          GetSocket(d) # NoSocket => GetDeviceId(GetSocket(d)) = d
=============================================================================
