-------------------------- MODULE MCSignalingServer --------------------------
(***************************************************************************)
(* Three devices on four connections: "a" may connect a second time, which *)
(* gives a takeover (the old socket still open) or a clean reconnect, as   *)
(* client or as host; "c" is a bystander that can also request and be      *)
(* requested.                                                              *)
(***************************************************************************)
EXTENDS SignalingServer

CONSTANTS a, b, c, a1, a2, b1, c1, r1, r2

MCDevices == {a, b, c}
MCSockets == {a1, a2, b1, c1}
MCRoomIds == {r1, r2}
MCDeviceOf ==
    [s \in MCSockets |-> CASE s \in {a1, a2} -> a [] s = b1 -> b [] s = c1 -> c]

\* No guard reads `sent` and `ack`, which every step overwrites: two states
\* that differ in them only have the same successors, and the action properties
\* are evaluated on every step out of the one that is kept.
StateView == <<registryVars, roomVars, conn, joined, sweepIn>>

\* Room ids are minted at random and never compared but for equality: the
\* second one is minted after the first.
RoomsInOrder ==
    rooms[r2].status = "unused" => rooms'[r2].status = "unused" \/ rooms[r1].status # "unused"
=============================================================================
