--------------------------- MODULE SessionDirectory ---------------------------
(***************************************************************************)
(* What the signaling server promises to devices, without sockets, rooms   *)
(* or indices: each device is idle or in one call with one other device;   *)
(* a call is asked for by its client, accepted by its host, and ends for   *)
(* both at once.  SignalingServer implements it (ServerRefinement).        *)
(***************************************************************************)
CONSTANTS
    Devices,
    NoDevice   \* not a device: the peer of an idle one

VARIABLES
    online,   \* the devices that are registered
    call      \* device -> its place in a call

directoryVars == <<online, call>>

Idle == [role |-> "none", peer |-> NoDevice, phase |-> "none"]
Call(role, peer, phase) == [role |-> role, peer |-> peer, phase |-> phase]

DirectoryTypeOK ==
    /\ online \subseteq Devices
    /\ call \in [Devices ->
                    [role : {"none", "client", "host"},
                     peer : Devices \cup {NoDevice},
                     phase : {"none", "pending", "accepted"}]]

DirectoryInit ==
    /\ online = {}
    /\ call = [d \in Devices |-> Idle]

WithPeers(D) == D \cup {call[d].peer : d \in D}
HangUp(D) ==
    call' = [d \in Devices |-> IF d \in WithPeers(D) THEN Idle ELSE call[d]]

\* A device comes online, or a fresh connection takes it over: a call of the
\* connection it replaces is over.
Appear(d) ==
    /\ online' = online \cup {d}
    /\ \/ d \in online /\ HangUp({d})
       \/ UNCHANGED call

Disappear(d) ==
    /\ d \in online
    /\ online' = online \ {d}
    /\ HangUp({d})

Request(c, h) ==
    /\ c # h
    /\ {c, h} \subseteq online
    /\ call[c] = Idle /\ call[h] = Idle
    /\ call' = [call EXCEPT ![c] = Call("client", h, "pending"),
                            ![h] = Call("host", c, "pending")]
    /\ UNCHANGED online

AcceptCall(h) ==
    /\ call[h].role = "host"
    /\ call[h].phase = "pending"
    /\ call' = [call EXCEPT ![h].phase = "accepted",
                            ![call[h].peer].phase = "accepted"]
    /\ UNCHANGED online

\* A party ends its call in any phase.
Leave(d) ==
    /\ call[d] # Idle
    /\ HangUp({d})
    /\ UNCHANGED online

\* Requests nobody answered are given up, several at once.
GiveUp ==
    /\ \E D \in SUBSET {d \in Devices : call[d].phase = "pending"} : HangUp(D)
    /\ UNCHANGED online

DirectoryNext ==
    \/ \E d \in Devices : Appear(d) \/ Disappear(d) \/ AcceptCall(d) \/ Leave(d)
    \/ \E c, h \in Devices : Request(c, h)
    \/ GiveUp

DirectorySpec == DirectoryInit /\ [][DirectoryNext]_directoryVars

-----------------------------------------------------------------------------
\* The two ends of a call agree on it, and only online devices are in one:
\* nobody is left talking to a device that went idle, offline or to a third.
CallsPaired ==
    \A d \in Devices :
        call[d] # Idle =>
            LET p == call[d].peer
            IN  /\ {d, p} \subseteq online
                /\ p # d
                /\ call[p].peer = d
                /\ call[p].phase = call[d].phase
                /\ {call[d].role, call[p].role} = {"client", "host"}
=============================================================================
