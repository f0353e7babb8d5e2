----------------------- MODULE SessionDirectoryProofs -----------------------
(***************************************************************************)
(* The promise the abstract directory is worth having for: calls are       *)
(* paired.  SignalingServer implements it (ServerPromiseProofs), and so    *)
(* keeps the same promise of its index.                                    *)
(***************************************************************************)
EXTENDS SessionDirectory, TLAPS

\* Pairs are kept by every step as they stand: the invariant is inductive.
DirectoryInv == DirectoryTypeOK /\ CallsPaired

LEMMA DirectoryStarts == DirectoryInit => DirectoryInv
  BY DEF DirectoryInit, DirectoryInv, DirectoryTypeOK, CallsPaired, Idle

\* Hanging up on devices, with everybody they are in a call with, leaves the
\* other calls whole.
LEMMA HangUpKeepsPairs ==
  ASSUME NoDevice \notin Devices, DirectoryInv, NEW D \in SUBSET Devices, HangUp(D),
         online' \in SUBSET Devices,
         \A d \in Devices : d \in online /\ d \notin online' => d \in D
  PROVE  DirectoryInv'
<1>1. call' \in [Devices -> [role : {"none", "client", "host"},
                             peer : Devices \cup {NoDevice},
                             phase : {"none", "pending", "accepted"}]]
  BY DEF HangUp, Idle, DirectoryInv, DirectoryTypeOK
<1>2. ASSUME NEW d \in Devices, call'[d] # Idle
      PROVE  LET p == call'[d].peer
             IN  /\ {d, p} \subseteq online'
                 /\ p # d
                 /\ call'[p].peer = d
                 /\ call'[p].phase = call'[d].phase
                 /\ {call'[d].role, call'[p].role} = {"client", "host"}
  <2> DEFINE p == call[d].peer
  <2>1. d \notin WithPeers(D) /\ call'[d] = call[d] /\ call[d] # Idle
    BY <1>2 DEF HangUp
  <2>2. /\ {d, p} \subseteq online /\ p # d /\ call[p].peer = d
        /\ call[p].phase = call[d].phase
        /\ {call[d].role, call[p].role} = {"client", "host"}
    BY <2>1 DEF DirectoryInv, CallsPaired
  <2>3. p \in Devices
    BY <2>2 DEF DirectoryInv, DirectoryTypeOK
  <2>4. d \notin D /\ \A e \in D : call[e].peer # d
    BY <2>1 DEF WithPeers
  <2>5. p \notin D
    BY <2>2, <2>4
  <2>6. ASSUME NEW e \in D, call[e].peer = p PROVE FALSE
    <3>1. e \in Devices /\ call[e] # Idle
      BY <2>3, <2>6 DEF Idle
    <3>2. call[p].peer = e
      BY <3>1, <2>6 DEF DirectoryInv, CallsPaired
    <3> QED BY <3>2, <2>2, <2>4
  <2>7. call'[p] = call[p]
    BY <2>3, <2>5, <2>6 DEF HangUp, WithPeers
  <2>8. {d, p} \subseteq online'
    BY <2>2, <2>3, <2>4, <2>5
  <2> QED BY <2>1, <2>2, <2>7, <2>8
<1>3. CallsPaired'
  BY <1>2 DEF CallsPaired, Idle
<1> QED BY <1>1, <1>3 DEF DirectoryInv, DirectoryTypeOK

LEMMA DirectoryStepKeepsPairs ==
  ASSUME NoDevice \notin Devices, DirectoryInv, [DirectoryNext]_directoryVars
  PROVE  DirectoryInv'
<1> USE DEF DirectoryInv, DirectoryTypeOK
<1>1. ASSUME NEW d \in Devices, Appear(d) PROVE DirectoryInv'
  <2>1. online' = online \cup {d}
    BY <1>1 DEF Appear
  <2>2. CASE HangUp({d})
    BY <2>1, <2>2, HangUpKeepsPairs
  <2>3. CASE UNCHANGED call
    BY <2>1, <2>3 DEF CallsPaired, Idle
  <2> QED BY <1>1, <2>2, <2>3 DEF Appear
<1>2. ASSUME NEW d \in Devices, Disappear(d) PROVE DirectoryInv'
  BY <1>2, HangUpKeepsPairs DEF Disappear
<1>3. ASSUME NEW h \in Devices, AcceptCall(h) PROVE DirectoryInv'
  <2> DEFINE q == call[h].peer
  <2>1. /\ call[h] # Idle /\ call[h].phase = "pending" /\ UNCHANGED online
        /\ call' = [call EXCEPT ![h].phase = "accepted", ![q].phase = "accepted"]
    BY <1>3 DEF AcceptCall, Idle
  <2>2. q \in Devices /\ q # h /\ call[q].peer = h
    BY <2>1 DEF CallsPaired
  <2>3. \A d \in Devices :
           /\ call'[d].peer = call[d].peer /\ call'[d].role = call[d].role
           /\ call'[d].phase = IF d \in {h, q} THEN "accepted" ELSE call[d].phase
    BY <2>1, <2>2
  <2>4. \A d \in Devices : call'[d] # Idle => call[d] # Idle
    BY <2>1, <2>2, <2>3 DEF CallsPaired, Idle
  <2>5. call' \in [Devices -> [role : {"none", "client", "host"},
                               peer : Devices \cup {NoDevice},
                               phase : {"none", "pending", "accepted"}]]
    BY <2>1, <2>2
  <2>6. CallsPaired'
    <3> SUFFICES ASSUME NEW d \in Devices, call'[d] # Idle
                 PROVE  LET p == call'[d].peer
                        IN  /\ {d, p} \subseteq online'
                            /\ p # d
                            /\ call'[p].peer = d
                            /\ call'[p].phase = call'[d].phase
                            /\ {call'[d].role, call'[p].role} = {"client", "host"}
      BY DEF CallsPaired, Idle
    <3> DEFINE p == call[d].peer
    <3>1. /\ {d, p} \subseteq online /\ p # d /\ call[p].peer = d
          /\ call[p].phase = call[d].phase
          /\ {call[d].role, call[p].role} = {"client", "host"}
      BY <2>4 DEF CallsPaired
    <3>2. p \in Devices /\ (d \in {h, q} <=> p \in {h, q})
      BY <3>1, <2>2
    <3>3. call'[d].peer = p /\ call'[p].peer = d /\ call'[p].phase = call'[d].phase
      BY <3>1, <3>2, <2>3
    <3>4. call'[d].role = call[d].role /\ call'[p].role = call[p].role
      BY <3>2, <2>3
    <3>5. {call'[d].role, call'[p].role} = {"client", "host"} /\ {d, p} \subseteq online'
      BY <3>1, <3>4, <2>1
    <3> QED BY <3>1, <3>3, <3>5
  <2> QED BY <2>1, <2>5, <2>6
<1>4. ASSUME NEW d \in Devices, Leave(d) PROVE DirectoryInv'
  BY <1>4, HangUpKeepsPairs DEF Leave
<1>5. ASSUME NEW c \in Devices, NEW h \in Devices, Request(c, h) PROVE DirectoryInv'
  <2>1. /\ c # h /\ {c, h} \subseteq online /\ UNCHANGED online
        /\ call[c] = Idle /\ call[h] = Idle
        /\ call' = [call EXCEPT ![c] = Call("client", h, "pending"),
                                ![h] = Call("host", c, "pending")]
    BY <1>5 DEF Request
  <2>2. \A d \in Devices : call[d] # Idle => call[d].peer \notin {c, h}
    BY <2>1 DEF CallsPaired, Idle
  <2>3. /\ call'[c] = Call("client", h, "pending") /\ call'[h] = Call("host", c, "pending")
        /\ \A d \in Devices \ {c, h} : call'[d] = call[d]
    BY <2>1
  <2>4. call' \in [Devices -> [role : {"none", "client", "host"},
                               peer : Devices \cup {NoDevice},
                               phase : {"none", "pending", "accepted"}]]
    BY <2>1 DEF Call
  <2>5. CallsPaired'
    <3> SUFFICES ASSUME NEW d \in Devices, call'[d] # Idle
                 PROVE  LET p == call'[d].peer
                        IN  /\ {d, p} \subseteq online'
                            /\ p # d
                            /\ call'[p].peer = d
                            /\ call'[p].phase = call'[d].phase
                            /\ {call'[d].role, call'[p].role} = {"client", "host"}
      BY DEF CallsPaired, Idle
    <3>1. CASE d \in {c, h}
      BY <3>1, <2>1, <2>3 DEF Call
    <3>2. CASE d \notin {c, h}
      <4>1. call'[d] = call[d] /\ call[d] # Idle
        BY <3>2, <2>3
      <4>2. /\ {d, call[d].peer} \subseteq online /\ call[d].peer # d
            /\ call[call[d].peer].peer = d
            /\ call[call[d].peer].phase = call[d].phase
            /\ {call[d].role, call[call[d].peer].role} = {"client", "host"}
        BY <4>1 DEF CallsPaired
      <4>3. call'[call[d].peer] = call[call[d].peer]
        BY <4>1, <4>2, <2>2, <2>3
      <4> QED BY <4>1, <4>2, <4>3, <2>1
    <3> QED BY <3>1, <3>2
  <2> QED BY <2>1, <2>4, <2>5
<1>6. ASSUME GiveUp PROVE DirectoryInv'
  BY <1>6, HangUpKeepsPairs DEF GiveUp
<1>7. CASE UNCHANGED directoryVars
  BY <1>7 DEF directoryVars, CallsPaired, Idle
<1> QED BY <1>1, <1>2, <1>3, <1>4, <1>5, <1>6, <1>7 DEF DirectoryNext

\* Both ends of a call agree on it and are online, however many devices there are
\* and in whatever order they come, go, ask, accept and leave: what the rooms
\* and their index by device (connectionRooms.ts) promise to the devices.
THEOREM DirectoryPairsCalls ==
  ASSUME NoDevice \notin Devices
  PROVE  DirectorySpec => []CallsPaired
<1>1. DirectoryInit => DirectoryInv
  BY DirectoryStarts
<1>2. DirectoryInv /\ [DirectoryNext]_directoryVars => DirectoryInv'
  BY DirectoryStepKeepsPairs
<1>3. DirectoryInv => CallsPaired
  BY DEF DirectoryInv
<1> QED BY <1>1, <1>2, <1>3, PTL DEF DirectorySpec
=============================================================================
