------------------------------- MODULE Session -------------------------------
(***************************************************************************)
(* Applications and server together: every application runs               *)
(* RendererSession, the server is SignalingServer, and between them is one *)
(* ordered connection per socket.  The server takes a message off the      *)
(* outbox of a socket, runs the handler, and what the handler emitted and  *)
(* acknowledged goes to the inboxes, an event before the acknowledgement.  *)
(***************************************************************************)
EXTENDS SignalingServer, RendererSession

CONSTANT Token   \* the code that requests present; main says if it is right

ASSUME TokenAssumption == Token \in Payloads /\ Pcs \subseteq Payloads

allVars == <<vars, sessionVars>>

\* A room id that was never minted before.
FreshRoom == CHOOSE r \in RoomIds : rooms[r].status = "unused"
SomeRoomLeft == \E r \in RoomIds : rooms[r].status = "unused"

\* The handler of the message m.  Every message is well-formed.
Serve(s, m) ==
    \/ m.op = "register" /\ RegisterDevice(s)
    \/ /\ m.op = "request" /\ m.target \in Devices
       /\ \/ SomeRoomLeft /\ ConnectionRequest(s, m.target, FreshRoom, Token)
          \/ ConnectionRequestRefused(s, m.target)
    \/ /\ m.room \in RoomIds
       /\ \/ /\ m.op = "accept"
             /\ ConnectionAccepted(s, m.room) \/ ConnectionAcceptedRefused(s, m.room)
          \/ /\ m.op = "decline"
             /\ \/ ConnectionRejected(s, m.room, "declined")
                \/ ConnectionRejectedRefused(s, m.room)
          \/ /\ m.op = "turn-away"
             /\ \/ ConnectionRejected(s, m.room, "invalid-token")
                \/ ConnectionRejectedRefused(s, m.room)
          \/ /\ m.op \in {"leave", "hangup"}
             /\ DisconnectDevice(s, m.room) \/ DisconnectDeviceRefused(s, m.room)
          \/ \E name \in {"webrtc-offer", "webrtc-answer"} :
                /\ m.op = (IF name = "webrtc-offer" THEN "offer" ELSE "answer")
                /\ m.payload \in Payloads
                /\ Relay(s, m.room, name, m.payload) \/ RelayRefused(s, m.room, name)

\* The renderer listens to no presence events.  A handler emits one last.
IsHeard(e) == e.name \notin {"device-online", "device-offline"}
Heard(q) ==
    IF q # <<>> /\ ~IsHeard(q[Len(q)]) THEN SubSeq(q, 1, Len(q) - 1) ELSE q

\* What the handler emitted travels to the sockets an application still uses.
Deliver(awaited) ==
    inbox' = [s \in Sockets |->
                 IF app[DeviceOf[s]].socket # s THEN <<>>
                 ELSE inbox[s] \o Heard(sent'[s])
                      \o IF awaited /\ ack'.to = s
                         THEN <<Answered(ack'.code = "ok", ack'.room)>> ELSE <<>>]

ServerHandles(s) ==
    /\ outbox[s] # <<>>
    /\ Serve(s, Head(outbox[s]))
    /\ outbox' = [outbox EXCEPT ![s] = Tail(@)]
    /\ Deliver(Head(outbox[s]).op \in Awaited)
    /\ UNCHANGED <<app, consented, used>>

\* The server notices that the application has left the socket; what it had
\* not read of it is lost.
ServerDrops(s) ==
    /\ app[DeviceOf[s]].socket # s
    /\ SocketDisconnect(s)
    /\ outbox' = [outbox EXCEPT ![s] = <<>>]
    /\ Deliver(FALSE)
    /\ UNCHANGED <<app, consented, used>>

\* Time only matters while a request is pending.
AnyPending == \E r \in RoomIds : Pending(r)
ServerTimer ==
    /\ (AnyPending /\ Tick) \/ SweepExpired
    /\ Deliver(FALSE)
    /\ UNCHANGED <<app, outbox, consented, used>>

\* The client library connects, again after a loss, and registers at once.
AppConnects(d) ==
    \E s \in Sockets :
        /\ DeviceOf[s] = d
        /\ SocketConnect(s)
        /\ SocketOpens(d, s)

\* A socket that the server closed on a takeover is not read any more.
Discarded(s) ==
    /\ conn[s] = "closed" /\ outbox[s] # <<>>
    /\ outbox' = [outbox EXCEPT ![s] = <<>>]
    /\ UNCHANGED <<vars, app, inbox, consented, used>>

AllInit == Init /\ SessionInit

AllNext ==
    \/ \E s \in Sockets : ServerHandles(s) \/ ServerDrops(s) \/ Discarded(s)
    \/ ServerTimer
    \/ \E d \in Devices : AppConnects(d)
    \/ (\E d \in Devices : AppStep(d)) /\ UNCHANGED vars

AllSpec == AllInit /\ [][AllNext]_allVars

\* Messages are read, promises settle, timers fire, a peer connection that
\* can be established is, and one whose peer is gone notices.  Users owe
\* nothing, and a lost connection need not come back.
AllFairness ==
    /\ WF_allVars(ServerTimer)
    /\ \A s \in Sockets :
          WF_allVars(ServerHandles(s)) /\ WF_allVars(ServerDrops(s) \/ Discarded(s))
    /\ \A d \in Devices :
          /\ WF_allVars(HandlesEvent(d) /\ UNCHANGED vars)
          /\ WF_allVars((\E valid \in BOOLEAN : Validated(d, valid)) /\ UNCHANGED vars)
          /\ WF_allVars(RequestTimeout(d) /\ UNCHANGED vars)
          /\ WF_allVars(NegotiationTimeout(d) /\ UNCHANGED vars)
          /\ WF_allVars((CallLost(d) \/ CodeConsumed(d)) /\ UNCHANGED vars)
          /\ WF_allVars(PeerConnected(d) /\ UNCHANGED vars)
          /\ WF_allVars(~Linked(d) /\ PeerLost(d) /\ UNCHANGED vars)

AllFairSpec == AllSpec /\ AllFairness

-----------------------------------------------------------------------------
(* Properties *)

\* No peer connection is made, and none gets the description of the other end,
\* but for a room on whose dialog the host's user clicked Accept: at the client
\* and at the host, whatever was requested, declined, lost or answered late
\* before.
MediaNeedsConsent ==
    [][\A d \in Devices :
          /\ app'[d].pc # NoPayload
          /\ app'[d].pc # app[d].pc \/ app'[d].remote # app[d].remote
          => Event1(d).room \in consented]_allVars

Calling(d, op) == \E i \in DOMAIN app[d].calls : app[d].calls[i] = op

\* Whoever is shown to be waiting is waiting for something that comes by itself
\* or for its own user: a call (8 s), the request timer, the negotiation timer
\* or the approval dialog, in spite of every handler that writes the status
\* after an await.  Only an edit of the settings stops the timers of an attempt
\* that stays on the screen.
NobodyWaitsUnwatched ==
    \A d \in Devices : ~app[d].cut =>
        /\ app[d].status = "connecting" => Calling(d, "request")
        /\ app[d].status = "waiting-for-approval" =>
              app[d].incoming # NoRoomId \/ app[d].reqTimer \/ Calling(d, "hangup")
        /\ app[d].status = "negotiating" => app[d].negTimer \/ Calling(d, "hangup")

\* An attempt to connect comes to an end at each side, whatever the users and
\* the other side do; only an open dialog may wait for ever, for its user.
Hanging(d) ==
    \/ app[d].status \in {"connecting", "negotiating"}
    \/ app[d].status = "waiting-for-approval" /\ app[d].incoming = NoRoomId
AttemptEnds == \A d \in Devices : Hanging(d) ~> ~Hanging(d) \/ app[d].cut

\* A room of the server ends or carries a session that both ends see up: late
\* acknowledgements, lost connections and hang-ups in any phase leave no room
\* behind that would keep its devices ALREADY_IN_SESSION.
RoomResolves ==
    \A r \in RoomIds :
        Live(r) ~> \/ ~Live(r)
                   \/ \A d \in Parties(r) : Linked(d) /\ app[d].rtc

\* An application whose room the server has ended drops it from its store,
\* unless its dialog is open: that one stays until its user answers.
DeadRoomForgotten ==
    \A d \in Devices, r \in RoomIds :
        app[d].room = r /\ ~Live(r) ~>
            app[d].room # r \/ app[d].incoming = r \/ app[d].cut

\* The peer gets the screen only while this end shows that it is shared, and it
\* is shared only as long as there is a connection, wherever a capture that takes
\* its time to start, a stop and the end of a session meet; but for sessions cut
\* off by an edit of the settings, and for a hang-up whose answer comes so late
\* that it resets the store under the next connection, which was shared.
SharedIsShown ==
    \A d \in Devices :
        /\ app[d].sent => app[d].sharing \/ app[d].dropped
        /\ app[d].sharing => app[d].pc # NoPayload \/ app[d].cut

\* TODO.md: "every teardown path stops capture tracks so a dead session never
\* keeps sharing".  False: the cleanup of the hook's effect closes the connection
\* under a session that is shared and leaves the capture running.
DeadSessionStopsCapture ==
    \A d \in Devices :
        app[d].pc = NoPayload => ~app[d].sharing /\ app[d].orphans = 0
=============================================================================
