--------------------------- MODULE RendererSession ---------------------------
(***************************************************************************)
(* The session of one application's renderer: useSignalingSession.ts over  *)
(* connectionStore.ts, with the signaling client (SignalingService.ts) and *)
(* the peer connection (WebRTCService.ts) it drives.                       *)
(*                                                                         *)
(* Every handler, timer and continuation after an await is one action.     *)
(* Server calls are asynchronous: `calls` holds those whose promise is     *)
(* pending, oldest first.  The oldest is the first whose 8 s are over; it  *)
(* is then one of the `late` ones, whose acknowledgement will be ignored   *)
(* when it comes.  The promises of the local RTCPeerConnection settle      *)
(* within the step that starts them.                                       *)
(***************************************************************************)
EXTENDS Signaling

CONSTANTS
    MaxRequests,  \* connection requests made, over all devices
    MaxHangups,   \* clicks on Cancel or Disconnect
    MaxFaults,    \* calls outlasting their 8 s, connections and links lost
    MaxReoffers,  \* offers for new tracks on a live connection
    MaxShares,    \* clicks on Start sharing
    MaxSettings,  \* edits of the signaling URL or the STUN servers
    MaxPcs        \* numbers of the peer connections of a device

ASSUME BudgetAssumption ==
    {MaxRequests, MaxHangups, MaxFaults, MaxReoffers, MaxShares, MaxSettings, MaxPcs}
        \subseteq Nat

VARIABLES
    app,        \* device -> the state of its application
    outbox,     \* socket -> messages to the server, oldest first
    inbox,      \* socket -> events and acknowledgements to the application
    consented,  \* rooms on whose dialog a user clicked Accept
    used        \* budgets used

sessionVars == <<app, outbox, inbox, consented, used>>

Status == {"idle", "connecting", "waiting-for-approval", "negotiating",
           "connected", "disconnected", "failed"}
Busy == {"connecting", "waiting-for-approval", "negotiating", "connected"}

\* A peer connection: its device and a number.  Descriptions carry it.
Pcs == Devices \X (1..MaxPcs)

Awaited == {"request", "accept", "decline", "hangup", "offer", "answer"}
Ops == Awaited \cup {"register", "turn-away", "leave"}

Message == [op : Ops, room : RoomIds \cup {NoRoomId},
            target : Devices \cup {NoDevice}, payload : Pcs \cup {NoPayload}]
Msg(op, r, p) == [op |-> op, room |-> r, target |-> NoDevice, payload |-> p]
Request(target) ==
    [op |-> "request", room |-> NoRoomId, target |-> target, payload |-> NoPayload]

Answered(ok, r) ==
    RoomEvent(IF ok THEN "ok" ELSE "error", r, NoDevice, NoPayload, NoReason)

\* What the server sends: an event, or the acknowledgement of a call.
Note == Event \cup {Answered(ok, r) : ok \in BOOLEAN, r \in RoomIds \cup {NoRoomId}}

App ==
    [socket : Sockets \cup {NoSocket}, status : Status,
     role : {"client", "host", "none"}, room : RoomIds \cup {NoRoomId},
     incoming : RoomIds \cup {NoRoomId}, reqTimer : BOOLEAN, negTimer : BOOLEAN,
     pc : Pcs \cup {NoPayload}, remote : Pcs \cup {NoPayload},
     rtc : BOOLEAN, calls : Seq(Awaited), late : Nat, validating : Seq(RoomIds),
     consuming : Nat,
     captures : 0..MaxShares,  \* screen captures the system has not granted yet
     sharing : BOOLEAN,        \* the store holds a captured stream and says so
     sent : BOOLEAN,           \* captured tracks are on the peer connection
     orphans : 0..MaxShares,   \* running streams the store does not hold
     dropped : BOOLEAN,        \* one of them was in the store during this connection
     cut : BOOLEAN]            \* settings were edited during this attempt or connection

SessionTypeOK ==
    /\ app \in [Devices -> App]
    /\ outbox \in [Sockets -> Seq(Message)]
    /\ inbox \in [Sockets -> Seq(Note)]
    /\ consented \subseteq RoomIds
    /\ used \in [requests : 0..MaxRequests, hangups : 0..MaxHangups,
                faults : 0..MaxFaults, reoffers : 0..MaxReoffers,
                shares : 0..MaxShares, settings : 0..MaxSettings]

NewApp ==
    [socket |-> NoSocket, status |-> "idle", role |-> "none",
     room |-> NoRoomId, incoming |-> NoRoomId, reqTimer |-> FALSE,
     negTimer |-> FALSE, pc |-> NoPayload, remote |-> NoPayload,
     rtc |-> FALSE, calls |-> <<>>, late |-> 0, validating |-> <<>>, consuming |-> 0,
     captures |-> 0, sharing |-> FALSE, sent |-> FALSE, orphans |-> 0,
     dropped |-> FALSE, cut |-> FALSE]

SessionInit ==
    /\ app = [d \in Devices |-> NewApp]
    /\ outbox = [s \in Sockets |-> <<>>]
    /\ inbox = [s \in Sockets |-> <<>>]
    /\ consented = {}
    /\ used = [requests |-> 0, hangups |-> 0, faults |-> 0, reoffers |-> 0,
               shares |-> 0, settings |-> 0]

-----------------------------------------------------------------------------
(* What a handler does: a new state of the application and at most one       *)
(* message, the promise of its answer being pending if it is awaited.        *)

Becomes(a, out) == [app |-> a, out |-> out]

Emitting(d, re) ==
    IF re.out = <<>>
    THEN app' = [app EXCEPT ![d] = re.app] /\ UNCHANGED outbox
    ELSE LET op == Head(re.out).op
         IN  /\ app' = [app EXCEPT ![d] =
                           IF op \in Awaited THEN [re.app EXCEPT !.calls = Append(@, op)]
                           ELSE re.app]
             /\ outbox' = [outbox EXCEPT ![re.app.socket] = @ \o re.out]

\* A stream that was still in the store is dropped from it, not stopped.
ResetStore(a) ==
    [a EXCEPT !.status = "idle", !.room = NoRoomId, !.incoming = NoRoomId, !.role = "none",
              !.orphans = IF a.sharing THEN @ + 1 ELSE @, !.dropped = @ \/ a.sharing,
              !.sharing = FALSE, !.cut = FALSE]

\* webrtcService.close(): no event of the closed connection is heard again.
ClosePc(a) ==
    [a EXCEPT !.pc = NoPayload, !.remote = NoPayload, !.rtc = FALSE, !.sent = FALSE,
              !.dropped = FALSE]

\* Fault: the tracks stay on the connection.
StopLocalCaptureTracksLeft(a) == [a EXCEPT !.sharing = FALSE]

\* stopLocalCapture: the stream of the store ends, all senders are removed.
StopLocalCapture(a) == [a EXCEPT !.sharing = FALSE, !.sent = FALSE]

EndSession(a) ==
    [ClosePc(StopLocalCapture(a)) EXCEPT !.negTimer = FALSE, !.reqTimer = FALSE]

\* signalingService.disconnectSession needs a socket and a room.
Release(a, op) ==
    IF a.socket = NoSocket \/ a.room = NoRoomId THEN <<>>
    ELSE <<Msg(op, a.room, NoPayload)>>

\* Fault: a teardown forgets to release the room.
TeardownKeepsRoom(a, status) ==
    Becomes([ResetStore(EndSession(a)) EXCEPT !.status = status], <<>>)

\* teardownSession: the release is not awaited.
Teardown(a, status) ==
    Becomes([ResetStore(EndSession(a)) EXCEPT !.status = status], Release(a, "leave"))

\* A new connection is unlike any that a peer or a message still speaks of.
Mentioned ==
    {app[d].remote : d \in Devices} \cup
    UNION {{outbox[s][i].payload : i \in DOMAIN outbox[s]} \cup
           {inbox[s][i].payload : i \in DOMAIN inbox[s]} : s \in Sockets}
FreePcs(d) == {n \in 1..MaxPcs : <<d, n>> \notin Mentioned}
NewPc(d) == <<d, CHOOSE n \in FreePcs(d) : TRUE>>

\* ensurePeerConnection: a connection that is still there is used again.
EnsurePc(d, a) == IF a.pc = NoPayload THEN [a EXCEPT !.pc = NewPc(d)] ELSE a
CanEnsurePc(d) == app[d].pc = NoPayload => FreePcs(d) # {}

\* createOffer and sendOffer on it.
Offering(d, a, r) ==
    LET b == EnsurePc(d, a) IN Becomes(b, <<Msg("offer", r, b.pc)>>)

-----------------------------------------------------------------------------
(* The user *)

\* Promises rejected by a lost connection run before anything else does.
Settled(d) == app[d].socket = NoSocket => app[d].calls = <<>>

\* One click at a time: none while what a click started is under way.
Clicks(d) ==
    /\ Settled(d)
    /\ app[d].consuming = 0
    /\ \A i \in DOMAIN app[d].calls :
          app[d].calls[i] \notin {"request", "accept", "decline", "hangup"}
    /\ UNCHANGED inbox

\* connectToRemote.  The Connect button needs signaling and a status that is
\* not busy; a recent connection's button needs neither.
ConnectToRemote(d, target) ==
    LET a == [app[d] EXCEPT !.role = "client", !.status = "connecting"]
    IN  /\ Clicks(d)
        /\ used.requests < MaxRequests
        /\ used' = [used EXCEPT !.requests = @ + 1]
        /\ Emitting(d, IF a.socket = NoSocket
                       THEN Becomes([a EXCEPT !.role = "none", !.status = "failed"], <<>>)
                       ELSE Becomes(a, <<Request(target)>>))
        /\ UNCHANGED consented

\* acceptIncoming up to its first await; without a socket it fails at once.
AcceptIncoming(d) ==
    /\ Clicks(d)
    /\ app[d].incoming # NoRoomId
    /\ consented' = consented \cup {app[d].incoming}
    /\ Emitting(d, IF app[d].socket = NoSocket
                   THEN Becomes([app[d] EXCEPT !.status = "failed"], <<>>)
                   ELSE Becomes(app[d], <<Msg("accept", app[d].incoming, NoPayload)>>))
    /\ UNCHANGED used

\* What rejectIncoming does after its await, whatever was answered.
Rejected(a) ==
    [ClosePc(StopLocalCapture(a)) EXCEPT !.negTimer = FALSE, !.incoming = NoRoomId,
        !.room = NoRoomId, !.status = "idle", !.cut = FALSE]

RejectIncoming(d) ==
    /\ Clicks(d)
    /\ app[d].incoming # NoRoomId
    /\ Emitting(d, IF app[d].socket = NoSocket THEN Becomes(Rejected(app[d]), <<>>)
                   ELSE Becomes(app[d], <<Msg("decline", app[d].incoming, NoPayload)>>))
    /\ UNCHANGED <<consented, used>>

\* disconnectSession: Cancel while busy, or Disconnect over a stream.  Without
\* a room or a socket nothing is awaited.
DisconnectSession(d) ==
    LET a == EndSession(app[d])
        out == Release(a, "hangup")
    IN  /\ UNCHANGED inbox
        /\ Settled(d)
        /\ used.hangups < MaxHangups
        /\ used' = [used EXCEPT !.hangups = @ + 1]
        /\ app[d].status \in Busy \/ (app[d].rtc /\ app[d].role # "host")
        /\ \A i \in DOMAIN app[d].calls : app[d].calls[i] # "hangup"
        /\ Emitting(d, Becomes(IF out = <<>> THEN ResetStore(a) ELSE a, out))
        /\ UNCHANGED consented

-----------------------------------------------------------------------------
(* Events from the server *)

\* The next thing on d's socket is the event e, which the step takes.
Receives(d, name) ==
    LET s == app[d].socket
    IN  /\ s # NoSocket
        /\ inbox[s] # <<>>
        /\ Head(inbox[s]).name = name
        /\ inbox' = [inbox EXCEPT ![s] = Tail(@)]
        /\ UNCHANGED <<consented, used>>

Event1(d) == Head(inbox[app[d].socket])

OnIncoming(d) ==
    /\ Receives(d, "incoming-connection")
    /\ Emitting(d, Becomes([app[d] EXCEPT !.validating = Append(@, Event1(d).room)], <<>>))

\* Fault: a right code is taken for the user's consent.
ValidatedAccepts(d, valid) ==
    LET a == [app[d] EXCEPT !.validating = Tail(@)]
        r == Head(app[d].validating)
    IN  /\ app[d].validating # <<>> /\ a.socket # NoSocket
        /\ Emitting(d, IF valid
              THEN Becomes([a EXCEPT !.room = r, !.role = "host", !.status = "negotiating"],
                           <<Msg("accept", r, NoPayload)>>)
              ELSE Becomes(a, <<Msg("turn-away", r, NoPayload)>>))
        /\ UNCHANGED <<inbox, consented, used>>

\* Main has judged the oldest code presented.  Whatever the application is
\* doing, a valid one opens the dialog and makes it the host of that room.
Validated(d, valid) ==
    LET a == [app[d] EXCEPT !.validating = Tail(@)]
        r == Head(app[d].validating)
    IN  /\ app[d].validating # <<>>
        /\ Emitting(d, IF valid
              THEN Becomes([a EXCEPT !.incoming = r, !.room = r, !.role = "host",
                                     !.status = "waiting-for-approval"], <<>>)
              ELSE Becomes(a, IF a.socket = NoSocket THEN <<>>
                              ELSE <<Msg("turn-away", r, NoPayload)>>))
        /\ UNCHANGED <<inbox, consented, used>>

\* Fault: the negotiation timer is not armed.
OnAcceptedUntimed(d) ==
    LET r == Event1(d).room
        a == [app[d] EXCEPT !.reqTimer = FALSE, !.room = r, !.status = "negotiating"]
    IN  /\ Receives(d, "connection-accepted")
        /\ CanEnsurePc(d)
        /\ Emitting(d, Offering(d, a, r))

OnAccepted(d) ==
    LET r == Event1(d).room
        a == [app[d] EXCEPT !.reqTimer = FALSE, !.room = r,
                            !.status = "negotiating", !.negTimer = TRUE]
    IN  /\ Receives(d, "connection-accepted")
        /\ CanEnsurePc(d)
        /\ Emitting(d, Offering(d, a, r))

\* Fault: the rejected room stays in the store.
OnRejectedKeepsRoom(d) ==
    /\ Receives(d, "connection-rejected")
    /\ Emitting(d, Becomes([app[d] EXCEPT !.reqTimer = FALSE, !.status = "failed",
                               !.incoming = NoRoomId], <<>>))

\* Fault: the status is left as it is.
OnRejectedUnseen(d) ==
    /\ Receives(d, "connection-rejected")
    /\ Emitting(d, Becomes([app[d] EXCEPT !.reqTimer = FALSE,
                               !.incoming = NoRoomId, !.room = NoRoomId], <<>>))

\* The peer connection and the negotiation timer are left as they are.
OnRejected(d) ==
    /\ Receives(d, "connection-rejected")
    /\ Emitting(d, Becomes([app[d] EXCEPT !.reqTimer = FALSE, !.status = "failed",
                               !.incoming = NoRoomId, !.room = NoRoomId], <<>>))

OnOffer(d) ==
    LET b == [EnsurePc(d, app[d]) EXCEPT !.remote = Event1(d).payload]
    IN  /\ Receives(d, "webrtc-offer")
        /\ CanEnsurePc(d)
        /\ Emitting(d, IF app[d].role = "host" /\ app[d].room = Event1(d).room
                       THEN Becomes(b, <<Msg("answer", Event1(d).room, b.pc)>>)
                       ELSE Becomes(app[d], <<>>))

\* Without a peer connection acceptAnswer throws and the session fails.
OnAnswer(d) ==
    /\ Receives(d, "webrtc-answer")
    /\ Emitting(d, IF app[d].role # "client" \/ app[d].room # Event1(d).room
                   THEN Becomes(app[d], <<>>)
                   ELSE IF app[d].pc = NoPayload THEN Teardown(app[d], "failed")
                   ELSE Becomes([app[d] EXCEPT !.remote = Event1(d).payload], <<>>))

\* The room of the notice is not looked at.
OnPeerDisconnected(d) ==
    /\ Receives(d, "peer-disconnected")
    /\ Emitting(d, Teardown(app[d], IF Event1(d).reason = "timeout"
                                    THEN "failed" ELSE "disconnected"))

-----------------------------------------------------------------------------
(* Timers *)

\* armRequestTimer: a 'timeout' without a room, handled like the server's.
RequestTimeout(d) ==
    /\ app[d].reqTimer
    /\ Emitting(d, Teardown(app[d], "failed"))
    /\ UNCHANGED <<inbox, consented, used>>

NegotiationTimeout(d) ==
    LET a == [app[d] EXCEPT !.negTimer = FALSE]
    IN  /\ app[d].negTimer
        /\ Emitting(d, IF a.status = "negotiating" THEN Teardown(a, "failed")
                       ELSE Becomes(a, <<>>))
        /\ UNCHANGED <<inbox, consented, used>>

-----------------------------------------------------------------------------
(* Continuations of the server calls *)

Outage ==
    /\ used.faults < MaxFaults
    /\ used' = [used EXCEPT !.faults = @ + 1]

\* The promise of the call op settles; r is the room it answers with.
Continue(a, op, ok, r) ==
    CASE op = "request" /\ ok ->
            Becomes([a EXCEPT !.room = r, !.status = "waiting-for-approval",
                              !.reqTimer = TRUE], <<>>)
      [] op = "request" /\ ~ok ->
            Becomes([a EXCEPT !.role = "none", !.status = "failed"], <<>>)
      [] op = "accept" /\ ok -> Becomes([a EXCEPT !.consuming = @ + 1], <<>>)
      [] op = "accept" /\ ~ok -> Becomes([a EXCEPT !.status = "failed"], <<>>)
      [] op = "decline" -> Becomes(Rejected(a), <<>>)
      [] op = "hangup" -> Becomes(ResetStore(a), <<>>)
      [] op \in {"offer", "answer"} /\ ~ok -> Teardown(a, "failed")
      [] OTHER -> Becomes(a, <<>>)

\* The continuation of the oldest pending call.
Settle(d, a, ok, r) ==
    Emitting(d, Continue([a EXCEPT !.calls = Tail(@)], Head(a.calls), ok, r))

\* An acknowledgement comes: of a late call, whose promise is settled, or of the
\* oldest pending one.
CallAnswered(d) ==
    \E ok \in BOOLEAN :
        /\ Receives(d, IF ok THEN "ok" ELSE "error")
        /\ IF app[d].late > 0
           THEN Emitting(d, Becomes([app[d] EXCEPT !.late = @ - 1], <<>>))
           ELSE app[d].calls # <<>> /\ Settle(d, app[d], ok, Event1(d).room)

\* The 8 s of the oldest pending call are over before its answer came.
CallTimesOut(d) ==
    /\ app[d].socket # NoSocket
    /\ app[d].calls # <<>>
    /\ Outage
    /\ Settle(d, [app[d] EXCEPT !.late = @ + 1], FALSE, NoRoomId)
    /\ UNCHANGED <<inbox, consented>>

\* The calls pending on a lost connection are rejected.
CallLost(d) ==
    /\ app[d].socket = NoSocket
    /\ app[d].calls # <<>>
    /\ Settle(d, app[d], FALSE, NoRoomId)
    /\ UNCHANGED <<inbox, consented, used>>

\* Fault: the continuation runs without an acceptance before it.
CodeConsumedAnyway(d) ==
    /\ app[d].incoming # NoRoomId
    /\ Emitting(d, Becomes([app[d] EXCEPT !.consuming = @ - 1, !.incoming = NoRoomId,
                               !.status = "negotiating", !.negTimer = TRUE], <<>>))
    /\ UNCHANGED <<inbox, consented, used>>

\* Main has burned the code: the rest of acceptIncoming, whatever happened
\* since its first await.
CodeConsumed(d) ==
    /\ app[d].consuming > 0
    /\ Emitting(d, Becomes([app[d] EXCEPT !.consuming = @ - 1, !.incoming = NoRoomId,
                               !.status = "negotiating", !.negTimer = TRUE], <<>>))
    /\ UNCHANGED <<inbox, consented, used>>

-----------------------------------------------------------------------------
(* The peer connection *)

Linked(d) ==
    \E e \in Devices \ {d} :
        /\ app[d].pc # NoPayload /\ app[d].remote = app[e].pc
        /\ app[e].pc # NoPayload /\ app[e].remote = app[d].pc

PeerConnected(d) ==
    /\ Linked(d) /\ ~app[d].rtc
    /\ Emitting(d, Becomes([app[d] EXCEPT !.rtc = TRUE, !.negTimer = FALSE,
                                          !.status = "connected"], <<>>))
    /\ UNCHANGED <<inbox, consented, used>>

\* The other end is gone or never came, or connectivity fails.
PeerLost(d) ==
    /\ app[d].remote # NoPayload
    /\ IF Linked(d) THEN Outage ELSE UNCHANGED used
    /\ \E status \in {"failed", "disconnected"} : Emitting(d, Teardown(app[d], status))
    /\ UNCHANGED <<inbox, consented>>

\* 'video-tracks-added' on the control channel: a client that is connected
\* offers again.
Reoffer(d) ==
    /\ app[d].rtc /\ Linked(d)
    /\ used.reoffers < MaxReoffers
    /\ used' = [used EXCEPT !.reoffers = @ + 1]
    /\ app[d].role = "client" /\ app[d].room # NoRoomId /\ app[d].status = "connected"
    /\ app[d].socket # NoSocket
    /\ Emitting(d, Offering(d, app[d], app[d].room))
    /\ UNCHANGED <<inbox, consented>>

-----------------------------------------------------------------------------
(* Screen sharing, of either role *)

\* startSharing up to its await: the button asks for what the code asks for.
StartSharing(d) ==
    /\ app[d].status = "connected" /\ ~app[d].sharing
    /\ used.shares < MaxShares
    /\ used' = [used EXCEPT !.shares = @ + 1]
    /\ Emitting(d, Becomes([app[d] EXCEPT !.captures = @ + 1], <<>>))
    /\ UNCHANGED <<inbox, consented>>

\* The rest of it, after the system granted the capture or refused it, whatever
\* became of the session meanwhile.  Without a connection to add it to the new
\* stream is stopped; it takes the place of one the store already holds.  If
\* the peer cannot be told, sharing is taken back.
CaptureAnswered(d, granted) ==
    LET a == [app[d] EXCEPT !.captures = @ - 1]
        b == [a EXCEPT !.orphans = IF a.sharing THEN @ + 1 ELSE @,
                       !.sharing = TRUE, !.sent = TRUE]
    IN  /\ app[d].captures > 0
        /\ Emitting(d, Becomes(IF ~granted \/ a.pc = NoPayload THEN a
                               ELSE IF a.rtc THEN b ELSE StopLocalCapture(b), <<>>))
        /\ UNCHANGED <<inbox, consented, used>>

StopSharing(d) ==
    /\ app[d].sharing
    /\ Emitting(d, Becomes(StopLocalCapture(app[d]), <<>>))
    /\ UNCHANGED <<inbox, consented, used>>

-----------------------------------------------------------------------------
(* The socket.io client.  s is a socket id not used before. *)

SocketOpens(d, s) ==
    /\ Settled(d)
    /\ app[d].socket = NoSocket
    /\ Emitting(d, Becomes([app[d] EXCEPT !.socket = s],
                           <<Msg("register", NoRoomId, NoPayload)>>))
    /\ UNCHANGED <<inbox, consented, used>>

\* onDisconnected: a session in any phase is over for this end.  What the
\* server had sent on the connection is lost; what was sent to it may arrive.
SocketCloses(d) ==
    LET s == app[d].socket
        a == [app[d] EXCEPT !.socket = NoSocket, !.late = 0]
    IN  /\ s # NoSocket
        /\ Outage
        /\ inbox' = [inbox EXCEPT ![s] = <<>>]
        /\ Emitting(d, IF a.room # NoRoomId \/ a.status # "idle"
                       THEN Teardown(a, "failed") ELSE Becomes(a, <<>>))
        /\ UNCHANGED consented

\* An edit of the signaling URL or the STUN servers re-runs the hook's effect: its
\* cleanup closes the connections and stops the timers, and leaves the store and
\* the captured stream as they are; then the application connects anew.
SettingsChange(d) ==
    LET s == app[d].socket
        a == [ClosePc(app[d]) EXCEPT !.negTimer = FALSE, !.reqTimer = FALSE,
                 !.socket = NoSocket, !.late = 0,
                 !.cut = @ \/ app[d].status \in Busy \/ app[d].pc # NoPayload]
    IN  /\ Settled(d)
        /\ used.settings < MaxSettings
        /\ used' = [used EXCEPT !.settings = @ + 1]
        /\ inbox' = IF s = NoSocket THEN inbox ELSE [inbox EXCEPT ![s] = <<>>]
        /\ app' = [app EXCEPT ![d] = a]
        /\ UNCHANGED <<outbox, consented>>

-----------------------------------------------------------------------------
UserActs(d) ==
    \/ \E target \in Devices \ {d} : ConnectToRemote(d, target)
    \/ AcceptIncoming(d) \/ RejectIncoming(d) \/ DisconnectSession(d)
    \/ StartSharing(d) \/ StopSharing(d) \/ SettingsChange(d)

HandlesEvent(d) ==
    \/ OnIncoming(d) \/ OnAccepted(d) \/ OnRejected(d)
    \/ OnOffer(d) \/ OnAnswer(d) \/ OnPeerDisconnected(d)
    \/ CallAnswered(d)

TimerFires(d) == RequestTimeout(d) \/ NegotiationTimeout(d)

AppStep(d) ==
    \/ UserActs(d) \/ HandlesEvent(d) \/ TimerFires(d)
    \/ \E ok \in BOOLEAN : Validated(d, ok) \/ CaptureAnswered(d, ok)
    \/ CallTimesOut(d) \/ CallLost(d) \/ CodeConsumed(d)
    \/ PeerConnected(d) \/ PeerLost(d) \/ Reoffer(d)
    \/ SocketCloses(d)
=============================================================================
