---------------------------- MODULE SessionProofs ----------------------------
(***************************************************************************)
(* Theorems about the composed system, for every number of devices,        *)
(* sockets, rooms, clicks and faults.  The server inside it behaves as     *)
(* SignalingServer says when its clients are arbitrary, so what is proved  *)
(* of the server holds of the applications' sessions; and an inductive     *)
(* invariant ties the applications, the messages on their way and the      *)
(* server's rooms together.                                                *)
(***************************************************************************)
EXTENDS Session, ServerPromiseProofs

\* The id a new room gets is one of RoomIds while any is left.
LEMMA FreshRoomIsRoom ==
    ASSUME SomeRoomLeft
    PROVE  FreshRoom \in RoomIds
  BY DEF SomeRoomLeft, FreshRoom

\* Whatever an application sent, handling it is a step of the server for one of
\* the messages a client may send.
LEMMA ServeIsFromClient ==
    ASSUME NEW s \in Sockets, NEW m, Serve(s, m)
    PROVE  FromClient(s)
<1>1. CASE m.op = "register" /\ RegisterDevice(s)
  BY <1>1 DEF FromClient
<1>2. CASE /\ m.target \in Devices
           /\ SomeRoomLeft /\ ConnectionRequest(s, m.target, FreshRoom, Token)
  <2>1. FreshRoom \in RoomIds /\ Token \in Payloads
    BY <1>2, FreshRoomIsRoom, TokenAssumption
  <2>. QED BY <1>2, <2>1 DEF FromClient
<1>3. CASE m.target \in Devices /\ ConnectionRequestRefused(s, m.target)
  BY <1>3 DEF FromClient
<1>4. CASE /\ m.room \in RoomIds
           /\ ConnectionAccepted(s, m.room) \/ ConnectionAcceptedRefused(s, m.room)
  BY <1>4 DEF FromClient
<1>5. CASE /\ m.room \in RoomIds
           /\ \E why \in {"declined", "invalid-token"} : ConnectionRejected(s, m.room, why)
  BY <1>5 DEF FromClient, RejectionReason
<1>6. CASE m.room \in RoomIds /\ ConnectionRejectedRefused(s, m.room)
  BY <1>6 DEF FromClient
<1>7. CASE /\ m.room \in RoomIds
           /\ DisconnectDevice(s, m.room) \/ DisconnectDeviceRefused(s, m.room)
  BY <1>7 DEF FromClient
<1>8. CASE /\ m.room \in RoomIds /\ m.payload \in Payloads
           /\ \E name \in {"webrtc-offer", "webrtc-answer"} :
                 Relay(s, m.room, name, m.payload) \/ RelayRefused(s, m.room, name)
  BY <1>8 DEF FromClient, RelayName
<1>. QED
  BY <1>1, <1>2, <1>3, <1>4, <1>5, <1>6, <1>7, <1>8 DEF Serve

\* A step of the whole is a step of the server or leaves it alone.
LEMMA AllNextIsNext == AllNext => Next \/ UNCHANGED vars
<1>. SUFFICES ASSUME AllNext PROVE Next \/ UNCHANGED vars
  OBVIOUS
<1>1. ASSUME NEW s \in Sockets, ServerHandles(s) PROVE Next
  BY <1>1, ServeIsFromClient DEF ServerHandles, Next
<1>2. ASSUME NEW s \in Sockets, ServerDrops(s) PROVE Next
  BY <1>2 DEF ServerDrops, Next, FromClient
<1>3. ASSUME NEW s \in Sockets, Discarded(s) PROVE UNCHANGED vars
  BY <1>3 DEF Discarded
<1>4. CASE ServerTimer
  BY <1>4 DEF ServerTimer, Next
<1>5. ASSUME NEW d \in Devices, AppConnects(d) PROVE Next
  BY <1>5 DEF AppConnects, Next, FromClient
<1>. QED BY <1>1, <1>2, <1>3, <1>4, <1>5 DEF AllNext

\* The composition implements the server: AllSpec is Spec with particular
\* clients and links.
THEOREM SessionRunsServer == AllSpec => Spec
<1>1. AllInit => Init
  BY DEF AllInit
<1>2. [AllNext]_allVars => [Next]_vars
  BY AllNextIsNext DEF allVars
<1>. QED BY <1>1, <1>2, PTL DEF AllSpec, Spec

\* In every state of the composed system the rooms join devices that are
\* connected by the sockets stored in them.
THEOREM SessionPartiesPresent == AllSpec => []PartiesPresent
  BY SessionRunsServer, PartiesAlwaysPresent, PTL

-----------------------------------------------------------------------------
(* The inductive invariant of the composed system.                           *)
(*                                                                           *)
(* What is on its way is tied to the clicks on Accept: an acceptance and an  *)
(* event that makes a peer connection name a room in `consented`, as does    *)
(* each accepted room of the server.  The screen captures of a device are    *)
(* counted by the clicks that started them.                                  *)

Asked(C) == {m \in Message : m.op = "accept" => m.room \in C}

MediaEvent == {"connection-accepted", "webrtc-offer", "webrtc-answer"}
Mail(C) ==
    {e \in Note : /\ e.name = "incoming-connection" => e.room \in RoomIds
                  /\ e.name \in MediaEvent => e.room \in C
                  /\ e.name \in {"webrtc-offer", "webrtc-answer"} => e.payload \in Pcs}

Counted(a, n) == a.captures + a.orphans + (IF a.sharing THEN 1 ELSE 0) <= n

Awaits(a, op) == \E i \in DOMAIN a.calls : a.calls[i] = op
Watched(a) ==
    ~a.cut =>
        /\ a.status = "connecting" => Awaits(a, "request")
        /\ a.status = "waiting-for-approval" =>
              a.incoming # NoRoomId \/ a.reqTimer \/ Awaits(a, "hangup")
        /\ a.status = "negotiating" => a.negTimer \/ Awaits(a, "hangup")

SessionInv ==
    /\ SessionTypeOK
    /\ outbox \in [Sockets -> Seq(Asked(consented))]
    /\ inbox \in [Sockets -> Seq(Mail(consented))]
    /\ \A r \in RoomIds : Accepted(r) => r \in consented
    /\ \A d \in Devices : Counted(app[d], used.shares) /\ Watched(app[d])

LEMMA WatchedIsWatched ==
    ASSUME \A d \in Devices : Watched(app[d])
    PROVE  NobodyWaitsUnwatched
BY DEF Watched, NobodyWaitsUnwatched, Awaits, Calling

LEMMA AppInit == NewApp \in App /\ Counted(NewApp, 0) /\ Watched(NewApp)
<1>1. /\ NewApp.status = "idle" /\ NewApp.captures = 0 /\ NewApp.orphans = 0
      /\ ~NewApp.sharing
  BY DEF NewApp
<1>2. NewApp \in App
  BY BudgetAssumption DEF NewApp, App, Status
<1>3. QED
  BY <1>1, <1>2 DEF Counted, Watched

LEMMA SessionInvInit == AllInit => SessionInv
<1>. SUFFICES ASSUME AllInit PROVE SessionInv
  OBVIOUS
<1>1. SessionTypeOK
  BY AppInit, BudgetAssumption DEF AllInit, SessionInit, SessionTypeOK
<1>2. outbox \in [Sockets -> Seq(Asked(consented))] /\ inbox \in [Sockets -> Seq(Mail(consented))]
  BY DEF AllInit, SessionInit
<1>3. \A r \in RoomIds : ~Accepted(r)
  BY DEF AllInit, Init, RoomsInit, Accepted, Live, NoRoom
<1>4. \A d \in Devices : Counted(app[d], used.shares) /\ Watched(app[d])
  BY AppInit DEF AllInit, SessionInit
<1>5. QED
  BY <1>1, <1>2, <1>3, <1>4 DEF SessionInv

-----------------------------------------------------------------------------
(* What the handlers make of an application *)

\* The messages a handler may emit, at most one, on the socket it is left with.
Sends(re, C) ==
    re.out = <<>> \/ (re.app.socket \in Sockets /\ \E m \in Asked(C) : re.out = <<m>>)

\* The peer connection is closed or left as it was.
Kept(a, b) == b.pc = NoPayload \/ (b.pc = a.pc /\ b.remote = a.remote)

\* The state of the application once its message is out.
After(re) ==
    IF re.out = <<>> \/ Head(re.out).op \notin Awaited THEN re.app
    ELSE [re.app EXCEPT !.calls = Append(@, Head(re.out).op)]

Sound(re, n, C) ==
    /\ re.app \in App /\ Counted(re.app, n) /\ Sends(re, C) /\ Watched(After(re))

LEMMA BecomesFields ==
    ASSUME NEW a, NEW out
    PROVE  Becomes(a, out).app = a /\ Becomes(a, out).out = out
BY DEF Becomes

LEMMA QuietSound ==
    ASSUME NEW a \in App, NEW n \in Nat, NEW C, Counted(a, n), Watched(a)
    PROVE  Sound(Becomes(a, <<>>), n, C)
BY BecomesFields DEF Sound, Sends, After

LEMMA Appended ==
    ASSUME NEW S, NEW q \in Seq(S), NEW e \in S
    PROVE  /\ Append(q, e) \in Seq(S)
           /\ Len(q) + 1 \in DOMAIN Append(q, e) /\ Append(q, e)[Len(q) + 1] = e
           /\ \A i \in DOMAIN q : i \in DOMAIN Append(q, e) /\ Append(q, e)[i] = q[i]
OBVIOUS

\* A pending call more takes nothing away from what an application waits for.
LEMMA CallAdded ==
    ASSUME NEW a \in App, NEW op \in Awaited
    PROVE  LET b == [a EXCEPT !.calls = Append(@, op)]
           IN  /\ b \in App /\ b.calls = Append(a.calls, op)
               /\ \A f \in {"request", "hangup"} : Awaits(a, f) => Awaits(b, f)
               /\ Awaits(b, op)
               /\ Watched(a) => Watched(b)
<1>1. a.calls \in Seq(Awaited)
  BY DEF App
<1>2. PICK q : q = Append(a.calls, op)
  OBVIOUS
<1>3. /\ q \in Seq(Awaited)
      /\ Len(a.calls) + 1 \in DOMAIN q /\ q[Len(a.calls) + 1] = op
      /\ \A i \in DOMAIN a.calls : i \in DOMAIN q /\ q[i] = a.calls[i]
  BY <1>1, <1>2, Appended
<1> DEFINE b == [a EXCEPT !.calls = q]
<1>4. b \in App /\ b.calls = q
  BY <1>3 DEF App
<1>5. /\ b.cut = a.cut /\ b.status = a.status /\ b.incoming = a.incoming
      /\ b.reqTimer = a.reqTimer /\ b.negTimer = a.negTimer
  BY DEF App
<1>6. (\A f : Awaits(a, f) => Awaits(b, f)) /\ Awaits(b, op)
  BY <1>3, <1>4 DEF Awaits
<1>7. Watched(a) => Watched(b)
  BY <1>5, <1>6 DEF Watched
<1>. QED BY <1>2, <1>4, <1>6, <1>7

LEMMA SendingSound ==
    ASSUME NEW a \in App, NEW n \in Nat, NEW C, Counted(a, n), Watched(a),
           a.socket \in Sockets, NEW m \in Asked(C)
    PROVE  Sound(Becomes(a, <<m>>), n, C)
<1> DEFINE re == Becomes(a, <<m>>)
<1>1. re.app = a /\ re.out = <<m>> /\ Head(re.out) = m /\ re.out # <<>>
  BY BecomesFields
<1>2. Watched(After(re))
  <2>1. CASE m.op \in Awaited
    <3>1. After(re) = [a EXCEPT !.calls = Append(@, m.op)]
      BY <1>1, <2>1 DEF After
    <3>. QED BY <3>1, <2>1, CallAdded
  <2>2. CASE m.op \notin Awaited
    <3>1. After(re) = a
      BY <1>1, <2>2 DEF After
    <3>. QED BY <3>1
  <2>. QED BY <2>1, <2>2
<1>. QED BY <1>1, <1>2 DEF Sound, Sends

LEMMA MsgAsked ==
    ASSUME NEW op \in Ops, NEW r \in RoomIds \cup {NoRoomId},
           NEW p \in Pcs \cup {NoPayload}, NEW C, op = "accept" => r \in C
    PROVE  Msg(op, r, p) \in Asked(C)
BY DEF Msg, Asked, Message

LEMMA ClosedPc ==
    ASSUME NEW a \in App, NEW n, Counted(a, n)
    PROVE  LET b == ClosePc(a)
           IN  /\ b \in App /\ Counted(b, n) /\ b.pc = NoPayload
               /\ b.status = a.status /\ b.cut = a.cut /\ b.calls = a.calls
               /\ b.negTimer = a.negTimer /\ b.reqTimer = a.reqTimer
               /\ b.incoming = a.incoming /\ b.socket = a.socket /\ b.room = a.room
               /\ b.sharing = a.sharing
<1> DEFINE b == ClosePc(a)
<1>1. b \in App
  BY DEF ClosePc, App
<1>2. /\ b.pc = NoPayload /\ b.captures = a.captures /\ b.orphans = a.orphans
      /\ b.status = a.status /\ b.cut = a.cut /\ b.calls = a.calls
      /\ b.negTimer = a.negTimer /\ b.reqTimer = a.reqTimer
      /\ b.incoming = a.incoming /\ b.socket = a.socket /\ b.room = a.room
      /\ b.sharing = a.sharing
  BY DEF ClosePc, App
<1>3. Counted(b, n)
  BY <1>2 DEF Counted
<1>. QED BY <1>1, <1>2, <1>3

LEMMA StoppedCapture ==
    ASSUME NEW a \in App, NEW n \in Nat, Counted(a, n)
    PROVE  LET b == StopLocalCapture(a)
           IN  /\ b \in App /\ Counted(b, n) /\ ~b.sharing
               /\ b.pc = a.pc /\ b.remote = a.remote
               /\ b.status = a.status /\ b.cut = a.cut /\ b.calls = a.calls
               /\ b.negTimer = a.negTimer /\ b.reqTimer = a.reqTimer
               /\ b.incoming = a.incoming /\ b.socket = a.socket /\ b.room = a.room
<1> DEFINE b == StopLocalCapture(a)
<1>0. b \in App
  BY DEF StopLocalCapture, App
<1>1. /\ b.sharing = FALSE
      /\ b.captures = a.captures /\ b.orphans = a.orphans
      /\ b.pc = a.pc /\ b.remote = a.remote
      /\ b.status = a.status /\ b.cut = a.cut /\ b.calls = a.calls
      /\ b.negTimer = a.negTimer /\ b.reqTimer = a.reqTimer
      /\ b.incoming = a.incoming /\ b.socket = a.socket /\ b.room = a.room
  BY DEF StopLocalCapture, App
<1>2. Counted(b, n)
  <2>1. a.captures \in Nat /\ a.orphans \in Nat /\ a.captures + a.orphans <= n
    BY BudgetAssumption DEF App, Counted
  <2>. QED BY <1>1, <2>1 DEF Counted
<1>. QED BY <1>0, <1>1, <1>2

LEMMA EndedSession ==
    ASSUME NEW a \in App, NEW n \in Nat, Counted(a, n)
    PROVE  LET b == EndSession(a)
           IN  /\ b \in App /\ Counted(b, n) /\ ~b.sharing /\ b.pc = NoPayload
               /\ b.status = a.status /\ b.cut = a.cut /\ b.calls = a.calls
               /\ b.incoming = a.incoming /\ b.socket = a.socket /\ b.room = a.room
<1>1. PICK c \in App : c = ClosePc(StopLocalCapture(a))
  BY StoppedCapture, ClosedPc
<1>2. /\ Counted(c, n) /\ ~c.sharing /\ c.pc = NoPayload
      /\ c.status = a.status /\ c.cut = a.cut /\ c.calls = a.calls
      /\ c.incoming = a.incoming /\ c.socket = a.socket /\ c.room = a.room
  BY <1>1, StoppedCapture, ClosedPc
<1> DEFINE b == [c EXCEPT !.negTimer = FALSE, !.reqTimer = FALSE]
<1>3. EndSession(a) = b
  BY <1>1 DEF EndSession
<1>4. b \in App
  BY DEF App
<1>5. /\ b.captures = c.captures /\ b.orphans = c.orphans /\ b.sharing = c.sharing
      /\ b.pc = c.pc /\ b.status = c.status /\ b.cut = c.cut /\ b.calls = c.calls
      /\ b.incoming = c.incoming /\ b.socket = c.socket /\ b.room = c.room
  BY DEF App
<1>6. Counted(b, n)
  BY <1>2, <1>5 DEF Counted
<1> HIDE DEF b
<1>. QED BY <1>2, <1>3, <1>4, <1>5, <1>6

LEMMA StoreReset ==
    ASSUME NEW a \in App, NEW n \in 0..MaxShares, Counted(a, n)
    PROVE  LET b == ResetStore(a)
           IN  /\ b \in App /\ Counted(b, n) /\ ~b.sharing /\ b.status = "idle"
               /\ b.pc = a.pc /\ b.remote = a.remote /\ b.socket = a.socket
<1>1. /\ a.orphans \in 0..MaxShares /\ a.captures \in 0..MaxShares
      /\ a.sharing \in BOOLEAN /\ MaxShares \in Nat
  BY BudgetAssumption DEF App
<1>2. (IF a.sharing THEN a.orphans + 1 ELSE a.orphans) \in 0..MaxShares
  BY <1>1 DEF Counted
<1>3. PICK k \in 0..MaxShares : k = IF a.sharing THEN a.orphans + 1 ELSE a.orphans
  BY <1>2
<1>4. PICK g \in BOOLEAN : g = (a.dropped \/ a.sharing)
  OBVIOUS
<1> DEFINE b == [a EXCEPT !.status = "idle", !.room = NoRoomId, !.incoming = NoRoomId,
                          !.role = "none", !.orphans = k, !.dropped = g,
                          !.sharing = FALSE, !.cut = FALSE]
<1>5. ResetStore(a) = b
  BY <1>3, <1>4 DEF ResetStore
<1>6. b \in App
  BY DEF App, Status
<1>7. /\ b.orphans = k /\ b.captures = a.captures /\ b.sharing = FALSE
      /\ b.status = "idle" /\ b.pc = a.pc /\ b.remote = a.remote /\ b.socket = a.socket
  BY DEF App
<1>8. Counted(b, n)
  BY <1>1, <1>3, <1>7 DEF Counted
<1>. QED BY <1>5, <1>6, <1>8, <1>7

LEMMA TeardownSound ==
    ASSUME NEW a \in App, NEW n \in 0..MaxShares, NEW C, Counted(a, n),
           NEW status \in {"failed", "disconnected"}
    PROVE  /\ Sound(Teardown(a, status), n, C)
           /\ Teardown(a, status).app.pc = NoPayload
<1> DEFINE re == Teardown(a, status)
<1>0. n \in Nat
  BY BudgetAssumption
<1>1. PICK c \in App : c = ResetStore(EndSession(a))
  BY <1>0, EndedSession, StoreReset
<1>2. /\ Counted(c, n) /\ c.pc = NoPayload /\ c.socket = a.socket
      /\ re.app = [c EXCEPT !.status = status] /\ re.out = Release(a, "leave")
  BY <1>0, <1>1, EndedSession, StoreReset, BecomesFields DEF Teardown
<1>3. /\ re.app \in App /\ Counted(re.app, n) /\ re.app.pc = NoPayload
      /\ re.app.socket = a.socket /\ re.app.status = status
  <2> DEFINE b == [c EXCEPT !.status = status]
  <2>1. b \in App
    <3>1. status \in Status
      BY DEF Status
    <3>. QED BY <3>1 DEF App
  <2>2. /\ b.pc = c.pc /\ b.socket = c.socket /\ b.status = status
        /\ b.captures = c.captures /\ b.orphans = c.orphans /\ b.sharing = c.sharing
    BY DEF App
  <2>3. Counted(b, n)
    BY <1>2, <2>2 DEF Counted
  <2>4. re.app = b
    BY <1>2
  <2> HIDE DEF b
  <2>. QED BY <1>2, <2>1, <2>2, <2>3, <2>4
<1>4. Sends(re, C) /\ After(re) = re.app
  <2>1. CASE Release(a, "leave") = <<>>
    BY <2>1, <1>2 DEF Sends, After
  <2>2. CASE Release(a, "leave") # <<>>
    <3>1. /\ a.socket \in Sockets /\ a.room \in RoomIds
          /\ Release(a, "leave") = <<Msg("leave", a.room, NoPayload)>>
      BY <2>2 DEF Release, App
    <3>2. Msg("leave", a.room, NoPayload) \in Asked(C)
      BY <3>1, MsgAsked DEF Ops
    <3>3. /\ Head(re.out) = Msg("leave", a.room, NoPayload)
          /\ Msg("leave", a.room, NoPayload).op = "leave"
      BY <3>1, <1>2 DEF Msg
    <3>4. After(re) = re.app
      BY <3>3 DEF After, Awaited
    <3>5. Sends(re, C)
      BY <3>1, <3>2, <1>2, <1>3 DEF Sends
    <3>. QED BY <3>4, <3>5
  <2>. QED BY <2>1, <2>2
<1>5. Watched(After(re))
  BY <1>3, <1>4 DEF Watched
<1>. QED BY <1>3, <1>4, <1>5 DEF Sound

LEMMA RejectedSound ==
    ASSUME NEW a \in App, NEW n \in Nat, NEW C, Counted(a, n)
    PROVE  /\ Sound(Becomes(Rejected(a), <<>>), n, C)
           /\ Rejected(a).pc = NoPayload
<1>1. PICK c \in App : c = ClosePc(StopLocalCapture(a))
  BY StoppedCapture, ClosedPc
<1>2. Counted(c, n) /\ c.pc = NoPayload
  BY <1>1, StoppedCapture, ClosedPc
<1>3. /\ Rejected(a) \in App /\ Rejected(a).pc = NoPayload /\ Rejected(a).status = "idle"
      /\ Rejected(a).captures = c.captures /\ Rejected(a).orphans = c.orphans
      /\ Rejected(a).sharing = c.sharing
  <2> DEFINE b == [c EXCEPT !.negTimer = FALSE, !.incoming = NoRoomId,
                            !.room = NoRoomId, !.status = "idle", !.cut = FALSE]
  <2>1. Rejected(a) = b
    BY <1>1 DEF Rejected
  <2>2. b \in App
    <3>1. "idle" \in Status
      BY DEF Status
    <3>. QED BY <3>1 DEF App
  <2>3. /\ b.pc = c.pc /\ b.status = "idle" /\ b.captures = c.captures
        /\ b.orphans = c.orphans /\ b.sharing = c.sharing
    BY DEF App
  <2> HIDE DEF b
  <2>. QED BY <1>2, <2>1, <2>2, <2>3
<1>4. Counted(Rejected(a), n) /\ Watched(Rejected(a))
  BY <1>2, <1>3 DEF Counted, Watched
<1>. QED BY <1>3, <1>4, QuietSound

\* The oldest pending call settles: the others are still awaited.
LEMMA CallSettled ==
    ASSUME NEW b \in App, b.calls # <<>>
    PROVE  LET a == [b EXCEPT !.calls = Tail(@)]
           IN  /\ a \in App
               /\ Head(b.calls) \in Awaited
               /\ a.captures = b.captures /\ a.orphans = b.orphans /\ a.sharing = b.sharing
               /\ a.pc = b.pc /\ a.remote = b.remote /\ a.socket = b.socket
               /\ Watched(b) /\ Head(b.calls) \notin {"request", "hangup"} => Watched(a)
<1>1. b.calls \in Seq(Awaited)
  BY DEF App
<1>2. PICK q : q = Tail(b.calls)
  OBVIOUS
<1>3. /\ q \in Seq(Awaited) /\ Head(b.calls) \in Awaited
      /\ \A i \in DOMAIN b.calls : i = 1 \/ (i - 1 \in DOMAIN q /\ q[i - 1] = b.calls[i])
      /\ Head(b.calls) = b.calls[1]
  BY <1>1, <1>2
<1> DEFINE a == [b EXCEPT !.calls = q]
<1>4. a \in App /\ a.calls = q
  BY <1>3 DEF App
<1>5. /\ a.cut = b.cut /\ a.status = b.status /\ a.incoming = b.incoming
      /\ a.reqTimer = b.reqTimer /\ a.negTimer = b.negTimer
      /\ a.captures = b.captures /\ a.orphans = b.orphans /\ a.sharing = b.sharing
      /\ a.pc = b.pc /\ a.remote = b.remote /\ a.socket = b.socket
  BY DEF App
<1>6. \A f : Awaits(b, f) /\ Head(b.calls) # f => Awaits(a, f)
  BY <1>3, <1>4 DEF Awaits
<1>7. Watched(b) /\ Head(b.calls) \notin {"request", "hangup"} => Watched(a)
  BY <1>5, <1>6 DEF Watched
<1>. QED BY <1>2, <1>3, <1>4, <1>5, <1>7

\* The states a settled call may put an application in.
LEMMA SettledStates ==
    ASSUME NEW a \in App, NEW r \in RoomIds \cup {NoRoomId}
    PROVE  /\ LET c == [a EXCEPT !.room = r, !.status = "waiting-for-approval",
                                 !.reqTimer = TRUE]
              IN  /\ c \in App /\ c.captures = a.captures /\ c.orphans = a.orphans
                  /\ c.sharing = a.sharing /\ c.pc = a.pc /\ c.remote = a.remote
                  /\ Watched(c)
           /\ LET c == [a EXCEPT !.role = "none", !.status = "failed"]
              IN  /\ c \in App /\ c.captures = a.captures /\ c.orphans = a.orphans
                  /\ c.sharing = a.sharing /\ c.pc = a.pc /\ c.remote = a.remote
                  /\ Watched(c)
           /\ LET c == [a EXCEPT !.status = "failed"]
              IN  /\ c \in App /\ c.captures = a.captures /\ c.orphans = a.orphans
                  /\ c.sharing = a.sharing /\ c.pc = a.pc /\ c.remote = a.remote
                  /\ c.socket = a.socket /\ Watched(c)
           /\ LET c == [a EXCEPT !.consuming = @ + 1]
              IN  /\ c \in App /\ c.captures = a.captures /\ c.orphans = a.orphans
                  /\ c.sharing = a.sharing /\ c.pc = a.pc /\ c.remote = a.remote
                  /\ Watched(a) => Watched(c)
<1>1. LET c == [a EXCEPT !.room = r, !.status = "waiting-for-approval", !.reqTimer = TRUE]
      IN  /\ c \in App /\ c.captures = a.captures /\ c.orphans = a.orphans
          /\ c.sharing = a.sharing /\ c.pc = a.pc /\ c.remote = a.remote
          /\ c.status = "waiting-for-approval" /\ c.reqTimer = TRUE
  BY DEF App, Status
<1>2. LET c == [a EXCEPT !.role = "none", !.status = "failed"]
      IN  /\ c \in App /\ c.captures = a.captures /\ c.orphans = a.orphans
          /\ c.sharing = a.sharing /\ c.pc = a.pc /\ c.remote = a.remote
          /\ c.status = "failed"
  BY DEF App, Status
<1>3. LET c == [a EXCEPT !.status = "failed"]
      IN  /\ c \in App /\ c.captures = a.captures /\ c.orphans = a.orphans
          /\ c.sharing = a.sharing /\ c.pc = a.pc /\ c.remote = a.remote
          /\ c.socket = a.socket /\ c.status = "failed"
  BY DEF App, Status
<1>4. LET c == [a EXCEPT !.consuming = @ + 1]
      IN  /\ c \in App /\ c.captures = a.captures /\ c.orphans = a.orphans
          /\ c.sharing = a.sharing /\ c.pc = a.pc /\ c.remote = a.remote
          /\ c.status = a.status /\ c.cut = a.cut /\ c.incoming = a.incoming
          /\ c.calls = a.calls /\ c.reqTimer = a.reqTimer /\ c.negTimer = a.negTimer
  <2>1. PICK n \in Nat : n = a.consuming + 1
    BY DEF App
  <2> DEFINE c == [a EXCEPT !.consuming = n]
  <2>2. c \in App
    BY DEF App
  <2>3. /\ c.captures = a.captures /\ c.orphans = a.orphans
        /\ c.sharing = a.sharing /\ c.pc = a.pc /\ c.remote = a.remote
    BY DEF App
  <2>4. /\ c.status = a.status /\ c.cut = a.cut /\ c.incoming = a.incoming
        /\ c.calls = a.calls /\ c.reqTimer = a.reqTimer /\ c.negTimer = a.negTimer
    BY DEF App
  <2>. QED BY <2>1, <2>2, <2>3, <2>4
<1>5. ASSUME NEW c, c.status = "failed" \/ (c.status = "waiting-for-approval" /\ c.reqTimer = TRUE)
      PROVE  Watched(c)
  BY <1>5 DEF Watched
<1>6. ASSUME NEW c, c.status = a.status, c.cut = a.cut, c.incoming = a.incoming,
             c.calls = a.calls, c.reqTimer = a.reqTimer, c.negTimer = a.negTimer
      PROVE  Watched(a) => Watched(c)
  BY <1>6 DEF Watched, Awaits
<1>. QED BY <1>1, <1>2, <1>3, <1>4, <1>5, <1>6

LEMMA ContinueSound ==
    ASSUME NEW b \in App, b.calls # <<>>, Watched(b),
           NEW n \in 0..MaxShares, Counted(b, n), NEW C,
           NEW ok \in BOOLEAN, NEW r \in RoomIds \cup {NoRoomId}
    PROVE  LET re == Continue([b EXCEPT !.calls = Tail(@)], Head(b.calls), ok, r)
           IN  Sound(re, n, C) /\ Kept(b, re.app)
<1>1. PICK op : op = Head(b.calls)
  OBVIOUS
<1>2. PICK a \in App : a = [b EXCEPT !.calls = Tail(@)]
  BY CallSettled
<1>3. /\ op \in Awaited
      /\ a.captures = b.captures /\ a.orphans = b.orphans /\ a.sharing = b.sharing
      /\ a.pc = b.pc /\ a.remote = b.remote /\ a.socket = b.socket
      /\ op \notin {"request", "hangup"} => Watched(a)
  BY <1>1, <1>2, CallSettled
<1>4. Counted(a, n) /\ n \in Nat
  BY <1>3, BudgetAssumption DEF Counted
<1> DEFINE re == Continue(a, op, ok, r)
<1>. SUFFICES Sound(re, n, C) /\ Kept(b, re.app)
  BY <1>1, <1>2
<1>5. ASSUME NEW c \in App, re = Becomes(c, <<>>), Watched(c),
             c.captures = a.captures, c.orphans = a.orphans, c.sharing = a.sharing,
             c.pc = a.pc, c.remote = a.remote
      PROVE  Sound(re, n, C) /\ Kept(b, re.app)
  <2>1. Counted(c, n)
    BY <1>4, <1>5 DEF Counted
  <2>2. Kept(b, c)
    BY <1>3, <1>5 DEF Kept
  <2>. QED BY <1>4, <1>5, <2>1, <2>2, QuietSound, BecomesFields
<1>6. CASE op = "request" /\ ok
  <2>1. re = Becomes([a EXCEPT !.room = r, !.status = "waiting-for-approval",
                               !.reqTimer = TRUE], <<>>)
    BY <1>6 DEF Continue
  <2>2. PICK c \in App :
           /\ c = [a EXCEPT !.room = r, !.status = "waiting-for-approval", !.reqTimer = TRUE]
           /\ c.captures = a.captures /\ c.orphans = a.orphans /\ c.sharing = a.sharing
           /\ c.pc = a.pc /\ c.remote = a.remote /\ Watched(c)
    BY SettledStates
  <2>. QED BY <1>5, <2>1, <2>2
<1>7. CASE op = "request" /\ ~ok
  <2>1. re = Becomes([a EXCEPT !.role = "none", !.status = "failed"], <<>>)
    BY <1>7 DEF Continue
  <2>. QED BY <1>5, <2>1, SettledStates
<1>8. CASE op = "accept" /\ ok
  <2>1. re = Becomes([a EXCEPT !.consuming = @ + 1], <<>>)
    BY <1>8 DEF Continue
  <2>. QED BY <1>3, <1>5, <1>8, <2>1, SettledStates
<1>9. CASE op = "accept" /\ ~ok
  <2>1. re = Becomes([a EXCEPT !.status = "failed"], <<>>)
    BY <1>9 DEF Continue
  <2>. QED BY <1>5, <2>1, SettledStates
<1>10. CASE op = "decline"
  <2>1. re = Becomes(Rejected(a), <<>>)
    BY <1>10 DEF Continue
  <2>. QED BY <2>1, <1>4, RejectedSound, BecomesFields DEF Kept
<1>11. CASE op = "hangup"
  <2>1. re = Becomes(ResetStore(a), <<>>)
    BY <1>11 DEF Continue
  <2>2. /\ ResetStore(a) \in App /\ Counted(ResetStore(a), n)
        /\ ResetStore(a).status = "idle"
        /\ ResetStore(a).pc = a.pc /\ ResetStore(a).remote = a.remote
    BY <1>4, StoreReset
  <2>3. Watched(ResetStore(a)) /\ Kept(b, ResetStore(a))
    BY <1>3, <2>2 DEF Watched, Kept
  <2>. QED BY <1>4, <2>1, <2>2, <2>3, QuietSound, BecomesFields
<1>12. CASE op \in {"offer", "answer"} /\ ~ok
  <2>1. re = Teardown(a, "failed")
    BY <1>12 DEF Continue
  <2>. QED BY <2>1, <1>4, TeardownSound DEF Kept
<1>13. CASE op \in {"offer", "answer"} /\ ok
  <2>1. re = Becomes(a, <<>>)
    BY <1>13 DEF Continue
  <2>. QED BY <1>3, <1>5, <1>13, <2>1
<1>. QED BY <1>3, <1>6, <1>7, <1>8, <1>9, <1>10, <1>11, <1>12, <1>13 DEF Awaited

-----------------------------------------------------------------------------
(* Every step of an application keeps the invariant *)

LEMMA SeqOfMore ==
    ASSUME NEW S, NEW T, S \subseteq T, NEW q \in Seq(S)
    PROVE  q \in Seq(T)
OBVIOUS

LEMMA AskedGrows ==
    ASSUME NEW C, NEW D, C \subseteq D
    PROVE  Asked(C) \subseteq Asked(D) /\ Mail(C) \subseteq Mail(D)
BY DEF Asked, Mail

UsedType ==
    [requests : 0..MaxRequests, hangups : 0..MaxHangups, faults : 0..MaxFaults,
     reoffers : 0..MaxReoffers, shares : 0..MaxShares, settings : 0..MaxSettings]

\* What an application's handler emits and becomes, next to what it leaves.
LEMMA EmittedState ==
    ASSUME SessionInv, NEW d \in Devices, NEW re, NEW n, NEW C, consented \subseteq C,
           Sound(re, n, C), Emitting(d, re)
    PROVE  /\ app' = [app EXCEPT ![d] = After(re)]
           /\ After(re) \in App /\ Counted(After(re), n) /\ Watched(After(re))
           /\ After(re).pc = re.app.pc /\ After(re).remote = re.app.remote
           /\ outbox' \in [Sockets -> Seq(Asked(C))]
<1>1. outbox \in [Sockets -> Seq(Asked(C))]
  BY AskedGrows, SeqOfMore DEF SessionInv
<1>2. CASE re.out = <<>>
  BY <1>1, <1>2 DEF Emitting, Sound, After
<1>3. ASSUME re.out # <<>>
      PROVE  /\ app' = [app EXCEPT ![d] = After(re)]
             /\ After(re) \in App /\ Counted(After(re), n) /\ Watched(After(re))
             /\ After(re).pc = re.app.pc /\ After(re).remote = re.app.remote
             /\ outbox' \in [Sockets -> Seq(Asked(C))]
  <2>1. PICK m \in Asked(C) : re.out = <<m>> /\ re.app.socket \in Sockets
    BY <1>3 DEF Sound, Sends
  <2>2. outbox' = [outbox EXCEPT ![re.app.socket] = @ \o re.out]
    BY <1>3 DEF Emitting
  <2>3. outbox[re.app.socket] \o re.out \in Seq(Asked(C))
    <3>1. outbox[re.app.socket] \in Seq(Asked(C)) /\ <<m>> \in Seq(Asked(C))
      BY <1>1, <2>1
    <3>. QED BY <3>1, <2>1
  <2>4. outbox' \in [Sockets -> Seq(Asked(C))]
    BY <1>1, <2>2, <2>3
  <2>5. Head(re.out).op = m.op
    BY <2>1
  <2>6. CASE m.op \in Awaited
    <3>1. /\ After(re) = [re.app EXCEPT !.calls = Append(@, m.op)]
          /\ app' = [app EXCEPT ![d] = After(re)]
      BY <1>3, <2>5, <2>6 DEF After, Emitting
    <3>2. re.app \in App /\ Counted(re.app, n) /\ Watched(After(re))
      BY DEF Sound
    <3>3. After(re) \in App
      BY <3>1, <3>2, <2>6, CallAdded
    <3>4. /\ After(re).captures = re.app.captures /\ After(re).orphans = re.app.orphans
          /\ After(re).sharing = re.app.sharing
          /\ After(re).pc = re.app.pc /\ After(re).remote = re.app.remote
      BY <3>1, <3>2 DEF App
    <3>5. Counted(After(re), n)
      BY <3>2, <3>4 DEF Counted
    <3>. QED BY <2>4, <3>1, <3>2, <3>3, <3>4, <3>5
  <2>7. CASE m.op \notin Awaited
    <3>1. After(re) = re.app /\ app' = [app EXCEPT ![d] = re.app]
      BY <1>3, <2>5, <2>7 DEF After, Emitting
    <3>. QED BY <2>4, <3>1 DEF Sound
  <2>. QED BY <2>6, <2>7
<1>. QED BY <1>2, <1>3

LEMMA AppStepInv ==
    ASSUME SessionInv, NEW d \in Devices, NEW a \in App,
           consented \subseteq consented', consented' \subseteq RoomIds,
           used' \in UsedType, used.shares <= used'.shares,
           Counted(a, used'.shares), Watched(a),
           app' = [app EXCEPT ![d] = a],
           outbox' \in [Sockets -> Seq(Asked(consented'))],
           inbox' \in [Sockets -> Seq(Mail(consented'))],
           UNCHANGED rooms
    PROVE  SessionInv'
<1>1. app \in [Devices -> App] /\ used \in UsedType
  BY DEF SessionInv, SessionTypeOK, UsedType
<1>2. app' \in [Devices -> App] /\ app'[d] = a /\ \A e \in Devices : e # d => app'[e] = app[e]
  BY <1>1
<1>3. outbox' \in [Sockets -> Seq(Message)] /\ inbox' \in [Sockets -> Seq(Note)]
  <2>1. Asked(consented') \subseteq Message /\ Mail(consented') \subseteq Note
    BY DEF Asked, Mail
  <2>. QED BY <2>1, SeqOfMore
<1>4. \A e \in Devices : Counted(app[e], used'.shares)
  <2>1. SUFFICES ASSUME NEW e \in Devices PROVE Counted(app[e], used'.shares)
    OBVIOUS
  <2>2. used.shares \in Nat /\ used'.shares \in Nat /\ used.shares <= used'.shares
    BY <1>1, BudgetAssumption DEF UsedType
  <2>3. app[e].captures \in Nat /\ app[e].orphans \in Nat
    <3>1. app[e] \in App
      BY <1>1
    <3>2. app[e].captures \in 0..MaxShares /\ app[e].orphans \in 0..MaxShares
      BY <3>1 DEF App
    <3>. QED BY <3>2, BudgetAssumption
  <2>4. Counted(app[e], used.shares)
    BY DEF SessionInv
  <2>. QED BY <2>2, <2>3, <2>4 DEF Counted
<1>5. \A e \in Devices : Counted(app'[e], used'.shares) /\ Watched(app'[e])
  BY <1>2, <1>4 DEF SessionInv
<1>6. \A r \in RoomIds : Accepted(r)' => r \in consented'
  BY DEF SessionInv, Accepted, Live
<1>7. SessionTypeOK'
  BY <1>2, <1>3 DEF SessionTypeOK, UsedType
<1>8. \A e \in Devices : Counted(app[e], used.shares)' /\ Watched(app[e])'
  BY <1>5 DEF Counted, Watched, Awaits
<1>. QED BY <1>6, <1>7, <1>8 DEF SessionInv, Asked, Mail, Message, Note

\* What a step of d's application leaves of the rest.
Frame ==
    /\ consented \subseteq consented' /\ consented' \subseteq RoomIds
    /\ used' \in UsedType /\ used.shares <= used'.shares
    /\ inbox' \in [Sockets -> Seq(Mail(consented'))]

\* A step of d's application that keeps the invariant and makes no peer
\* connection, and gives none the description of a peer, without a click.
Moves(d) ==
    \E re : /\ Emitting(d, re)
            /\ Sound(re, used'.shares, consented')
            /\ Kept(app[d], re.app) \/ Event1(d).room \in consented

LEMMA AppFacts ==
    ASSUME SessionInv, NEW d \in Devices
    PROVE  /\ app[d] \in App /\ Counted(app[d], used.shares) /\ Watched(app[d])
           /\ used \in UsedType /\ used.shares \in 0..MaxShares /\ used.shares \in Nat
           /\ consented \subseteq RoomIds
           /\ inbox \in [Sockets -> Seq(Mail(consented))]
<1>1. used \in UsedType /\ app \in [Devices -> App] /\ consented \subseteq RoomIds
  BY DEF SessionInv, SessionTypeOK, UsedType
<1>2. used.shares \in 0..MaxShares /\ used.shares \in Nat
  BY <1>1, BudgetAssumption DEF UsedType
<1>. QED BY <1>1, <1>2 DEF SessionInv

LEMMA LocalFrame ==
    ASSUME SessionInv, NEW d \in Devices, UNCHANGED <<inbox, consented, used>>
    PROVE  Frame /\ used'.shares = used.shares /\ consented' = consented
BY AppFacts DEF Frame

LEMMA BudgetFrame ==
    ASSUME SessionInv, NEW d \in Devices,
           inbox' \in [Sockets -> Seq(Mail(consented))], UNCHANGED consented,
           \/ used.requests < MaxRequests /\ used' = [used EXCEPT !.requests = @ + 1]
           \/ used.hangups < MaxHangups /\ used' = [used EXCEPT !.hangups = @ + 1]
           \/ used.reoffers < MaxReoffers /\ used' = [used EXCEPT !.reoffers = @ + 1]
           \/ used.settings < MaxSettings /\ used' = [used EXCEPT !.settings = @ + 1]
           \/ Outage
           \/ UNCHANGED used
    PROVE  Frame /\ used'.shares = used.shares /\ consented' = consented
<1>1. used \in UsedType /\ used.shares \in Nat /\ consented \subseteq RoomIds
  BY AppFacts
<1>2. \/ used.requests < MaxRequests /\ used' = [used EXCEPT !.requests = @ + 1]
      \/ used.hangups < MaxHangups /\ used' = [used EXCEPT !.hangups = @ + 1]
      \/ used.reoffers < MaxReoffers /\ used' = [used EXCEPT !.reoffers = @ + 1]
      \/ used.settings < MaxSettings /\ used' = [used EXCEPT !.settings = @ + 1]
      \/ used.faults < MaxFaults /\ used' = [used EXCEPT !.faults = @ + 1]
      \/ used' = used
  BY DEF Outage
<1>3. PICK u : u = used
  OBVIOUS
<1>4. /\ u.requests \in 0..MaxRequests /\ u.hangups \in 0..MaxHangups
      /\ u.faults \in 0..MaxFaults /\ u.reoffers \in 0..MaxReoffers
      /\ u.shares \in 0..MaxShares /\ u.settings \in 0..MaxSettings
      /\ u \in UsedType
  BY <1>1, <1>3 DEF UsedType
<1>5. /\ MaxRequests \in Nat /\ MaxHangups \in Nat /\ MaxFaults \in Nat
      /\ MaxReoffers \in Nat /\ MaxSettings \in Nat
  BY BudgetAssumption
<1>6. used' \in UsedType /\ used'.shares = used.shares
  <2>1. CASE u.requests < MaxRequests /\ used' = [used EXCEPT !.requests = @ + 1]
    <3>1. u.requests + 1 \in 0..MaxRequests
      BY <1>4, <1>5, <2>1
    <3>. QED BY <1>3, <1>4, <2>1, <3>1 DEF UsedType
  <2>2. CASE u.hangups < MaxHangups /\ used' = [used EXCEPT !.hangups = @ + 1]
    <3>1. u.hangups + 1 \in 0..MaxHangups
      BY <1>4, <1>5, <2>2
    <3>. QED BY <1>3, <1>4, <2>2, <3>1 DEF UsedType
  <2>3. CASE u.reoffers < MaxReoffers /\ used' = [used EXCEPT !.reoffers = @ + 1]
    <3>1. u.reoffers + 1 \in 0..MaxReoffers
      BY <1>4, <1>5, <2>3
    <3>. QED BY <1>3, <1>4, <2>3, <3>1 DEF UsedType
  <2>4. CASE u.settings < MaxSettings /\ used' = [used EXCEPT !.settings = @ + 1]
    <3>1. u.settings + 1 \in 0..MaxSettings
      BY <1>4, <1>5, <2>4
    <3>. QED BY <1>3, <1>4, <2>4, <3>1 DEF UsedType
  <2>5. CASE u.faults < MaxFaults /\ used' = [used EXCEPT !.faults = @ + 1]
    <3>1. u.faults + 1 \in 0..MaxFaults
      BY <1>4, <1>5, <2>5
    <3>. QED BY <1>3, <1>4, <2>5, <3>1 DEF UsedType
  <2>6. CASE used' = used
    BY <1>1, <2>6
  <2>. QED BY <1>2, <1>3, <2>1, <2>2, <2>3, <2>4, <2>5, <2>6
<1>. QED BY <1>1, <1>6 DEF Frame

\* What a step takes off the inbox is a note the server sent.
LEMMA ReceivesFrame ==
    ASSUME SessionInv, NEW d \in Devices, NEW name, Receives(d, name)
    PROVE  /\ Frame /\ used'.shares = used.shares /\ consented' = consented
           /\ Event1(d) \in Mail(consented) /\ Event1(d).name = name
           /\ app[d].socket \in Sockets
<1>1. app[d].socket \in Sockets /\ inbox \in [Sockets -> Seq(Mail(consented))]
  BY AppFacts DEF Receives, App
<1>2. PICK q \in Seq(Mail(consented)) : q = inbox[app[d].socket] /\ q # <<>>
  BY <1>1 DEF Receives
<1>3. Head(q) \in Mail(consented) /\ Tail(q) \in Seq(Mail(consented))
  BY <1>2
<1>4. inbox' \in [Sockets -> Seq(Mail(consented))]
  BY <1>1, <1>2, <1>3 DEF Receives
<1>. QED BY <1>1, <1>2, <1>3, <1>4, AppFacts DEF Receives, Frame, Event1

SameShares(a, c) ==
    c.captures = a.captures /\ c.orphans = a.orphans /\ c.sharing = a.sharing

LEMMA SharesCounted ==
    ASSUME NEW a, NEW c, NEW n, SameShares(a, c), Counted(a, n)
    PROVE  Counted(c, n)
BY DEF SameShares, Counted

\* A handler that sends nothing.
LEMMA MovesQuietly ==
    ASSUME NEW d \in Devices, NEW a \in App, Emitting(d, Becomes(a, <<>>)),
           used'.shares \in Nat, Counted(a, used'.shares), Watched(a),
           Kept(app[d], a) \/ Event1(d).room \in consented
    PROVE  Moves(d)
BY QuietSound, BecomesFields DEF Moves

\* A handler that sends a message.
LEMMA MovesSending ==
    ASSUME NEW d \in Devices, NEW a \in App, NEW m \in Asked(consented'),
           Emitting(d, Becomes(a, <<m>>)), a.socket \in Sockets,
           used'.shares \in Nat, Counted(a, used'.shares), Watched(a),
           Kept(app[d], a) \/ Event1(d).room \in consented
    PROVE  Moves(d)
BY SendingSound, BecomesFields DEF Moves

\* A teardown.
LEMMA MovesByTeardown ==
    ASSUME NEW d \in Devices, NEW a \in App, NEW status \in {"failed", "disconnected"},
           Emitting(d, Teardown(a, status)),
           used'.shares \in 0..MaxShares, Counted(a, used'.shares)
    PROVE  Moves(d)
BY TeardownSound DEF Moves, Kept

\* The user's clicks.
LEMMA ConnectMoves ==
    ASSUME SessionInv, NEW d \in Devices, NEW target \in Devices,
           ConnectToRemote(d, target)
    PROVE  Frame /\ Moves(d)
<1> DEFINE a == [app[d] EXCEPT !.role = "client", !.status = "connecting"]
           c == [a EXCEPT !.role = "none", !.status = "failed"]
<1>1. inbox' \in [Sockets -> Seq(Mail(consented))] /\ UNCHANGED consented
  BY AppFacts DEF ConnectToRemote, Clicks
<1>2. Frame /\ used'.shares = used.shares /\ consented' = consented
  BY <1>1, BudgetFrame DEF ConnectToRemote
<1>3. used.shares \in Nat /\ app[d] \in App /\ Counted(app[d], used.shares)
  BY AppFacts
<1>4. /\ a \in App /\ a.socket = app[d].socket /\ a.status = "connecting"
      /\ a.pc = app[d].pc /\ a.remote = app[d].remote /\ SameShares(app[d], a)
  BY <1>3 DEF App, Status, SameShares
<1>5. Counted(a, used.shares)
  BY <1>3, <1>4, SharesCounted
<1>6. CASE a.socket = NoSocket
  <2>1. Emitting(d, Becomes(c, <<>>))
    BY <1>6 DEF ConnectToRemote
  <2>2. PICK b : b = a
    OBVIOUS
  <2>3. [b EXCEPT !.role = "none", !.status = "failed"] = c
    BY <2>2
  <2>4. /\ c \in App /\ c.status = "failed" /\ c.pc = b.pc /\ c.remote = b.remote
        /\ SameShares(b, c)
    <3> HIDE DEF a, c
    <3>. QED BY <1>4, <2>2, <2>3 DEF App, Status, SameShares
  <2>5. Watched(c) /\ Kept(app[d], c)
    BY <1>4, <2>2, <2>4 DEF Watched, Kept
  <2>6. Counted(c, used.shares)
    BY <1>5, <2>2, <2>4, SharesCounted
  <2>. QED BY <1>2, <1>3, <2>1, <2>4, <2>5, <2>6, MovesQuietly
<1>7. CASE a.socket # NoSocket
  <2> DEFINE m == Request(target)
             re == Becomes(a, <<m>>)
  <2>1. Emitting(d, re)
    BY <1>7 DEF ConnectToRemote
  <2>2. m \in Asked(consented') /\ m.op = "request" /\ "request" \in Awaited
    BY DEF Request, Asked, Message, Ops, Awaited
  <2>3. re.app = a /\ re.out = <<m>> /\ Head(re.out) = m /\ re.out # <<>>
    BY BecomesFields
  <2>4. After(re) = [a EXCEPT !.calls = Append(@, "request")]
    BY <2>2, <2>3 DEF After
  <2>5. PICK b : b = After(re)
    OBVIOUS
  <2>6. b \in App /\ Awaits(b, "request") /\ b.status = "connecting"
    <3> HIDE DEF a, re, m
    <3>1. b = [a EXCEPT !.calls = Append(@, "request")]
      BY <2>4, <2>5
    <3>2. b.status = "connecting"
      BY <1>4, <3>1 DEF App
    <3>. QED BY <1>4, <2>2, <3>1, <3>2, CallAdded
  <2>8. Watched(After(re))
    BY <2>5, <2>6 DEF Watched
  <2>9. a.socket \in Sockets
    <3> HIDE DEF a
    <3>. QED BY <1>4, <1>7 DEF App
  <2>10. Sound(re, used'.shares, consented')
    BY <1>2, <1>4, <1>5, <2>2, <2>3, <2>8, <2>9 DEF Sound, Sends
  <2>11. Kept(app[d], re.app)
    BY <1>4, <2>3 DEF Kept
  <2>. QED BY <1>2, <2>1, <2>10, <2>11 DEF Moves
<1>. QED BY <1>6, <1>7

LEMMA AcceptMoves ==
    ASSUME SessionInv, NEW d \in Devices, AcceptIncoming(d)
    PROVE  Frame /\ Moves(d)
<1> DEFINE r == app[d].incoming
<1>1. /\ app[d] \in App /\ Counted(app[d], used.shares) /\ Watched(app[d])
      /\ used \in UsedType /\ used.shares \in Nat
      /\ consented \subseteq RoomIds /\ inbox \in [Sockets -> Seq(Mail(consented))]
  BY AppFacts
<1>2. r \in RoomIds /\ consented' = consented \cup {r} /\ used' = used /\ inbox' = inbox
  BY <1>1 DEF AcceptIncoming, Clicks, App
<1>3. inbox' \in [Sockets -> Seq(Mail(consented'))]
  <2>1. Mail(consented) \subseteq Mail(consented')
    BY <1>2, AskedGrows
  <2>2. \A q \in Seq(Mail(consented)) : q \in Seq(Mail(consented'))
    BY <2>1, SeqOfMore
  <2>. QED BY <1>1, <1>2, <2>2
<1>4. Frame
  <2>1. consented \subseteq consented' /\ consented' \subseteq RoomIds
    BY <1>1, <1>2
  <2>2. used' \in UsedType /\ used.shares <= used'.shares
    BY <1>1, <1>2
  <2>. QED BY <1>3, <2>1, <2>2 DEF Frame
<1>5. Kept(app[d], app[d])
  BY DEF Kept
<1>6. CASE app[d].socket = NoSocket
  <2>1. Emitting(d, Becomes([app[d] EXCEPT !.status = "failed"], <<>>))
    BY <1>6 DEF AcceptIncoming
  <2>2. PICK c \in App :
           /\ c = [app[d] EXCEPT !.status = "failed"]
           /\ SameShares(app[d], c) /\ c.pc = app[d].pc /\ c.remote = app[d].remote
           /\ Watched(c)
    BY <1>1, SettledStates DEF SameShares
  <2>3. Counted(c, used.shares) /\ Kept(app[d], c)
    BY <1>1, <2>2, SharesCounted DEF Kept
  <2>. QED BY <1>1, <1>2, <1>4, <2>1, <2>2, <2>3, MovesQuietly
<1>7. CASE app[d].socket # NoSocket
  <2>1. Emitting(d, Becomes(app[d], <<Msg("accept", r, NoPayload)>>))
    BY <1>7 DEF AcceptIncoming
  <2>2. Msg("accept", r, NoPayload) \in Asked(consented')
    BY <1>2, MsgAsked DEF Ops, Awaited
  <2>3. app[d].socket \in Sockets
    BY <1>1, <1>7 DEF App
  <2>. QED BY <1>1, <1>2, <1>4, <1>5, <2>1, <2>2, <2>3, MovesSending
<1>. QED BY <1>6, <1>7

LEMMA RejectMoves ==
    ASSUME SessionInv, NEW d \in Devices, RejectIncoming(d)
    PROVE  Frame /\ Moves(d)
<1>1. /\ app[d] \in App /\ Counted(app[d], used.shares) /\ Watched(app[d])
      /\ used.shares \in Nat
  BY AppFacts
<1>2. Frame /\ used'.shares = used.shares /\ consented' = consented
  BY LocalFrame DEF RejectIncoming, Clicks
<1>3. CASE app[d].socket = NoSocket
  <2>1. Emitting(d, Becomes(Rejected(app[d]), <<>>))
    BY <1>3 DEF RejectIncoming
  <2>. QED BY <1>1, <1>2, <2>1, RejectedSound, BecomesFields DEF Moves, Kept
<1>4. CASE app[d].socket # NoSocket
  <2>1. Emitting(d, Becomes(app[d], <<Msg("decline", app[d].incoming, NoPayload)>>))
    BY <1>4 DEF RejectIncoming
  <2>2. app[d].socket \in Sockets /\ app[d].incoming \in RoomIds
    BY <1>1, <1>4 DEF App, RejectIncoming
  <2>3. Msg("decline", app[d].incoming, NoPayload) \in Asked(consented')
    BY <2>2, MsgAsked DEF Ops, Awaited
  <2>4. Kept(app[d], app[d])
    BY DEF Kept
  <2>. QED BY <1>1, <1>2, <2>1, <2>2, <2>3, <2>4, MovesSending
<1>. QED BY <1>3, <1>4

LEMMA DisconnectMoves ==
    ASSUME SessionInv, NEW d \in Devices, DisconnectSession(d)
    PROVE  Frame /\ Moves(d)
<1>1. /\ app[d] \in App /\ Counted(app[d], used.shares) /\ Watched(app[d])
      /\ used.shares \in 0..MaxShares /\ used.shares \in Nat
      /\ inbox \in [Sockets -> Seq(Mail(consented))]
  BY AppFacts
<1>2. Frame /\ used'.shares = used.shares /\ consented' = consented
  BY <1>1, BudgetFrame DEF DisconnectSession
<1>3. PICK a : a = EndSession(app[d])
  OBVIOUS
<1>4. /\ a \in App /\ Counted(a, used.shares) /\ a.pc = NoPayload
      /\ a.status = app[d].status /\ a.cut = app[d].cut /\ a.calls = app[d].calls
      /\ a.socket = app[d].socket /\ a.room = app[d].room
  BY <1>1, <1>3, EndedSession
<1>5. CASE Release(a, "hangup") = <<>>
  <2>1. Emitting(d, Becomes(ResetStore(a), <<>>))
    BY <1>3, <1>5 DEF DisconnectSession
  <2>2. /\ ResetStore(a) \in App /\ Counted(ResetStore(a), used.shares)
        /\ ResetStore(a).status = "idle" /\ ResetStore(a).pc = NoPayload
    BY <1>1, <1>4, StoreReset
  <2>3. Watched(ResetStore(a)) /\ Kept(app[d], ResetStore(a))
    BY <2>2 DEF Watched, Kept
  <2>. QED BY <1>1, <1>2, <2>1, <2>2, <2>3, MovesQuietly
<1>6. CASE Release(a, "hangup") # <<>>
  <2> DEFINE m == Msg("hangup", a.room, NoPayload)
             re == Becomes(a, <<m>>)
  <2>1. /\ a.socket \in Sockets /\ a.room \in RoomIds /\ Release(a, "hangup") = <<m>>
    BY <1>4, <1>6 DEF Release, App
  <2>2. Emitting(d, re)
    BY <1>3, <1>6, <2>1 DEF DisconnectSession
  <2>3. m \in Asked(consented') /\ m.op = "hangup" /\ "hangup" \in Awaited
    BY <2>1, MsgAsked DEF Ops, Awaited, Msg
  <2>4. re.app = a /\ re.out = <<m>> /\ Head(re.out) = m /\ re.out # <<>>
    BY BecomesFields
  <2>5. After(re) = [a EXCEPT !.calls = Append(@, "hangup")]
    BY <2>3, <2>4 DEF After
  <2>6. PICK b : b = After(re)
    OBVIOUS
  <2>7. /\ b \in App /\ Awaits(b, "hangup")
        /\ Awaits(a, "request") => Awaits(b, "request")
    BY <1>4, <2>3, <2>5, <2>6, CallAdded
  <2>8. b.status = app[d].status /\ b.cut = app[d].cut
    BY <1>4, <2>5, <2>6 DEF App
  <2>9. Awaits(app[d], "request") => Awaits(b, "request")
    BY <1>4, <2>7 DEF Awaits
  <2>10. Watched(After(re))
    BY <1>1, <2>6, <2>7, <2>8, <2>9 DEF Watched
  <2>11. Sound(re, used'.shares, consented') /\ Kept(app[d], re.app)
    BY <1>2, <1>4, <2>1, <2>3, <2>4, <2>10 DEF Sound, Sends, Kept
  <2>. QED BY <1>2, <2>2, <2>11 DEF Moves
<1>. QED BY <1>5, <1>6

LEMMA StopSharingMoves ==
    ASSUME SessionInv, NEW d \in Devices, StopSharing(d)
    PROVE  Frame /\ Moves(d)
<1>1. /\ app[d] \in App /\ Counted(app[d], used.shares) /\ Watched(app[d])
      /\ used.shares \in Nat
  BY AppFacts
<1>2. Frame /\ used'.shares = used.shares /\ consented' = consented
  BY LocalFrame DEF StopSharing
<1>3. PICK a : a = StopLocalCapture(app[d])
  OBVIOUS
<1>4. /\ a \in App /\ Counted(a, used.shares) /\ a.pc = app[d].pc /\ a.remote = app[d].remote
      /\ a.status = app[d].status /\ a.cut = app[d].cut /\ a.calls = app[d].calls
      /\ a.negTimer = app[d].negTimer /\ a.reqTimer = app[d].reqTimer
      /\ a.incoming = app[d].incoming
  BY <1>1, <1>3, StoppedCapture
<1>5. Watched(a) /\ Kept(app[d], a)
  BY <1>1, <1>4 DEF Watched, Kept, Awaits
<1>6. Emitting(d, Becomes(a, <<>>))
  BY <1>3 DEF StopSharing
<1>. QED BY <1>1, <1>2, <1>4, <1>5, <1>6, MovesQuietly

LEMMA StartSharingMoves ==
    ASSUME SessionInv, NEW d \in Devices, StartSharing(d)
    PROVE  Frame /\ Moves(d)
<1>1. /\ app[d] \in App /\ Counted(app[d], used.shares) /\ Watched(app[d])
      /\ used \in UsedType /\ used.shares \in Nat /\ consented \subseteq RoomIds
      /\ inbox \in [Sockets -> Seq(Mail(consented))]
  BY AppFacts
<1>2. PICK u : u = used
  OBVIOUS
<1>3. u \in UsedType /\ u.shares < MaxShares /\ used' = [u EXCEPT !.shares = @ + 1]
  BY <1>1, <1>2 DEF StartSharing
<1>4. u.shares + 1 \in 0..MaxShares /\ MaxShares \in Nat
  BY <1>1, <1>2, <1>3, BudgetAssumption
<1>5. used' \in UsedType /\ used'.shares = used.shares + 1
  BY <1>2, <1>3, <1>4 DEF UsedType
<1>6. Frame
  <2>1. inbox' = inbox /\ consented' = consented
    BY DEF StartSharing
  <2>2. used.shares <= used'.shares
    BY <1>1, <1>5
  <2>. QED BY <1>1, <1>5, <2>1, <2>2 DEF Frame
<1>7. PICK b \in App : b = app[d]
  BY <1>1
<1>8. /\ b.captures \in 0..MaxShares /\ b.orphans \in 0..MaxShares
      /\ Counted(b, used.shares)
  BY <1>1, <1>7 DEF App
<1>9. b.captures + 1 \in 0..MaxShares
  BY <1>1, <1>2, <1>3, <1>4, <1>8 DEF Counted
<1>10. PICK a : a = [b EXCEPT !.captures = @ + 1]
  OBVIOUS
<1>11. /\ a \in App /\ a.captures = b.captures + 1 /\ a.orphans = b.orphans
       /\ a.sharing = b.sharing /\ a.pc = b.pc /\ a.remote = b.remote
       /\ a.status = b.status /\ a.cut = b.cut /\ a.calls = b.calls
       /\ a.negTimer = b.negTimer /\ a.reqTimer = b.reqTimer /\ a.incoming = b.incoming
  BY <1>9, <1>10 DEF App
<1>12. Counted(a, used'.shares)
  BY <1>1, <1>4, <1>5, <1>8, <1>11 DEF Counted
<1>13. Watched(a) /\ Kept(app[d], a)
  BY <1>1, <1>7, <1>11 DEF Watched, Kept, Awaits
<1>14. Emitting(d, Becomes(a, <<>>))
  BY <1>7, <1>10 DEF StartSharing
<1>. QED BY <1>1, <1>5, <1>6, <1>11, <1>12, <1>13, <1>14, MovesQuietly

LEMMA SettingsMoves ==
    ASSUME SessionInv, NEW d \in Devices, SettingsChange(d)
    PROVE  Frame /\ Moves(d)
<1>1. /\ app[d] \in App /\ Counted(app[d], used.shares) /\ Watched(app[d])
      /\ used \in UsedType /\ used.shares \in Nat /\ consented \subseteq RoomIds
      /\ inbox \in [Sockets -> Seq(Mail(consented))]
  BY AppFacts
<1>2. inbox' \in [Sockets -> Seq(Mail(consented))]
  <2>1. <<>> \in Seq(Mail(consented))
    OBVIOUS
  <2>. QED BY <1>1, <2>1 DEF SettingsChange
<1>3. Frame /\ used'.shares = used.shares /\ consented' = consented
  BY <1>2, BudgetFrame DEF SettingsChange
<1>4. PICK b : b = ClosePc(app[d])
  OBVIOUS
<1>5. /\ b \in App /\ Counted(b, used.shares) /\ b.pc = NoPayload
      /\ b.status = app[d].status /\ b.cut = app[d].cut
  BY <1>1, <1>4, ClosedPc
<1>6. PICK cut \in BOOLEAN :
          cut = (b.cut \/ app[d].status \in Busy \/ app[d].pc # NoPayload)
  OBVIOUS
<1>7. PICK a : a = [b EXCEPT !.negTimer = FALSE, !.reqTimer = FALSE,
                             !.socket = NoSocket, !.late = 0, !.cut = cut]
  OBVIOUS
<1>8. /\ a \in App /\ a.pc = b.pc /\ a.status = b.status /\ a.cut = cut
      /\ SameShares(b, a)
  BY <1>5, <1>7 DEF App, SameShares
<1>9. Watched(a)
  BY <1>5, <1>6, <1>8 DEF Watched, Busy
<1>10. Counted(a, used.shares) /\ Kept(app[d], a)
  BY <1>5, <1>8, SharesCounted DEF Kept
<1>11. Emitting(d, Becomes(a, <<>>))
  <2>1. app' = [app EXCEPT ![d] = a] /\ UNCHANGED outbox
    BY <1>4, <1>6, <1>7 DEF SettingsChange
  <2>. QED BY <2>1, BecomesFields DEF Emitting
<1>. QED BY <1>1, <1>3, <1>8, <1>9, <1>10, <1>11, MovesQuietly

\* Events from the server.
LEMMA IncomingMoves ==
    ASSUME SessionInv, NEW d \in Devices, OnIncoming(d)
    PROVE  Frame /\ Moves(d)
<1>1. /\ app[d] \in App /\ Counted(app[d], used.shares) /\ Watched(app[d])
      /\ used.shares \in Nat
  BY AppFacts
<1>2. /\ Frame /\ used'.shares = used.shares /\ consented' = consented
      /\ Event1(d) \in Mail(consented) /\ Event1(d).name = "incoming-connection"
  BY ReceivesFrame DEF OnIncoming
<1>3. PICK b \in App : b = app[d]
  BY <1>1
<1>4. PICK q : q = Append(b.validating, Event1(d).room)
  OBVIOUS
<1>5. q \in Seq(RoomIds)
  <2>1. Event1(d).room \in RoomIds
    BY <1>2 DEF Mail
  <2>2. b.validating \in Seq(RoomIds)
    BY DEF App
  <2>. QED BY <1>4, <2>1, <2>2
<1>6. PICK a : a = [b EXCEPT !.validating = q]
  OBVIOUS
<1>7. /\ a \in App /\ SameShares(b, a) /\ a.pc = b.pc /\ a.remote = b.remote
      /\ a.status = b.status /\ a.cut = b.cut /\ a.calls = b.calls
      /\ a.negTimer = b.negTimer /\ a.reqTimer = b.reqTimer /\ a.incoming = b.incoming
  BY <1>5, <1>6 DEF App, SameShares
<1>8. Counted(a, used.shares) /\ Watched(a) /\ Kept(app[d], a)
  BY <1>1, <1>3, <1>7, SharesCounted DEF Watched, Kept, Awaits
<1>9. Emitting(d, Becomes(a, <<>>))
  BY <1>3, <1>4, <1>6 DEF OnIncoming
<1>. QED BY <1>1, <1>2, <1>7, <1>8, <1>9, MovesQuietly

LEMMA RejectedMoves ==
    ASSUME SessionInv, NEW d \in Devices, OnRejected(d)
    PROVE  Frame /\ Moves(d)
<1>1. app[d] \in App /\ Counted(app[d], used.shares) /\ used.shares \in Nat
  BY AppFacts
<1>2. Frame /\ used'.shares = used.shares /\ consented' = consented
  BY ReceivesFrame DEF OnRejected
<1>3. PICK b \in App : b = app[d]
  BY <1>1
<1>4. PICK a : a = [b EXCEPT !.reqTimer = FALSE, !.status = "failed",
                             !.incoming = NoRoomId, !.room = NoRoomId]
  OBVIOUS
<1>5. /\ a \in App /\ SameShares(b, a) /\ a.pc = b.pc /\ a.remote = b.remote
      /\ a.status = "failed"
  BY <1>4 DEF App, SameShares, Status
<1>6. Counted(a, used.shares) /\ Watched(a) /\ Kept(app[d], a)
  BY <1>1, <1>3, <1>5, SharesCounted DEF Watched, Kept
<1>7. Emitting(d, Becomes(a, <<>>))
  BY <1>3, <1>4 DEF OnRejected
<1>. QED BY <1>1, <1>2, <1>5, <1>6, <1>7, MovesQuietly

LEMMA PeerDisconnectedMoves ==
    ASSUME SessionInv, NEW d \in Devices, OnPeerDisconnected(d)
    PROVE  Frame /\ Moves(d)
<1>1. /\ app[d] \in App /\ Counted(app[d], used.shares) /\ used.shares \in 0..MaxShares
  BY AppFacts
<1>2. Frame /\ used'.shares = used.shares
  BY ReceivesFrame DEF OnPeerDisconnected
<1>3. PICK status \in {"failed", "disconnected"} : Emitting(d, Teardown(app[d], status))
  BY DEF OnPeerDisconnected
<1>. QED BY <1>1, <1>2, <1>3, MovesByTeardown

\* A connection that is there is used, and a new one can be told from others.
LEMMA PcEnsured ==
    ASSUME NEW d \in Devices, NEW a \in App, a.pc = app[d].pc, CanEnsurePc(d)
    PROVE  LET b == EnsurePc(d, a)
           IN  /\ b \in App /\ b.pc \in Pcs /\ b.remote = a.remote
               /\ a.pc # NoPayload => b = a
               /\ SameShares(a, b) /\ b.socket = a.socket
               /\ b.status = a.status /\ b.cut = a.cut /\ b.calls = a.calls
               /\ b.negTimer = a.negTimer /\ b.reqTimer = a.reqTimer
               /\ b.incoming = a.incoming
<1>1. CASE a.pc # NoPayload
  <2>1. EnsurePc(d, a) = a
    BY <1>1 DEF EnsurePc
  <2>2. a.pc \in Pcs
    BY <1>1 DEF App
  <2>. QED BY <2>1, <2>2 DEF SameShares
<1>2. CASE a.pc = NoPayload
  <2>1. FreePcs(d) # {}
    BY <1>2 DEF CanEnsurePc
  <2>2. (CHOOSE n \in FreePcs(d) : TRUE) \in 1..MaxPcs
    BY <2>1 DEF FreePcs
  <2>3. NewPc(d) \in Pcs
    <3>1. PICK n \in 1..MaxPcs : n = CHOOSE i \in FreePcs(d) : TRUE
      BY <2>2
    <3>2. NewPc(d) = <<d, n>>
      BY <3>1 DEF NewPc
    <3>. QED BY <3>2 DEF Pcs
  <2>4. PICK p \in Pcs : p = NewPc(d)
    BY <2>3
  <2>5. PICK b : b = [a EXCEPT !.pc = p]
    OBVIOUS
  <2>6. EnsurePc(d, a) = b
    BY <1>2, <2>4, <2>5 DEF EnsurePc
  <2>7. /\ b \in App /\ b.pc = p /\ b.remote = a.remote
        /\ SameShares(a, b) /\ b.socket = a.socket
        /\ b.status = a.status /\ b.cut = a.cut /\ b.calls = a.calls
        /\ b.negTimer = a.negTimer /\ b.reqTimer = a.reqTimer
        /\ b.incoming = a.incoming
    BY <2>4, <2>5 DEF App, SameShares
  <2>. QED BY <1>2, <2>4, <2>6, <2>7
<1>. QED BY <1>1, <1>2

LEMMA AcceptedMoves ==
    ASSUME SessionInv, NEW d \in Devices, OnAccepted(d)
    PROVE  Frame /\ Moves(d)
<1>1. /\ app[d] \in App /\ Counted(app[d], used.shares)
      /\ used.shares \in Nat /\ consented \subseteq RoomIds
  BY AppFacts
<1>2. /\ Frame /\ used'.shares = used.shares /\ consented' = consented
      /\ Event1(d) \in Mail(consented) /\ Event1(d).name = "connection-accepted"
      /\ app[d].socket \in Sockets
  BY ReceivesFrame DEF OnAccepted
<1>3. PICK r : r = Event1(d).room
  OBVIOUS
<1>4. r \in consented /\ r \in RoomIds
  BY <1>1, <1>2, <1>3 DEF Mail, MediaEvent
<1>5. PICK c \in App : c = app[d]
  BY <1>1
<1>6. PICK a : a = [c EXCEPT !.reqTimer = FALSE, !.room = r,
                             !.status = "negotiating", !.negTimer = TRUE]
  OBVIOUS
<1>7. /\ a \in App /\ SameShares(c, a) /\ a.pc = c.pc /\ a.socket = c.socket
      /\ a.status = "negotiating" /\ a.negTimer = TRUE
  BY <1>4, <1>6 DEF App, SameShares, Status
<1>8. PICK b : b = EnsurePc(d, a)
  OBVIOUS
<1>9. /\ b \in App /\ b.pc \in Pcs /\ SameShares(a, b) /\ b.socket = a.socket
      /\ b.status = "negotiating" /\ b.negTimer = TRUE
  BY <1>5, <1>7, <1>8, PcEnsured DEF OnAccepted
<1>10. Counted(b, used.shares) /\ Watched(b)
  BY <1>1, <1>5, <1>7, <1>9, SharesCounted DEF Watched
<1>11. Emitting(d, Becomes(b, <<Msg("offer", r, b.pc)>>))
  BY <1>3, <1>5, <1>6, <1>8 DEF OnAccepted, Offering
<1>12. Msg("offer", r, b.pc) \in Asked(consented')
  BY <1>4, <1>9, MsgAsked DEF Ops, Awaited
<1>13. b.socket \in Sockets
  BY <1>2, <1>5, <1>7, <1>9
<1>. QED BY <1>1, <1>2, <1>3, <1>4, <1>9, <1>10, <1>11, <1>12, <1>13, MovesSending

LEMMA OfferMoves ==
    ASSUME SessionInv, NEW d \in Devices, OnOffer(d)
    PROVE  Frame /\ Moves(d)
<1>1. /\ app[d] \in App /\ Counted(app[d], used.shares) /\ Watched(app[d])
      /\ used.shares \in Nat /\ consented \subseteq RoomIds
  BY AppFacts
<1>2. /\ Frame /\ used'.shares = used.shares /\ consented' = consented
      /\ Event1(d) \in Mail(consented) /\ Event1(d).name = "webrtc-offer"
      /\ app[d].socket \in Sockets
  BY ReceivesFrame DEF OnOffer
<1>3. PICK r : r = Event1(d).room
  OBVIOUS
<1>4. r \in consented /\ r \in RoomIds /\ Event1(d).payload \in Pcs
  BY <1>1, <1>2, <1>3 DEF Mail, MediaEvent
<1>5. PICK c : c = EnsurePc(d, app[d])
  OBVIOUS
<1>6. /\ c \in App /\ c.pc \in Pcs /\ SameShares(app[d], c) /\ c.socket = app[d].socket
      /\ c.status = app[d].status /\ c.cut = app[d].cut /\ c.calls = app[d].calls
      /\ c.negTimer = app[d].negTimer /\ c.reqTimer = app[d].reqTimer
      /\ c.incoming = app[d].incoming
  BY <1>1, <1>5, PcEnsured DEF OnOffer
<1>7. PICK b : b = [c EXCEPT !.remote = Event1(d).payload]
  OBVIOUS
<1>8. /\ b \in App /\ b.pc = c.pc /\ SameShares(c, b) /\ b.socket = c.socket
      /\ b.status = c.status /\ b.cut = c.cut /\ b.calls = c.calls
      /\ b.negTimer = c.negTimer /\ b.reqTimer = c.reqTimer
      /\ b.incoming = c.incoming
  BY <1>4, <1>6, <1>7 DEF App, SameShares
<1>9. Counted(b, used.shares) /\ Watched(b)
  BY <1>1, <1>6, <1>8, SharesCounted DEF Watched, Awaits
<1>10. CASE app[d].role = "host" /\ app[d].room = r
  <2>1. Emitting(d, Becomes(b, <<Msg("answer", r, b.pc)>>))
    BY <1>3, <1>5, <1>7, <1>10 DEF OnOffer
  <2>2. Msg("answer", r, b.pc) \in Asked(consented')
    BY <1>4, <1>6, <1>8, MsgAsked DEF Ops, Awaited
  <2>3. b.socket \in Sockets
    BY <1>2, <1>6, <1>8
  <2>. QED BY <1>1, <1>2, <1>3, <1>4, <1>8, <1>9, <2>1, <2>2, <2>3, MovesSending
<1>11. CASE ~(app[d].role = "host" /\ app[d].room = r)
  <2>1. Emitting(d, Becomes(app[d], <<>>))
    BY <1>3, <1>11 DEF OnOffer
  <2>. QED BY <1>1, <1>2, <2>1, MovesQuietly DEF Kept
<1>. QED BY <1>10, <1>11

LEMMA AnswerMoves ==
    ASSUME SessionInv, NEW d \in Devices, OnAnswer(d)
    PROVE  Frame /\ Moves(d)
<1>1. /\ app[d] \in App /\ Counted(app[d], used.shares) /\ Watched(app[d])
      /\ used.shares \in Nat /\ used.shares \in 0..MaxShares
  BY AppFacts
<1>2. /\ Frame /\ used'.shares = used.shares /\ consented' = consented
      /\ Event1(d) \in Mail(consented) /\ Event1(d).name = "webrtc-answer"
  BY ReceivesFrame DEF OnAnswer
<1>3. Event1(d).room \in consented /\ Event1(d).payload \in Pcs
  BY <1>2 DEF Mail, MediaEvent
<1>4. CASE app[d].role # "client" \/ app[d].room # Event1(d).room
  <2>1. Emitting(d, Becomes(app[d], <<>>))
    BY <1>4 DEF OnAnswer
  <2>. QED BY <1>1, <1>2, <2>1, MovesQuietly DEF Kept
<1>5. CASE Emitting(d, Teardown(app[d], "failed"))
  BY <1>1, <1>2, <1>5, MovesByTeardown
<1>6. CASE Emitting(d, Becomes([app[d] EXCEPT !.remote = Event1(d).payload], <<>>))
  <2>1. PICK b : b = [app[d] EXCEPT !.remote = Event1(d).payload]
    OBVIOUS
  <2>2. /\ b \in App /\ SameShares(app[d], b)
        /\ b.status = app[d].status /\ b.cut = app[d].cut /\ b.calls = app[d].calls
        /\ b.negTimer = app[d].negTimer /\ b.reqTimer = app[d].reqTimer
        /\ b.incoming = app[d].incoming
    BY <1>1, <1>3, <2>1 DEF App, SameShares
  <2>3. Counted(b, used.shares) /\ Watched(b)
    BY <1>1, <2>2, SharesCounted DEF Watched, Awaits
  <2>. QED BY <1>1, <1>2, <1>3, <1>6, <2>1, <2>2, <2>3, MovesQuietly
<1>. QED BY <1>4, <1>5, <1>6 DEF OnAnswer

LEMMA ReofferMoves ==
    ASSUME SessionInv, NEW d \in Devices, Reoffer(d)
    PROVE  Frame /\ Moves(d)
<1>1. /\ app[d] \in App /\ Counted(app[d], used.shares) /\ Watched(app[d])
      /\ used.shares \in Nat /\ inbox \in [Sockets -> Seq(Mail(consented))]
  BY AppFacts
<1>2. Frame /\ used'.shares = used.shares /\ consented' = consented
  BY <1>1, BudgetFrame DEF Reoffer
<1>3. app[d].pc # NoPayload
  BY DEF Reoffer, Linked
<1>4. Emitting(d, Becomes(app[d], <<Msg("offer", app[d].room, app[d].pc)>>))
  <2>1. EnsurePc(d, app[d]) = app[d]
    BY <1>3 DEF EnsurePc
  <2>. QED BY <2>1 DEF Reoffer, Offering
<1>5. /\ app[d].pc \in Pcs \cup {NoPayload} /\ app[d].room \in RoomIds \cup {NoRoomId}
      /\ app[d].socket \in Sockets
  BY <1>1 DEF App, Reoffer
<1>6. Msg("offer", app[d].room, app[d].pc) \in Asked(consented')
  BY <1>5, MsgAsked DEF Ops, Awaited
<1>. QED BY <1>1, <1>2, <1>4, <1>5, <1>6, MovesSending DEF Kept

LEMMA ValidatedMoves ==
    ASSUME SessionInv, NEW d \in Devices, NEW valid \in BOOLEAN, Validated(d, valid)
    PROVE  Frame /\ Moves(d)
<1>1. /\ app[d] \in App /\ Counted(app[d], used.shares) /\ Watched(app[d])
      /\ used.shares \in Nat
  BY AppFacts
<1>2. Frame /\ used'.shares = used.shares /\ consented' = consented
  BY LocalFrame DEF Validated
<1>3. PICK c \in App : c = app[d]
  BY <1>1
<1>4. PICK q \in Seq(RoomIds) : q = c.validating /\ q # <<>>
  BY <1>3 DEF Validated, App
<1>5. PICK r \in RoomIds : r = Head(q)
  BY <1>4
<1>6. Tail(q) \in Seq(RoomIds)
  BY <1>4
<1>7. PICK a : a = [c EXCEPT !.validating = Tail(@)]
  OBVIOUS
<1>8. a = [c EXCEPT !.validating = Tail(q)]
  BY <1>4, <1>7
<1>9. /\ a \in App /\ SameShares(c, a) /\ a.pc = c.pc /\ a.remote = c.remote
      /\ a.status = c.status /\ a.cut = c.cut /\ a.calls = c.calls
      /\ a.negTimer = c.negTimer /\ a.reqTimer = c.reqTimer
      /\ a.incoming = c.incoming /\ a.socket = c.socket
  BY <1>6, <1>8 DEF App, SameShares
<1>10. CASE valid
  <2>1. PICK b : b = [a EXCEPT !.incoming = r, !.room = r, !.role = "host",
                               !.status = "waiting-for-approval"]
    OBVIOUS
  <2>2. /\ b \in App /\ SameShares(a, b) /\ b.pc = a.pc /\ b.remote = a.remote
        /\ b.status = "waiting-for-approval" /\ b.incoming = r
    BY <1>9, <2>1 DEF App, SameShares, Status
  <2>3. r # NoRoomId
    BY <1>5, DeviceAssumption
  <2>4. Counted(b, used.shares) /\ Watched(b) /\ Kept(app[d], b)
    BY <1>1, <1>3, <1>9, <2>2, <2>3, SharesCounted DEF Watched, Kept
  <2>5. Emitting(d, Becomes(b, <<>>))
    BY <1>3, <1>4, <1>5, <1>7, <1>10, <2>1 DEF Validated
  <2>. QED BY <1>1, <1>2, <2>2, <2>4, <2>5, MovesQuietly
<1>11. CASE ~valid
  <2>1. Counted(a, used.shares) /\ Watched(a) /\ Kept(app[d], a)
    BY <1>1, <1>3, <1>9, SharesCounted DEF Watched, Awaits, Kept
  <2>2. Emitting(d, Becomes(a, IF a.socket = NoSocket THEN <<>>
                               ELSE <<Msg("turn-away", r, NoPayload)>>))
    BY <1>3, <1>4, <1>5, <1>7, <1>11 DEF Validated
  <2>3. CASE a.socket = NoSocket
    BY <1>1, <1>2, <1>9, <2>1, <2>2, <2>3, MovesQuietly
  <2>4. CASE a.socket # NoSocket
    <3>1. a.socket \in Sockets
      BY <1>9, <2>4 DEF App
    <3>2. Msg("turn-away", r, NoPayload) \in Asked(consented')
      BY <1>5, MsgAsked DEF Ops
    <3>. QED BY <1>1, <1>2, <1>9, <2>1, <2>2, <2>4, <3>1, <3>2, MovesSending
  <2>. QED BY <2>3, <2>4
<1>. QED BY <1>10, <1>11

LEMMA RequestTimeoutMoves ==
    ASSUME SessionInv, NEW d \in Devices, RequestTimeout(d)
    PROVE  Frame /\ Moves(d)
<1>1. app[d] \in App /\ Counted(app[d], used.shares) /\ used.shares \in 0..MaxShares
  BY AppFacts
<1>2. Frame /\ used'.shares = used.shares
  BY LocalFrame DEF RequestTimeout
<1>. QED BY <1>1, <1>2, MovesByTeardown DEF RequestTimeout

LEMMA NegotiationTimeoutMoves ==
    ASSUME SessionInv, NEW d \in Devices, NegotiationTimeout(d)
    PROVE  Frame /\ Moves(d)
<1>1. /\ app[d] \in App /\ Counted(app[d], used.shares) /\ Watched(app[d])
      /\ used.shares \in 0..MaxShares /\ used.shares \in Nat
  BY AppFacts
<1>2. Frame /\ used'.shares = used.shares
  BY LocalFrame DEF NegotiationTimeout
<1>3. PICK c \in App : c = app[d]
  BY <1>1
<1>4. PICK a : a = [c EXCEPT !.negTimer = FALSE]
  OBVIOUS
<1>5. /\ a \in App /\ SameShares(c, a) /\ a.pc = c.pc /\ a.remote = c.remote
      /\ a.status = c.status /\ a.cut = c.cut /\ a.calls = c.calls
      /\ a.reqTimer = c.reqTimer /\ a.incoming = c.incoming
  BY <1>4 DEF App, SameShares
<1>6. Counted(a, used.shares)
  BY <1>1, <1>3, <1>5, SharesCounted
<1>7. CASE a.status = "negotiating"
  <2>1. Emitting(d, Teardown(a, "failed"))
    BY <1>3, <1>4, <1>7 DEF NegotiationTimeout
  <2>. QED BY <1>1, <1>2, <1>5, <1>6, <2>1, MovesByTeardown
<1>8. CASE a.status # "negotiating"
  <2>1. Emitting(d, Becomes(a, <<>>))
    BY <1>3, <1>4, <1>8 DEF NegotiationTimeout
  <2>2. Watched(a) /\ Kept(app[d], a)
    BY <1>1, <1>3, <1>5, <1>8 DEF Watched, Awaits, Kept
  <2>. QED BY <1>1, <1>2, <1>5, <1>6, <2>1, <2>2, MovesQuietly
<1>. QED BY <1>7, <1>8

\* The continuation of a call, in whichever way it settles.
LEMMA SettleMoves ==
    ASSUME NEW d \in Devices, NEW b \in App, NEW ok \in BOOLEAN,
           NEW r \in RoomIds \cup {NoRoomId},
           Settle(d, b, ok, r), b.calls # <<>>, Watched(b), Kept(app[d], b),
           used'.shares \in 0..MaxShares, Counted(b, used'.shares)
    PROVE  Moves(d)
<1>1. PICK re : re = Continue([b EXCEPT !.calls = Tail(@)], Head(b.calls), ok, r)
  OBVIOUS
<1>2. Sound(re, used'.shares, consented') /\ Kept(b, re.app)
  BY <1>1, ContinueSound
<1>3. Kept(app[d], re.app)
  BY <1>2 DEF Kept
<1>. QED BY <1>1, <1>2, <1>3 DEF Settle, Moves

LEMMA NoteRooms == \A e \in Note : e.room \in RoomIds \cup {NoRoomId}
BY DEF Note, Event, Answered, RoomEvent

LEMMA CallAnsweredMoves ==
    ASSUME SessionInv, NEW d \in Devices, CallAnswered(d)
    PROVE  Frame /\ Moves(d)
<1>1. /\ app[d] \in App /\ Counted(app[d], used.shares) /\ Watched(app[d])
      /\ used.shares \in 0..MaxShares /\ used.shares \in Nat
  BY AppFacts
<1>2. PICK ok \in BOOLEAN :
         /\ Receives(d, IF ok THEN "ok" ELSE "error")
         /\ IF app[d].late > 0
            THEN Emitting(d, Becomes([app[d] EXCEPT !.late = @ - 1], <<>>))
            ELSE app[d].calls # <<>> /\ Settle(d, app[d], ok, Event1(d).room)
  BY DEF CallAnswered
<1>3. /\ Frame /\ used'.shares = used.shares
      /\ Event1(d) \in Mail(consented) /\ Event1(d).name = (IF ok THEN "ok" ELSE "error")
  BY <1>2, ReceivesFrame
<1>4. CASE app[d].late > 0
  <2>1. PICK c \in App : c = app[d]
    BY <1>1
  <2>2. c.late \in Nat
    BY DEF App
  <2>3. PICK k \in Nat : k = c.late - 1
    BY <1>4, <2>1, <2>2
  <2>4. PICK a : a = [c EXCEPT !.late = k]
    OBVIOUS
  <2>5. /\ a \in App /\ SameShares(c, a) /\ a.pc = c.pc /\ a.remote = c.remote
        /\ a.status = c.status /\ a.cut = c.cut /\ a.calls = c.calls
        /\ a.negTimer = c.negTimer /\ a.reqTimer = c.reqTimer
        /\ a.incoming = c.incoming
    BY <2>3, <2>4 DEF App, SameShares
  <2>6. Counted(a, used.shares) /\ Watched(a) /\ Kept(app[d], a)
    BY <1>1, <2>1, <2>5, SharesCounted DEF Watched, Awaits, Kept
  <2>7. Emitting(d, Becomes(a, <<>>))
    BY <1>2, <1>4, <2>1, <2>3, <2>4
  <2>. QED BY <1>1, <1>3, <2>5, <2>6, <2>7, MovesQuietly
<1>5. CASE ~(app[d].late > 0)
  <2>1. app[d].calls # <<>> /\ Settle(d, app[d], ok, Event1(d).room)
    BY <1>2, <1>5
  <2>2. Event1(d).room \in RoomIds \cup {NoRoomId}
    BY <1>3, NoteRooms DEF Mail
  <2>3. Kept(app[d], app[d])
    BY DEF Kept
  <2>. QED BY <1>1, <1>3, <2>1, <2>2, <2>3, SettleMoves
<1>. QED BY <1>4, <1>5

LEMMA CallTimesOutMoves ==
    ASSUME SessionInv, NEW d \in Devices, CallTimesOut(d)
    PROVE  Frame /\ Moves(d)
<1>1. /\ app[d] \in App /\ Counted(app[d], used.shares) /\ Watched(app[d])
      /\ used.shares \in 0..MaxShares /\ inbox \in [Sockets -> Seq(Mail(consented))]
  BY AppFacts
<1>2. Frame /\ used'.shares = used.shares
  BY <1>1, BudgetFrame DEF CallTimesOut
<1>3. PICK c \in App : c = app[d]
  BY <1>1
<1>4. PICK a : a = [c EXCEPT !.late = @ + 1]
  OBVIOUS
<1>5. c.late + 1 \in Nat
  BY DEF App
<1>6. PICK k \in Nat : a = [c EXCEPT !.late = k]
  BY <1>4, <1>5
<1>7. /\ a \in App /\ SameShares(c, a) /\ a.pc = c.pc /\ a.remote = c.remote
      /\ a.status = c.status /\ a.cut = c.cut /\ a.calls = c.calls
      /\ a.negTimer = c.negTimer /\ a.reqTimer = c.reqTimer
      /\ a.incoming = c.incoming
  BY <1>6 DEF App, SameShares
<1>8. Counted(a, used.shares) /\ Watched(a) /\ Kept(app[d], a)
  BY <1>1, <1>3, <1>7, SharesCounted DEF Watched, Awaits, Kept
<1>9. a.calls # <<>> /\ Settle(d, a, FALSE, NoRoomId)
  BY <1>3, <1>4, <1>7 DEF CallTimesOut
<1>. QED BY <1>1, <1>2, <1>7, <1>8, <1>9, SettleMoves

LEMMA CallLostMoves ==
    ASSUME SessionInv, NEW d \in Devices, CallLost(d)
    PROVE  Frame /\ Moves(d)
<1>1. /\ app[d] \in App /\ Counted(app[d], used.shares) /\ Watched(app[d])
      /\ used.shares \in 0..MaxShares
  BY AppFacts
<1>2. Frame /\ used'.shares = used.shares
  BY LocalFrame DEF CallLost
<1>3. PICK c \in App : c = app[d]
  BY <1>1
<1>4. Kept(app[d], c) /\ c.calls # <<>> /\ Settle(d, c, FALSE, NoRoomId)
  BY <1>3 DEF Kept, CallLost
<1>. QED BY <1>1, <1>2, <1>3, <1>4, SettleMoves

LEMMA CodeConsumedMoves ==
    ASSUME SessionInv, NEW d \in Devices, CodeConsumed(d)
    PROVE  Frame /\ Moves(d)
<1>1. app[d] \in App /\ Counted(app[d], used.shares) /\ used.shares \in Nat
  BY AppFacts
<1>2. Frame /\ used'.shares = used.shares
  BY LocalFrame DEF CodeConsumed
<1>3. PICK c \in App : c = app[d]
  BY <1>1
<1>4. PICK k \in Nat : k = c.consuming - 1
  BY <1>3 DEF CodeConsumed, App
<1>5. PICK a : a = [c EXCEPT !.consuming = k, !.incoming = NoRoomId,
                             !.status = "negotiating", !.negTimer = TRUE]
  OBVIOUS
<1>6. /\ a \in App /\ SameShares(c, a) /\ a.pc = c.pc /\ a.remote = c.remote
      /\ a.status = "negotiating" /\ a.negTimer = TRUE
  BY <1>5 DEF App, SameShares, Status
<1>7. Counted(a, used.shares) /\ Watched(a) /\ Kept(app[d], a)
  BY <1>1, <1>3, <1>6, SharesCounted DEF Watched, Kept
<1>8. Emitting(d, Becomes(a, <<>>))
  BY <1>3, <1>4, <1>5 DEF CodeConsumed
<1>. QED BY <1>1, <1>2, <1>6, <1>7, <1>8, MovesQuietly

LEMMA PeerConnectedMoves ==
    ASSUME SessionInv, NEW d \in Devices, PeerConnected(d)
    PROVE  Frame /\ Moves(d)
<1>1. app[d] \in App /\ Counted(app[d], used.shares) /\ used.shares \in Nat
  BY AppFacts
<1>2. Frame /\ used'.shares = used.shares
  BY LocalFrame DEF PeerConnected
<1>3. PICK c \in App : c = app[d]
  BY <1>1
<1>4. PICK a : a = [c EXCEPT !.rtc = TRUE, !.negTimer = FALSE, !.status = "connected"]
  OBVIOUS
<1>5. /\ a \in App /\ SameShares(c, a) /\ a.pc = c.pc /\ a.remote = c.remote
      /\ a.status = "connected"
  BY <1>4 DEF App, SameShares, Status
<1>6. Counted(a, used.shares) /\ Watched(a) /\ Kept(app[d], a)
  BY <1>1, <1>3, <1>5, SharesCounted DEF Watched, Kept
<1>7. Emitting(d, Becomes(a, <<>>))
  BY <1>3, <1>4 DEF PeerConnected
<1>. QED BY <1>1, <1>2, <1>5, <1>6, <1>7, MovesQuietly

LEMMA PeerLostMoves ==
    ASSUME SessionInv, NEW d \in Devices, PeerLost(d)
    PROVE  Frame /\ Moves(d)
<1>1. /\ app[d] \in App /\ Counted(app[d], used.shares) /\ used.shares \in 0..MaxShares
      /\ inbox \in [Sockets -> Seq(Mail(consented))]
  BY AppFacts
<1>2. Frame /\ used'.shares = used.shares
  BY <1>1, BudgetFrame DEF PeerLost
<1>3. PICK status \in {"failed", "disconnected"} : Emitting(d, Teardown(app[d], status))
  BY DEF PeerLost
<1>. QED BY <1>1, <1>2, <1>3, MovesByTeardown

\* A capture that is granted is one click, as it was while it was asked for.
LEMMA CaptureAnsweredMoves ==
    ASSUME SessionInv, NEW d \in Devices, NEW granted \in BOOLEAN,
           CaptureAnswered(d, granted)
    PROVE  Frame /\ Moves(d)
<1>1. /\ app[d] \in App /\ Counted(app[d], used.shares) /\ Watched(app[d])
      /\ used.shares \in Nat /\ used.shares \in 0..MaxShares
  BY AppFacts
<1>2. Frame /\ used'.shares = used.shares
  BY LocalFrame DEF CaptureAnswered
<1>3. PICK c \in App : c = app[d]
  BY <1>1
<1>4. /\ c.captures \in 0..MaxShares /\ c.orphans \in 0..MaxShares /\ c.sharing \in BOOLEAN
      /\ c.captures > 0 /\ MaxShares \in Nat
  BY <1>3, BudgetAssumption DEF App, CaptureAnswered
<1>5. c.captures + c.orphans + (IF c.sharing THEN 1 ELSE 0) <= used.shares
  BY <1>1, <1>3 DEF Counted
<1>6. PICK k \in 0..MaxShares : k = c.captures - 1
  BY <1>4
<1>7. PICK j \in 0..MaxShares : j = IF c.sharing THEN c.orphans + 1 ELSE c.orphans
  BY <1>1, <1>4, <1>5
<1>8. PICK a : a = [c EXCEPT !.captures = k]
  OBVIOUS
<1>9. /\ a \in App /\ a.captures = k /\ a.orphans = c.orphans /\ a.sharing = c.sharing
      /\ a.pc = c.pc /\ a.remote = c.remote /\ a.status = c.status /\ a.cut = c.cut
      /\ a.calls = c.calls /\ a.negTimer = c.negTimer /\ a.reqTimer = c.reqTimer
      /\ a.incoming = c.incoming
  BY <1>8 DEF App
<1>10. PICK b : b = [a EXCEPT !.orphans = j, !.sharing = TRUE, !.sent = TRUE]
  OBVIOUS
<1>11. /\ b \in App /\ b.captures = k /\ b.orphans = j /\ b.sharing = TRUE
       /\ b.pc = c.pc /\ b.remote = c.remote /\ b.status = c.status /\ b.cut = c.cut
       /\ b.calls = c.calls /\ b.negTimer = c.negTimer /\ b.reqTimer = c.reqTimer
       /\ b.incoming = c.incoming
  BY <1>9, <1>10 DEF App
<1>12. Counted(a, used.shares) /\ Counted(b, used.shares)
  <2>1. k + c.orphans + (IF c.sharing THEN 1 ELSE 0) <= used.shares
    BY <1>1, <1>4, <1>5, <1>6
  <2>2. k + j + 1 <= used.shares
    BY <1>1, <1>4, <1>5, <1>6, <1>7
  <2>. QED BY <1>9, <1>11, <2>1, <2>2 DEF Counted
<1>13. Watched(a) /\ Watched(b) /\ Kept(app[d], a) /\ Kept(app[d], b)
  BY <1>1, <1>3, <1>9, <1>11 DEF Watched, Awaits, Kept
<1>14. Emitting(d, Becomes(IF ~granted \/ a.pc = NoPayload THEN a
                           ELSE IF a.rtc THEN b ELSE StopLocalCapture(b), <<>>))
  <2>1. a = [app[d] EXCEPT !.captures = @ - 1]
    BY <1>3, <1>6, <1>8
  <2>2. b = [a EXCEPT !.orphans = IF a.sharing THEN @ + 1 ELSE @,
                      !.sharing = TRUE, !.sent = TRUE]
    BY <1>7, <1>9, <1>10
  <2>. QED BY <2>1, <2>2 DEF CaptureAnswered
<1>15. CASE Emitting(d, Becomes(a, <<>>))
  BY <1>1, <1>2, <1>9, <1>12, <1>13, <1>15, MovesQuietly
<1>16. CASE Emitting(d, Becomes(b, <<>>))
  BY <1>1, <1>2, <1>11, <1>12, <1>13, <1>16, MovesQuietly
<1>17. CASE Emitting(d, Becomes(StopLocalCapture(b), <<>>))
  <2>1. PICK e \in App : e = StopLocalCapture(b) /\ Counted(e, used.shares)
                         /\ e.pc = b.pc /\ e.remote = b.remote
                         /\ e.status = b.status /\ e.cut = b.cut /\ e.calls = b.calls
                         /\ e.negTimer = b.negTimer /\ e.reqTimer = b.reqTimer
                         /\ e.incoming = b.incoming
    BY <1>1, <1>11, <1>12, StoppedCapture
  <2>2. Watched(e) /\ Kept(app[d], e)
    BY <1>13, <2>1 DEF Watched, Awaits, Kept
  <2>. QED BY <1>1, <1>2, <1>17, <2>1, <2>2, MovesQuietly
<1>. QED BY <1>14, <1>15, <1>16, <1>17

LEMMA SocketClosesMoves ==
    ASSUME SessionInv, NEW d \in Devices, SocketCloses(d)
    PROVE  Frame /\ Moves(d)
<1>1. /\ app[d] \in App /\ Counted(app[d], used.shares) /\ Watched(app[d])
      /\ used.shares \in Nat /\ used.shares \in 0..MaxShares
      /\ inbox \in [Sockets -> Seq(Mail(consented))]
  BY AppFacts
<1>2. inbox' \in [Sockets -> Seq(Mail(consented))]
  <2>1. <<>> \in Seq(Mail(consented))
    OBVIOUS
  <2>. QED BY <1>1, <2>1 DEF SocketCloses
<1>3. Frame /\ used'.shares = used.shares /\ consented' = consented
  BY <1>2, BudgetFrame DEF SocketCloses
<1>4. PICK c \in App : c = app[d]
  BY <1>1
<1>5. PICK a : a = [c EXCEPT !.socket = NoSocket, !.late = 0]
  OBVIOUS
<1>6. /\ a \in App /\ SameShares(c, a) /\ a.pc = c.pc /\ a.remote = c.remote
      /\ a.status = c.status /\ a.cut = c.cut /\ a.calls = c.calls
      /\ a.negTimer = c.negTimer /\ a.reqTimer = c.reqTimer
      /\ a.incoming = c.incoming
  BY <1>5 DEF App, SameShares
<1>7. Counted(a, used.shares) /\ Watched(a) /\ Kept(app[d], a)
  BY <1>1, <1>4, <1>6, SharesCounted DEF Watched, Awaits, Kept
<1>8. Emitting(d, IF a.room # NoRoomId \/ a.status # "idle"
                  THEN Teardown(a, "failed") ELSE Becomes(a, <<>>))
  BY <1>4, <1>5 DEF SocketCloses
<1>9. CASE Emitting(d, Teardown(a, "failed"))
  BY <1>1, <1>3, <1>6, <1>7, <1>9, MovesByTeardown
<1>10. CASE Emitting(d, Becomes(a, <<>>))
  BY <1>1, <1>3, <1>6, <1>7, <1>10, MovesQuietly
<1>. QED BY <1>8, <1>9, <1>10

LEMMA SocketOpensMoves ==
    ASSUME SessionInv, NEW d \in Devices, NEW s \in Sockets, SocketOpens(d, s)
    PROVE  Frame /\ Moves(d)
<1>1. /\ app[d] \in App /\ Counted(app[d], used.shares) /\ Watched(app[d])
      /\ used.shares \in Nat
  BY AppFacts
<1>2. Frame /\ used'.shares = used.shares
  BY LocalFrame DEF SocketOpens
<1>3. PICK c \in App : c = app[d]
  BY <1>1
<1>4. PICK a : a = [c EXCEPT !.socket = s]
  OBVIOUS
<1>5. /\ a \in App /\ SameShares(c, a) /\ a.pc = c.pc /\ a.remote = c.remote
      /\ a.status = c.status /\ a.cut = c.cut /\ a.calls = c.calls
      /\ a.negTimer = c.negTimer /\ a.reqTimer = c.reqTimer
      /\ a.incoming = c.incoming /\ a.socket = s
  BY <1>4 DEF App, SameShares
<1>6. Counted(a, used.shares) /\ Watched(a) /\ Kept(app[d], a)
  BY <1>1, <1>3, <1>5, SharesCounted DEF Watched, Awaits, Kept
<1>7. Emitting(d, Becomes(a, <<Msg("register", NoRoomId, NoPayload)>>))
  BY <1>3, <1>4 DEF SocketOpens
<1>8. Msg("register", NoRoomId, NoPayload) \in Asked(consented')
  BY MsgAsked DEF Ops
<1>. QED BY <1>1, <1>2, <1>5, <1>6, <1>7, <1>8, MovesSending

\* Every step of an application is one of the above.
LEMMA AppStepMoves ==
    ASSUME SessionInv, NEW d \in Devices, AppStep(d)
    PROVE  Frame /\ Moves(d)
<1>1. ASSUME UserActs(d) PROVE Frame /\ Moves(d)
  BY <1>1, ConnectMoves, AcceptMoves, RejectMoves, DisconnectMoves,
     StartSharingMoves, StopSharingMoves, SettingsMoves DEF UserActs
<1>2. ASSUME HandlesEvent(d) PROVE Frame /\ Moves(d)
  BY <1>2, IncomingMoves, AcceptedMoves, RejectedMoves, OfferMoves, AnswerMoves,
     PeerDisconnectedMoves, CallAnsweredMoves DEF HandlesEvent
<1>. QED
  BY <1>1, <1>2, RequestTimeoutMoves, NegotiationTimeoutMoves, ValidatedMoves,
     CaptureAnsweredMoves, CallTimesOutMoves, CallLostMoves, CodeConsumedMoves,
     PeerConnectedMoves, PeerLostMoves, ReofferMoves, SocketClosesMoves
     DEF AppStep, TimerFires

LEMMA MovesKeepInv ==
    ASSUME SessionInv, NEW d \in Devices, Frame, Moves(d), UNCHANGED rooms
    PROVE  SessionInv'
<1>1. PICK re : Emitting(d, re) /\ Sound(re, used'.shares, consented')
  BY DEF Moves
<1>2. /\ app' = [app EXCEPT ![d] = After(re)]
      /\ After(re) \in App /\ Counted(After(re), used'.shares) /\ Watched(After(re))
      /\ outbox' \in [Sockets -> Seq(Asked(consented'))]
  BY <1>1, EmittedState DEF Frame
<1>. QED BY <1>2, AppStepInv DEF Frame

-----------------------------------------------------------------------------
(* What the server sends, to applications whose messages were Asked *)

LEMMA OtherMail ==
    ASSUME NEW C, NEW e \in Event, e.name \notin MediaEvent \cup {"incoming-connection"}
    PROVE  e \in Mail(C)
BY DEF Mail, Note, MediaEvent

LEMMA Posted ==
    ASSUME NEW M, NEW S, NEW e \in M, NEW x
    PROVE  To(S, e, x) \in Seq(M)
BY DEF To

LEMMA EmitPosted ==
    ASSUME NEW M, NEW S, NEW e \in M, EmitTo(S, e)
    PROVE  sent' \in [Sockets -> Seq(M)]
BY Posted DEF EmitTo

LEMMA SilentPosted ==
    ASSUME NEW M, Silent
    PROVE  sent' \in [Sockets -> Seq(M)]
BY DEF Silent

\* Presence events and the end of a room are no matter of consent.
LEMMA EndMail ==
    ASSUME NEW C, NEW r \in RoomIds \cup {NoRoomId}, NEW why \in DisconnectReason
    PROVE  PeerDisconnected(r, why) \in Mail(C)
<1>1. PeerDisconnected(r, why) \in Event
  BY EndTyped
<1>2. PeerDisconnected(r, why).name = "peer-disconnected"
  BY DEF PeerDisconnected, RoomEvent
<1>. QED BY <1>1, <1>2, OtherMail DEF MediaEvent

LEMMA PresenceMail ==
    ASSUME NEW C, NEW d \in Devices \cup {NoDevice},
           NEW name \in {"device-online", "device-offline"}
    PROVE  Presence(name, d) \in Mail(C)
<1>1. Presence(name, d) \in Event
  BY EventTyped DEF EventName, NoReason
<1>2. Presence(name, d).name = name
  BY DEF Presence, RoomEvent
<1>. QED BY <1>1, <1>2, OtherMail DEF MediaEvent

LEMMA DisconnectMail ==
    ASSUME TypeOK, NEW s \in Sockets, SocketDisconnect(s), NEW C
    PROVE  sent' \in [Sockets -> Seq(Mail(C))]
<1> DEFINE d == GetDeviceId(s)
           r == IF d = NoDevice THEN NoRoomId ELSE GetByDevice(d)
<1>1. d \in Devices \cup {NoDevice} /\ r \in RoomIds \cup {NoRoomId}
  BY GetByDeviceTyped DEF TypeOK, RegistryTypeOK, GetDeviceId
<1>2. PeerDisconnected(r, "offline") \in Mail(C) /\ Presence("device-offline", d) \in Mail(C)
  BY <1>1, EndMail, PresenceMail DEF DisconnectReason
<1>. QED BY <1>2, Posted DEF SocketDisconnect

LEMMA RegisterMail ==
    ASSUME TypeOK, NEW s \in Sockets, RegisterDevice(s), NEW C
    PROVE  sent' \in [Sockets -> Seq(Mail(C))]
<1> DEFINE d == DeviceOf[s]
           r == GetByDevice(d)
<1>1. d \in Devices /\ r \in RoomIds \cup {NoRoomId}
  BY GetByDeviceTyped, DeviceAssumption DEF TypeOK
<1>2. PeerDisconnected(r, "offline") \in Mail(C) /\ Presence("device-online", d) \in Mail(C)
  BY <1>1, EndMail, PresenceMail DEF DisconnectReason
<1>. QED BY <1>2, Posted DEF RegisterDevice

LEMMA SweepMail ==
    ASSUME TypeOK, SweepExpired, NEW C
    PROVE  sent' \in [Sockets -> Seq(Mail(C))]
<1>1. ASSUME NEW x \in Sockets
      PROVE  sent'[x] \in Seq(Mail(C))
  <2> DEFINE mine == {r \in ExpiredPending :
                         x \in {rooms[r].clientSocket, GetSocket(rooms[r].host)}}
  <2>1. sent'[x] = IF mine = {} THEN <<>>
                   ELSE To({x}, PeerDisconnected(CHOOSE r \in mine : TRUE, "timeout"), x)
    BY DEF SweepExpired
  <2>2. CASE mine = {}
    BY <2>1, <2>2
  <2>3. CASE mine # {}
    <3>1. PICK r \in mine : r = CHOOSE q \in mine : TRUE
      BY <2>3
    <3>2. r \in RoomIds
      BY DEF ExpiredPending
    <3>3. PeerDisconnected(r, "timeout") \in Mail(C)
      BY <3>2, EndMail DEF DisconnectReason
    <3>. QED BY <2>1, <2>3, <3>1, <3>3, Posted
  <2>. QED BY <2>2, <2>3
<1>2. sent' = [x \in Sockets |-> sent'[x]]
  BY DEF SweepExpired
<1>. QED BY <1>1, <1>2

\* What a handler emits, whatever message of an application it handles.
LEMMA ServeMail ==
    ASSUME TypeOK, NEW C \in SUBSET RoomIds, \A r \in RoomIds : Accepted(r) => r \in C,
           NEW s \in Sockets, NEW m \in Asked(C), Serve(s, m)
    PROVE  sent' \in [Sockets -> Seq(Mail(C))]
<1>0. GetDeviceId(s) \in Devices \cup {NoDevice}
  BY DEF TypeOK, RegistryTypeOK, GetDeviceId
<1>1. ASSUME NEW code, AckErr(s, code) PROVE sent' \in [Sockets -> Seq(Mail(C))]
  BY <1>1, SilentPosted DEF AckErr
<1>2. CASE RegisterDevice(s)
  BY <1>2, RegisterMail
<1>3. ASSUME NEW target \in Devices, SomeRoomLeft,
             ConnectionRequest(s, target, FreshRoom, Token)
      PROVE  sent' \in [Sockets -> Seq(Mail(C))]
  <2>1. FreshRoom \in RoomIds /\ Token \in Payloads
    BY <1>3, FreshRoomIsRoom, TokenAssumption
  <2>2. PICK e : e = RoomEvent("incoming-connection", FreshRoom, GetDeviceId(s), Token, NoReason)
    OBVIOUS
  <2>3. e \in Event
    BY <1>0, <2>1, <2>2, EventTyped DEF EventName
  <2>4. e.name = "incoming-connection" /\ e.room = FreshRoom
    BY <2>2 DEF RoomEvent
  <2>5. e \in Mail(C)
    BY <2>1, <2>3, <2>4 DEF Mail, Note, MediaEvent
  <2>. QED BY <1>3, <2>2, <2>5, EmitPosted DEF ConnectionRequest
<1>4. ASSUME NEW r \in C, ConnectionAccepted(s, r)
      PROVE  sent' \in [Sockets -> Seq(Mail(C))]
  <2>1. PICK e : e = RoomEvent("connection-accepted", r, GetDeviceId(s), NoPayload, NoReason)
    OBVIOUS
  <2>2. e \in Event
    BY <1>0, <2>1, EventTyped DEF EventName
  <2>3. e.name = "connection-accepted" /\ e.room = r
    BY <2>1 DEF RoomEvent
  <2>4. e \in Mail(C)
    BY <2>2, <2>3 DEF Mail, Note, MediaEvent
  <2>. QED BY <1>4, <2>1, <2>4, EmitPosted DEF ConnectionAccepted
<1>5. ASSUME NEW r \in RoomIds, NEW why \in {"declined", "invalid-token"},
             ConnectionRejected(s, r, why)
      PROVE  sent' \in [Sockets -> Seq(Mail(C))]
  <2>1. PICK e : e = RoomEvent("connection-rejected", r, GetDeviceId(s), NoPayload, why)
    OBVIOUS
  <2>2. e \in Event
    BY <1>0, <2>1, EventTyped DEF EventName, RejectionReason
  <2>3. e.name = "connection-rejected"
    BY <2>1 DEF RoomEvent
  <2>4. e \in Mail(C)
    BY <2>2, <2>3, OtherMail DEF MediaEvent
  <2>. QED BY <1>5, <2>1, <2>4, EmitPosted DEF ConnectionRejected
<1>6. ASSUME NEW r \in RoomIds, DisconnectDevice(s, r)
      PROVE  sent' \in [Sockets -> Seq(Mail(C))]
  <2>1. RoomToLeave(s, r) \in RoomIds
    BY <1>6, DeviceAssumption DEF RoomToLeave
  <2>2. PeerDisconnected(RoomToLeave(s, r), "left") \in Mail(C)
    BY <2>1, EndMail DEF DisconnectReason
  <2>. QED BY <1>6, <2>2, EmitPosted DEF DisconnectDevice
<1>7. ASSUME NEW r \in RoomIds, m.payload \in Payloads,
             NEW name \in {"webrtc-offer", "webrtc-answer"}, Relay(s, r, name, m.payload)
      PROVE  sent' \in [Sockets -> Seq(Mail(C))]
  <2>1. m.payload \in Pcs
    BY <1>7, DeviceAssumption DEF Asked, Message
  <2>2. Accepted(r)
    BY <1>7 DEF Relay, RelayRefusal, SessionRefusal, Accepted
  <2>3. PICK e : e = Relayed(name, r, m.payload)
    OBVIOUS
  <2>4. e \in Event
    BY <1>7, <2>3, EventTyped DEF EventName, NoReason
  <2>5. e.name = name /\ e.room = r /\ e.payload = m.payload
    BY <2>3 DEF Relayed, RoomEvent
  <2>6. e \in Mail(C)
    BY <2>1, <2>2, <2>4, <2>5 DEF Mail, Note, MediaEvent
  <2>. QED BY <1>7, <2>3, <2>6, EmitPosted DEF Relay
<1>8. m.op = "accept" => m.room \in C
  BY DEF Asked
<1>. QED
  BY <1>1, <1>2, <1>3, <1>4, <1>5, <1>6, <1>7, <1>8
     DEF Serve, ConnectionRequestRefused, ConnectionAcceptedRefused,
         ConnectionRejectedRefused, DisconnectDeviceRefused, RelayRefused

\* The requester of a room that becomes accepted hears of it, so what was sent
\* tells that its host's user clicked.
LEMMA AcceptedHeard ==
    ASSUME TypeOK, ServerInv, Next, NEW C, sent' \in [Sockets -> Seq(Mail(C))],
           NEW r \in RoomIds, ~Accepted(r), Accepted(r)'
    PROVE  r \in C
<1>1. PICK s \in Sockets : ConnectionAccepted(s, r)
  BY StartingSteps
<1>2. PICK e : e = RoomEvent("connection-accepted", r, GetDeviceId(s), NoPayload, NoReason)
  OBVIOUS
<1>3. /\ EmitTo({rooms[r].clientSocket}, e)
      /\ AcceptRefusal(s, r) = "ok"
  BY <1>1, <1>2 DEF ConnectionAccepted
<1>4. Live(r)
  BY <1>3 DEF AcceptRefusal
<1>5. PICK x \in Sockets : x = rooms[r].clientSocket /\ Open(x)
  BY <1>4, LiveRoomParties
<1>6. sent'[x] = <<e>>
  BY <1>3, <1>5 DEF EmitTo, To
<1>7. e \in Mail(C)
  <2>1. sent'[x] \in Seq(Mail(C)) /\ Len(<<e>>) = 1 /\ <<e>>[1] = e
    OBVIOUS
  <2>. QED BY <1>6, <2>1
<1>8. e.name = "connection-accepted" /\ e.room = r
  BY <1>2 DEF RoomEvent
<1>. QED BY <1>7, <1>8 DEF Mail, MediaEvent

LEMMA HeardTyped ==
    ASSUME NEW M, NEW q \in Seq(M)
    PROVE  Heard(q) \in Seq(M)
<1>1. CASE q # <<>> /\ ~IsHeard(q[Len(q)])
  <2>1. Len(q) \in Nat /\ Len(q) - 1 \in 0..Len(q)
    BY <1>1
  <2>2. SubSeq(q, 1, Len(q) - 1) \in Seq(M)
    BY <2>1
  <2>. QED BY <1>1, <2>2 DEF Heard
<1>2. CASE ~(q # <<>> /\ ~IsHeard(q[Len(q)]))
  <2>1. Heard(q) = q
    BY <1>2 DEF Heard
  <2>. QED BY <2>1
<1>. QED BY <1>1, <1>2

LEMMA AnsweredMail ==
    ASSUME TypeOK', NEW C
    PROVE  Answered(ack'.code = "ok", ack'.room) \in Mail(C)
<1>1. ack'.room \in RoomIds \cup {NoRoomId}
  BY DEF TypeOK, Ack, NoAck
<1>2. PICK ok \in BOOLEAN : ok = (ack'.code = "ok")
  OBVIOUS
<1>3. Answered(ok, ack'.room) \in Note
  BY <1>1 DEF Note
<1>4. Answered(ok, ack'.room).name \in {"ok", "error"}
  BY DEF Answered, RoomEvent
<1>. QED BY <1>2, <1>3, <1>4 DEF Mail, MediaEvent

\* A step of the server delivers what it emitted.
LEMMA DeliverInv ==
    ASSUME TypeOK, ServerInv, Next, TypeOK', SessionInv,
           sent' \in [Sockets -> Seq(Mail(consented))],
           NEW awaited, Deliver(awaited),
           outbox' \in [Sockets -> Seq(Asked(consented))],
           UNCHANGED <<app, consented, used>>
    PROVE  SessionInv'
<1> DEFINE answer == Answered(ack'.code = "ok", ack'.room)
<1>1. answer \in Mail(consented)
  BY AnsweredMail
<1>2. ASSUME NEW s \in Sockets PROVE inbox'[s] \in Seq(Mail(consented))
  <2>1. inbox[s] \in Seq(Mail(consented)) /\ Heard(sent'[s]) \in Seq(Mail(consented))
    BY HeardTyped DEF SessionInv
  <2>2. (IF awaited /\ ack'.to = s THEN <<answer>> ELSE <<>>) \in Seq(Mail(consented))
    BY <1>1
  <2>3. (inbox[s] \o Heard(sent'[s]) \o IF awaited /\ ack'.to = s THEN <<answer>> ELSE <<>>)
            \in Seq(Mail(consented))
    BY <2>1, <2>2
  <2>. QED BY <2>3 DEF Deliver
<1>3. inbox' \in [Sockets -> Seq(Mail(consented))]
  <2>1. inbox' = [s \in Sockets |-> inbox'[s]]
    BY DEF Deliver
  <2>. QED BY <1>2, <2>1
<1>4. \A r \in RoomIds : Accepted(r)' => r \in consented
  BY AcceptedHeard DEF SessionInv
<1>5. outbox' \in [Sockets -> Seq(Message)] /\ inbox' \in [Sockets -> Seq(Note)]
  <2>1. Asked(consented) \subseteq Message /\ Mail(consented) \subseteq Note
    BY DEF Asked, Mail
  <2>. QED BY <1>3, <2>1, SeqOfMore
<1>6. SessionTypeOK'
  BY <1>5 DEF SessionInv, SessionTypeOK
<1>7. \A d \in Devices : Counted(app[d], used.shares)' /\ Watched(app[d])'
  BY DEF SessionInv, Counted, Watched, Awaits
<1>8. /\ outbox' \in [Sockets -> Seq(Asked(consented'))]
      /\ inbox' \in [Sockets -> Seq(Mail(consented'))]
      /\ \A r \in RoomIds : Accepted(r)' => r \in consented'
  BY <1>3, <1>4
<1>. QED BY <1>6, <1>7, <1>8 DEF SessionInv, Asked, Mail, Message, Note

-----------------------------------------------------------------------------
(* The steps of the whole *)

LEMMA HandlesInv ==
    ASSUME TypeOK, ServerInv, TypeOK', SessionInv, NEW s \in Sockets, ServerHandles(s)
    PROVE  SessionInv'
<1>1. outbox \in [Sockets -> Seq(Asked(consented))] /\ consented \in SUBSET RoomIds
  BY DEF SessionInv, SessionTypeOK
<1>2. PICK q \in Seq(Asked(consented)) : q = outbox[s] /\ q # <<>>
  BY <1>1 DEF ServerHandles
<1>3. Head(q) \in Asked(consented) /\ Tail(q) \in Seq(Asked(consented))
  BY <1>2
<1>4. outbox' \in [Sockets -> Seq(Asked(consented))]
  BY <1>1, <1>2, <1>3 DEF ServerHandles
<1>5. Serve(s, Head(q)) /\ Deliver(Head(q).op \in Awaited) /\ UNCHANGED <<app, consented, used>>
  BY <1>2 DEF ServerHandles
<1>6. sent' \in [Sockets -> Seq(Mail(consented))]
  BY <1>1, <1>3, <1>5, ServeMail DEF SessionInv
<1>7. Next
  BY <1>5, ServeIsFromClient DEF Next
<1>. QED BY <1>4, <1>5, <1>6, <1>7, DeliverInv

LEMMA DropsInv ==
    ASSUME TypeOK, ServerInv, TypeOK', SessionInv, NEW s \in Sockets, ServerDrops(s)
    PROVE  SessionInv'
<1>1. outbox \in [Sockets -> Seq(Asked(consented))]
  BY DEF SessionInv
<1>2. outbox' \in [Sockets -> Seq(Asked(consented))]
  <2>1. <<>> \in Seq(Asked(consented))
    OBVIOUS
  <2>. QED BY <1>1, <2>1 DEF ServerDrops
<1>3. sent' \in [Sockets -> Seq(Mail(consented))]
  BY DisconnectMail DEF ServerDrops
<1>4. Next
  BY DEF ServerDrops, Next, FromClient
<1>. QED BY <1>2, <1>3, <1>4, DeliverInv DEF ServerDrops

LEMMA TimerInv ==
    ASSUME TypeOK, ServerInv, TypeOK', SessionInv, ServerTimer
    PROVE  SessionInv'
<1>1. outbox' \in [Sockets -> Seq(Asked(consented))]
  BY DEF SessionInv, ServerTimer
<1>2. sent' \in [Sockets -> Seq(Mail(consented))]
  BY SilentPosted, SweepMail DEF ServerTimer, Tick
<1>3. Next
  BY DEF ServerTimer, Next
<1>. QED BY <1>1, <1>2, <1>3, DeliverInv DEF ServerTimer

LEMMA DiscardedInv ==
    ASSUME SessionInv, NEW s \in Sockets, Discarded(s)
    PROVE  SessionInv'
<1>1. outbox \in [Sockets -> Seq(Asked(consented))]
  BY DEF SessionInv
<1>2. outbox' \in [Sockets -> Seq(Asked(consented))]
  <2>1. <<>> \in Seq(Asked(consented))
    OBVIOUS
  <2>. QED BY <1>1, <2>1 DEF Discarded
<1>3. outbox' \in [Sockets -> Seq(Message)]
  <2>1. Asked(consented) \subseteq Message
    BY DEF Asked
  <2>. QED BY <1>2, <2>1, SeqOfMore
<1>4. /\ SessionTypeOK'
      /\ \A r \in RoomIds : Accepted(r)' => r \in consented'
      /\ \A d \in Devices : Counted(app[d], used.shares)' /\ Watched(app[d])'
  BY <1>3 DEF Discarded, SessionInv, SessionTypeOK, vars, roomVars, Accepted, Live,
              Counted, Watched, Awaits
<1>5. /\ outbox' \in [Sockets -> Seq(Asked(consented'))]
      /\ inbox' \in [Sockets -> Seq(Mail(consented'))]
  BY <1>2 DEF Discarded, SessionInv
<1>. QED BY <1>4, <1>5 DEF SessionInv, Asked, Mail, Message, Note

LEMMA SessionStutters ==
    ASSUME SessionInv, UNCHANGED allVars
    PROVE  SessionInv'
<1>1. /\ SessionTypeOK'
      /\ \A r \in RoomIds : Accepted(r)' => r \in consented'
      /\ \A d \in Devices : Counted(app[d], used.shares)' /\ Watched(app[d])'
  BY DEF allVars, SessionInv, SessionTypeOK, vars, roomVars, sessionVars, Accepted, Live,
         Counted, Watched, Awaits
<1>2. /\ outbox' \in [Sockets -> Seq(Asked(consented'))]
      /\ inbox' \in [Sockets -> Seq(Mail(consented'))]
  BY DEF allVars, sessionVars, SessionInv
<1>. QED BY <1>1, <1>2 DEF SessionInv, Asked, Mail, Message, Note

\* A connection attempt of an application is a step of it.
LEMMA ConnectsMoves ==
    ASSUME SessionInv, NEW d \in Devices, AppConnects(d)
    PROVE  Frame /\ Moves(d) /\ UNCHANGED rooms
BY SocketOpensMoves DEF AppConnects, SocketConnect, roomVars

LEMMA SessionStep ==
    ASSUME TypeOK, ServerInv, TypeOK', SessionInv, [AllNext]_allVars
    PROVE  SessionInv'
<1>1. ASSUME NEW d \in Devices, AppStep(d), UNCHANGED vars
      PROVE  SessionInv'
  <2>1. UNCHANGED rooms
    BY <1>1 DEF vars, roomVars
  <2>. QED BY <1>1, <2>1, AppStepMoves, MovesKeepInv
<1>2. ASSUME NEW d \in Devices, AppConnects(d)
      PROVE  SessionInv'
  BY <1>2, ConnectsMoves, MovesKeepInv
<1>. QED
  BY <1>1, <1>2, HandlesInv, DropsInv, TimerInv, DiscardedInv, SessionStutters DEF AllNext

\* In every state of the composed system the messages on their way, the rooms of
\* the server and the clicks of the users agree, and whoever is shown to wait is
\* waiting for something.
THEOREM SessionInvariant == AllSpec => [](TypeOK /\ ServerInv /\ SessionInv)
<1>1. AllInit => SessionInv
  BY SessionInvInit
<1>2. TypeOK /\ ServerInv /\ TypeOK' /\ SessionInv /\ [AllNext]_allVars => SessionInv'
  BY SessionStep
<1>3. AllSpec => [](TypeOK /\ ServerInv)
  BY SessionRunsServer, ServerInvariant, PTL
<1>. QED BY <1>1, <1>2, <1>3, PTL DEF AllSpec

\* The state of every application, the messages to the server and those to the
\* applications have their types, whatever the users, the server and the
\* connections do.
THEOREM SessionTypeCorrect == AllSpec => []SessionTypeOK
<1>1. SessionInv => SessionTypeOK
  BY DEF SessionInv
<1>. QED BY <1>1, SessionInvariant, PTL

\* Nobody is shown to be waiting with nothing to wait for: for every number of
\* devices, rooms and faults, a call, a timer or a dialog is open.
THEOREM NobodyEverWaitsUnwatched == AllSpec => []NobodyWaitsUnwatched
<1>1. SessionInv => NobodyWaitsUnwatched
  BY WatchedIsWatched DEF SessionInv
<1>. QED BY <1>1, SessionInvariant, PTL

\* No peer connection is made or completed by a step of an application but on an
\* event of a room its host's user consented to.
LEMMA MovesNeedConsent ==
    ASSUME SessionInv, NEW d \in Devices, Frame, Moves(d), NEW e \in Devices,
           app'[e].pc # NoPayload,
           app'[e].pc # app[e].pc \/ app'[e].remote # app[e].remote
    PROVE  Event1(e).room \in consented
<1>1. PICK re : /\ Emitting(d, re) /\ Sound(re, used'.shares, consented')
                /\ Kept(app[d], re.app) \/ Event1(d).room \in consented
  BY DEF Moves
<1>2. /\ app' = [app EXCEPT ![d] = After(re)]
      /\ After(re).pc = re.app.pc /\ After(re).remote = re.app.remote
  BY <1>1, EmittedState DEF Frame
<1>3. e = d
  BY <1>2 DEF SessionInv, SessionTypeOK
<1>4. app'[d].pc = re.app.pc /\ app'[d].remote = re.app.remote
  BY <1>2 DEF SessionInv, SessionTypeOK
<1>5. ~Kept(app[d], re.app)
  BY <1>3, <1>4 DEF Kept
<1>. QED BY <1>1, <1>3, <1>5

LEMMA StepNeedsConsent ==
    ASSUME SessionInv, AllNext, NEW e \in Devices,
           app'[e].pc # NoPayload,
           app'[e].pc # app[e].pc \/ app'[e].remote # app[e].remote
    PROVE  Event1(e).room \in consented
<1>1. ASSUME NEW s \in Sockets, ServerHandles(s) \/ ServerDrops(s) \/ Discarded(s)
      PROVE  FALSE
  BY <1>1 DEF ServerHandles, ServerDrops, Discarded
<1>2. ASSUME ServerTimer PROVE FALSE
  BY <1>2 DEF ServerTimer
<1>. QED
  BY <1>1, <1>2, AppStepMoves, ConnectsMoves, MovesNeedConsent DEF AllNext

\* No peer connection is made, and none gets the description of the other end, but
\* on an event of a room on whose dialog the host's user clicked Accept: for every
\* number of devices and rooms, and every order of messages, timers and faults.
THEOREM MediaAlwaysNeedsConsent == AllSpec => MediaNeedsConsent
<1>1. ASSUME SessionInv, [AllNext]_allVars
      PROVE  [\A d \in Devices :
                 /\ app'[d].pc # NoPayload
                 /\ app'[d].pc # app[d].pc \/ app'[d].remote # app[d].remote
                 => Event1(d).room \in consented]_allVars
  BY <1>1, StepNeedsConsent
<1>. QED BY <1>1, SessionInvariant, PTL DEF AllSpec, MediaNeedsConsent

-----------------------------------------------------------------------------
(* A screen goes out only while it is shown as shared.                       *)

Shows(a) ==
    /\ a.sent => a.sharing \/ a.dropped
    /\ a.sharing => a.pc # NoPayload \/ a.cut

\* What Shows speaks of is left as it is; a connection may be made.
SameShow(a, b) ==
    /\ b.sent = a.sent /\ b.sharing = a.sharing /\ b.dropped = a.dropped /\ b.cut = a.cut
    /\ b.pc = a.pc \/ a.pc = NoPayload

\* b is a state of an application, made of a.
Made(a, b) == DOMAIN b = DOMAIN a /\ (Shows(a) => Shows(b))

LEMMA SameMade ==
    ASSUME NEW a, NEW b, DOMAIN b = DOMAIN a, SameShow(a, b)
    PROVE  Made(a, b)
BY DEF SameShow, Made, Shows

\* Nothing is captured for the connection any more.
LEMMA SilentMade ==
    ASSUME NEW a, NEW b, DOMAIN b = DOMAIN a, b.sent = FALSE, b.sharing = FALSE
    PROVE  Made(a, b)
BY DEF Made, Shows

LEMMA EmittedShows ==
    ASSUME SessionTypeOK, NEW d \in Devices, NEW re, Emitting(d, re), Made(app[d], re.app),
           \A e \in Devices : Shows(app[e])
    PROVE  \A e \in Devices : Shows(app'[e])
<1>1. app \in [Devices -> App] /\ app[d] \in App
  BY DEF SessionTypeOK
<1>2. PICK b : (b = re.app \/ \E op : b = [re.app EXCEPT !.calls = Append(@, op)])
                /\ app' = [app EXCEPT ![d] = b]
  BY DEF Emitting
<1>3. Shows(re.app) /\ DOMAIN re.app = DOMAIN app[d]
  BY DEF Made
<1>4. /\ b.sent = re.app.sent /\ b.sharing = re.app.sharing /\ b.dropped = re.app.dropped
      /\ b.pc = re.app.pc /\ b.cut = re.app.cut
  BY <1>1, <1>2, <1>3 DEF App
<1>5. Shows(b)
  BY <1>3, <1>4 DEF Shows
<1>. QED BY <1>1, <1>2, <1>5

LEMMA ClosedMade ==
    ASSUME NEW a \in App
    PROVE  LET b == EndSession(a)
               c == Rejected(a)
               f == ResetStore(b)
           IN  /\ DOMAIN b = DOMAIN a /\ b.sent = FALSE /\ b.sharing = FALSE
               /\ DOMAIN c = DOMAIN a /\ c.sent = FALSE /\ c.sharing = FALSE
               /\ DOMAIN f = DOMAIN a /\ f.sent = FALSE /\ f.sharing = FALSE
<1>1. PICK e : e = ClosePc(StopLocalCapture(a))
  OBVIOUS
<1>2. DOMAIN e = DOMAIN a /\ e.sent = FALSE /\ e.sharing = FALSE
  BY <1>1 DEF ClosePc, StopLocalCapture, App
<1>3. PICK b : b = EndSession(a)
  OBVIOUS
<1>4. DOMAIN b = DOMAIN a /\ b.sent = FALSE /\ b.sharing = FALSE
  BY <1>1, <1>2, <1>3 DEF EndSession, App
<1>5. DOMAIN Rejected(a) = DOMAIN a /\ Rejected(a).sent = FALSE /\ Rejected(a).sharing = FALSE
  BY <1>1, <1>2 DEF Rejected, App
<1>6. /\ DOMAIN ResetStore(b) = DOMAIN a /\ ResetStore(b).sent = FALSE
      /\ ResetStore(b).sharing = FALSE
  BY <1>4 DEF ResetStore, App
<1>. QED BY <1>3, <1>4, <1>5, <1>6

LEMMA TeardownMade ==
    ASSUME NEW a \in App, NEW status
    PROVE  Made(a, Teardown(a, status).app)
<1>1. PICK f : f = ResetStore(EndSession(a))
  OBVIOUS
<1>2. DOMAIN f = DOMAIN a /\ f.sent = FALSE /\ f.sharing = FALSE
  BY <1>1, ClosedMade
<1>3. Teardown(a, status).app = [f EXCEPT !.status = status]
  BY <1>1, BecomesFields DEF Teardown
<1>4. LET b == [f EXCEPT !.status = status]
      IN  DOMAIN b = DOMAIN a /\ b.sent = FALSE /\ b.sharing = FALSE
  BY <1>2 DEF App
<1>. QED BY <1>3, <1>4, SilentMade

\* The store may be reset under a stream that runs: then it is dropped.
LEMMA ResetMade ==
    ASSUME NEW a \in App
    PROVE  Made(a, ResetStore(a))
<1>1. PICK b : b = ResetStore(a)
  OBVIOUS
<1>2. /\ DOMAIN b = DOMAIN a /\ b.sent = a.sent /\ b.sharing = FALSE
      /\ b.dropped = (a.dropped \/ a.sharing)
  BY <1>1 DEF ResetStore, App
<1>. QED BY <1>1, <1>2 DEF Made, Shows

LEMMA PcMade ==
    ASSUME NEW d \in Devices, NEW a \in App
    PROVE  LET b == EnsurePc(d, a) IN DOMAIN b = DOMAIN a /\ SameShow(a, b)
BY DEF EnsurePc, SameShow, App

\* Made is transitive.
LEMMA MadeOn ==
    ASSUME NEW a, NEW b, NEW c, Made(a, b), Made(b, c)
    PROVE  Made(a, c)
BY DEF Made

LEMMA SameOn ==
    ASSUME NEW a, NEW b, NEW c, SameShow(a, b), SameShow(b, c)
    PROVE  SameShow(a, c)
BY DEF SameShow

\* What the promise of a call continues with.
LEMMA ContinueMade ==
    ASSUME NEW a \in App, NEW op, NEW ok \in BOOLEAN, NEW r
    PROVE  Made(a, Continue(a, op, ok, r).app)
<1> DEFINE re == Continue(a, op, ok, r)
<1>1. \/ re = Becomes([a EXCEPT !.room = r, !.status = "waiting-for-approval",
                                !.reqTimer = TRUE], <<>>)
      \/ re = Becomes([a EXCEPT !.role = "none", !.status = "failed"], <<>>)
      \/ re = Becomes([a EXCEPT !.consuming = @ + 1], <<>>)
      \/ re = Becomes([a EXCEPT !.status = "failed"], <<>>)
      \/ re = Becomes(Rejected(a), <<>>)
      \/ re = Becomes(ResetStore(a), <<>>)
      \/ re = Teardown(a, "failed")
      \/ re = Becomes(a, <<>>)
  BY DEF Continue
<1>2. CASE \/ re.app = [a EXCEPT !.room = r, !.status = "waiting-for-approval",
                                 !.reqTimer = TRUE]
           \/ re.app = [a EXCEPT !.role = "none", !.status = "failed"]
           \/ re.app = [a EXCEPT !.consuming = @ + 1]
           \/ re.app = [a EXCEPT !.status = "failed"]
           \/ re.app = a
  <2>1. DOMAIN re.app = DOMAIN a /\ SameShow(a, re.app)
    BY <1>2 DEF SameShow, App
  <2>. QED BY <2>1, SameMade
<1>3. CASE re.app = Rejected(a)
  <2>1. DOMAIN Rejected(a) = DOMAIN a /\ Rejected(a).sent = FALSE /\ Rejected(a).sharing = FALSE
    BY ClosedMade
  <2>. QED BY <1>3, <2>1, SilentMade
<1>. QED BY <1>1, <1>2, <1>3, ResetMade, TeardownMade, BecomesFields

\* A handler that leaves alone what Shows speaks of.
LEMMA SameShows ==
    ASSUME SessionTypeOK, NEW d \in Devices, NEW b, NEW out, Emitting(d, Becomes(b, out)),
           DOMAIN b = DOMAIN app[d], SameShow(app[d], b),
           \A e \in Devices : Shows(app[e])
    PROVE  \A e \in Devices : Shows(app'[e])
BY SameMade, EmittedShows, BecomesFields

\* The continuation of a settled call.
LEMMA SettledShows ==
    ASSUME SessionTypeOK, NEW d \in Devices, NEW a, a.calls # <<>>,
           a = app[d] \/ a = [app[d] EXCEPT !.late = @ + 1],
           NEW ok \in BOOLEAN, NEW r, Settle(d, a, ok, r),
           \A e \in Devices : Shows(app[e])
    PROVE  \A e \in Devices : Shows(app'[e])
<1>1. app \in [Devices -> App] /\ app[d] \in App
  BY DEF SessionTypeOK
<1>2. PICK n \in Nat : a = [app[d] EXCEPT !.late = n]
  BY <1>1 DEF App
<1>3. a \in App /\ DOMAIN a = DOMAIN app[d] /\ SameShow(app[d], a)
  BY <1>1, <1>2 DEF App, SameShow
<1>4. PICK b : b = [a EXCEPT !.calls = Tail(@)]
  OBVIOUS
<1>5. b \in App
  BY <1>3, <1>4, CallSettled
<1>6. DOMAIN b = DOMAIN a /\ SameShow(a, b)
  BY <1>3, <1>4 DEF App, SameShow
<1>7. Emitting(d, Continue(b, Head(a.calls), ok, r))
  BY <1>4 DEF Settle
<1>8. Made(app[d], Continue(b, Head(a.calls), ok, r).app)
  <2>1. Made(app[d], b)
    BY <1>3, <1>6, SameMade, MadeOn
  <2>. QED BY <1>5, <2>1, ContinueMade, MadeOn
<1>. QED BY <1>7, <1>8, EmittedShows

LEMMA UserShows ==
    ASSUME SessionTypeOK, NEW d \in Devices, UserActs(d), \A e \in Devices : Shows(app[e])
    PROVE  \A e \in Devices : Shows(app'[e])
<1>1. app \in [Devices -> App] /\ app[d] \in App
  BY DEF SessionTypeOK
<1>2. ASSUME NEW target, ConnectToRemote(d, target)
      PROVE  \A e \in Devices : Shows(app'[e])
  <2> DEFINE a == [app[d] EXCEPT !.role = "client", !.status = "connecting"]
             c == [a EXCEPT !.role = "none", !.status = "failed"]
  <2>1. /\ DOMAIN a = DOMAIN app[d] /\ SameShow(app[d], a)
        /\ DOMAIN c = DOMAIN app[d] /\ SameShow(app[d], c)
    BY <1>1 DEF SameShow, App
  <2>2. Emitting(d, Becomes(c, <<>>)) \/ Emitting(d, Becomes(a, <<Request(target)>>))
    BY <1>2 DEF ConnectToRemote
  <2> HIDE DEF a, c
  <2>. QED BY <2>1, <2>2, SameShows
<1>3. CASE AcceptIncoming(d)
  <2> DEFINE a == [app[d] EXCEPT !.status = "failed"]
  <2>1. /\ DOMAIN a = DOMAIN app[d] /\ SameShow(app[d], a) /\ SameShow(app[d], app[d])
    BY <1>1 DEF SameShow, App
  <2>2. \/ Emitting(d, Becomes(a, <<>>))
        \/ Emitting(d, Becomes(app[d], <<Msg("accept", app[d].incoming, NoPayload)>>))
    BY <1>3 DEF AcceptIncoming
  <2> HIDE DEF a
  <2>. QED BY <2>1, <2>2, SameShows
<1>4. CASE RejectIncoming(d)
  <2>1. \/ Emitting(d, Becomes(Rejected(app[d]), <<>>))
        \/ Emitting(d, Becomes(app[d], <<Msg("decline", app[d].incoming, NoPayload)>>))
    BY <1>4 DEF RejectIncoming
  <2>2. Made(app[d], Rejected(app[d])) /\ SameShow(app[d], app[d])
    <3>1. /\ DOMAIN Rejected(app[d]) = DOMAIN app[d]
          /\ Rejected(app[d]).sent = FALSE /\ Rejected(app[d]).sharing = FALSE
      BY <1>1, ClosedMade
    <3>. QED BY <3>1, SilentMade DEF SameShow
  <2>. QED BY <2>1, <2>2, SameShows, EmittedShows, BecomesFields
<1>5. CASE DisconnectSession(d)
  <2>1. PICK a : a = EndSession(app[d])
    OBVIOUS
  <2>2. \E out : Emitting(d, Becomes(ResetStore(a), out)) \/ Emitting(d, Becomes(a, out))
    BY <1>5, <2>1 DEF DisconnectSession
  <2>3. Made(app[d], a) /\ Made(app[d], ResetStore(a))
    <3>1. /\ DOMAIN a = DOMAIN app[d] /\ a.sent = FALSE /\ a.sharing = FALSE
          /\ DOMAIN ResetStore(a) = DOMAIN app[d]
          /\ ResetStore(a).sent = FALSE /\ ResetStore(a).sharing = FALSE
      BY <1>1, <2>1, ClosedMade
    <3>. QED BY <3>1, SilentMade
  <2>. QED BY <2>2, <2>3, EmittedShows, BecomesFields
<1>6. CASE StartSharing(d)
  <2> DEFINE a == [app[d] EXCEPT !.captures = @ + 1]
  <2>1. DOMAIN a = DOMAIN app[d] /\ SameShow(app[d], a)
    BY <1>1 DEF SameShow, App
  <2>2. Emitting(d, Becomes(a, <<>>))
    BY <1>6 DEF StartSharing
  <2> HIDE DEF a
  <2>. QED BY <2>1, <2>2, SameShows
<1>7. CASE StopSharing(d)
  <2>1. PICK a : a = StopLocalCapture(app[d])
    OBVIOUS
  <2>2. DOMAIN a = DOMAIN app[d] /\ a.sent = FALSE /\ a.sharing = FALSE
    BY <1>1, <2>1 DEF StopLocalCapture, App
  <2>3. Emitting(d, Becomes(a, <<>>))
    BY <1>7, <2>1 DEF StopSharing
  <2>4. Made(app[d], a)
    BY <2>2, SilentMade
  <2>. QED BY <2>3, <2>4, EmittedShows, BecomesFields
<1>8. CASE SettingsChange(d)
  <2>1. PICK a : /\ app' = [app EXCEPT ![d] = a]
                 /\ a = [ClosePc(app[d]) EXCEPT !.negTimer = FALSE, !.reqTimer = FALSE,
                            !.socket = NoSocket, !.late = 0,
                            !.cut = @ \/ app[d].status \in Busy \/ app[d].pc # NoPayload]
    BY <1>8 DEF SettingsChange
  <2>2. PICK c : c = ClosePc(app[d])
    OBVIOUS
  <2>3. /\ DOMAIN c = DOMAIN app[d] /\ c.sent = FALSE /\ c.sharing = app[d].sharing
        /\ c.cut = app[d].cut
    BY <1>1, <2>2 DEF ClosePc, App
  <2>4. /\ a.sent = FALSE /\ a.sharing = app[d].sharing
        /\ a.cut = (app[d].cut \/ app[d].status \in Busy \/ app[d].pc # NoPayload)
    BY <1>1, <2>1, <2>2, <2>3 DEF App
  <2>5. Shows(a)
    BY <2>4 DEF Shows
  <2>. QED BY <1>1, <2>1, <2>5
<1>. QED BY <1>2, <1>3, <1>4, <1>5, <1>6, <1>7, <1>8 DEF UserActs

LEMMA EventShows ==
    ASSUME SessionTypeOK, NEW d \in Devices, HandlesEvent(d), \A e \in Devices : Shows(app[e])
    PROVE  \A e \in Devices : Shows(app'[e])
<1>1. app \in [Devices -> App] /\ app[d] \in App
  BY DEF SessionTypeOK
<1>2. SameShow(app[d], app[d])
  BY DEF SameShow
<1>3. CASE OnIncoming(d)
  <2> DEFINE a == [app[d] EXCEPT !.validating = Append(@, Event1(d).room)]
  <2>1. DOMAIN a = DOMAIN app[d] /\ SameShow(app[d], a)
    BY <1>1 DEF SameShow, App
  <2>2. Emitting(d, Becomes(a, <<>>))
    BY <1>3 DEF OnIncoming
  <2> HIDE DEF a
  <2>. QED BY <2>1, <2>2, SameShows
<1>4. CASE OnAccepted(d)
  <2>1. PICK a : /\ a = [app[d] EXCEPT !.reqTimer = FALSE, !.room = Event1(d).room,
                                       !.status = "negotiating", !.negTimer = TRUE]
                 /\ Emitting(d, Offering(d, a, Event1(d).room))
    BY <1>4 DEF OnAccepted
  <2>2. DOMAIN a = DOMAIN app[d] /\ SameShow(app[d], a)
    BY <1>1, <2>1 DEF SameShow, App
  <2>3. PICK b : b = EnsurePc(d, a)
    OBVIOUS
  <2>4. DOMAIN b = DOMAIN a /\ SameShow(a, b)
    BY <1>1, <2>1, <2>2, <2>3 DEF EnsurePc, SameShow, App
  <2>5. Emitting(d, Becomes(b, <<Msg("offer", Event1(d).room, b.pc)>>))
    BY <2>1, <2>3 DEF Offering
  <2>. QED BY <2>2, <2>4, <2>5, SameOn, SameShows
<1>5. CASE OnRejected(d)
  <2> DEFINE a == [app[d] EXCEPT !.reqTimer = FALSE, !.status = "failed",
                                 !.incoming = NoRoomId, !.room = NoRoomId]
  <2>1. DOMAIN a = DOMAIN app[d] /\ SameShow(app[d], a)
    BY <1>1 DEF SameShow, App
  <2>2. Emitting(d, Becomes(a, <<>>))
    BY <1>5 DEF OnRejected
  <2> HIDE DEF a
  <2>. QED BY <2>1, <2>2, SameShows
<1>6. CASE OnOffer(d)
  <2>1. PICK c : c = EnsurePc(d, app[d])
    OBVIOUS
  <2>2. DOMAIN c = DOMAIN app[d] /\ SameShow(app[d], c)
    BY <1>1, <2>1, PcMade
  <2>3. PICK b : b = [c EXCEPT !.remote = Event1(d).payload]
    OBVIOUS
  <2>4. DOMAIN b = DOMAIN c /\ SameShow(c, b)
    BY <1>1, <2>2, <2>3 DEF SameShow, App
  <2>5. \/ Emitting(d, Becomes(b, <<Msg("answer", Event1(d).room, b.pc)>>))
        \/ Emitting(d, Becomes(app[d], <<>>))
    BY <1>6, <2>1, <2>3 DEF OnOffer
  <2>. QED BY <1>2, <2>2, <2>4, <2>5, SameOn, SameShows
<1>7. CASE OnAnswer(d)
  <2> DEFINE a == [app[d] EXCEPT !.remote = Event1(d).payload]
  <2>1. DOMAIN a = DOMAIN app[d] /\ SameShow(app[d], a)
    BY <1>1 DEF SameShow, App
  <2>2. \/ Emitting(d, Becomes(a, <<>>)) \/ Emitting(d, Becomes(app[d], <<>>))
        \/ Emitting(d, Teardown(app[d], "failed"))
    BY <1>7 DEF OnAnswer
  <2> HIDE DEF a
  <2>. QED BY <1>1, <1>2, <2>1, <2>2, SameShows, TeardownMade, EmittedShows
<1>8. CASE OnPeerDisconnected(d)
  <2>1. \E status : Emitting(d, Teardown(app[d], status))
    BY <1>8 DEF OnPeerDisconnected
  <2>. QED BY <1>1, <2>1, TeardownMade, EmittedShows
<1>9. CASE CallAnswered(d)
  <2> DEFINE a == [app[d] EXCEPT !.late = @ - 1]
  <2>1. DOMAIN a = DOMAIN app[d] /\ SameShow(app[d], a)
    BY <1>1 DEF SameShow, App
  <2>2. PICK ok \in BOOLEAN :
              \/ Emitting(d, Becomes(a, <<>>))
              \/ app[d].calls # <<>> /\ Settle(d, app[d], ok, Event1(d).room)
    BY <1>9 DEF CallAnswered
  <2> HIDE DEF a
  <2>3. CASE Emitting(d, Becomes(a, <<>>))
    BY <2>1, <2>3, SameShows
  <2>4. CASE app[d].calls # <<>> /\ Settle(d, app[d], ok, Event1(d).room)
    BY <1>1, <2>4, SettledShows
  <2>. QED BY <2>2, <2>3, <2>4
<1>. QED BY <1>3, <1>4, <1>5, <1>6, <1>7, <1>8, <1>9 DEF HandlesEvent

LEMMA AppShows ==
    ASSUME SessionTypeOK, NEW d \in Devices, AppStep(d), \A e \in Devices : Shows(app[e])
    PROVE  \A e \in Devices : Shows(app'[e])
<1>1. app \in [Devices -> App] /\ app[d] \in App
  BY DEF SessionTypeOK
<1>2. SameShow(app[d], app[d])
  BY DEF SameShow
<1>3. CASE RequestTimeout(d)
  BY <1>1, <1>3, TeardownMade, EmittedShows DEF RequestTimeout
<1>4. CASE NegotiationTimeout(d)
  <2>1. PICK a : a = [app[d] EXCEPT !.negTimer = FALSE]
    OBVIOUS
  <2>2. a \in App /\ DOMAIN a = DOMAIN app[d] /\ SameShow(app[d], a)
    BY <1>1, <2>1 DEF App, SameShow
  <2>3. Emitting(d, Teardown(a, "failed")) \/ Emitting(d, Becomes(a, <<>>))
    BY <1>4, <2>1 DEF NegotiationTimeout
  <2>4. Made(app[d], Teardown(a, "failed").app)
    BY <2>2, SameMade, TeardownMade, MadeOn
  <2>. QED BY <2>2, <2>3, <2>4, SameShows, EmittedShows
<1>5. ASSUME NEW ok \in BOOLEAN, Validated(d, ok)
      PROVE  \A e \in Devices : Shows(app'[e])
  <2>1. PICK r : r = Head(app[d].validating)
    OBVIOUS
  <2>2. PICK a : a = [app[d] EXCEPT !.validating = Tail(@)]
    OBVIOUS
  <2>3. PICK b : b = [a EXCEPT !.incoming = r, !.room = r, !.role = "host",
                               !.status = "waiting-for-approval"]
    OBVIOUS
  <2>4. DOMAIN a = DOMAIN app[d] /\ SameShow(app[d], a)
    BY <1>1, <2>2 DEF App, SameShow
  <2>5. DOMAIN b = DOMAIN a /\ SameShow(a, b)
    BY <1>1, <2>3, <2>4 DEF App, SameShow
  <2>6. Emitting(d, Becomes(b, <<>>)) \/ \E out : Emitting(d, Becomes(a, out))
    BY <1>5, <2>1, <2>2, <2>3 DEF Validated
  <2>. QED BY <2>4, <2>5, <2>6, SameOn, SameShows
<1>6. ASSUME NEW ok \in BOOLEAN, CaptureAnswered(d, ok)
      PROVE  \A e \in Devices : Shows(app'[e])
  <2>1. PICK a : a = [app[d] EXCEPT !.captures = @ - 1]
    OBVIOUS
  <2>2. PICK b : b = [a EXCEPT !.orphans = IF a.sharing THEN @ + 1 ELSE @,
                               !.sharing = TRUE, !.sent = TRUE]
    OBVIOUS
  <2>3. DOMAIN a = DOMAIN app[d] /\ SameShow(app[d], a) /\ a.pc = app[d].pc
    BY <1>1, <2>1 DEF App, SameShow
  <2>4. DOMAIN b = DOMAIN a /\ b.sharing = TRUE /\ b.sent = TRUE /\ b.pc = a.pc
    BY <1>1, <2>2, <2>3 DEF App
  <2>5. PICK c : c = StopLocalCapture(b)
    OBVIOUS
  <2>6. DOMAIN c = DOMAIN b /\ c.sent = FALSE /\ c.sharing = FALSE
    BY <1>1, <2>3, <2>4, <2>5 DEF StopLocalCapture, App
  <2>7. \/ Emitting(d, Becomes(a, <<>>))
        \/ a.pc # NoPayload /\ Emitting(d, Becomes(b, <<>>))
        \/ Emitting(d, Becomes(c, <<>>))
    BY <1>6, <2>1, <2>2, <2>5 DEF CaptureAnswered
  <2>8. (a.pc # NoPayload => Made(app[d], b)) /\ Made(app[d], c)
    BY <2>3, <2>4, <2>6, SilentMade DEF Made, Shows
  <2>. QED BY <2>3, <2>7, <2>8, SameShows, EmittedShows, BecomesFields
<1>7. CASE CallTimesOut(d)
  <2>1. PICK a : a = [app[d] EXCEPT !.late = @ + 1]
    OBVIOUS
  <2>2. a.calls = app[d].calls
    BY <1>1, <2>1 DEF App
  <2>. QED BY <1>7, <2>1, <2>2, SettledShows DEF CallTimesOut
<1>8. CASE CallLost(d)
  BY <1>8, SettledShows DEF CallLost
<1>9. CASE CodeConsumed(d)
  <2> DEFINE a == [app[d] EXCEPT !.consuming = @ - 1, !.incoming = NoRoomId,
                                 !.status = "negotiating", !.negTimer = TRUE]
  <2>1. DOMAIN a = DOMAIN app[d] /\ SameShow(app[d], a)
    BY <1>1 DEF App, SameShow
  <2>2. Emitting(d, Becomes(a, <<>>))
    BY <1>9 DEF CodeConsumed
  <2> HIDE DEF a
  <2>. QED BY <2>1, <2>2, SameShows
<1>10. CASE PeerConnected(d)
  <2> DEFINE a == [app[d] EXCEPT !.rtc = TRUE, !.negTimer = FALSE, !.status = "connected"]
  <2>1. DOMAIN a = DOMAIN app[d] /\ SameShow(app[d], a)
    BY <1>1 DEF App, SameShow
  <2>2. Emitting(d, Becomes(a, <<>>))
    BY <1>10 DEF PeerConnected
  <2> HIDE DEF a
  <2>. QED BY <2>1, <2>2, SameShows
<1>11. CASE PeerLost(d)
  BY <1>1, <1>11, TeardownMade, EmittedShows DEF PeerLost
<1>12. CASE Reoffer(d)
  <2>1. PICK b : b = EnsurePc(d, app[d])
    OBVIOUS
  <2>2. DOMAIN b = DOMAIN app[d] /\ SameShow(app[d], b)
    BY <1>1, <2>1, PcMade
  <2>3. Emitting(d, Becomes(b, <<Msg("offer", app[d].room, b.pc)>>))
    BY <1>12, <2>1 DEF Reoffer, Offering
  <2>. QED BY <2>2, <2>3, SameShows
<1>13. CASE SocketCloses(d)
  <2>1. PICK a : a = [app[d] EXCEPT !.socket = NoSocket, !.late = 0]
    OBVIOUS
  <2>2. a \in App /\ DOMAIN a = DOMAIN app[d] /\ SameShow(app[d], a)
    BY <1>1, <2>1 DEF App, SameShow
  <2>3. Emitting(d, Teardown(a, "failed")) \/ Emitting(d, Becomes(a, <<>>))
    BY <1>13, <2>1 DEF SocketCloses
  <2>4. Made(app[d], Teardown(a, "failed").app)
    BY <2>2, SameMade, TeardownMade, MadeOn
  <2>. QED BY <2>2, <2>3, <2>4, SameShows, EmittedShows
<1>. QED
  BY <1>3, <1>4, <1>5, <1>6, <1>7, <1>8, <1>9, <1>10, <1>11, <1>12, <1>13,
     UserShows, EventShows DEF AppStep, TimerFires

LEMMA StepShows ==
    ASSUME SessionTypeOK, AllNext, \A e \in Devices : Shows(app[e])
    PROVE  \A e \in Devices : Shows(app'[e])
<1>1. ASSUME NEW s \in Sockets, ServerHandles(s) \/ ServerDrops(s) \/ Discarded(s)
      PROVE  UNCHANGED app
  BY <1>1 DEF ServerHandles, ServerDrops, Discarded
<1>2. ASSUME ServerTimer PROVE UNCHANGED app
  BY <1>2 DEF ServerTimer
<1>3. ASSUME NEW d \in Devices, AppConnects(d)
      PROVE  \A e \in Devices : Shows(app'[e])
  <2>1. PICK s \in Sockets : SocketOpens(d, s)
    BY <1>3 DEF AppConnects
  <2>2. app \in [Devices -> App] /\ app[d] \in App
    BY DEF SessionTypeOK
  <2> DEFINE a == [app[d] EXCEPT !.socket = s]
  <2>3. DOMAIN a = DOMAIN app[d] /\ SameShow(app[d], a)
    BY <2>2 DEF App, SameShow
  <2>4. Emitting(d, Becomes(a, <<Msg("register", NoRoomId, NoPayload)>>))
    BY <2>1 DEF SocketOpens
  <2> HIDE DEF a
  <2>. QED BY <2>3, <2>4, SameShows
<1>. QED BY <1>1, <1>2, <1>3, AppShows DEF AllNext

\* The screen goes out only while the store shows it as shared, but for a
\* stream the store has dropped, and is shared only over a connection.
THEOREM SharedAlwaysShown == AllSpec => []SharedIsShown
<1>1. AllInit => \A e \in Devices : Shows(app[e])
  BY DEF AllInit, SessionInit, NewApp, Shows
<1>2. (\A e \in Devices : Shows(app[e])) /\ SessionTypeOK /\ [AllNext]_allVars
        => (\A e \in Devices : Shows(app[e]))'
  BY StepShows DEF allVars, sessionVars, Shows
<1>3. (\A e \in Devices : Shows(app[e])) => SharedIsShown
  BY DEF Shows, SharedIsShown
<1>. QED BY <1>1, <1>2, <1>3, SessionTypeCorrect, PTL DEF AllSpec
=============================================================================
