--------------------------- MODULE ConnectionToken ---------------------------
(***************************************************************************)
(* The connection code of a host: ConnectionTokenService in the main       *)
(* process, its copy in the renderer (useConnectionToken and the store),   *)
(* the IPC between them, and the uses that signaling makes of it.          *)
(*                                                                         *)
(* The IPC is FIFO both ways, and main answers each request at once.       *)
(* Codes are numbered in the order they are issued: six random characters  *)
(* are taken never to repeat.  A code keeps the ticks it has left to live, *)
(* in main, on the screen and in a reply under way alike.                  *)
(***************************************************************************)
EXTENDS Integers, Sequences

CONSTANTS
    Ttl,         \* TOKEN_TTL_MS in clock ticks
    MaxCodes,    \* codes issued
    MaxRooms,    \* connection requests made to this host
    MaxPending   \* requests the renderer has in flight to main

ASSUME TokenAssumption ==
    Ttl \in Nat \ {0} /\ MaxCodes \in Nat /\ MaxRooms \in Nat /\ MaxPending \in Nat

VARIABLES
    current,    \* main: the live code, or None
    issued,     \* codes issued so far
    shown,      \* renderer: tokenCode and tokenExpiresAt
    requests,   \* renderer to main
    replies,    \* main to renderer
    room,       \* the room the server holds for this host: id and status
    roomCount,  \* rooms there have been
    dialog,     \* the room of the approval dialog, or 0
    accepting,  \* the acceptance under way: its room and how far it has come
    timedOut,   \* rooms whose acceptance was given up as unacknowledged
    presented,  \* room -> the code its client presented
    revoked,    \* codes the renderer has asked main to withdraw
    deadThen,   \* room -> the codes revoked when its request arrived
    sessions    \* the rooms that were accepted

tokenVars == <<current, issued, shown, requests, replies>>
roomsVars == <<room, roomCount, presented, deadThen, sessions>>
hostVars == <<dialog, accepting, timedOut, revoked>>
vars == <<tokenVars, roomsVars, hostVars>>

Codes == 1..MaxCodes
Rooms == 1..MaxRooms
None == [code |-> 0, left |-> 0]
TokenInfo == [code : Codes, left : 0..Ttl] \cup {None}

Operation == {"get", "regenerate", "validate", "consume", "clear"}
Message == [op : Operation, room : Rooms \cup {0}, info : TokenInfo, valid : BOOLEAN]
Request(op, r) == [op |-> op, room |-> r, info |-> None, valid |-> FALSE]

Room == [id : Rooms, status : {"pending", "accepted"}]
NoRoomNow == [id |-> 0, status |-> "none"]

Acceptance == [id : Rooms, stage : {"sent", "late", "ok", "refused"}]
NotAccepting == [id |-> 0, stage |-> "none"]

TypeOK ==
    /\ current \in TokenInfo
    /\ issued \in 0..MaxCodes
    /\ shown \in TokenInfo
    /\ requests \in Seq(Message)
    /\ replies \in Seq(Message)
    /\ room \in Room \cup {NoRoomNow}
    /\ roomCount \in 0..MaxRooms
    /\ dialog \in Rooms \cup {0}
    /\ accepting \in Acceptance \cup {NotAccepting}
    /\ timedOut \subseteq Rooms
    /\ presented \in [Rooms -> Codes \cup {0}]
    /\ revoked \in SUBSET Codes
    /\ deadThen \in [Rooms -> SUBSET Codes]
    /\ sessions \in SUBSET Rooms

Init ==
    /\ current = None
    /\ issued = 0
    /\ shown = None
    /\ requests = <<>>
    /\ replies = <<>>
    /\ room = NoRoomNow
    /\ roomCount = 0
    /\ dialog = 0
    /\ accepting = NotAccepting
    /\ timedOut = {}
    /\ presented = [r \in Rooms |-> 0]
    /\ revoked = {}
    /\ deadThen = [r \in Rooms |-> {}]
    /\ sessions = {}

-----------------------------------------------------------------------------
(* Main *)

Alive(info) == info.code # 0 /\ info.left > 0

\* Fault: withdrawing a code leaves it where it is.
StillThere == current

\* What consume() and clear() leave.
Withdrawn == None

\* Fault: a request for the code starts its time anew.
Extended == IF Alive(current) THEN [current EXCEPT !.left = Ttl] ELSE current

\* What getOrCreate() and validate() leave of a live code.
Kept == current

Issue == [code |-> issued + 1, left |-> Ttl]

\* One request: getOrCreate reuses a live code, regenerate never does, validate
\* consumes nothing.
MainServes ==
    LET request == Head(requests)
        issues == \/ request.op = "regenerate"
                  \/ request.op = "get" /\ ~Alive(current)
        live == IF issues THEN Issue
                ELSE IF request.op \in {"consume", "clear"} THEN Withdrawn
                ELSE Kept
        valid == Alive(current) /\ request.op = "validate"
                   /\ presented[request.room] = current.code
    IN  /\ requests # <<>>
        /\ issues => issued < MaxCodes
        /\ issued' = IF issues THEN issued + 1 ELSE issued
        /\ current' = live
        /\ requests' = Tail(requests)
        /\ replies' = Append(replies, [request EXCEPT !.info = live, !.valid = valid])
        /\ UNCHANGED <<roomsVars, shown, hostVars>>

\* Fault: an expired code goes on ageing.
AgedPast(info) == [info EXCEPT !.left = @ - 1]

Aged(info) == IF info.left > 0 THEN [info EXCEPT !.left = @ - 1] ELSE info

Tick ==
    /\ \E info \in {current, shown} \cup {replies[i].info : i \in DOMAIN replies} :
          info.left > 0
    /\ current' = Aged(current)
    /\ shown' = Aged(shown)
    /\ replies' = [i \in DOMAIN replies |->
                      [replies[i] EXCEPT !.info = Aged(@)]]
    /\ UNCHANGED <<roomsVars, issued, requests, hostVars>>

-----------------------------------------------------------------------------
(* The renderer's code card *)

Ask(op, r) ==
    /\ Len(requests) + Len(replies) < MaxPending
    /\ requests' = Append(requests, Request(op, r))

Withdraws(op) ==
    /\ Ask(op, 0)
    /\ revoked' = revoked \cup 1..issued

Ensure ==
    /\ Ask("get", 0)
    /\ UNCHANGED <<roomsVars, current, issued, shown, replies, hostVars>>

Regenerate ==
    /\ Withdraws("regenerate")
    /\ UNCHANGED <<roomsVars, current, issued, shown, replies, dialog, accepting, timedOut>>

Revoke ==
    /\ Withdraws("clear")
    /\ shown' = None
    /\ UNCHANGED <<roomsVars, current, issued, replies, dialog, accepting, timedOut>>

\* The code is shown when the reply arrives, whatever was withdrawn since.
CodeAnswered ==
    /\ replies # <<>> /\ Head(replies).op \in {"get", "regenerate"}
    /\ shown' = Head(replies).info
    /\ replies' = Tail(replies)
    /\ UNCHANGED <<roomsVars, current, issued, requests, hostVars>>

ClearAnswered ==
    /\ replies # <<>> /\ Head(replies).op = "clear"
    /\ replies' = Tail(replies)
    /\ UNCHANGED <<roomsVars, current, issued, shown, requests, hostVars>>

CountdownEnds ==
    /\ shown.code # 0 /\ shown.left = 0
    /\ shown' = None
    /\ UNCHANGED <<roomsVars, current, issued, requests, replies, hostVars>>

-----------------------------------------------------------------------------
(* Requests and sessions *)

\* The server lets one room at a time through to a host, after the answers it has
\* sent before.  The client presents any code that was ever issued, or a wrong one.
RequestArrives(code) ==
    LET r == roomCount + 1
    IN  /\ room.status = "none" /\ roomCount < MaxRooms
        /\ accepting.stage \notin {"ok", "refused"}
        /\ code \in 0..issued
        /\ Ask("validate", r)
        /\ room' = [id |-> r, status |-> "pending"]
        /\ roomCount' = r
        /\ presented' = [presented EXCEPT ![r] = code]
        /\ deadThen' = [deadThen EXCEPT ![r] = revoked]
        /\ UNCHANGED <<current, issued, shown, replies, sessions, hostVars>>

\* The requester cancels, times out or goes: the host of a pending request is not
\* told.
RequesterGivesUp ==
    /\ room.status = "pending"
    /\ room' = NoRoomNow
    /\ UNCHANGED <<tokenVars, roomCount, presented, deadThen, sessions, hostVars>>

\* A request whose code is wrong is rejected without a dialog.
ValidateAnswered ==
    LET reply == Head(replies)
    IN  /\ replies # <<>> /\ reply.op = "validate"
        /\ replies' = Tail(replies)
        /\ dialog' = IF reply.valid THEN reply.room ELSE dialog
        /\ room' = IF ~reply.valid /\ room.id = reply.room THEN NoRoomNow ELSE room
        /\ UNCHANGED <<current, issued, shown, requests, roomCount, presented, deadThen,
                       sessions, accepting, revoked, timedOut>>

UserAccepts ==
    /\ dialog # 0 /\ accepting = NotAccepting
    /\ accepting' = [id |-> dialog, stage |-> "sent"]
    /\ UNCHANGED <<tokenVars, roomsVars, dialog, timedOut, revoked>>

\* Fault: the server accepts whatever request is pending.
AcceptableAny(r) == room.status = "pending"

Acceptable(r) == room = [id |-> r, status |-> "pending"]

\* The server's answer goes nowhere when the host waits no longer.
ServerAccepts ==
    LET agreed == Acceptable(accepting.id)
        answer == IF agreed THEN "ok" ELSE "refused"
    IN  /\ accepting.stage \in {"sent", "late"}
        /\ room' = IF agreed THEN [room EXCEPT !.status = "accepted"] ELSE room
        /\ sessions' = IF agreed THEN sessions \cup {room.id} ELSE sessions
        /\ accepting' = IF accepting.stage = "sent" THEN [accepting EXCEPT !.stage = answer]
                        ELSE NotAccepting
        /\ UNCHANGED <<tokenVars, roomCount, presented, deadThen, dialog,
                       timedOut, revoked>>

AcceptAnswered ==
    /\ accepting.stage = "ok"
    /\ accepting' = NotAccepting
    /\ Withdraws("consume")
    /\ UNCHANGED <<roomsVars, current, issued, shown, replies, dialog, timedOut>>

\* A refused acceptance leaves the dialog up and the code alive.
AcceptRefused ==
    /\ accepting.stage = "refused"
    /\ accepting' = NotAccepting
    /\ UNCHANGED <<tokenVars, roomsVars, dialog, timedOut, revoked>>

\* After eight seconds the host treats the acceptance as refused, whether or not
\* the server has carried it out or still will.
AcceptTimesOut ==
    /\ accepting # NotAccepting /\ accepting.stage # "late"
    /\ accepting' = IF accepting.stage = "sent" THEN [accepting EXCEPT !.stage = "late"]
                    ELSE NotAccepting
    /\ timedOut' = timedOut \cup {accepting.id}
    /\ UNCHANGED <<tokenVars, roomsVars, dialog, revoked>>

ConsumeAnswered ==
    /\ replies # <<>> /\ Head(replies).op = "consume"
    /\ replies' = Tail(replies)
    /\ shown' = None
    /\ dialog' = 0
    /\ UNCHANGED <<roomsVars, current, issued, requests, accepting, revoked, timedOut>>

\* rejectIncoming keeps the code.  It reaches the server after an acceptance sent
\* before it, and ends an accepted room as well.
UserRejects ==
    /\ dialog # 0 /\ accepting.stage \notin {"sent", "late"}
    /\ room' = IF room.id = dialog THEN NoRoomNow ELSE room
    /\ dialog' = 0
    /\ UNCHANGED <<tokenVars, roomCount, presented, deadThen, sessions, accepting,
                   timedOut, revoked>>

\* Every end of a session, and the server's notice that a request expired: the
\* code is withdrawn, the store is reset.
Teardown ==
    /\ room.status # "none"
    /\ Withdraws("clear")
    /\ shown' = None
    /\ dialog' = 0
    /\ room' = NoRoomNow
    /\ UNCHANGED <<current, issued, replies, roomCount, presented, deadThen, sessions,
                   accepting, timedOut>>

Next ==
    \/ MainServes \/ Tick
    \/ Ensure \/ Regenerate \/ Revoke
    \/ CodeAnswered \/ ClearAnswered \/ CountdownEnds
    \/ \E code \in Codes \cup {0} : RequestArrives(code)
    \/ RequesterGivesUp \/ ValidateAnswered
    \/ UserAccepts \/ ServerAccepts \/ AcceptAnswered \/ AcceptRefused \/ AcceptTimesOut
    \/ ConsumeAnswered \/ UserRejects
    \/ Teardown

Spec == Init /\ [][Next]_vars

-----------------------------------------------------------------------------
(* Properties *)

\* "single-use (burned the moment an Accept authorizes a session)": no code
\* authorizes two sessions.  False when the acknowledgement of an acceptance
\* comes too late: the host burns nothing, and may reject the accepted room.
SingleUse ==
    \A r, q \in sessions : presented[r] = presented[q] => r = q

\* That is the only way: of two sessions that one code authorized, one had its
\* acceptance time out, although main burns the code only some time after the
\* acceptance and validates a code without consuming it.
SingleUseUnlessTimedOut ==
    \A r, q \in sessions :
        presented[r] = presented[q] => r = q \/ r \in timedOut \/ q \in timedOut

\* A session is authorized by a code that main issued, and never by one that the
\* host had revoked, replaced or used before the request arrived: the withdrawal
\* overtakes every later validation.
RevokedCodeNeverAdmits ==
    \A r \in sessions : presented[r] # 0 /\ presented[r] \notin deadThen[r]

\* What the screen and main say of the same code agrees: it expires in both at
\* once.
SameCountdown == shown.code = current.code => shown.left = current.left
=============================================================================
