----------------------------- MODULE RemoteInput -----------------------------
(***************************************************************************)
(* Remote control of a shared screen: the client captures keys, the button *)
(* and pointer moves over the video, the `remote-input` channel carries    *)
(* them, the host's renderer passes them to its main process while it      *)
(* shares, and the adapter of its platform plays them one at a time.       *)
(*                                                                         *)
(* Capture is attached and detached by an effect that runs after the store *)
(* has changed; the store changes on messages of the `control` channel,    *)
(* which is ordered but not ordered with `remote-input`.                   *)
(***************************************************************************)
EXTENDS Naturals, Sequences, FiniteSets, Functions, InputAdapters

CONSTANTS
    NoPoint,      \* no move pending, pointer or cursor not placed yet
    MaxEvents,    \* how many events the client's user produces
    MaxShares,    \* how often the host starts to share
    MaxFailures   \* how many commands of the adapter fail

\* What `lost` calls the mouse button; no keyboard code has that name.
Button == "button"

ASSUME NamesAssumption ==
    Codes \cap Points = {} /\ NoPoint \notin Points /\ Button \notin Codes
ASSUME LimitsAssumption == MaxEvents \in Nat /\ MaxShares \in Nat /\ MaxFailures \in Nat

VARIABLES
    connected,    \* client: role 'client' and status 'connected'
    stream,       \* client: the store holds a remote stream
    inputOpen,    \* client: its end of the data channels is open
    capture,      \* client: the listeners are attached
    held,         \* client: heldKeys
    pendingMove,  \* client: the throttled move
    timerSet,     \* client: trailingTimer is armed
    cooling,      \* client: the last move went out less than MOVE_THROTTLE_MS ago
    frames,       \* remote-input channel, oldest first
    ctl,          \* control channel to the client, oldest first
    reoffer,      \* client's re-offer for the host's tracks
    hostUp,       \* host: its session is alive
    share,        \* host: sharing, and whether the display size is known
    jobs,         \* host: IPC requests and adapter commands not played yet
    tool,         \* host: the command its adapter drives
    down,         \* host OS: keys down
    pressed,      \* host OS: the button is down
    cursor,       \* host OS: where the cursor is
    pointer,      \* last point the user moved to under this capture
    grip,         \* the user holds the button, pressed over the frame
    lost,         \* keys and button with a release that was not sent, dropped or
                  \* failed since they went down
    moveLost,     \* a move was dropped or failed since the last one was sent
    aimless,      \* points whose move was lost, or waited when a press left for them,
                  \* and that were not moved to anew since
    events, shares, failures   \* budgets used

clientVars == <<connected, stream, inputOpen, capture>>
heldVars == <<held, grip>>
moveVars == <<pendingMove, timerSet, cooling, pointer>>
hostVars == <<hostUp, share, tool>>
osVars == <<down, pressed, cursor>>
lossVars == <<lost, moveLost, aimless>>
budgets == <<events, shares, failures>>
vars == <<clientVars, heldVars, moveVars, frames, ctl, reoffer, hostVars, jobs, osVars, lossVars, budgets>>

KeyDown(c) == [op |-> "keydown", what |-> c]
KeyUp(c) == [op |-> "keyup", what |-> c]
Move(p) == [op |-> "move", what |-> p]
Press(p) == [op |-> "press", what |-> p]
Release(p) == [op |-> "release", what |-> p]

Releases(q) ==
    {c \in Codes : \E i \in DOMAIN q : q[i] = KeyUp(c)}
        \cup {b \in {Button} : \E i \in DOMAIN q : q[i].op = "release"}
HasMove(q) == \E i \in DOMAIN q : q[i].op = "move"
Moves(q) == {p \in Points : \E i \in DOMAIN q : q[i] = Move(p)}

\* Frames the host has not played yet, oldest first.
Ahead == jobs \o frames

TypeOK ==
    /\ connected \in BOOLEAN /\ stream \in BOOLEAN /\ inputOpen \in BOOLEAN
    /\ capture \in BOOLEAN /\ timerSet \in BOOLEAN /\ cooling \in BOOLEAN
    /\ held \subseteq Codes
    /\ pendingMove \in Points \cup {NoPoint}
    /\ pointer \in Points \cup {NoPoint}
    /\ frames \in Seq(Frame)
    /\ ctl \in Seq({"video-tracks-added", "video-tracks-ended"})
    /\ reoffer \in {"none", "offered", "answered"}
    /\ hostUp \in BOOLEAN
    /\ share \in {"none", "sized", "unsized"} /\ tool \in Tools
    /\ jobs \in Seq(Frame)
    /\ down \subseteq Codes /\ pressed \in BOOLEAN
    /\ cursor \in Points \cup {NoPoint}
    /\ grip \in BOOLEAN
    /\ lost \subseteq Codes \cup {Button}
    /\ moveLost \in BOOLEAN /\ aimless \subseteq Points
    /\ events \in 0..MaxEvents /\ shares \in 0..MaxShares /\ failures \in 0..MaxFailures

\* Two peers whose session has just become 'connected'.
Init ==
    /\ connected = TRUE /\ stream = FALSE /\ inputOpen = TRUE /\ capture = FALSE
    /\ held = {} /\ grip = FALSE
    /\ pendingMove = NoPoint /\ timerSet = FALSE /\ cooling = FALSE /\ pointer = NoPoint
    /\ frames = <<>> /\ ctl = <<>> /\ reoffer = "none"
    /\ hostUp = TRUE /\ share = "none" /\ tool \in Tools
    /\ jobs = <<>> /\ down = {} /\ pressed = FALSE /\ cursor = NoPoint
    /\ lost = {} /\ moveLost = FALSE /\ aimless = {}
    /\ events = 0 /\ shares = 0 /\ failures = 0

InputActive == connected /\ stream

UserActs == capture /\ events < MaxEvents /\ events' = events + 1 /\ UNCHANGED <<shares, failures>>

-----------------------------------------------------------------------------
(* Sending: false, and the message is dropped, when the channel is closed. *)

Send(q) ==
    /\ frames' = IF inputOpen THEN frames \o q ELSE frames
    /\ UNCHANGED jobs

\* The losses after the frames of q did not get through.
Losing(q) ==
    /\ lost' = lost \cup Releases(q)
    /\ moveLost' = (moveLost \/ HasMove(q))
    /\ aimless' = aimless \cup Moves(q)

SendReleases(q) ==
    /\ Send(q)
    /\ IF inputOpen THEN UNCHANGED lossVars ELSE Losing(q)

SendMove(p) ==
    /\ Send(<<Move(p)>>)
    /\ moveLost' = ~inputOpen
    /\ aimless' = IF ~inputOpen THEN aimless \cup {p}
                  ELSE IF \E i \in DOMAIN Ahead : Ahead[i] = Press(p) THEN aimless
                  ELSE aimless \ {p}
    /\ UNCHANGED lost

\* One key-up for every held key; the order of the set's insertions does not
\* matter and is left open.
FlushHeldKeys ==
    /\ \E order \in [1..Cardinality(held) -> held] :
          /\ Range(order) = held
          /\ SendReleases([i \in DOMAIN order |-> KeyUp(order[i])])
    /\ held' = {}

-----------------------------------------------------------------------------
(* Client: the listeners. *)

OnKeyDown(c) ==
    /\ UserActs
    /\ Send(<<KeyDown(c)>>)
    /\ held' = IF inputOpen THEN held \cup {c} ELSE held
    /\ lost' = IF inputOpen THEN lost \ {c} ELSE lost
    /\ UNCHANGED <<clientVars, grip, moveVars, ctl, reoffer, hostVars, osVars, moveLost, aimless>>

OnKeyUp(c) ==
    /\ UserActs
    /\ held' = held \ {c}
    /\ SendReleases(<<KeyUp(c)>>)
    /\ UNCHANGED <<clientVars, grip, moveVars, ctl, reoffer, hostVars, osVars>>

\* Fault: blur forgets the held keys without releasing them.
OnBlurForgetting ==
    /\ UserActs
    /\ held' = {}
    /\ UNCHANGED <<clientVars, grip, moveVars, frames, jobs, ctl, reoffer, hostVars, osVars, lossVars>>

OnBlur ==
    /\ UserActs
    /\ FlushHeldKeys
    /\ UNCHANGED <<clientVars, grip, moveVars, ctl, reoffer, hostVars, osVars>>

\* The button goes down over the frame, at the pointer if it was moved before.
\* A move that waits for the throttle is not sent first.
OnMouseDown(p) ==
    /\ UserActs
    /\ ~grip /\ pointer \in {p, NoPoint}
    /\ grip' = TRUE
    /\ Send(<<Press(p)>>)
    /\ lost' = IF inputOpen THEN lost \ {Button} ELSE lost
    /\ aimless' = IF timerSet \/ pointer = NoPoint THEN aimless \cup {p} ELSE aimless
    /\ UNCHANGED <<clientVars, held, moveVars, ctl, reoffer, hostVars, osVars, moveLost>>

OnMouseUp(p) ==
    /\ UserActs
    /\ grip /\ pointer \in {p, NoPoint}
    /\ grip' = FALSE
    /\ SendReleases(<<Release(p)>>)
    /\ UNCHANGED <<clientVars, held, moveVars, ctl, reoffer, hostVars, osVars>>

\* Let go outside of the frame, or when nothing listens any more: no handler
\* has a point to send.
MouseUpUnseen ==
    /\ grip
    /\ grip' = FALSE
    /\ lost' = lost \cup {Button}
    /\ UNCHANGED <<clientVars, held, moveVars, frames, ctl, reoffer, hostVars, jobs, osVars,
                   moveLost, aimless, budgets>>

\* Fault: a move sent at once leaves the trailing timer armed, with nothing
\* pending.
OnMouseMoveTimerLeft(p) ==
    /\ UserActs
    /\ pointer' = p
    /\ \/ /\ ~cooling
          /\ SendMove(p)
          /\ pendingMove' = NoPoint /\ cooling' = TRUE /\ UNCHANGED timerSet
       \/ /\ cooling
          /\ pendingMove' = p /\ timerSet' = TRUE
          /\ UNCHANGED <<cooling, frames, jobs, lossVars>>
    /\ UNCHANGED <<clientVars, heldVars, ctl, reoffer, hostVars, osVars>>

\* Fault: a throttled move is kept but no timer is armed for it.
OnMouseMoveUnarmed(p) ==
    /\ UserActs
    /\ pointer' = p
    /\ \/ /\ ~cooling
          /\ SendMove(p)
          /\ pendingMove' = NoPoint /\ timerSet' = FALSE /\ cooling' = TRUE
       \/ /\ cooling
          /\ pendingMove' = p
          /\ UNCHANGED <<timerSet, cooling, frames, jobs, lossVars>>
    /\ UNCHANGED <<clientVars, heldVars, ctl, reoffer, hostVars, osVars>>

OnMouseMove(p) ==
    /\ UserActs
    /\ pointer' = p
    /\ \/ /\ ~cooling
          /\ SendMove(p)
          /\ pendingMove' = NoPoint /\ timerSet' = FALSE /\ cooling' = TRUE
       \/ /\ cooling
          /\ pendingMove' = p /\ timerSet' = TRUE
          /\ UNCHANGED <<cooling, frames, jobs, lossVars>>
    /\ UNCHANGED <<clientVars, heldVars, ctl, reoffer, hostVars, osVars>>

\* MOVE_THROTTLE_MS have gone by since the last move.
ThrottleEnds ==
    /\ cooling
    /\ cooling' = FALSE
    /\ UNCHANGED <<clientVars, heldVars, pendingMove, timerSet, pointer, frames, ctl, reoffer,
                   hostVars, jobs, osVars, lossVars, budgets>>

\* The trailing timer fires; it is armed only while a move is pending, which
\* TypeOK would refute by a frame without a point.
FlushMove ==
    /\ timerSet /\ ~cooling
    /\ SendMove(pendingMove)
    /\ pendingMove' = NoPoint /\ timerSet' = FALSE /\ cooling' = TRUE
    /\ UNCHANGED <<clientVars, heldVars, pointer, ctl, reoffer, hostVars, osVars, budgets>>

\* The effect of the viewer runs after inputActive became true.
AttachCapture ==
    /\ InputActive /\ ~capture
    /\ capture' = TRUE
    /\ pendingMove' = NoPoint /\ timerSet' = FALSE /\ cooling' = FALSE /\ pointer' = NoPoint
    /\ UNCHANGED <<connected, stream, inputOpen, heldVars, frames, ctl, reoffer, hostVars, jobs,
                   osVars, lossVars, budgets>>

\* Its cleanup, after inputActive became false: held keys are released, a
\* throttled move is forgotten.
DetachCapture ==
    /\ capture /\ ~InputActive
    /\ capture' = FALSE
    /\ FlushHeldKeys
    /\ pendingMove' = NoPoint /\ timerSet' = FALSE /\ cooling' = FALSE /\ pointer' = NoPoint
    /\ UNCHANGED <<connected, stream, inputOpen, grip, ctl, reoffer, hostVars, osVars, budgets>>

-----------------------------------------------------------------------------
(* Client: what starts and ends the stream. *)

OnControlMessage ==
    /\ connected /\ inputOpen /\ ctl # <<>>
    /\ ctl' = Tail(ctl)
    /\ \/ /\ Head(ctl) = "video-tracks-added"
          /\ reoffer' = "offered"
          /\ UNCHANGED stream
       \/ /\ Head(ctl) = "video-tracks-ended"
          /\ stream' = FALSE
          /\ UNCHANGED reoffer
    /\ UNCHANGED <<connected, inputOpen, capture, heldVars, moveVars, frames, hostVars, jobs,
                   osVars, lossVars, budgets>>

\* The host answers the re-offer with the tracks it has at that moment.
AnswerOffer ==
    /\ hostUp /\ reoffer = "offered"
    /\ reoffer' = IF share = "none" THEN "none" ELSE "answered"
    /\ UNCHANGED <<clientVars, heldVars, moveVars, frames, ctl, hostVars, jobs, osVars, lossVars, budgets>>

OnRemoteStream ==
    /\ connected /\ inputOpen /\ reoffer = "answered"
    /\ reoffer' = "none"
    /\ stream' = TRUE
    /\ UNCHANGED <<connected, inputOpen, capture, heldVars, moveVars, frames, ctl, hostVars, jobs,
                   osVars, lossVars, budgets>>

\* disconnectSession up to its await: the channels are closed, the store
\* still says 'connected'.  The far end closing looks the same.
ChannelsClose ==
    /\ inputOpen
    /\ inputOpen' = FALSE
    /\ UNCHANGED <<connected, stream, capture, heldVars, moveVars, frames, ctl, reoffer, hostVars,
                   jobs, osVars, lossVars, budgets>>

\* teardownSession, or the rest of disconnectSession: the store is reset.
TeardownSession ==
    /\ connected
    /\ connected' = FALSE /\ stream' = FALSE /\ inputOpen' = FALSE
    /\ UNCHANGED <<capture, heldVars, moveVars, frames, ctl, reoffer, hostVars, jobs, osVars,
                   lossVars, budgets>>

\* What a closed channel had not delivered may be dropped.
FramesCut ==
    /\ ~inputOpen \/ ~hostUp
    /\ frames # <<>>
    /\ frames' = <<>>
    /\ Losing(frames)
    /\ UNCHANGED <<clientVars, heldVars, moveVars, ctl, reoffer, hostVars, jobs, osVars, budgets>>

-----------------------------------------------------------------------------
(* Host. *)

\* startSharing after its capture was granted.  Without a settings size the
\* display stays unsized.
StartSharing ==
    /\ hostUp /\ share = "none" /\ shares < MaxShares
    /\ share' \in {"sized", "unsized"}
    /\ ctl' = Append(ctl, "video-tracks-added")
    /\ shares' = shares + 1
    /\ UNCHANGED <<clientVars, heldVars, moveVars, frames, reoffer, hostUp, tool, jobs, osVars, lossVars,
                   events, failures>>

StopSharing ==
    /\ hostUp /\ share # "none"
    /\ share' = "none"
    /\ ctl' = Append(ctl, "video-tracks-ended")
    /\ UNCHANGED <<clientVars, heldVars, moveVars, frames, reoffer, hostUp, tool, jobs, osVars, lossVars, budgets>>

HostTeardown ==
    /\ hostUp
    /\ hostUp' = FALSE /\ share' = "none"
    /\ UNCHANGED <<clientVars, heldVars, moveVars, frames, ctl, reoffer, tool, jobs, osVars, lossVars, budgets>>

\* A frame is forwarded to main, or dropped when nothing is shared or the
\* display has no size.
OnRemoteInputMessage ==
    /\ hostUp /\ frames # <<>>
    /\ frames' = Tail(frames)
    /\ \/ /\ share = "sized"
          /\ jobs' = Append(jobs, Head(frames))
          /\ UNCHANGED lossVars
       \/ /\ share # "sized"
          /\ Losing(<<Head(frames)>>)
          /\ UNCHANGED jobs
    /\ UNCHANGED <<clientVars, heldVars, moveVars, ctl, reoffer, hostVars, osVars, budgets>>

\* What a command does to the keys, the button and the cursor; a message the
\* adapter has no command for is refused.
Play(job) ==
    /\ Maps(tool, job)
    /\ down' = DownAfter(tool, job, down)
    /\ pressed' = PressedAfter(job, pressed)
    /\ cursor' = CursorAfter(tool, job, cursor)
    /\ UNCHANGED <<clientVars, heldVars, moveVars, frames, ctl, reoffer, hostVars, lossVars, budgets>>

\* Fault: commands are not chained, any of them may run first.
RunCommandUnchained ==
    \E i \in DOMAIN jobs :
        /\ jobs' = SubSeq(jobs, 1, i - 1) \o SubSeq(jobs, i + 1, Len(jobs))
        /\ Play(jobs[i])

\* Fault: a failure breaks the chain, nothing runs after it.
RunCommandBroken ==
    /\ jobs # <<>> /\ failures = 0
    /\ jobs' = Tail(jobs)
    /\ Play(Head(jobs))

\* The oldest command runs when the one before it has settled.
RunCommand ==
    /\ jobs # <<>>
    /\ jobs' = Tail(jobs)
    /\ Play(Head(jobs))

\* It fails or times out; the chain behind it goes on.
CommandFails ==
    /\ jobs # <<>> /\ Maps(tool, Head(jobs)) /\ failures < MaxFailures
    /\ jobs' = Tail(jobs)
    /\ Losing(<<Head(jobs)>>)
    /\ failures' = failures + 1
    /\ UNCHANGED <<clientVars, heldVars, moveVars, frames, ctl, reoffer, hostVars, osVars, events, shares>>

\* No command for it: the request is refused and changes nothing.
Refuse ==
    /\ jobs # <<>> /\ ~Maps(tool, Head(jobs))
    /\ jobs' = Tail(jobs)
    /\ UNCHANGED <<clientVars, heldVars, moveVars, frames, ctl, reoffer, hostVars, osVars, lossVars, budgets>>

-----------------------------------------------------------------------------
Next ==
    \/ \E c \in Codes : OnKeyDown(c) \/ OnKeyUp(c)
    \/ \E p \in Points : OnMouseMove(p) \/ OnMouseDown(p) \/ OnMouseUp(p)
    \/ OnBlur \/ MouseUpUnseen
    \/ ThrottleEnds \/ FlushMove
    \/ AttachCapture \/ DetachCapture
    \/ OnControlMessage \/ AnswerOffer \/ OnRemoteStream
    \/ ChannelsClose \/ TeardownSession \/ FramesCut
    \/ StartSharing \/ StopSharing \/ HostTeardown
    \/ OnRemoteInputMessage \/ RunCommand \/ CommandFails \/ Refuse

Spec == Init /\ [][Next]_vars

\* Messages are delivered or cut, commands settle within COMMAND_TIMEOUT_MS,
\* time passes and timers fire.  Users owe nothing.
Fairness ==
    /\ WF_vars(OnRemoteInputMessage) /\ WF_vars(FramesCut)
    /\ WF_vars(RunCommand \/ CommandFails \/ Refuse)
    /\ WF_vars(ThrottleEnds) /\ WF_vars(FlushMove)

FairSpec == Spec /\ Fairness

-----------------------------------------------------------------------------
(* Properties. *)

\* Once all of them are played, key c is down.
WillBeDown(c) ==
    \/ /\ CanHold(tool, c)
       /\ \E i \in DOMAIN Ahead :
             /\ Ahead[i] = KeyDown(c)
             /\ \A j \in DOMAIN Ahead : j > i => Ahead[j].what # c
    \/ c \in down /\ \A i \in DOMAIN Ahead : Ahead[i].what # c

WillBePressed ==
    \/ \E i \in DOMAIN Ahead :
          /\ Ahead[i].op = "press"
          /\ \A j \in DOMAIN Ahead : j > i => Ahead[j].op # "release"
    \/ pressed /\ \A i \in DOMAIN Ahead : Ahead[i].op # "release"

\* heldKeys, the channel and the queue of the adapter agree: a key that is
\* down on the host, or will be once the frames on their way are played, is
\* one the client would still release, or its release was dropped or failed.
\* The same of the button, which nothing flushes: the user still holds it, or
\* let go of it where no handler could tell.
DownIsHeldOrLost ==
    /\ \A c \in Codes : WillBeDown(c) => c \in held \cup lost
    /\ WillBePressed => (grip \/ Button \in lost)

\* A press meets the cursor at its own point, although mousedown is sent
\* without one: the move that took the pointer there is ahead of it, through
\* the throttle, the channel and the queue.  Excepted is a point whose move got
\* lost, or still waited for the throttle when some press left for it, until a
\* move goes there again with no press for it on its way.
PressLandsWhereAimed ==
    \A i \in DOMAIN Ahead :
        Ahead[i].op = "press" /\ Ahead[i].what \notin aimless =>
            \/ /\ cursor = Ahead[i].what
               /\ \A j \in 1..(i - 1) : Ahead[j].op # "move"
            \/ \E j \in 1..(i - 1) :
                  /\ Ahead[j] = Move(Ahead[i].what)
                  /\ \A k \in (j + 1)..(i - 1) : Ahead[k].op # "move"

\* Throttling keeps the latest move: the cursor is, or will be, where the
\* user last moved, or that point waits for the armed timer.
LatestMoveKept ==
    (capture /\ pointer # NoPoint /\ ~moveLost) =>
        \/ timerSet /\ pendingMove = pointer
        \/ \E i \in DOMAIN Ahead :
              /\ Ahead[i] = Move(pointer)
              /\ \A j \in DOMAIN Ahead : j > i => Ahead[j].op # "move"
        \/ cursor = pointer /\ \A i \in DOMAIN Ahead : Ahead[i].op # "move"

\* A released key comes up on the host, through throttling, both channels
\* and the adapter's queue, unless its release gets lost or it is pressed
\* again.
ReleasedKeyComesUp ==
    \A c \in Codes : (c \notin held) ~> (c \notin down \/ c \in held \cup lost)

\* The cursor reaches the user's last point while control lasts.
CursorCatchesUp ==
    \A p \in Points :
        (capture /\ pointer = p) ~> (cursor = p \/ pointer # p \/ moveLost \/ ~capture)

\* TODO.md: held codes are flushed on blur and on detach, the disconnect
\* path included, "so no stuck keys".
NoStuckKeys == (~capture /\ Ahead = <<>>) => down = {}

=============================================================================
