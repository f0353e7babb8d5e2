---------------------------- MODULE ClipboardSync ----------------------------
(***************************************************************************)
(* Clipboard sync of two connected peers: RendererClipboardService with    *)
(* the hook that starts and stops it, the IPC to the main process that     *)
(* reads and writes the clipboard, and the `clipboard` data channel.       *)
(*                                                                         *)
(* A read is three steps (asked, served by main, answered), and anything   *)
(* may happen between them.  The IPC of a peer and each direction of the   *)
(* channel are FIFO.                                                       *)
(***************************************************************************)
EXTENDS Integers, Sequences

CONSTANTS
    Peers,        \* the two ends of the session
    Texts,        \* texts the protocol may carry
    Unsendable,   \* the empty text (or an image), a text over the size limit
    NoText,       \* null baseline
    MaxCopies,    \* how often the users copy something
    MaxSwitches,  \* how often settings and connections change
    MaxPending    \* requests a renderer has in flight to its main process

ASSUME PeersAssumption == \A p \in Peers : \E q \in Peers : Peers = {p, q} /\ p # q
ASSUME TextsAssumption ==
    /\ Texts \cap Unsendable = {}
    /\ NoText \notin Texts \cup Unsendable
ASSUME BoundsAssumption == MaxCopies \in Nat /\ MaxSwitches \in Nat /\ MaxPending \in Nat

VARIABLES
    os,         \* peer -> what its clipboard holds
    setting,    \* peer -> the clipboardSync setting
    connected,  \* peer -> its session status is 'connected'
    open,       \* the data channel is open
    timer,      \* peer -> the poll timer runs
    baseline,   \* peer -> the text last seen or applied
    ipc,        \* peer -> its requests to main, oldest first
    chan,       \* peer -> frames on their way to it
    copies, switches,   \* budgets used
    applied,    \* history: peer -> the inbound text it applied last, NoText once
                \* its user has copied something since
    overlapped  \* history: an inbound text was applied while a read was in flight

budgets == <<copies, switches>>
history == <<applied, overlapped>>
vars == <<os, setting, connected, open, timer, baseline, ipc, chan, budgets, history>>

Clip == Texts \cup Unsendable
Sendable(text) == text \in Texts
Other(p) == CHOOSE q \in Peers : q # p
Active(p) == setting[p] /\ connected[p]

IpcRequest == [op : {"seed", "poll", "write"}, text : Clip \cup {NoText}, served : BOOLEAN]
Ask(op, text) == [op |-> op, text |-> text, served |-> FALSE]
ReadInFlight(p) == \E i \in DOMAIN ipc[p] : ipc[p][i].op # "write"

TypeOK ==
    /\ os \in [Peers -> Clip]
    /\ setting \in [Peers -> BOOLEAN]
    /\ connected \in [Peers -> BOOLEAN]
    /\ open \in BOOLEAN
    /\ timer \in [Peers -> BOOLEAN]
    /\ baseline \in [Peers -> Clip \cup {NoText}]
    /\ ipc \in [Peers -> Seq(IpcRequest)]
    /\ chan \in [Peers -> Seq(Texts)]
    /\ copies \in 0..MaxCopies
    /\ switches \in 0..MaxSwitches
    /\ applied \in [Peers -> Texts \cup {NoText}]
    /\ overlapped \in BOOLEAN

\* With a session that has just begun or before one.
Init ==
    /\ os \in [Peers -> Clip]
    /\ setting \in [Peers -> BOOLEAN]
    /\ open \in BOOLEAN
    /\ connected = [p \in Peers |-> open]
    /\ timer = [p \in Peers |-> FALSE]
    /\ baseline = [p \in Peers |-> NoText]
    /\ ipc = [p \in Peers |-> <<>>]
    /\ chan = [p \in Peers |-> <<>>]
    /\ copies = 0
    /\ switches = 0
    /\ applied = [p \in Peers |-> NoText]
    /\ overlapped = FALSE

-----------------------------------------------------------------------------
(* The users and the session *)

UserCopies(p, text) ==
    /\ copies < MaxCopies
    /\ os' = [os EXCEPT ![p] = text]
    /\ applied' = [applied EXCEPT ![p] = NoText]
    /\ copies' = copies + 1
    /\ UNCHANGED <<setting, connected, open, timer, baseline, ipc, chan, switches, overlapped>>

UserToggles(p) ==
    /\ switches < MaxSwitches
    /\ setting' = [setting EXCEPT ![p] = ~@]
    /\ switches' = switches + 1
    /\ UNCHANGED <<os, connected, open, timer, baseline, ipc, chan, copies, history>>

\* A teardown at p closes the channel in the step that leaves 'connected'; what
\* is still on the channel is lost.
SessionEnds(p) ==
    /\ switches < MaxSwitches
    /\ connected[p] /\ open
    /\ open' = FALSE
    /\ connected' = [connected EXCEPT ![p] = FALSE]
    /\ chan' = [q \in Peers |-> <<>>]
    /\ switches' = switches + 1
    /\ UNCHANGED <<os, setting, timer, baseline, ipc, copies, history>>

PeerNoticesEnd(p) ==
    /\ connected[p] /\ ~open
    /\ connected' = [connected EXCEPT ![p] = FALSE]
    /\ UNCHANGED <<os, setting, open, timer, baseline, ipc, chan, budgets, history>>

SessionStarts ==
    /\ switches < MaxSwitches
    /\ \A p \in Peers : ~connected[p]
    /\ open' = TRUE
    /\ connected' = [p \in Peers |-> TRUE]
    /\ switches' = switches + 1
    /\ UNCHANGED <<os, setting, timer, baseline, ipc, chan, copies, history>>

-----------------------------------------------------------------------------
(* The service *)

\* The hook's effect runs after a render that changed the setting or the
\* status: start() seeds the baseline by a read, stop() forgets it.
EffectStarts(p) ==
    /\ Active(p) /\ ~timer[p]
    /\ Len(ipc[p]) < MaxPending
    /\ timer' = [timer EXCEPT ![p] = TRUE]
    /\ baseline' = [baseline EXCEPT ![p] = NoText]
    /\ ipc' = [ipc EXCEPT ![p] = Append(@, Ask("seed", NoText))]
    /\ UNCHANGED <<os, setting, connected, open, chan, budgets, history>>

EffectStops(p) ==
    /\ ~Active(p) /\ timer[p]
    /\ timer' = [timer EXCEPT ![p] = FALSE]
    /\ baseline' = [baseline EXCEPT ![p] = NoText]
    /\ UNCHANGED <<os, setting, connected, open, ipc, chan, budgets, history>>

PollOnce(p) ==
    /\ timer[p]
    /\ Len(ipc[p]) < MaxPending
    /\ ipc' = [ipc EXCEPT ![p] = Append(@, Ask("poll", NoText))]
    /\ UNCHANGED <<os, setting, connected, open, timer, baseline, chan, budgets, history>>

\* Main takes the requests in order.
MainServes(p) ==
    \E i \in DOMAIN ipc[p] :
        /\ ~ipc[p][i].served
        /\ \A j \in 1..(i - 1) : ipc[p][j].served
        /\ IF ipc[p][i].op = "write"
           THEN /\ os' = [os EXCEPT ![p] = ipc[p][i].text]
                /\ ipc' = [ipc EXCEPT ![p][i].served = TRUE]
           ELSE /\ ipc' = [ipc EXCEPT ![p][i] = [@ EXCEPT !.served = TRUE, !.text = os[p]]]
                /\ UNCHANGED os
        /\ UNCHANGED <<setting, connected, open, timer, baseline, chan, budgets, history>>

Answered(p, op) ==
    /\ ipc[p] # <<>>
    /\ Head(ipc[p]).served
    /\ Head(ipc[p]).op = op
    /\ ipc' = [ipc EXCEPT ![p] = Tail(@)]
    /\ UNCHANGED <<os, setting, connected, open, timer, budgets, history>>

\* The seed of a service that is stopped by now is dropped; the seed of an
\* earlier start counts for a later one.
SeedAnswered(p) ==
    /\ Answered(p, "seed")
    /\ baseline' = IF timer[p]
                   THEN [baseline EXCEPT ![p] = Head(ipc[p]).text] ELSE baseline
    /\ UNCHANGED chan

\* Fault: what a poll read is sent whatever it is.
PollAnsweredUnfiltered(p) ==
    LET text == Head(ipc[p]).text
        changed == text # baseline[p]
    IN  /\ Answered(p, "poll")
        /\ baseline' = [baseline EXCEPT ![p] = text]
        /\ chan' = IF changed /\ open
                   THEN [chan EXCEPT ![Other(p)] = Append(@, text)] ELSE chan

\* The continuation of a poll looks at the text only: not at whether the
\* service still runs.
PollAnswered(p) ==
    LET text == Head(ipc[p]).text
        changed == text # baseline[p]
    IN  /\ Answered(p, "poll")
        /\ baseline' = [baseline EXCEPT ![p] = text]
        /\ chan' = IF changed /\ Sendable(text) /\ open
                   THEN [chan EXCEPT ![Other(p)] = Append(@, text)] ELSE chan

WriteAnswered(p) ==
    /\ Answered(p, "write")
    /\ UNCHANGED <<baseline, chan>>

\* What the properties remember of a frame.
Recorded(p, text, applies) ==
    /\ applied' = IF applies THEN [applied EXCEPT ![p] = text] ELSE applied
    /\ overlapped' = (overlapped \/ (applies /\ ReadInFlight(p)))

\* Fault: a frame is applied although sync is off.
HandleRemoteAlways(p) ==
    LET text == Head(chan[p])
        applies == text # baseline[p]
    IN  /\ chan[p] # <<>>
        /\ chan' = [chan EXCEPT ![p] = Tail(@)]
        /\ baseline' = IF applies THEN [baseline EXCEPT ![p] = text] ELSE baseline
        /\ ipc' = IF applies
                  THEN [ipc EXCEPT ![p] = Append(@, Ask("write", text))] ELSE ipc
        /\ Recorded(p, text, applies)
        /\ UNCHANGED <<os, setting, connected, open, timer, budgets>>

\* Fault: an applied text resets the baseline instead of becoming it.
HandleRemoteForgets(p) ==
    LET text == Head(chan[p])
        applies == timer[p]
    IN  /\ chan[p] # <<>>
        /\ chan' = [chan EXCEPT ![p] = Tail(@)]
        /\ baseline' = IF applies THEN [baseline EXCEPT ![p] = NoText] ELSE baseline
        /\ ipc' = IF applies
                  THEN [ipc EXCEPT ![p] = Append(@, Ask("write", text))] ELSE ipc
        /\ Recorded(p, text, applies)
        /\ UNCHANGED <<os, setting, connected, open, timer, budgets>>


\* An inbound text becomes the baseline before main has written it.
HandleRemoteMessage(p) ==
    LET text == Head(chan[p])
        applies == timer[p] /\ text # baseline[p]
    IN  /\ chan[p] # <<>>
        /\ chan' = [chan EXCEPT ![p] = Tail(@)]
        /\ baseline' = IF applies THEN [baseline EXCEPT ![p] = text] ELSE baseline
        /\ ipc' = IF applies
                  THEN [ipc EXCEPT ![p] = Append(@, Ask("write", text))] ELSE ipc
        /\ Recorded(p, text, applies)
        /\ UNCHANGED <<os, setting, connected, open, timer, budgets>>

-----------------------------------------------------------------------------
Service(p) ==
    \/ EffectStarts(p) \/ EffectStops(p)
    \/ PollOnce(p)
    \/ SeedAnswered(p) \/ PollAnswered(p) \/ WriteAnswered(p)
    \/ HandleRemoteMessage(p)

Next ==
    \/ \E p \in Peers, text \in Clip : UserCopies(p, text)
    \/ \E p \in Peers : UserToggles(p) \/ SessionEnds(p) \/ PeerNoticesEnd(p)
    \/ SessionStarts
    \/ \E p \in Peers : Service(p) \/ MainServes(p)

\* setInterval, React's effects, the IPC and the open channel all go on; users
\* and sessions do as they like.
Fairness ==
    \A p \in Peers :
        /\ WF_vars(EffectStarts(p)) /\ WF_vars(EffectStops(p))
        /\ WF_vars(PollOnce(p))
        /\ WF_vars(MainServes(p))
        /\ WF_vars(SeedAnswered(p) \/ PollAnswered(p) \/ WriteAnswered(p))
        /\ WF_vars(HandleRemoteMessage(p))
        /\ WF_vars(PeerNoticesEnd(p))

Spec == Init /\ [][Next]_vars
FairSpec == Spec /\ Fairness

-----------------------------------------------------------------------------
(* Properties *)

\* Nothing is asked of main but by a service that runs: while sync is off the
\* clipboard is not read, and no inbound frame is applied.
AsksOnlyWhileRunning ==
    [][\A p \in Peers : Len(ipc'[p]) > Len(ipc[p]) => timer'[p]]_vars

\* Both services run, the channel is open and p has read its own baseline.
InSync(p) ==
    open /\ timer[p] /\ timer[Other(p)] /\ baseline[p] # NoText

\* No inbound text was ever applied while its service had a read in flight, whose
\* answer overwrites the baseline the text has just become.
NoOverlap == ~overlapped
NeverOverlap == []NoOverlap

\* p's user put a text on its clipboard that its service has not seen yet, and
\* no text of the peer is about to replace it.
Unread(p, text) ==
    /\ InSync(p) /\ chan[p] = <<>>
    /\ os[p] = text /\ baseline[p] # text
    /\ \A i \in DOMAIN ipc[p] : ipc[p][i].op # "write"


\* Once the users leave clipboards, settings and session alone, the frames stop,
\* in the same behaviours: no text bounces between two services for ever, not
\* even two that crossed.
Settles ==
    NeverOverlap => <>[](\A p \in Peers : chan[p] = <<>>)

\* SECURITY.md: "OFF blocks both directions".  False for a poll whose read is in
\* flight when sync is turned off.
OffBlocksBothDirections ==
    [][\A p \in Peers : Len(chan'[Other(p)]) > Len(chan[Other(p)]) => timer[p]]_vars

\* Echo suppression: "applied inbound text becomes the local baseline, so the
\* next poll sees 'no change' instead of bouncing it back".  A service never sends
\* the text it applied last, unless its user copied something since.  False when
\* the text is applied while the seed read of start() is in flight: the seed's
\* answer, read before the text was written, overwrites the baseline that the text
\* had become, and the next poll sends the text back.
EchoSuppressed ==
    [][\A p \in Peers :
          LET c == chan[Other(p)]
              d == chan'[Other(p)]
          IN  Len(d) > Len(c) => d[Len(d)] # applied[p]]_vars
=============================================================================
