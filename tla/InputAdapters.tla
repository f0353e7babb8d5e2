---------------------------- MODULE InputAdapters ----------------------------
(***************************************************************************)
(* What one input message does to the operating system of the host.  Linux *)
(* drives xdotool, macOS drives cliclick; each has commands for some of    *)
(* the messages only.  The button is the left one.                         *)
(***************************************************************************)
CONSTANTS
    Codes,       \* keyboard codes of the whitelist
    Points,      \* points inside the video frame
    Modifiers,   \* codes cliclick can hold and release
    Pressable    \* codes cliclick can only press as a whole

ASSUME CodesAssumption ==
    /\ Modifiers \cup Pressable \subseteq Codes
    /\ Modifiers \cap Pressable = {}

\* Messages of the channel; those about the button carry the point too.
KeyFrame == [op : {"keydown", "keyup"}, what : Codes]
PointFrame == [op : {"move", "press", "release"}, what : Points]
Frame == KeyFrame \cup PointFrame

Tools == {"xdotool", "cliclick"}

\* xdotool maps the whole whitelist.
CanHold(tool, c) == tool = "xdotool" \/ c \in Modifiers
CanPress(tool, c) == CanHold(tool, c) \/ c \in Pressable

\* Whether the adapter has a command for the message.
Maps(tool, job) == job.op \in {"keydown", "keyup"} => CanPress(tool, job.what)

\* kp presses and lets go at once, and its key-up is no command at all.
DownAfter(tool, job, down) ==
    CASE job.op = "keydown" /\ CanHold(tool, job.what) -> down \cup {job.what}
      [] job.op = "keyup"   /\ CanHold(tool, job.what) -> down \ {job.what}
      [] OTHER -> down

PressedAfter(job, pressed) ==
    (pressed /\ job.op # "release") \/ job.op = "press"

\* dd and du go to their point; mousedown and mouseup stay where the cursor is.
CursorAfter(tool, job, cursor) ==
    IF job.op = "move" \/ (tool = "cliclick" /\ job.op \in {"press", "release"})
    THEN job.what
    ELSE cursor
=============================================================================
