---------------------------- MODULE InputMessages ----------------------------
(***************************************************************************)
(* The arithmetic of remote input, the two parsers it has to pass and the  *)
(* adapters' commands: the client turns an event over the letterboxed      *)
(* video into a message of normalised coordinates, host renderer and main  *)
(* parse it, and main's adapter refuses it or turns it into pixels of the  *)
(* shared display, wheel notches and keys.  Fractions are kept exact, as   *)
(* numerator and denominator.                                              *)
(***************************************************************************)
EXTENDS Integers

CONSTANTS
    Lengths,       \* widths and heights of windows, videos and displays
    Offsets,       \* distances of the pointer from the element's corner
    Deltas,        \* wheel deltas as the browser reports them
    KeyLengths,    \* how long `event.key` is
    CodeLength,    \* how long the names of the whitelisted codes are
    MaxWheelDelta, MaxSharedDimension, MaxKeyLength, MaxWheelNotches, WheelNotchPx

ASSUME MessagesAssumption ==
    /\ Lengths \cup Offsets \cup Deltas \subseteq Int /\ KeyLengths \subseteq Nat
    /\ MaxWheelDelta \in Nat /\ MaxSharedDimension \in Nat \ {0} /\ MaxKeyLength \in Nat \ {0}
    /\ MaxWheelNotches \in Nat \ {0} /\ WheelNotchPx \in Nat \ {0}
    /\ CodeLength \in 1..MaxKeyLength

Null == [kind |-> "null"]
Size == [width : Lengths, height : Lengths]

Frac(n, d) == [num |-> n, den |-> d]
Abs(n) == IF n < 0 THEN -n ELSE n
\* Math.round: halves go up.
Round(f) == (2 * f.num + f.den) \div (2 * f.den)

Clamp01(f) ==
    IF f.num < 0 THEN Frac(0, 1) ELSE IF f.num > f.den THEN Frac(1, 1) ELSE f

-----------------------------------------------------------------------------
(* normalizePoint, with lengths counted in parts of 1 / (2 * scale.den).   *)

\* Fault: the larger of the two scales, which crops instead of letterboxing.
ScaleCovers(element, video) ==
    IF element.width * video.height >= element.height * video.width
    THEN Frac(element.width, video.width)
    ELSE Frac(element.height, video.height)

Scale(element, video) ==
    IF element.width * video.height <= element.height * video.width
    THEN Frac(element.width, video.width)
    ELSE Frac(element.height, video.height)

\* Position along one axis relative to the content, and the content's length.
Along(length, videoLength, scale, offset) ==
    LET content == 2 * videoLength * scale.num
    IN  Frac(2 * scale.den * offset - (scale.den * length - videoLength * scale.num), content)

NormalizePoint(element, video, ox, oy) ==
    IF element.width <= 0 \/ element.height <= 0 \/ video.width <= 0 \/ video.height <= 0
    THEN Null
    ELSE LET scale == Scale(element, video)
             fx == Along(element.width, video.width, scale, ox)
             fy == Along(element.height, video.height, scale, oy)
         IN  IF fx.num < 0 \/ fy.num < 0 \/ fx.num > fx.den \/ fy.num > fy.den
             THEN Null
             ELSE [kind |-> "point", x |-> Clamp01(fx), y |-> Clamp01(fy)]

DenormalizePoint(display, x, y) ==
    LET Along1(f, length) == Round(Frac(Clamp01(f).num * length, f.den))
    IN  [x |-> Along1(x, display.width), y |-> Along1(y, display.height)]

-----------------------------------------------------------------------------
(* Client: the messages its listeners build. *)

ToPixels(delta, mode) ==
    CASE mode = "line" -> 16 * delta [] mode = "page" -> 800 * delta [] OTHER -> delta

MouseMove(point) == [kind |-> "mouse-move", x |-> point.x, y |-> point.y]

\* Codes as the adapters tell them apart; all but the last are whitelisted.
Whitelisted == {"modifier", "pressable", "letter"}
KeyCodes == Whitelisted \cup {"unlisted"}

\* Buttons beyond the third have no name and send nothing.
ButtonAt(event, button, point) ==
    IF button = "other" THEN Null
    ELSE [kind |-> "mouse-button", event |-> event, button |-> button,
          x |-> point.x, y |-> point.y]

Wheel(dx, dy, mode, point) ==
    [kind |-> "mouse-wheel", deltaX |-> ToPixels(dx, mode), deltaY |-> ToPixels(dy, mode),
     x |-> point.x, y |-> point.y]

\* Fault: the key's label is sent whole.
KeyMessageWhole(event, keyLength, code) ==
    IF code \notin Whitelisted THEN Null
    ELSE [kind |-> "keyboard", event |-> event, code |-> code,
          key |-> IF keyLength = 0 THEN CodeLength ELSE keyLength]

\* Only the length of `key` is looked at; an empty one is replaced by the code,
\* which is also what a flushed key-up carries.
KeyMessage(event, keyLength, code) ==
    IF code \notin Whitelisted THEN Null
    ELSE [kind |-> "keyboard", event |-> event, code |-> code,
          key |-> IF keyLength = 0 THEN CodeLength
                  ELSE IF keyLength > MaxKeyLength THEN MaxKeyLength ELSE keyLength]

-----------------------------------------------------------------------------
(* Host: both parsers, and what main makes of the message. *)

IsUnit(f) == f.num >= 0 /\ f.num <= f.den
IsDelta(n) == Abs(n) <= MaxWheelDelta

ParseMessage(m) ==
    CASE m.kind = "mouse-move" -> IF IsUnit(m.x) /\ IsUnit(m.y) THEN m ELSE Null
      [] m.kind = "mouse-button" ->
             IF /\ m.event \in {"down", "up", "click", "double-click"}
                /\ m.button \in {"left", "middle", "right"}
                /\ IsUnit(m.x) /\ IsUnit(m.y)
             THEN m ELSE Null
      [] m.kind = "mouse-wheel" ->
             IF IsDelta(m.deltaX) /\ IsDelta(m.deltaY) /\ IsUnit(m.x) /\ IsUnit(m.y)
             THEN m ELSE Null
      [] m.kind = "keyboard" ->
             IF /\ m.event \in {"keydown", "keyup"}
                /\ m.key \in 1..MaxKeyLength
                /\ m.code \in Whitelisted
             THEN m ELSE Null
      [] OTHER -> Null

IsDisplayDimension(n) == n > 0 /\ n <= MaxSharedDimension

\* forwardToHost, then main: a message reaches the adapter with the display.
ParseRequest(m, display) ==
    /\ ParseMessage(m) # Null
    /\ IsDisplayDimension(display.width) /\ IsDisplayDimension(display.height)

WheelNotches(delta) ==
    LET notches == Round(Frac(Abs(delta), WheelNotchPx))
        atLeast == IF notches < 1 THEN 1 ELSE notches
    IN  IF atLeast > MaxWheelNotches THEN MaxWheelNotches ELSE atLeast

\* Whether the adapter has a command for what main hands to it.  xdotool maps
\* all buttons, the wheel and the whole whitelist; cliclick has no wheel, no
\* middle button, of the right one a whole click, and no key for text.
HasCommand(adapter, m) ==
    \/ adapter = "xdotool"
    \/ m.kind = "mouse-move"
    \/ m.kind = "mouse-button" /\ m.button = "left"
    \/ m.kind = "mouse-button" /\ m.button = "right" /\ m.event \in {"click", "double-click"}
    \/ m.kind = "keyboard" /\ m.code \in {"modifier", "pressable"}

\* RemoteInputService.dispatch answers ok, unless the command itself fails.
Takes(adapter, m, display) == ParseRequest(m, display) /\ HasCommand(adapter, m)

-----------------------------------------------------------------------------
(* Properties. *)

Displays == {s \in Size : IsDisplayDimension(s.width) /\ IsDisplayDimension(s.height)}
Positive == {s \in Size : s.width > 0 /\ s.height > 0}

\* Reference: `object-fit: contain` shows the whole video at its own aspect
\* ratio, as large as fits, in the middle.  A relatively wider video spans the
\* width and leaves equal bars above and below.
Shown(element, video) ==
    IF video.width * element.height >= element.width * video.height
    THEN [left |-> Frac(0, 1), width |-> Frac(element.width, 1),
          top |-> Frac(element.height * video.width - video.height * element.width, 2 * video.width),
          height |-> Frac(video.height * element.width, video.width)]
    ELSE [top |-> Frac(0, 1), height |-> Frac(element.height, 1),
          left |-> Frac(element.width * video.height - video.width * element.height, 2 * video.height),
          width |-> Frac(video.width * element.height, video.height)]

\* (o - start) / span * length, and the pixel p closest to it, all over one denominator.
IsInside(o, start, span) ==
    /\ o * start.den >= start.num
    /\ (o * start.den - start.num) * span.den <= span.num * start.den
IsNearest(p, o, start, span, length) ==
    LET d == start.den * span.num
        n == (o * start.den - start.num) * span.den * length
    IN  2 * Abs(p * d - n) <= d

\* What is under the pointer is what is hit: a point of the picture lands on
\* the display pixel closest to what the picture shows there, never outside of
\* 0..width and 0..height, and a point of the bars lands nowhere.
HitsWhatIsShown ==
    \A element \in Positive, video \in Positive, ox \in Offsets, oy \in Offsets :
        LET shown == Shown(element, video)
            point == NormalizePoint(element, video, ox, oy)
        IN  IF IsInside(ox, shown.left, shown.width) /\ IsInside(oy, shown.top, shown.height)
            THEN /\ point # Null
                 /\ \A display \in Displays :
                        LET at == DenormalizePoint(display, point.x, point.y)
                        IN  /\ IsNearest(at.x, ox, shown.left, shown.width, display.width)
                            /\ IsNearest(at.y, oy, shown.top, shown.height, display.height)
                            /\ at.x \in 0..display.width /\ at.y \in 0..display.height
            ELSE point = Null

\* Everything the listeners can produce at a point of the frame.
Produced ==
    LET points == {NormalizePoint(e, v, o, o) : e \in Size, v \in Size, o \in Offsets} \ {Null}
    IN  {MouseMove(p) : p \in points}
        \cup {ButtonAt(e, b, p) : e \in {"down", "up"},
                                  b \in {"left", "middle", "right", "other"}, p \in points}
        \cup {Wheel(dx, dy, mode, p) : dx \in Deltas, dy \in Deltas,
                                       mode \in {"pixel", "line", "page"}, p \in points}
        \cup {KeyMessage(e, n, c) : e \in {"keydown", "keyup"}, n \in KeyLengths, c \in KeyCodes}

\* Lines and pages grow when they become pixels, and may grow past the limit.
Oversized(m) == m.kind = "mouse-wheel" /\ ~(IsDelta(m.deltaX) /\ IsDelta(m.deltaY))

\* Both parsers accept what the listeners produce, but for oversized wheels; an
\* accepted wheel moves by some notches, not more than the limit.
ProducedIsAccepted ==
    \A m \in Produced \ {Null}, display \in Displays :
        /\ ParseRequest(m, display) <=> ~Oversized(m)
        /\ m.kind = "mouse-wheel" => WheelNotches(m.deltaX) \in 1..MaxWheelNotches

\* What is produced about one button, or about one key.
OfButton(b) == {m \in Produced \ {Null} : m.kind = "mouse-button" /\ m.button = b}
OfKey(c) == {m \in Produced \ {Null} : m.kind = "keyboard" /\ m.code = c}

AllOrNone(adapter, messages, display) ==
    \/ \A m \in messages : Takes(adapter, m, display)
    \/ \A m \in messages : ~Takes(adapter, m, display)

\* Client and host agree on the protocol.  A host with xdotool takes whatever
\* the listeners produce, but for oversized wheels; one with cliclick at least
\* moves, the left button, modifiers and the keys it can press.  No host takes
\* half of a gesture: of one button or key it takes presses and releases alike,
\* wherever they happen and however long their labels are, or none of them.
HostTakes(adapter) ==
    \A display \in Displays :
        /\ \A m \in Produced \ {Null} :
              \/ Takes(adapter, m, display)
              \/ Oversized(m)
              \/ /\ adapter = "cliclick"
                 /\ \/ m.kind = "mouse-wheel"
                    \/ m.kind = "mouse-button" /\ m.button # "left"
                    \/ m.kind = "keyboard" /\ m.code = "letter"
        /\ \A b \in {"left", "middle", "right"} : AllOrNone(adapter, OfButton(b), display)
        /\ \A c \in Whitelisted : AllOrNone(adapter, OfKey(c), display)

\* The adapters of which that is true; a constant, which TLC evaluates once.
AdaptersThatTake == {adapter \in {"xdotool", "cliclick"} : HostTakes(adapter)}
=============================================================================
