---------------------------- MODULE MCRemoteInput ----------------------------
(***************************************************************************)
(* Instance of RemoteInput for TLC: a key that xdotool holds and cliclick  *)
(* refuses, and two points; with it the arithmetic of the messages, over   *)
(* windows, videos and displays of a few sizes.                            *)
(***************************************************************************)
EXTENDS RemoteInput, InputMessages

CONSTANTS k1, p1, p2

MCCodes == {k1}
MCPoints == {p1, p2}
MCModifiers == {}

\* Windows, videos and displays wider, taller and as wide as tall, and of no
\* size at all; the limits are scaled down, with values on both sides.
MCLengths == {0, 2, 3, 6}
MCOffsets == 0..6
MCDeltas == {-3, 0, 1, 5}
MCKeyLengths == {0, 1, 3, 4}

Around == {pointer, pendingMove, cursor} \cup aimless \cup {Ahead[i].what : i \in DOMAIN Ahead}

\* Nothing tells the points apart: whenever neither of them is around, the
\* next one is p1.
PointsInOrder == p1 \in Around \/ p2 \in Around \/ p2 \notin Around'

\* While a display of a known size is shared, what is under the client's
\* pointer is what its messages hit (normalizePoint, denormalizePoint).
SharedScreenIsHit == share = "sized" => HitsWhatIsShown

\* While it is, neither parser turns down what the client's listeners produce,
\* except oversized wheels, and this host's adapter refuses only what its tool
\* has no command for, and never half of a gesture.
SharedScreenTakesInput ==
    share = "sized" => ProducedIsAccepted /\ tool \in AdaptersThatTake
=============================================================================
