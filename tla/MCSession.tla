------------------------------ MODULE MCSession ------------------------------
(***************************************************************************)
(* Two applications; ann may connect a second time after she lost her      *)
(* connection.                                                             *)
(***************************************************************************)
EXTENDS Session, TLC

CONSTANTS ann, bob, a1, a2, b1, r1, r2, code

MCDevices == {ann, bob}
MCPayloads == (MCDevices \X (1..3)) \cup {code}
MCSockets == {a1, a2, b1}
MCDeviceOf == [s \in MCSockets |-> IF s = b1 THEN bob ELSE ann]

\* Without a reconnect.
SmallSockets == {a1, b1}
SmallDeviceOf == [s \in SmallSockets |-> IF s = b1 THEN bob ELSE ann]

\* Two requests and a hang-up; or any two of: requests, hang-ups, losses and
\* late answers, re-offers, edits of the settings; or any three with a share
\* among them.
FewEvents ==
    LET others == used'.faults + used'.reoffers + used'.settings
        all == used'.requests + used'.hangups + others + used'.shares
    IN  others + used'.shares > 0 => all <= IF used'.shares > 0 THEN 3 ELSE 2

\* An application acts only when the server has read what it emitted before.
\* What it does commutes with that reading, which does not look at it but for
\* the socket it is on.
UplinkFirst ==
    \A d \in Devices :
        app'[d] # app[d] /\ app'[d].socket # NoSocket /\ app[d].socket # NoSocket
            => outbox[app[d].socket] = <<>>

\* A sweep with nothing pending only restarts the countdown: it comes first.
IdleSweepFirst == ~AnyPending /\ sweepIn <= 0 => sweepIn' # sweepIn

\* Socket ids are alike: they are used in order.
SocketsInOrder == a2 \in Sockets /\ conn'[a2] # conn[a2] => conn[a1] # "new"

\* A behaviour with two requests has no loss and no edit (FewEvents), so that a2
\* stays new and the two ends are alike: the second request is ann's.
AnnAsksLast == used'.requests # used.requests /\ used'.requests = 2 => app'[bob] = app[bob]

\* `sent` and `ack` are written by each step of the server and read by none, and
\* nothing tells a failed attempt from one that was ended but what is shown of it.
SessionView ==
    LET Ended(a) == [a EXCEPT !.status = IF @ = "disconnected" THEN "failed" ELSE @]
    IN  <<registryVars, roomVars, conn, joined, sweepIn,
          [d \in Devices |-> Ended(app[d])], outbox, inbox, consented, used>>
=============================================================================
