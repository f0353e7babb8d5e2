------------------------- MODULE ClipboardSyncProofs -------------------------
(***************************************************************************)
(* What holds of clipboard sync for any texts and any number of copies,    *)
(* switches and requests in flight, overlapping reads and frames included: *)
(* TLC checks the liveness of it without the overlaps.                     *)
(***************************************************************************)
EXTENDS ClipboardSync, TLAPS

\* A peer has another one.
LEMMA OtherPeer == \A p \in Peers : Other(p) \in Peers
BY PeersAssumption DEF Other

\* A request that joins the queue of a peer leaves it well-typed.
LEMMA AskTyped ==
    ASSUME TypeOK, NEW p \in Peers,
           NEW op \in {"seed", "poll", "write"}, NEW text \in Clip \cup {NoText},
           ipc' = [ipc EXCEPT ![p] = Append(@, Ask(op, text))]
    PROVE  ipc' \in [Peers -> Seq(IpcRequest)]
<1>1. Ask(op, text) \in IpcRequest
  BY DEF Ask, IpcRequest
<1>2. ipc[p] \in Seq(IpcRequest)
  BY DEF TypeOK
<1>3. Append(ipc[p], Ask(op, text)) \in Seq(IpcRequest)
  BY <1>1, <1>2
<1>. QED
  BY <1>3 DEF TypeOK

\* The request an answer is for, and the queue without it.
LEMMA AnsweredTyped ==
    ASSUME TypeOK, NEW p \in Peers, NEW op, Answered(p, op)
    PROVE  /\ Head(ipc[p]) \in IpcRequest
           /\ ipc' \in [Peers -> Seq(IpcRequest)]
<1>1. ipc[p] \in Seq(IpcRequest) /\ ipc[p] # <<>>
  BY DEF TypeOK, Answered
<1>2. Head(ipc[p]) \in IpcRequest /\ Tail(ipc[p]) \in Seq(IpcRequest)
  BY <1>1
<1>. QED
  BY <1>2 DEF TypeOK, Answered


\* Main is asked to write what the channel delivered, never the null baseline.
WritesCarryText ==
    \A p \in Peers : \A i \in DOMAIN ipc[p] :
        ipc[p][i].op = "write" => ipc[p][i].text \in Texts

\* The inductive invariant.
IInv == TypeOK /\ WritesCarryText

\* A request that joins the queue keeps the second conjunct, if it is no write
\* or its text came over the channel.
LEMMA AskCarries ==
    ASSUME IInv, NEW p \in Peers,
           NEW op \in {"seed", "poll", "write"}, NEW text \in Clip \cup {NoText},
           op = "write" => text \in Texts,
           ipc' = [ipc EXCEPT ![p] = Append(@, Ask(op, text))]
    PROVE  WritesCarryText'
<1>1. ASSUME NEW q \in Peers, NEW i \in DOMAIN ipc'[q], ipc'[q][i].op = "write"
      PROVE  ipc'[q][i].text \in Texts
  <2>1. ipc[q] \in Seq(IpcRequest)
    BY DEF IInv, TypeOK
  <2>2. CASE q = p /\ i = Len(ipc[p]) + 1
    <3>1. ipc'[q] = Append(ipc[p], Ask(op, text))
      BY <2>2 DEF IInv, TypeOK
    <3>2. ipc'[q][i] = Ask(op, text)
      BY <3>1, <2>1, <2>2
    <3>. QED
      BY <3>2, <1>1 DEF Ask
  <2>3. CASE ~(q = p /\ i = Len(ipc[p]) + 1)
    <3>1. i \in DOMAIN ipc[q] /\ ipc'[q][i] = ipc[q][i]
      <4>1. CASE q = p
        <5>1. ipc'[q] = Append(ipc[q], Ask(op, text))
          BY <4>1 DEF IInv, TypeOK
        <5>2. i \in 1..(Len(ipc[q]) + 1)
          BY <5>1, <2>1
        <5>. QED
          BY <5>1, <5>2, <2>1, <2>3, <4>1
      <4>2. CASE q # p
        BY <4>2 DEF IInv, TypeOK
      <4>. QED
        BY <4>1, <4>2
    <3>. QED
      BY <3>1, <1>1 DEF IInv, WritesCarryText
  <2>. QED
    BY <2>2, <2>3
<1>. QED
  BY <1>1 DEF WritesCarryText

\* An answer takes the first request away and keeps it too.
LEMMA AnsweredCarries ==
    ASSUME IInv, NEW p \in Peers, NEW op, Answered(p, op)
    PROVE  WritesCarryText'
<1>1. ASSUME NEW q \in Peers, NEW i \in DOMAIN ipc'[q], ipc'[q][i].op = "write"
      PROVE  ipc'[q][i].text \in Texts
  <2>1. ipc[q] \in Seq(IpcRequest)
    BY DEF IInv, TypeOK
  <2>2. CASE q = p
    <3>1. ipc'[q] = Tail(ipc[q]) /\ ipc[q] # <<>>
      BY <2>2 DEF IInv, TypeOK, Answered
    <3>2. i + 1 \in DOMAIN ipc[q] /\ ipc'[q][i] = ipc[q][i + 1]
      BY <3>1, <2>1
    <3>. QED
      BY <3>2, <1>1 DEF IInv, WritesCarryText
  <2>3. CASE q # p
    BY <2>3, <1>1 DEF IInv, TypeOK, Answered, WritesCarryText
  <2>. QED
    BY <2>2, <2>3
<1>. QED
  BY <1>1 DEF WritesCarryText

\* The request main serves.
LEMMA ServesTyped ==
    ASSUME IInv, NEW p \in Peers, MainServes(p)
    PROVE  /\ ipc' \in [Peers -> Seq(IpcRequest)]
           /\ os' \in [Peers -> Clip]
           /\ WritesCarryText'
<1>. DEFINE Served(i) == IF ipc[p][i].op = "write"
                         THEN [ipc[p][i] EXCEPT !.served = TRUE]
                         ELSE [ipc[p][i] EXCEPT !.served = TRUE, !.text = os[p]]
<1>1. PICK i \in DOMAIN ipc[p] :
        /\ os' = IF ipc[p][i].op = "write" THEN [os EXCEPT ![p] = ipc[p][i].text] ELSE os
        /\ ipc' = [ipc EXCEPT ![p] = [ipc[p] EXCEPT ![i] = Served(i)]]
  BY Zenon DEF MainServes, IInv, TypeOK
<1>2. ipc[p] \in Seq(IpcRequest) /\ ipc[p][i] \in IpcRequest /\ os[p] \in Clip
  BY DEF IInv, TypeOK
<1>3. Served(i) \in IpcRequest /\ Served(i).op = ipc[p][i].op
      /\ (Served(i).op = "write" => Served(i).text = ipc[p][i].text)
  BY <1>2 DEF IpcRequest
<1>. HIDE DEF Served
<1>4. [ipc[p] EXCEPT ![i] = Served(i)] \in Seq(IpcRequest)
  BY <1>2, <1>3
<1>5. ipc' \in [Peers -> Seq(IpcRequest)]
  BY <1>1, <1>4 DEF IInv, TypeOK
<1>6. os' \in [Peers -> Clip]
  BY <1>1 DEF IInv, TypeOK, WritesCarryText, Clip
<1>7. WritesCarryText'
  <2>1. ASSUME NEW q \in Peers, NEW j \in DOMAIN ipc'[q], ipc'[q][j].op = "write"
        PROVE  ipc'[q][j].text \in Texts
    <3>1. j \in DOMAIN ipc[q] /\ ipc'[q][j].op = ipc[q][j].op
          /\ ipc'[q][j].text = (IF q = p /\ j = i THEN Served(i).text ELSE ipc[q][j].text)
      BY <1>1, <1>2, <1>3 DEF IInv, TypeOK
    <3>. QED
      BY <3>1, <2>1, <1>3 DEF IInv, WritesCarryText
  <2>. QED
    BY <2>1 DEF WritesCarryText
<1>. QED
  BY <1>5, <1>6, <1>7

-----------------------------------------------------------------------------
LEMMA InitIInv == Init => IInv
<1>. SUFFICES ASSUME Init PROVE IInv
  OBVIOUS
<1>1. /\ os \in [Peers -> Clip] /\ setting \in [Peers -> BOOLEAN] /\ open \in BOOLEAN
      /\ connected \in [Peers -> BOOLEAN] /\ timer \in [Peers -> BOOLEAN]
  BY Zenon DEF Init
<1>2. /\ baseline \in [Peers -> Clip \cup {NoText}] /\ ipc \in [Peers -> Seq(IpcRequest)]
      /\ chan \in [Peers -> Seq(Texts)] /\ copies \in 0..MaxCopies /\ switches \in 0..MaxSwitches
      /\ applied \in [Peers -> Texts \cup {NoText}]
  BY BoundsAssumption DEF Init
<1>. overlapped \in BOOLEAN
  BY DEF Init
<1>3. WritesCarryText
  BY DEF Init, WritesCarryText
<1>. QED
  BY <1>1, <1>2, <1>3 DEF IInv, TypeOK

\* One step of the model per case.
LEMMA NextIInv == IInv /\ [Next]_vars => IInv'
<1>. SUFFICES ASSUME IInv, [Next]_vars PROVE IInv'
  OBVIOUS
<1>. USE BoundsAssumption
<1>1. ASSUME NEW p \in Peers, NEW text \in Clip, UserCopies(p, text) PROVE IInv'
  BY <1>1 DEF UserCopies, IInv, TypeOK, WritesCarryText
<1>2. ASSUME NEW p \in Peers, UserToggles(p) PROVE IInv'
  BY <1>2 DEF UserToggles, IInv, TypeOK, WritesCarryText, history
<1>3. ASSUME NEW p \in Peers, SessionEnds(p) PROVE IInv'
  <2>1. chan' = [q \in Peers |-> <<>>] /\ <<>> \in Seq(Texts)
    BY <1>3 DEF SessionEnds
  <2>2. chan' \in [Peers -> Seq(Texts)]
    BY <2>1
  <2>3. WritesCarryText'
    BY <1>3 DEF SessionEnds, IInv, WritesCarryText
  <2>. QED
    <3>1. switches' \in 0..MaxSwitches
      BY <1>3 DEF SessionEnds, IInv, TypeOK
    <3>2. open' \in BOOLEAN /\ connected' \in [Peers -> BOOLEAN]
      BY <1>3, Zenon DEF SessionEnds, IInv, TypeOK
    <3>. QED
      BY <1>3, <2>2, <2>3, <3>1, <3>2 DEF SessionEnds, IInv, TypeOK, history
<1>4. ASSUME NEW p \in Peers, PeerNoticesEnd(p) PROVE IInv'
  BY <1>4 DEF PeerNoticesEnd, IInv, TypeOK, WritesCarryText, budgets, history
<1>5. ASSUME SessionStarts PROVE IInv'
  BY <1>5 DEF SessionStarts, IInv, TypeOK, WritesCarryText, history
<1>6. ASSUME NEW p \in Peers, MainServes(p) PROVE IInv'
  <2>1. ipc' \in [Peers -> Seq(IpcRequest)] /\ os' \in [Peers -> Clip] /\ WritesCarryText'
    BY <1>6, ServesTyped
  <2>. QED
    BY <1>6, <2>1 DEF MainServes, IInv, TypeOK, budgets, history
<1>7. ASSUME NEW p \in Peers, EffectStarts(p) PROVE IInv'
  <2>1. ipc' \in [Peers -> Seq(IpcRequest)] /\ WritesCarryText'
    BY <1>7, AskTyped, AskCarries DEF EffectStarts, IInv
  <2>. QED
    BY <1>7, <2>1 DEF EffectStarts, IInv, TypeOK, budgets, history
<1>8. ASSUME NEW p \in Peers, EffectStops(p) PROVE IInv'
  BY <1>8 DEF EffectStops, IInv, TypeOK, WritesCarryText, budgets, history
<1>9. ASSUME NEW p \in Peers, PollOnce(p) PROVE IInv'
  <2>1. ipc' \in [Peers -> Seq(IpcRequest)] /\ WritesCarryText'
    BY <1>9, AskTyped, AskCarries DEF PollOnce, IInv
  <2>. QED
    BY <1>9, <2>1 DEF PollOnce, IInv, TypeOK, budgets, history
<1>10. ASSUME NEW p \in Peers, NEW op, Answered(p, op),
              baseline' = baseline \/ baseline' = [baseline EXCEPT ![p] = Head(ipc[p]).text],
              chan' \in [Peers -> Seq(Texts)]
       PROVE  IInv'
  <2>1. ipc' \in [Peers -> Seq(IpcRequest)] /\ WritesCarryText'
    BY <1>10, AnsweredTyped, AnsweredCarries DEF IInv
  <2>2. Head(ipc[p]).text \in Clip \cup {NoText}
    BY <1>10, AnsweredTyped DEF IpcRequest, IInv
  <2>3. baseline' \in [Peers -> Clip \cup {NoText}]
    BY <1>10, <2>2 DEF IInv, TypeOK
  <2>. QED
    BY <1>10, <2>1, <2>3 DEF Answered, IInv, TypeOK, budgets, history
<1>11. ASSUME NEW p \in Peers, SeedAnswered(p) PROVE IInv'
  BY <1>10, <1>11 DEF SeedAnswered, IInv, TypeOK
<1>12. ASSUME NEW p \in Peers, PollAnswered(p) PROVE IInv'
  <2>1. chan[Other(p)] \in Seq(Texts)
    BY OtherPeer DEF IInv, TypeOK
  <2>2. Head(ipc[p]).text \in Texts => Append(chan[Other(p)], Head(ipc[p]).text) \in Seq(Texts)
    BY <2>1
  <2>3. chan' \in [Peers -> Seq(Texts)]
    BY <1>12, <2>2 DEF PollAnswered, Sendable, IInv, TypeOK
  <2>. QED
    BY <1>10, <1>12, <2>3 DEF PollAnswered
<1>13. ASSUME NEW p \in Peers, WriteAnswered(p) PROVE IInv'
  BY <1>10, <1>13 DEF WriteAnswered, IInv, TypeOK
<1>14. ASSUME NEW p \in Peers, HandleRemoteMessage(p) PROVE IInv'
  <2>1. chan[p] \in Seq(Texts) /\ chan[p] # <<>>
    BY <1>14 DEF HandleRemoteMessage, IInv, TypeOK
  <2>2. Head(chan[p]) \in Texts /\ Tail(chan[p]) \in Seq(Texts)
    BY <2>1
  <2>3. ipc' \in [Peers -> Seq(IpcRequest)] /\ WritesCarryText'
    <3>1. CASE ipc' = ipc
      BY <3>1 DEF IInv, TypeOK, WritesCarryText
    <3>2. CASE ipc' = [ipc EXCEPT ![p] = Append(@, Ask("write", Head(chan[p])))]
      BY <3>2, <2>2, AskTyped, AskCarries DEF IInv, Clip
    <3>. QED
      BY <1>14, <3>1, <3>2 DEF HandleRemoteMessage
  <2>4. baseline' \in [Peers -> Clip \cup {NoText}]
    BY <1>14, <2>2 DEF HandleRemoteMessage, IInv, TypeOK, Clip
  <2>5. applied' \in [Peers -> Texts \cup {NoText}] /\ overlapped' \in BOOLEAN
    <3>1. applied' = applied \/ applied' = [applied EXCEPT ![p] = Head(chan[p])]
      BY <1>14 DEF HandleRemoteMessage, Recorded
    <3>2. PICK applies \in BOOLEAN : overlapped' = (overlapped \/ (applies /\ ReadInFlight(p)))
      BY <1>14, Zenon DEF HandleRemoteMessage, Recorded
    <3>3. overlapped' \in BOOLEAN
      BY <3>2, Zenon
    <3>. QED
      BY <2>2, <3>1, <3>3 DEF IInv, TypeOK
  <2>. QED
    BY <1>14, <2>2, <2>3, <2>4, <2>5 DEF HandleRemoteMessage, IInv, TypeOK, budgets
<1>15. CASE UNCHANGED vars
  BY <1>15 DEF vars, budgets, history, IInv, TypeOK, WritesCarryText
<1>. QED
  BY <1>1, <1>2, <1>3, <1>4, <1>5, <1>6, <1>7, <1>8, <1>9, <1>11, <1>12, <1>13, <1>14, <1>15
     DEF Next, Service

\* Types are kept for every number of texts, copies, switches and requests: no
\* unsendable text is on the channel and main writes nothing but texts.
THEOREM ClipboardTypeCorrect == Spec => [](TypeOK /\ WritesCarryText)
<1>1. Spec => []IInv
  BY InitIInv, NextIInv, PTL DEF Spec
<1>. QED
  BY <1>1, PTL DEF IInv

\* Nothing is asked of main but by a running service (start, stop and the
\* `timer` test of handleRemoteMessage), whatever overlaps.
THEOREM AsksGuarded == Spec => AsksOnlyWhileRunning
<1>1. ASSUME IInv, [Next]_vars
      PROVE  [\A p \in Peers : Len(ipc'[p]) > Len(ipc[p]) => timer'[p]]_vars
  <2>. SUFFICES ASSUME NEW q \in Peers, Len(ipc'[q]) > Len(ipc[q]), Next PROVE timer'[q]
    BY <1>1 DEF vars
  <2>. ipc[q] \in Seq(IpcRequest) /\ timer \in [Peers -> BOOLEAN] /\ ipc \in [Peers -> Seq(IpcRequest)]
    BY <1>1 DEF IInv, TypeOK
  <2>1. ASSUME NEW p \in Peers, EffectStarts(p) PROVE timer'[q]
    BY <2>1 DEF EffectStarts
  <2>2. ASSUME NEW p \in Peers, PollOnce(p) PROVE timer'[q]
    BY <2>2 DEF PollOnce
  <2>3. ASSUME NEW p \in Peers, HandleRemoteMessage(p) PROVE timer'[q]
    BY <2>3 DEF HandleRemoteMessage
  <2>4. ASSUME NEW p \in Peers, NEW op, Answered(p, op) PROVE FALSE
    BY <2>4 DEF Answered
  <2>5. ASSUME NEW p \in Peers, MainServes(p) PROVE FALSE
    <3>1. PICK i \in DOMAIN ipc[p] :
             \E served : ipc' = [ipc EXCEPT ![p] = [ipc[p] EXCEPT ![i] = served]]
      BY <2>5, Zenon DEF MainServes
    <3>2. PICK served : ipc' = [ipc EXCEPT ![p] = [ipc[p] EXCEPT ![i] = served]]
      BY <3>1
    <3>. QED
      BY <3>2
  <2>6. ASSUME UNCHANGED ipc PROVE FALSE
    BY <2>6
  <2>. QED
    BY <2>1, <2>2, <2>3, <2>4, <2>5, <2>6
       DEF Next, Service, UserCopies, UserToggles, SessionEnds, PeerNoticesEnd, SessionStarts,
           EffectStops, SeedAnswered, PollAnswered, WriteAnswered
<1>2. Spec => []IInv
  BY InitIInv, NextIInv, PTL DEF Spec
<1>. QED
  BY <1>1, <1>2, PTL DEF Spec, AsksOnlyWhileRunning
=============================================================================
