------------------------ MODULE ConnectionTokenProofs ------------------------
(***************************************************************************)
(* Theorems about the connection code for every lifetime, every number of  *)
(* codes and requests, and any number of calls in flight to main.          *)
(***************************************************************************)
EXTENDS ConnectionToken, TLAPS

-----------------------------------------------------------------------------
(* The type invariant *)

LEMMA RequestTyped ==
    ASSUME NEW op \in Operation, NEW r \in Rooms \cup {0}
    PROVE  Request(op, r) \in Message
BY DEF Request, Message, TokenInfo, None

LEMMA AskTyped ==
    ASSUME requests \in Seq(Message), NEW op \in Operation, NEW r \in Rooms \cup {0},
           Ask(op, r)
    PROVE  requests' \in Seq(Message)
BY RequestTyped DEF Ask

LEMMA AgedTyped ==
    ASSUME NEW info \in TokenInfo
    PROVE  Aged(info) \in TokenInfo
BY TokenAssumption DEF Aged, TokenInfo, None, Codes

\* Withdrawing covers codes that were issued only.
LEMMA WithdrawsTyped ==
    ASSUME TypeOK, NEW op \in Operation, Withdraws(op)
    PROVE  requests' \in Seq(Message) /\ revoked' \subseteq Codes
<1>1. requests' \in Seq(Message)
  BY AskTyped DEF Withdraws, TypeOK
<1>2. revoked' \subseteq Codes
  BY TokenAssumption DEF Withdraws, TypeOK, Codes
<1>3. QED
  BY <1>1, <1>2

LEMMA InitTyped == Init => TypeOK
BY TokenAssumption
DEF Init, TypeOK, TokenInfo, None, Codes, Rooms, Message

LEMMA ServeTyped == TypeOK /\ MainServes => TypeOK'
<1> SUFFICES ASSUME TypeOK, MainServes PROVE TypeOK'
  OBVIOUS
<1> DEFINE request == Head(requests)
           issues == \/ request.op = "regenerate"
                     \/ request.op = "get" /\ ~Alive(current)
           live == IF issues THEN Issue
                   ELSE IF request.op \in {"consume", "clear"} THEN Withdrawn
                   ELSE Kept
           valid == Alive(current) /\ request.op = "validate"
                      /\ presented[request.room] = current.code
<1>1. /\ requests # <<>>
      /\ issues => issued < MaxCodes
      /\ issued' = IF issues THEN issued + 1 ELSE issued
      /\ current' = live
      /\ requests' = Tail(requests)
      /\ replies' = Append(replies, [request EXCEPT !.info = live, !.valid = valid])
      /\ UNCHANGED <<roomsVars, shown, hostVars>>
  BY DEF MainServes
<1> HIDE DEF issues
<1>2. request \in Message /\ requests' \in Seq(Message)
  BY <1>1 DEF TypeOK
<1>3. live \in TokenInfo
  BY <1>1, TokenAssumption DEF TypeOK, TokenInfo, None, Issue, Withdrawn, Kept, Codes
<1>4. valid \in BOOLEAN
  OBVIOUS
<1> HIDE DEF live, valid
<1>5. [request EXCEPT !.info = live, !.valid = valid] \in Message
  BY <1>2, <1>3, <1>4 DEF Message
<1>6. replies' \in Seq(Message)
  BY <1>1, <1>5 DEF TypeOK
<1>7. issued' \in 0..MaxCodes
  BY <1>1, TokenAssumption DEF TypeOK
<1>8. QED
  BY <1>1, <1>2, <1>3, <1>6, <1>7 DEF TypeOK, roomsVars, hostVars

LEMMA TickTyped == TypeOK /\ Tick => TypeOK'
<1> SUFFICES ASSUME TypeOK, Tick PROVE TypeOK'
  OBVIOUS
<1>1. current' \in TokenInfo /\ shown' \in TokenInfo
  BY AgedTyped DEF TypeOK, Tick
<1>2. ASSUME NEW i \in DOMAIN replies
      PROVE  [replies[i] EXCEPT !.info = Aged(@)] \in Message
  <2>1. replies[i] \in Message
    BY DEF TypeOK
  <2>2. Aged(replies[i].info) \in TokenInfo
    BY <2>1, AgedTyped DEF Message
  <2>3. QED
    BY <2>1, <2>2 DEF Message
<1>3. replies' \in Seq(Message)
  <2>1. DOMAIN replies = 1..Len(replies) /\ Len(replies) \in Nat
    BY DEF TypeOK
  <2>2. replies' \in [1..Len(replies) -> Message]
    BY <1>2, <2>1 DEF Tick
  <2>3. QED
    BY <2>1, <2>2
<1>4. QED
  BY <1>1, <1>3 DEF TypeOK, Tick, roomsVars, hostVars

LEMMA CardTyped ==
    TypeOK /\ (Ensure \/ Regenerate \/ Revoke \/ CodeAnswered \/ ClearAnswered
                 \/ CountdownEnds) => TypeOK'
<1> USE DEF roomsVars, hostVars
<1>1. ASSUME TypeOK, Ensure PROVE TypeOK'
  <2>1. requests' \in Seq(Message)
    BY <1>1, AskTyped DEF Ensure, TypeOK, Operation
  <2>2. QED
    BY <1>1, <2>1 DEF TypeOK, Ensure
<1>2. ASSUME TypeOK, Regenerate PROVE TypeOK'
  <2>1. requests' \in Seq(Message) /\ revoked' \subseteq Codes
    BY <1>2, WithdrawsTyped DEF Regenerate, Operation
  <2>2. QED
    BY <1>2, <2>1 DEF TypeOK, Regenerate
<1>3. ASSUME TypeOK, Revoke PROVE TypeOK'
  <2>1. requests' \in Seq(Message) /\ revoked' \subseteq Codes
    BY <1>3, WithdrawsTyped DEF Revoke, Operation
  <2>2. QED
    BY <1>3, <2>1 DEF TypeOK, Revoke, TokenInfo
<1>4. ASSUME TypeOK, CodeAnswered PROVE TypeOK'
  <2>1. Head(replies) \in Message /\ Tail(replies) \in Seq(Message)
    BY <1>4 DEF CodeAnswered, TypeOK
  <2>2. QED
    BY <1>4, <2>1 DEF TypeOK, CodeAnswered, Message
<1>5. ASSUME TypeOK, ClearAnswered PROVE TypeOK'
  BY <1>5 DEF TypeOK, ClearAnswered
<1>6. ASSUME TypeOK, CountdownEnds PROVE TypeOK'
  BY <1>6 DEF TypeOK, CountdownEnds, TokenInfo
<1>7. QED
  BY <1>1, <1>2, <1>3, <1>4, <1>5, <1>6

LEMMA RequestsTyped ==
    TypeOK /\ ((\E code \in Codes \cup {0} : RequestArrives(code)) \/ RequesterGivesUp
                 \/ ValidateAnswered \/ ConsumeAnswered \/ UserRejects) => TypeOK'
<1> USE DEF hostVars, tokenVars
<1>1. ASSUME TypeOK, NEW code \in Codes \cup {0}, RequestArrives(code) PROVE TypeOK'
  <2>1. roomCount + 1 \in Rooms /\ roomCount' \in 0..MaxRooms
    BY <1>1, TokenAssumption DEF RequestArrives, TypeOK, Rooms
  <2>2. requests' \in Seq(Message)
    BY <1>1, <2>1, AskTyped DEF RequestArrives, TypeOK, Operation
  <2>3. QED
    BY <1>1, <2>1, <2>2 DEF TypeOK, RequestArrives, Room
<1>2. ASSUME TypeOK, RequesterGivesUp PROVE TypeOK'
  BY <1>2 DEF TypeOK, RequesterGivesUp
<1>3. ASSUME TypeOK, ValidateAnswered PROVE TypeOK'
  <2>1. Head(replies) \in Message /\ Tail(replies) \in Seq(Message)
    BY <1>3 DEF ValidateAnswered, TypeOK
  <2>2. QED
    BY <1>3, <2>1 DEF TypeOK, ValidateAnswered, Message
<1>4. ASSUME TypeOK, ConsumeAnswered PROVE TypeOK'
  BY <1>4 DEF TypeOK, ConsumeAnswered, roomsVars, TokenInfo
<1>5. ASSUME TypeOK, UserRejects PROVE TypeOK'
  BY <1>5 DEF TypeOK, UserRejects
<1>6. QED
  BY <1>1, <1>2, <1>3, <1>4, <1>5

LEMMA AcceptanceTyped ==
    TypeOK /\ (UserAccepts \/ ServerAccepts \/ AcceptAnswered \/ AcceptRefused
                 \/ AcceptTimesOut \/ Teardown) => TypeOK'
<1> USE DEF hostVars, tokenVars, roomsVars, Acceptance, NotAccepting
<1>1. ASSUME TypeOK, UserAccepts PROVE TypeOK'
  BY <1>1 DEF TypeOK, UserAccepts
<1>2. ASSUME TypeOK, ServerAccepts PROVE TypeOK'
  <2>1. accepting.id \in Rooms
    BY <1>2 DEF TypeOK, ServerAccepts
  <2>2. QED
    BY <1>2, <2>1 DEF TypeOK, ServerAccepts, Acceptable, Room, NoRoomNow
<1>3. ASSUME TypeOK, AcceptAnswered PROVE TypeOK'
  <2>1. requests' \in Seq(Message) /\ revoked' \subseteq Codes
    BY <1>3, WithdrawsTyped DEF AcceptAnswered, Operation
  <2>2. QED
    BY <1>3, <2>1 DEF TypeOK, AcceptAnswered
<1>4. ASSUME TypeOK, AcceptRefused PROVE TypeOK'
  BY <1>4 DEF TypeOK, AcceptRefused
<1>5. ASSUME TypeOK, AcceptTimesOut PROVE TypeOK'
  BY <1>5 DEF TypeOK, AcceptTimesOut
<1>6. ASSUME TypeOK, Teardown PROVE TypeOK'
  <2>1. requests' \in Seq(Message) /\ revoked' \subseteq Codes
    BY <1>6, WithdrawsTyped DEF Teardown, Operation
  <2>2. QED
    BY <1>6, <2>1 DEF TypeOK, Teardown, TokenInfo
<1>7. QED
  BY <1>1, <1>2, <1>3, <1>4, <1>5, <1>6

\* The code, its copies and every call about it keep their types.
THEOREM TokenTypeCorrect == Spec => []TypeOK
<1>1. TypeOK /\ UNCHANGED vars => TypeOK'
  BY DEF TypeOK, vars, tokenVars, roomsVars, hostVars
<1>2. TypeOK /\ Next => TypeOK'
  BY ServeTyped, TickTyped, CardTyped, RequestsTyped, AcceptanceTyped DEF Next
<1>3. QED
  BY InitTyped, <1>1, <1>2, PTL DEF Spec

-----------------------------------------------------------------------------
(* A withdrawn code admits nobody *)

Withdrawing == {"regenerate", "consume", "clear"}

\* A withdrawal waits ahead of place k of a queue.
WithdrawnBefore(queue, k) ==
    \E i \in DOMAIN queue : i < k /\ queue[i].op \in Withdrawing

\* The request of room r presented a code that nobody had withdrawn by then.
Good(r) ==
    /\ r \in 1..roomCount
    /\ presented[r] # 0
    /\ presented[r] \notin deadThen[r]

\* Codes are withdrawn, and rooms asked about, only after they exist.
OnlyIssued ==
    /\ revoked \subseteq 1..issued
    /\ current.code \in 0..issued
    /\ \A r \in Rooms : deadThen[r] \subseteq revoked
    /\ \A i \in DOMAIN requests :
          requests[i].op = "validate" => requests[i].room \in 1..roomCount

\* While main holds a code whose withdrawal was asked for, the call that asks
\* for it is in the queue, and ahead of every validation that came later.
WithdrawalUnderWay ==
    /\ current.code \in revoked => WithdrawnBefore(requests, Len(requests) + 1)
    /\ \A j \in DOMAIN requests :
          /\ requests[j].op = "validate"
          /\ current.code \in deadThen[requests[j].room]
          => WithdrawnBefore(requests, j)

\* Whatever has passed validation is good.
PassedIsGood ==
    /\ \A i \in DOMAIN replies : replies[i].valid => Good(replies[i].room)
    /\ dialog # 0 => Good(dialog)
    /\ accepting # NotAccepting => Good(accepting.id)
    /\ \A r \in sessions : Good(r)

\* The inductive invariant of the code.
TokenInv == OnlyIssued /\ WithdrawalUnderWay /\ PassedIsGood

LEMMA InitToken == Init => TokenInv
BY DEF Init, TokenInv, OnlyIssued, WithdrawalUnderWay, PassedIsGood, WithdrawnBefore, None

\* Steps that neither call main nor are served by it.
LEMMA QuietQueue ==
    ASSUME TypeOK, TokenInv, current'.code = current.code,
           UNCHANGED <<issued, requests, roomCount, deadThen, revoked>>
    PROVE  OnlyIssued' /\ WithdrawalUnderWay'
BY DEF TokenInv, OnlyIssued, WithdrawalUnderWay, WithdrawnBefore

\* Calls other than validations.
LEMMA CallQueued ==
    ASSUME TypeOK, TokenInv, NEW op \in Operation \ {"validate"}, Ask(op, 0),
           UNCHANGED <<issued, current, roomCount, deadThen>>,
           \/ UNCHANGED revoked
           \/ op \in Withdrawing /\ revoked' = revoked \cup 1..issued
    PROVE  OnlyIssued' /\ WithdrawalUnderWay'
<1>1. /\ Len(requests) \in Nat
      /\ Len(requests') = Len(requests) + 1
      /\ DOMAIN requests' = 1..Len(requests) + 1
      /\ DOMAIN requests = 1..Len(requests)
      /\ \A i \in DOMAIN requests : requests'[i] = requests[i]
      /\ requests'[Len(requests) + 1] = Request(op, 0)
  BY DEF TypeOK, Ask
<1>2. requests'[Len(requests) + 1].op = op
  BY <1>1 DEF Request
<1>3. OnlyIssued'
  <2>1. revoked' \subseteq 1..issued' /\ revoked \subseteq revoked'
    BY DEF TokenInv, OnlyIssued
  <2>2. \A i \in DOMAIN requests' :
           requests'[i].op = "validate" => requests'[i].room \in 1..roomCount'
    BY <1>1, <1>2 DEF TokenInv, OnlyIssued
  <2>3. QED
    BY <2>1, <2>2 DEF TokenInv, OnlyIssued
<1>4. ASSUME NEW k \in Nat, WithdrawnBefore(requests, k) PROVE WithdrawnBefore(requests', k)
  BY <1>1, <1>4 DEF WithdrawnBefore
<1>5. current'.code \in revoked' => WithdrawnBefore(requests', Len(requests) + 2)
  <2>1. CASE op \in Withdrawing
    BY <2>1, <1>1, <1>2 DEF WithdrawnBefore
  <2>2. CASE UNCHANGED revoked
    <3>1. WithdrawnBefore(requests, Len(requests) + 1) => WithdrawnBefore(requests', Len(requests) + 2)
      BY <1>1 DEF WithdrawnBefore
    <3>2. QED
      BY <3>1, <2>2 DEF TokenInv, WithdrawalUnderWay
  <2>3. QED
    BY <2>1, <2>2
<1>6. ASSUME NEW j \in DOMAIN requests', requests'[j].op = "validate",
             current'.code \in deadThen'[requests'[j].room]
      PROVE  WithdrawnBefore(requests', j)
  <2>1. j \in DOMAIN requests /\ j \in Nat
    BY <1>1, <1>2, <1>6
  <2>2. WithdrawnBefore(requests, j)
    BY <2>1, <1>1, <1>6 DEF TokenInv, WithdrawalUnderWay
  <2>3. QED
    BY <2>1, <2>2, <1>4
<1>7. Len(requests') + 1 = Len(requests) + 2
  BY <1>1
<1>8. WithdrawalUnderWay'
  BY <1>5, <1>6, <1>7 DEF WithdrawalUnderWay
<1>9. QED
  BY <1>3, <1>8

\* What is left of a queue was in it before.
LEMMA TailIsOld ==
    ASSUME NEW q \in Seq(Message), q # <<>>
    PROVE  /\ \A i \in DOMAIN Tail(q) : \E k \in DOMAIN q : Tail(q)[i] = q[k]
           /\ Head(q) = q[1] /\ 1 \in DOMAIN q
<1>1. ASSUME NEW i \in DOMAIN Tail(q)
      PROVE  i + 1 \in DOMAIN q /\ Tail(q)[i] = q[i + 1]
  OBVIOUS
<1>2. Head(q) = q[1] /\ 1 \in DOMAIN q
  OBVIOUS
<1>3. QED
  BY <1>1, <1>2

LEMMA ServeKeeps == TypeOK /\ TokenInv /\ MainServes => TokenInv'
<1> SUFFICES ASSUME TypeOK, TokenInv, MainServes PROVE TokenInv'
  OBVIOUS
<1> DEFINE request == Head(requests)
           n == Len(requests)
<1>1. /\ requests # <<>> /\ n \in Nat \ {0}
      /\ requests' = Tail(requests)
      /\ DOMAIN requests = 1..n /\ DOMAIN requests' = 1..(n - 1)
      /\ Len(requests') = n - 1
      /\ \A i \in 1..(n - 1) : requests'[i] = requests[i + 1]
      /\ request = requests[1] /\ request \in Message
  BY DEF MainServes, TypeOK
<1>2. UNCHANGED <<roomsVars, shown, hostVars>>
  BY DEF MainServes
<1>3. /\ issued' \in Nat /\ issued \in Nat /\ issued <= issued'
      /\ \/ current'.code = issued + 1 /\ issued' = issued + 1
         \/ current'.code = 0
         \/ current' = current /\ request.op \notin Withdrawing
      /\ current'.code \in 0..issued'
  BY <1>1 DEF MainServes, TypeOK, TokenInv, OnlyIssued, Issue, Withdrawn, Kept, None,
              Withdrawing, Message, Operation
<1>4. OnlyIssued'
  <2>1. revoked' \subseteq 1..issued'
    BY <1>2, <1>3 DEF TokenInv, OnlyIssued, hostVars
  <2>2. \A r \in Rooms : deadThen'[r] \subseteq revoked'
    BY <1>2 DEF TokenInv, OnlyIssued, hostVars, roomsVars
  <2>3. \A i \in DOMAIN requests' :
           requests'[i].op = "validate" => requests'[i].room \in 1..roomCount'
    BY <1>1, <1>2 DEF TokenInv, OnlyIssued, roomsVars
  <2>4. QED
    BY <2>1, <2>2, <2>3, <1>3 DEF OnlyIssued
<1>5. ASSUME NEW k \in Nat, request.op \notin Withdrawing, WithdrawnBefore(requests, k + 1)
      PROVE  WithdrawnBefore(requests', k)
  <2>1. PICK i \in DOMAIN requests : i < k + 1 /\ requests[i].op \in Withdrawing
    BY <1>5 DEF WithdrawnBefore
  <2>2. i # 1 /\ i - 1 \in 1..(n - 1) /\ i - 1 < k
    BY <2>1, <1>1, <1>5
  <2>3. requests'[i - 1] = requests[i]
    BY <2>2, <1>1
  <2>4. QED
    BY <2>1, <2>2, <2>3, <1>1 DEF WithdrawnBefore
<1>6. WithdrawalUnderWay'
  <2>1. CASE current' = current /\ request.op \notin Withdrawing
    <3>1. current'.code \in revoked' => WithdrawnBefore(requests', Len(requests') + 1)
      BY <2>1, <1>1, <1>2, <1>5 DEF TokenInv, WithdrawalUnderWay, hostVars
    <3>2. ASSUME NEW j \in DOMAIN requests', requests'[j].op = "validate",
                 current'.code \in deadThen'[requests'[j].room]
          PROVE  WithdrawnBefore(requests', j)
      <4>1. j \in Nat /\ j + 1 \in DOMAIN requests /\ requests'[j] = requests[j + 1]
        BY <1>1
      <4>2. WithdrawnBefore(requests, j + 1)
        BY <4>1, <3>2, <2>1, <1>2 DEF TokenInv, WithdrawalUnderWay, roomsVars
      <4>3. QED
        BY <4>1, <4>2, <2>1, <1>5
    <3>3. QED
      BY <3>1, <3>2 DEF WithdrawalUnderWay
  <2>2. CASE current'.code \notin 1..issued
    <3>1. current'.code \notin revoked'
      BY <2>2, <1>2 DEF TokenInv, OnlyIssued, hostVars
    <3>2. \A j \in DOMAIN requests' : requests'[j].op = "validate" =>
             deadThen'[requests'[j].room] \subseteq revoked'
      <4>1. roomCount' \in 0..MaxRooms
        BY <1>2 DEF TypeOK, roomsVars
      <4>2. QED
        BY <4>1, <1>4, TokenAssumption DEF OnlyIssued, Rooms
    <3>3. QED
      BY <3>1, <3>2 DEF WithdrawalUnderWay
  <2>3. QED
    BY <2>1, <2>2, <1>3
<1>7. PassedIsGood'
  <2> DEFINE last == replies'[Len(replies')]
  <2>1. /\ DOMAIN replies' = 1..Len(replies) + 1
        /\ DOMAIN replies = 1..Len(replies) /\ Len(replies) \in Nat
        /\ \A i \in DOMAIN replies : replies'[i] = replies[i]
        /\ Len(replies') = Len(replies) + 1
    BY DEF MainServes, TypeOK
  <2>2. /\ last.room = request.room
        /\ last.valid => /\ current.code # 0 /\ request.op = "validate"
                         /\ presented[request.room] = current.code
    <3> DEFINE valid == Alive(current) /\ request.op = "validate"
                          /\ presented[request.room] = current.code
    <3>1. PICK live : replies' =
                         Append(replies, [request EXCEPT !.info = live, !.valid = valid])
      BY Zenon DEF MainServes
    <3> HIDE DEF valid
    <3>2. last = [request EXCEPT !.info = live, !.valid = valid]
      BY <3>1, <2>1
    <3>3. last.room = request.room /\ last.valid = valid
      BY <3>2, <1>1 DEF Message
    <3>4. QED
      BY <3>3 DEF Alive, valid
  <2>3. ASSUME last.valid PROVE Good(request.room)
    <3>1. request.room \in 1..roomCount
      BY <2>2, <2>3, <1>1 DEF TokenInv, OnlyIssued
    <3>2. ~WithdrawnBefore(requests, 1)
      BY <1>1 DEF WithdrawnBefore
    <3>3. current.code \notin deadThen[request.room]
      BY <3>2, <2>2, <2>3, <1>1 DEF TokenInv, WithdrawalUnderWay
    <3>4. QED
      BY <3>1, <3>3, <2>2, <2>3 DEF Good
  <2>4. \A i \in DOMAIN replies' : replies'[i].valid => Good(replies'[i].room)
    BY <2>1, <2>2, <2>3 DEF TokenInv, PassedIsGood
  <2>5. \A r : Good(r) => Good(r)'
    BY <1>2 DEF Good, roomsVars
  <2>6. QED
    BY <2>4, <2>5, <1>2 DEF TokenInv, PassedIsGood, roomsVars, hostVars, NotAccepting
<1>8. QED
  BY <1>4, <1>6, <1>7 DEF TokenInv

LEMMA ArrivalKeeps ==
    ASSUME TypeOK, TokenInv, NEW code \in Codes \cup {0}, RequestArrives(code)
    PROVE  TokenInv'
<1> DEFINE q == roomCount + 1
           n == Len(requests)
<1>1. /\ q \in Rooms /\ roomCount \in Nat /\ roomCount' = q /\ n \in Nat
      /\ n = Len(requests) /\ Len(requests') = n + 1
      /\ DOMAIN requests = 1..n /\ DOMAIN requests' = 1..n + 1
      /\ \A i \in 1..n : requests'[i] = requests[i]
      /\ requests'[n + 1].room = q
  BY TokenAssumption DEF RequestArrives, Ask, Request, TypeOK, Rooms
<1>2. /\ UNCHANGED <<current, issued, shown, replies, sessions, hostVars>>
      /\ deadThen' = [deadThen EXCEPT ![q] = revoked]
      /\ presented' = [presented EXCEPT ![q] = code]
  BY DEF RequestArrives
<1>3. \A r \in 1..roomCount : r \in Rooms /\ r # q
  BY <1>1, TokenAssumption DEF TypeOK, Rooms
<1>4. \A r \in 1..roomCount : deadThen'[r] = deadThen[r] /\ presented'[r] = presented[r]
  BY <1>2, <1>3 DEF TypeOK
<1>5. deadThen'[q] = revoked
  BY <1>1, <1>2 DEF TypeOK
<1>6. OnlyIssued'
  <2>1. \A r \in Rooms : deadThen'[r] \subseteq revoked'
    BY <1>2, <1>5 DEF TypeOK, TokenInv, OnlyIssued, hostVars
  <2>2. \A i \in DOMAIN requests' :
           requests'[i].op = "validate" => requests'[i].room \in 1..roomCount'
    BY <1>1 DEF TokenInv, OnlyIssued
  <2>3. QED
    BY <2>1, <2>2, <1>2 DEF TokenInv, OnlyIssued, hostVars
<1>7. \A k \in 1..n + 1 : WithdrawnBefore(requests, k) => WithdrawnBefore(requests', k)
  BY <1>1 DEF WithdrawnBefore
<1>8. current'.code \in revoked' =>
         WithdrawnBefore(requests, n + 1) /\ WithdrawnBefore(requests', n + 1) /\ WithdrawnBefore(requests', n + 2)
  <2>1. current'.code \in revoked' => WithdrawnBefore(requests, n + 1)
    BY <1>2 DEF TokenInv, WithdrawalUnderWay, hostVars
  <2>2. WithdrawnBefore(requests', n + 1) => WithdrawnBefore(requests', n + 2)
    BY <1>1 DEF WithdrawnBefore
  <2>3. QED
    BY <2>1, <2>2, <1>1, <1>7
<1>9. ASSUME NEW j \in DOMAIN requests', requests'[j].op = "validate",
             current'.code \in deadThen'[requests'[j].room]
      PROVE  WithdrawnBefore(requests', j)
  <2>1. CASE j = n + 1
    BY <2>1, <1>1, <1>2, <1>5, <1>8, <1>9 DEF hostVars
  <2>2. CASE j \in 1..n
    <3>1. requests[j].op = "validate" /\ requests[j].room \in 1..roomCount
      BY <2>2, <1>1, <1>9 DEF TokenInv, OnlyIssued
    <3>2. current.code \in deadThen[requests[j].room]
      BY <3>1, <2>2, <1>1, <1>2, <1>4, <1>9
    <3>3. WithdrawnBefore(requests, j)
      BY <3>1, <3>2, <2>2, <1>1 DEF TokenInv, WithdrawalUnderWay
    <3>4. QED
      BY <3>3, <2>2, <1>1, <1>7
  <2>3. QED
    BY <2>1, <2>2, <1>1
<1>10. WithdrawalUnderWay'
  <2>1. Len(requests') + 1 = n + 2
    BY <1>1
  <2>2. QED
    BY <2>1, <1>8, <1>9 DEF WithdrawalUnderWay
<1>11. PassedIsGood'
  <2>1. \A r : Good(r) => Good(r)'
    BY <1>1, <1>4 DEF Good
  <2>2. QED
    BY <2>1, <1>2 DEF TokenInv, PassedIsGood, hostVars, NotAccepting
<1>12. QED
  BY <1>6, <1>10, <1>11 DEF TokenInv

\* The renderer's own steps and those of the user and the server.
LEMMA CardKeeps ==
    TypeOK /\ TokenInv
      /\ (Ensure \/ Regenerate \/ Revoke \/ CodeAnswered \/ ClearAnswered
            \/ CountdownEnds \/ Tick) => TokenInv'
<1> USE DEF roomsVars, hostVars
<1>1. ASSUME TypeOK, TokenInv, Ensure PROVE TokenInv'
  <2>1. OnlyIssued' /\ WithdrawalUnderWay'
    BY <1>1, CallQueued DEF Ensure, Operation
  <2>2. PassedIsGood'
    BY <1>1 DEF Ensure, TokenInv, PassedIsGood, Good
  <2>3. QED
    BY <2>1, <2>2 DEF TokenInv
<1>2. ASSUME TypeOK, TokenInv, Regenerate \/ Revoke PROVE TokenInv'
  <2>1. OnlyIssued' /\ WithdrawalUnderWay'
    BY <1>2, CallQueued DEF Regenerate, Revoke, Withdraws, Withdrawing, Operation
  <2>2. PassedIsGood'
    BY <1>2 DEF Regenerate, Revoke, TokenInv, PassedIsGood, Good
  <2>3. QED
    BY <2>1, <2>2 DEF TokenInv
<1>3. ASSUME TypeOK, TokenInv, CodeAnswered \/ ClearAnswered \/ CountdownEnds
      PROVE  TokenInv'
  <2>1. OnlyIssued' /\ WithdrawalUnderWay'
    BY <1>3, QuietQueue DEF CodeAnswered, ClearAnswered, CountdownEnds
  <2>2. \A i \in DOMAIN replies' : \E k \in DOMAIN replies : replies'[i] = replies[k]
    <3>1. CASE CodeAnswered \/ ClearAnswered
      <4>1. replies \in Seq(Message) /\ replies # <<>> /\ replies' = Tail(replies)
        BY <3>1, <1>3 DEF CodeAnswered, ClearAnswered, TypeOK
      <4>2. QED
        BY <4>1, TailIsOld
    <3>2. CASE CountdownEnds
      BY <3>2 DEF CountdownEnds
    <3>3. QED
      BY <3>1, <3>2, <1>3
  <2>3. PassedIsGood'
    BY <1>3, <2>2 DEF CodeAnswered, ClearAnswered, CountdownEnds, TokenInv,
                      PassedIsGood, Good
  <2>4. QED
    BY <2>1, <2>3 DEF TokenInv
<1>4. ASSUME TypeOK, TokenInv, Tick PROVE TokenInv'
  <2>1. current'.code = current.code
    BY <1>4 DEF Tick, Aged, TypeOK, TokenInfo, None
  <2>2. OnlyIssued' /\ WithdrawalUnderWay'
    BY <1>4, <2>1, QuietQueue DEF Tick
  <2>3. ASSUME NEW i \in DOMAIN replies'
        PROVE  i \in DOMAIN replies /\ replies'[i].valid = replies[i].valid
                 /\ replies'[i].room = replies[i].room
    <3>1. i \in DOMAIN replies /\ replies'[i] = [replies[i] EXCEPT !.info = Aged(@)]
      BY <1>4, <2>3 DEF Tick
    <3>2. replies[i] \in Message
      BY <1>4, <3>1 DEF TypeOK
    <3>3. QED
      BY <3>1, <3>2 DEF Message
  <2>4. PassedIsGood'
    BY <1>4, <2>3 DEF Tick, TokenInv, PassedIsGood, Good
  <2>5. QED
    BY <2>2, <2>4 DEF TokenInv
<1>5. QED
  BY <1>1, <1>2, <1>3, <1>4

LEMMA AcceptanceKeeps ==
    TypeOK /\ TokenInv
      /\ (RequesterGivesUp \/ ValidateAnswered \/ UserAccepts \/ ServerAccepts
            \/ AcceptAnswered \/ AcceptRefused \/ AcceptTimesOut \/ ConsumeAnswered
            \/ UserRejects \/ Teardown) => TokenInv'
<1> USE DEF roomsVars, hostVars, tokenVars
<1>1. ASSUME TypeOK, TokenInv,
             RequesterGivesUp \/ UserAccepts \/ ServerAccepts \/ AcceptRefused
               \/ AcceptTimesOut \/ UserRejects
      PROVE  TokenInv'
  <2>1. OnlyIssued' /\ WithdrawalUnderWay'
    BY <1>1, QuietQueue DEF RequesterGivesUp, UserAccepts, ServerAccepts, AcceptRefused,
                            AcceptTimesOut, UserRejects
  <2>2. UNCHANGED <<replies, roomCount, presented, deadThen>>
    BY <1>1 DEF RequesterGivesUp, UserAccepts, ServerAccepts, AcceptRefused,
                AcceptTimesOut, UserRejects
  <2>3. dialog' \in {0, dialog}
    BY <1>1 DEF RequesterGivesUp, UserAccepts, ServerAccepts, AcceptRefused,
                AcceptTimesOut, UserRejects
  <2>4. accepting' # NotAccepting =>
           \/ accepting # NotAccepting /\ accepting'.id = accepting.id
           \/ dialog # 0 /\ accepting'.id = dialog
    BY <1>1 DEF RequesterGivesUp, UserAccepts, ServerAccepts, AcceptRefused,
                AcceptTimesOut, UserRejects, TypeOK, Acceptance, NotAccepting
  <2>5. \A r \in sessions' :
           \/ r \in sessions
           \/ accepting # NotAccepting /\ r = accepting.id
    <3>1. CASE ServerAccepts
      <4>1. \/ sessions' = sessions
            \/ Acceptable(accepting.id) /\ sessions' = sessions \cup {room.id}
        BY <3>1 DEF ServerAccepts
      <4>2. Acceptable(accepting.id) => room.id = accepting.id
        BY DEF Acceptable
      <4>3. accepting # NotAccepting
        BY <3>1 DEF ServerAccepts, NotAccepting
      <4>4. QED
        BY <4>1, <4>2, <4>3
    <3>2. CASE ~ServerAccepts
      <4>1. sessions' = sessions
        BY <3>2, <1>1 DEF RequesterGivesUp, UserAccepts, AcceptRefused, AcceptTimesOut,
                          UserRejects
      <4>2. QED
        BY <4>1
    <3>3. QED
      BY <3>1, <3>2
  <2>6. PassedIsGood'
    BY <2>2, <2>3, <2>4, <2>5, <1>1 DEF TokenInv, PassedIsGood, Good
  <2>7. QED
    BY <2>1, <2>6 DEF TokenInv
<1>2. ASSUME TypeOK, TokenInv, AcceptAnswered \/ Teardown PROVE TokenInv'
  <2>1. OnlyIssued' /\ WithdrawalUnderWay'
    BY <1>2, CallQueued DEF AcceptAnswered, Teardown, Withdraws, Withdrawing, Operation
  <2>2. PassedIsGood'
    BY <1>2 DEF AcceptAnswered, Teardown, TokenInv, PassedIsGood, Good
  <2>3. QED
    BY <2>1, <2>2 DEF TokenInv
<1>3. ASSUME TypeOK, TokenInv, ValidateAnswered \/ ConsumeAnswered PROVE TokenInv'
  <2>1. OnlyIssued' /\ WithdrawalUnderWay'
    BY <1>3, QuietQueue DEF ValidateAnswered, ConsumeAnswered
  <2>2. /\ \A i \in DOMAIN replies' : \E k \in DOMAIN replies : replies'[i] = replies[k]
        /\ Head(replies) = replies[1] /\ 1 \in DOMAIN replies
    <3>1. replies \in Seq(Message) /\ replies # <<>> /\ replies' = Tail(replies)
      BY <1>3 DEF ValidateAnswered, ConsumeAnswered, TypeOK
    <3>2. QED
      BY <3>1, TailIsOld
  <2>3. \/ dialog' \in {0, dialog}
        \/ Head(replies).valid /\ dialog' = Head(replies).room
    <3>1. CASE ValidateAnswered
      BY <3>1 DEF ValidateAnswered
    <3>2. CASE ConsumeAnswered
      BY <3>2 DEF ConsumeAnswered
    <3>3. QED
      BY <3>1, <3>2, <1>3
  <2>4. UNCHANGED <<roomCount, presented, deadThen, sessions, accepting>>
    BY <1>3 DEF ValidateAnswered, ConsumeAnswered
  <2>5. PassedIsGood'
    BY <1>3, <2>2, <2>3, <2>4 DEF TokenInv, PassedIsGood, Good
  <2>6. QED
    BY <2>1, <2>5 DEF TokenInv
<1>4. QED
  BY <1>1, <1>2, <1>3

\* The inductive invariant of the code holds in every reachable state.
THEOREM TokenInvariant == Spec => []TokenInv
<1>1. TypeOK /\ TokenInv /\ UNCHANGED vars => TokenInv'
  BY DEF TokenInv, OnlyIssued, WithdrawalUnderWay, PassedIsGood, Good, vars, tokenVars,
         roomsVars, hostVars
<1>2. TypeOK /\ TokenInv /\ Next => TokenInv'
  BY ServeKeeps, ArrivalKeeps, CardKeeps, AcceptanceKeeps DEF Next
<1>3. QED
  BY InitToken, TokenTypeCorrect, <1>1, <1>2, PTL DEF Spec

\* A session is authorized by an issued code that had not been revoked, replaced
\* or used when its request arrived, however the calls to main interleave with
\* requests, verdicts and lost acknowledgements.
THEOREM RevokedCodeNeverAdmitsAlways == Spec => []RevokedCodeNeverAdmits
<1>1. TokenInv => RevokedCodeNeverAdmits
  BY DEF TokenInv, PassedIsGood, Good, RevokedCodeNeverAdmits
<1>2. QED
  BY TokenInvariant, <1>1, PTL

-----------------------------------------------------------------------------
(* A code serves one session *)

\* Whoever was accepted used a code that is withdrawn by now, unless its
\* acceptance timed out or is just being acknowledged; the host then issues no
\* later request a chance before the withdrawal.
Spent(r) ==
    \/ presented[r] \in revoked
    \/ r \in timedOut
    \/ accepting = [id |-> r, stage |-> "ok"]

UseInv ==
    /\ \A r \in Rooms : presented[r] \in 0..issued
    /\ room.status # "none" => room.id = roomCount
    /\ accepting.stage = "late" => accepting.id \in timedOut
    /\ \A r \in sessions : r \in 1..roomCount /\ Spent(r)
    /\ \A r \in sessions, q \in Rooms :
          r < q /\ q <= roomCount => presented[r] \in deadThen[q] \/ r \in timedOut

LEMMA InitUse == Init => UseInv
BY DEF Init, UseInv, NotAccepting, NoRoomNow

\* Steps that change no session, room number or request.
LEMMA QuietUse ==
    ASSUME TypeOK, UseInv, issued' \in Nat, issued <= issued', revoked \subseteq revoked',
           UNCHANGED <<presented, roomCount, deadThen, sessions, timedOut, accepting>>,
           room' = room \/ room' = NoRoomNow
    PROVE  UseInv'
BY DEF TypeOK, UseInv, Spent, NoRoomNow

LEMMA ArrivalUse ==
    ASSUME TypeOK, UseInv, NEW code \in Codes \cup {0}, RequestArrives(code)
    PROVE  UseInv'
<1>. USE DEF hostVars
<1>1. /\ roomCount \in Nat /\ roomCount' = roomCount + 1 /\ roomCount' \in Rooms
      /\ room'.id = roomCount'
      /\ code \in 0..issued
      /\ presented' = [presented EXCEPT ![roomCount'] = code]
      /\ deadThen' = [deadThen EXCEPT ![roomCount'] = revoked]
      /\ accepting.stage # "ok"
      /\ UNCHANGED <<issued, sessions, timedOut, accepting, revoked>>
  BY TokenAssumption DEF RequestArrives, TypeOK, Rooms
<1>2. \A r \in Rooms : presented'[r] \in 0..issued'
  BY <1>1 DEF TypeOK, UseInv
<1>3. \A r \in sessions : r \in Rooms /\ presented'[r] = presented[r]
  BY <1>1 DEF TypeOK, UseInv
<1>4. \A r \in sessions : presented[r] \in revoked \/ r \in timedOut
  BY <1>1 DEF UseInv, Spent
<1>5. \A r \in sessions' : r \in 1..roomCount' /\ Spent(r)'
  BY <1>1, <1>3, <1>4 DEF UseInv, Spent
<1>6. ASSUME NEW r \in sessions', NEW q \in Rooms, r < q, q <= roomCount'
      PROVE  presented'[r] \in deadThen'[q] \/ r \in timedOut'
  <2>1. CASE q = roomCount'
    BY <2>1, <1>1, <1>3, <1>4 DEF TypeOK
  <2>2. CASE q # roomCount'
    <3>1. q <= roomCount /\ deadThen'[q] = deadThen[q]
      BY <2>2, <1>1, <1>6 DEF TypeOK, Rooms
    <3>. QED
      BY <3>1, <1>1, <1>3, <1>6 DEF UseInv
  <2>. QED
    BY <2>1, <2>2
<1>. QED
  BY <1>1, <1>2, <1>5, <1>6 DEF UseInv

\* The server's part in an acceptance: it can only be that of the last request.
LEMMA AcceptUse == ASSUME TypeOK, UseInv, ServerAccepts PROVE UseInv'
<1>. USE DEF tokenVars
<1>. DEFINE a == accepting.id
<1>1. /\ UNCHANGED <<issued, presented, roomCount, deadThen, timedOut, revoked>>
      /\ accepting \in Acceptance
      /\ roomCount \in Nat
  BY DEF ServerAccepts, TypeOK, Acceptance, NotAccepting
<1>2. CASE ~Acceptable(a)
  <2>1. sessions' = sessions /\ room' = room /\ accepting'.stage \in {"refused", "none"}
        /\ accepting.stage # "ok"
    BY <1>1, <1>2 DEF ServerAccepts, Acceptance, NotAccepting
  <2>2. \A r \in sessions : presented[r] \in revoked \/ r \in timedOut
    BY <2>1 DEF UseInv, Spent
  <2>. QED
    BY <1>1, <2>1, <2>2 DEF UseInv, Spent
<1>3. CASE Acceptable(a)
  <2>1. /\ sessions' = sessions \cup {a} /\ room'.id = room.id /\ room.id = a /\ a = roomCount
        /\ accepting.stage \in {"sent", "late"}
        /\ accepting' = IF accepting.stage = "sent" THEN [id |-> a, stage |-> "ok"]
                        ELSE NotAccepting
    BY <1>1, <1>3 DEF ServerAccepts, Acceptable, Acceptance, UseInv, Room, TypeOK
  <2>2. \A r \in sessions : presented[r] \in revoked \/ r \in timedOut
    BY <2>1 DEF UseInv, Spent
  <2>3. a \in 1..roomCount
    BY <1>1, <2>1 DEF Acceptance, Rooms
  <2>4. \A r \in sessions' : r \in 1..roomCount' /\ Spent(r)'
    BY <1>1, <2>1, <2>2, <2>3 DEF UseInv, Spent
  <2>5. \A r \in sessions', q \in Rooms :
           r < q /\ q <= roomCount' => presented'[r] \in deadThen'[q] \/ r \in timedOut'
    BY <1>1, <2>1 DEF UseInv, Rooms
  <2>. QED
    BY <1>1, <2>1, <2>4, <2>5 DEF UseInv, NotAccepting
<1>. QED
  BY <1>2, <1>3

\* The host's part: an acknowledged acceptance withdraws what was ever issued,
\* one that is given up is marked.
LEMMA VerdictUse ==
    ASSUME TypeOK, UseInv, TokenInv,
           UserAccepts \/ AcceptAnswered \/ AcceptRefused \/ AcceptTimesOut
    PROVE  UseInv'
<1>. USE DEF tokenVars, roomsVars
<1>1. UNCHANGED <<issued, room, presented, roomCount, deadThen, sessions>>
      /\ timedOut \subseteq timedOut' /\ revoked \subseteq revoked'
      /\ (accepting'.stage = "late" => accepting'.id \in timedOut')
  BY DEF UserAccepts, AcceptAnswered, AcceptRefused, AcceptTimesOut, Withdraws, NotAccepting,
         TypeOK, Acceptance
<1>2. ASSUME NEW r \in sessions PROVE Spent(r)'
  <2>1. presented[r] \in 1..issued /\ Spent(r)
    <3>1. r \in Rooms /\ presented[r] # 0
      BY DEF TypeOK, TokenInv, PassedIsGood, Good
    <3>. QED
      BY <3>1 DEF UseInv, TypeOK
  <2>2. CASE accepting = [id |-> r, stage |-> "ok"]
    <3>1. ~UserAccepts /\ ~AcceptRefused
      BY <2>2 DEF UserAccepts, AcceptRefused, NotAccepting
    <3>2. CASE AcceptAnswered
      BY <3>2, <2>1, <1>1 DEF AcceptAnswered, Withdraws, Spent
    <3>3. CASE AcceptTimesOut
      BY <3>3, <2>2 DEF AcceptTimesOut, Spent
    <3>. QED
      BY <3>1, <3>2, <3>3
  <2>3. CASE accepting # [id |-> r, stage |-> "ok"]
    BY <2>1, <2>3, <1>1 DEF Spent
  <2>. QED
    BY <2>2, <2>3
<1>. QED
  BY <1>1, <1>2 DEF UseInv

\* The invariant holds in every reachable state.
LEMMA StepUse == TypeOK /\ TokenInv /\ UseInv /\ [Next]_vars => UseInv'
<1>. SUFFICES ASSUME TypeOK, TokenInv, UseInv, [Next]_vars PROVE UseInv'
  OBVIOUS
<1>. USE DEF tokenVars, roomsVars, hostVars
<1>1. issued \in Nat
  BY DEF TypeOK
<1>2. CASE MainServes
  BY <1>1, <1>2, QuietUse DEF MainServes
<1>3. CASE Tick \/ Ensure \/ CodeAnswered \/ ClearAnswered \/ CountdownEnds
             \/ RequesterGivesUp \/ ValidateAnswered \/ ConsumeAnswered \/ UserRejects
  BY <1>1, <1>3, QuietUse DEF Tick, Ensure, CodeAnswered, ClearAnswered, CountdownEnds,
       RequesterGivesUp, ValidateAnswered, ConsumeAnswered, UserRejects
<1>4. CASE Regenerate \/ Revoke \/ Teardown
  BY <1>1, <1>4, QuietUse DEF Regenerate, Revoke, Teardown, Withdraws
<1>5. CASE UNCHANGED vars
  BY <1>1, <1>5, QuietUse DEF vars
<1>. QED
  BY <1>2, <1>3, <1>4, <1>5, ArrivalUse, AcceptUse, VerdictUse DEF Next

\* A code authorizes two sessions only when the acknowledgement of one of the
\* acceptances timed out (acceptIncoming), for any number of codes and requests.
THEOREM SingleUseAlways == Spec => []SingleUseUnlessTimedOut
<1>1. TypeOK /\ TokenInv /\ UseInv => SingleUseUnlessTimedOut
  <2>. SUFFICES ASSUME TypeOK, TokenInv, UseInv, NEW r \in sessions, NEW q \in sessions,
                       presented[r] = presented[q], r # q
                PROVE  r \in timedOut \/ q \in timedOut
    BY DEF SingleUseUnlessTimedOut
  <2>1. \A x \in sessions : x \in Rooms /\ x \in 1..roomCount /\ presented[x] \notin deadThen[x]
    BY DEF TypeOK, TokenInv, PassedIsGood, Good
  <2>2. roomCount \in Nat
    BY DEF TypeOK
  <2>3. CASE r < q
    BY <2>1, <2>2, <2>3 DEF UseInv
  <2>4. CASE q < r
    BY <2>1, <2>2, <2>4 DEF UseInv
  <2>. QED
    BY <2>1, <2>2, <2>3, <2>4
<1>. QED
  BY InitUse, StepUse, TokenTypeCorrect, TokenInvariant, <1>1, PTL DEF Spec

-----------------------------------------------------------------------------
(* The countdown of a code *)

\* Every copy there is of a code: in main, on the screen, in replies under way.
Clocks == {current, shown} \cup {replies[i].info : i \in DOMAIN replies}

\* All copies of one code have the same time left, and no copy is of a code that
\* is yet to be issued.  The copies on their way are needed: one of them is what
\* the screen shows next.
ClocksAgree ==
    \A a \in Clocks :
        /\ a.code \in 0..issued
        /\ \A b \in Clocks : a.code = b.code => a.left = b.left

LEMMA InitClocks == Init => ClocksAgree
BY TokenAssumption DEF Init, ClocksAgree, Clocks, None

\* Code 0 is none, and has no time left.
LEMMA ClocksTyped ==
    ASSUME TypeOK
    PROVE  \A a \in Clocks : a \in TokenInfo /\ (a.code = 0 => a.left = 0)
<1>1. ASSUME NEW i \in DOMAIN replies PROVE replies[i].info \in TokenInfo
  <2>1. replies[i] \in Message
    BY DEF TypeOK
  <2>2. QED
    BY <2>1 DEF Message
<1>2. \A a \in Clocks : a \in TokenInfo
  BY <1>1 DEF Clocks, TypeOK
<1>3. \A a \in TokenInfo : a.code = 0 => a.left = 0
  BY TokenAssumption DEF TokenInfo, Codes, None
<1>4. QED
  BY <1>2, <1>3

\* Copies are only made of copies, of no code or of a new one.
LEMMA CopiesAgree ==
    ASSUME TypeOK, ClocksAgree, issued' \in {issued, issued + 1},
           \A a \in Clocks' : \/ a \in Clocks
                              \/ a = None
                              \/ a = Issue /\ issued' = issued + 1
    PROVE  ClocksAgree'
<1>1. issued \in Nat /\ \A a \in Clocks : a.code = 0 => a.left = 0
  BY ClocksTyped, TokenAssumption DEF TypeOK
<1>2. /\ \A a \in Clocks : a.code \in 0..issued
      /\ \A a, b \in Clocks : a.code = b.code => a.left = b.left
  BY DEF ClocksAgree
<1>3. /\ None.code = 0 /\ None.left = 0
      /\ Issue.code = issued + 1
  BY DEF None, Issue
<1>4. ASSUME NEW a \in Clocks', NEW b \in Clocks'
      PROVE  /\ a.code \in 0..issued'
             /\ a.code = b.code => a.left = b.left
  <2>1. /\ a \in Clocks \/ a = None \/ (a = Issue /\ issued' = issued + 1)
        /\ b \in Clocks \/ b = None \/ (b = Issue /\ issued' = issued + 1)
    OBVIOUS
  <2>2. QED
    BY <1>1, <1>2, <1>3, <2>1
<1>5. QED
  BY <1>4 DEF ClocksAgree

LEMMA ServeClocks == ASSUME TypeOK, ClocksAgree, MainServes PROVE ClocksAgree'
<1>1. /\ issued' \in {issued, issued + 1}
      /\ \/ current' = Issue /\ issued' = issued + 1
         \/ current' = None
         \/ current' = current
  BY DEF MainServes, Withdrawn, Kept
<1>2. PICK answered : replies' = Append(replies, answered) /\ answered.info = current'
  <2>1. Head(requests) \in Message
    BY DEF MainServes, TypeOK
  <2>2. ASSUME NEW info, NEW valid
        PROVE  [Head(requests) EXCEPT !.info = info, !.valid = valid].info = info
    BY <2>1 DEF Message
  <2>3. PICK valid : replies' = Append(replies, [Head(requests) EXCEPT !.info = current',
                                                                      !.valid = valid])
    BY DEF MainServes
  <2>4. QED
    BY <2>2, <2>3
<1>3. ASSUME NEW i \in DOMAIN replies'
      PROVE  replies'[i].info \in Clocks \/ replies'[i].info = current'
  <2>1. replies \in Seq(Message)
    BY DEF TypeOK
  <2>2. replies'[i] = answered \/ (i \in DOMAIN replies /\ replies'[i] = replies[i])
    BY <1>2, <1>3, <2>1
  <2>3. QED
    BY <1>2, <2>2 DEF Clocks
<1>4. \A a \in Clocks' : a \in Clocks \/ a = current'
  BY <1>3 DEF Clocks, MainServes
<1>5. current \in Clocks
  BY DEF Clocks
<1>6. QED
  BY <1>1, <1>4, <1>5, CopiesAgree

\* A tick takes the same from all copies of a code.
LEMMA TickClocks == ASSUME TypeOK, ClocksAgree, Tick PROVE ClocksAgree'
<1>1. ASSUME NEW a \in Clocks' PROVE \E b \in Clocks : a = Aged(b)
  <2>1. ASSUME NEW i \in DOMAIN replies'
        PROVE  i \in DOMAIN replies /\ replies'[i].info = Aged(replies[i].info)
    <3>1. i \in DOMAIN replies
      BY <2>1 DEF Tick
    <3>2. replies[i] \in Message
      BY <3>1 DEF TypeOK
    <3>3. QED
      BY <3>1, <3>2 DEF Tick, Message
  <2>2. CASE a \in {current', shown'}
    BY <2>2 DEF Tick, Clocks
  <2>3. CASE a \notin {current', shown'}
    <3>1. PICK i \in DOMAIN replies' : a = replies'[i].info
      BY <2>3 DEF Clocks
    <3>2. QED
      BY <2>1, <3>1 DEF Clocks
  <2>4. QED
    BY <2>2, <2>3
<1>2. ASSUME NEW b \in TokenInfo
      PROVE  /\ Aged(b).code = b.code
             /\ Aged(b).left = IF b.left > 0 THEN b.left - 1 ELSE b.left
  BY DEF Aged, TokenInfo, None
<1>3. issued' = issued
  BY DEF Tick
<1>4. ASSUME NEW a \in Clocks', NEW c \in Clocks'
      PROVE  /\ a.code \in 0..issued
             /\ a.code = c.code => a.left = c.left
  <2>1. PICK b \in Clocks : a = Aged(b)
    BY <1>1
  <2>2. PICK d \in Clocks : c = Aged(d)
    BY <1>1
  <2>3. b \in TokenInfo /\ d \in TokenInfo
    BY ClocksTyped
  <2>4. /\ b.code \in 0..issued
        /\ b.code = d.code => b.left = d.left
    BY DEF ClocksAgree
  <2>5. QED
    BY <1>2, <2>1, <2>2, <2>3, <2>4
<1>5. QED
  BY <1>3, <1>4 DEF ClocksAgree

\* Everything else moves copies about or drops them.
LEMMA MoveClocks ==
    ASSUME TypeOK, ClocksAgree, UNCHANGED <<current, issued>>,
           shown' \in {shown, None} \/ (replies # <<>> /\ shown' = Head(replies).info),
           replies' = replies \/ (replies # <<>> /\ replies' = Tail(replies))
    PROVE  ClocksAgree'
<1>1. replies \in Seq(Message)
  BY DEF TypeOK
<1>2. ASSUME NEW i \in DOMAIN replies' PROVE replies'[i].info \in Clocks
  BY <1>1, <1>2, TailIsOld DEF Clocks
<1>3. shown' \in Clocks \cup {None}
  BY <1>1, TailIsOld DEF Clocks
<1>4. current' \in Clocks
  BY DEF Clocks
<1>5. \A a \in Clocks' : a \in Clocks \/ a = None
  BY <1>2, <1>3, <1>4 DEF Clocks
<1>6. QED
  BY <1>5, CopiesAgree

LEMMA StepClocks == TypeOK /\ ClocksAgree /\ [Next]_vars => ClocksAgree'
<1> SUFFICES ASSUME TypeOK, ClocksAgree, [Next]_vars PROVE ClocksAgree'
  OBVIOUS
<1>1. CASE MainServes \/ Tick
  BY <1>1, ServeClocks, TickClocks
<1>2. CASE \/ Ensure \/ Regenerate \/ Revoke
           \/ CodeAnswered \/ ClearAnswered \/ CountdownEnds
  BY <1>2, MoveClocks DEF Ensure, Regenerate, Revoke, CodeAnswered, ClearAnswered,
                          CountdownEnds
<1>3. CASE \/ \E code \in Codes \cup {0} : RequestArrives(code)
           \/ RequesterGivesUp \/ ValidateAnswered \/ ConsumeAnswered
           \/ UserRejects \/ Teardown
  BY <1>3, MoveClocks DEF RequestArrives, RequesterGivesUp, ValidateAnswered,
                          ConsumeAnswered, UserRejects, Teardown, tokenVars
<1>4. CASE UserAccepts \/ ServerAccepts \/ AcceptAnswered \/ AcceptRefused \/ AcceptTimesOut
  BY <1>4, MoveClocks DEF UserAccepts, ServerAccepts, AcceptAnswered, AcceptRefused,
                          AcceptTimesOut, tokenVars
<1>5. CASE UNCHANGED vars
  BY <1>5, MoveClocks DEF vars, tokenVars
<1>6. QED
  BY <1>1, <1>2, <1>3, <1>4, <1>5 DEF Next

\* The code on the screen runs out with the one in main: while both have the same
\* code they count down together, whatever was asked, withdrawn or answered late
\* (useConnectionToken keeps the expiresAt that ConnectionTokenService sent).
THEOREM SameCountdownAlways == Spec => []SameCountdown
<1>1. ClocksAgree => SameCountdown
  BY DEF ClocksAgree, Clocks, SameCountdown
<1>2. QED
  BY InitClocks, StepClocks, TokenTypeCorrect, <1>1, PTL DEF Spec
=============================================================================
