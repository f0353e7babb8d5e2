------------------------ MODULE DeviceIdentityProofs ------------------------
(***************************************************************************)
(* One id per process run and one per profile, for any number of processes *)
(* and calls and any sequence of failures and crashes.                     *)
(***************************************************************************)
EXTENDS DeviceIdentity, TLAPS

-----------------------------------------------------------------------------
(* Type correctness *)

CallState == {"unused", "waiting", "answered", "failed", "lost"}

\* An attempt that stages has an id and a name of its own process.
Drafted ==
    \A a \in Calls : attempt[a] \in {"write", "rename"} =>
        draft[a] \in Ids /\ name[a] \in Names /\ name[a][1] = pid[By(a)]

TI == TypeOK /\ Drafted

\* An answer keeps the type of what is asked, and who asked.
LEMMA AnswerTyped ==
    ASSUME TypeOK, NEW c \in Calls, NEW id \in MaybeId, asked' = [asked EXCEPT ![c].id = id]
    PROVE  /\ asked' \in [Calls -> [by : Processes, id : MaybeId]]
           /\ \A d \in Calls : asked'[d].by = asked[d].by
           /\ asked'[c].id = id /\ \A d \in Calls : d # c => asked'[d] = asked[d]
<1>1. PICK r \in [by : Processes, id : MaybeId] : r = [asked[c] EXCEPT !.id = id]
  BY DEF TypeOK
<1>2. r.by = asked[c].by /\ r.id = id
  BY <1>1 DEF TypeOK
<1>3. asked' = [asked EXCEPT ![c] = r]
  BY <1>1 DEF TypeOK
<1>. QED BY <1>2, <1>3 DEF TypeOK

\* Who asked does not change.
LEMMA ByStays ==
    ASSUME TypeOK, [Next]_vars, NEW c \in Calls
    PROVE  asked'[c].by = asked[c].by
<1>1. ASSUME NEW a \in Calls, NEW id, Resolve(a, id) PROVE asked'[c].by = asked[c].by
  BY <1>1 DEF Resolve, By, TypeOK
<1>2. ASSUME NEW p \in Processes, NEW d \in Calls, GetDeviceId(p, d)
      PROVE  asked'[c].by = asked[c].by
  <2>1. CASE asked' = [asked EXCEPT ![d].id = cachedId[p]]
    BY <2>1, AnswerTyped DEF TypeOK
  <2>2. CASE UNCHANGED asked
    BY <2>2
  <2>. QED BY <1>2, <2>1, <2>2 DEF GetDeviceId
<1>3. ASSUME UNCHANGED asked PROVE asked'[c].by = asked[c].by
  BY <1>3
<1>. QED
  BY <1>1, <1>2, <1>3 DEF Next, Launch, Exit, Disk, MkdirDone, ReadDone, ReadFails, Generate,
     WriteDone, RenameDone, AttemptFails, Boots, vars

LEMMA ResolveTypes ==
    ASSUME TypeOK, NEW a \in Calls, NEW id \in Ids, Resolve(a, id)
    PROVE  /\ attempt' \in [Calls -> Step \cup {"none"}]
           /\ pending' \in [Processes -> Calls \cup {NoCall}]
           /\ cachedId' \in [Processes -> MaybeId]
           /\ asked' \in [Calls -> [by : Processes, id : MaybeId]]
           /\ state' \in [Calls -> CallState]
<1>1. id \in MaybeId
  BY DEF MaybeId
<1>2. \A c \in Calls : [by |-> By(c), id |-> id] \in [by : Processes, id : MaybeId]
  BY <1>1 DEF TypeOK, By
<1>. QED
  BY <1>1, <1>2 DEF TypeOK, Resolve, Over, CallState

LEMMA GenerateTypes ==
    ASSUME TI, NEW a \in Calls, Generate(a),
           failures' \in 0..MaxFailures, blind' \subseteq Processes
    PROVE  TI'
<1>1. PICK id \in Ids \ drawn :
        drawn' = drawn \cup {id} /\ draft' = [draft EXCEPT ![a] = id]
  BY DEF Generate
<1>2. PICK salt \in Salts : name' = [name EXCEPT ![a] = <<pid[By(a)], salt>>]
  BY DEF Generate, StagingName
<1>3. By(a) \in Processes /\ <<pid[By(a)], salt>> \in Names
  BY DEF TI, TypeOK, By, Names
<1>4. TypeOK'
  BY <1>1, <1>2, <1>3 DEF TI, TypeOK, Generate, MaybeId, Step
<1>5. Drafted'
  BY <1>1, <1>2, <1>3 DEF TI, TypeOK, Drafted, Generate, By
<1>. QED BY <1>4, <1>5 DEF TI

LEMMA OneFailureTypes ==
    ASSUME TypeOK, OneFailure \/ UNCHANGED failures
    PROVE  failures' \in 0..MaxFailures
  BY IdentityAssumption DEF TypeOK, OneFailure

LEMMA TypeInit == Init => TI
<1>. SUFFICES ASSUME Init PROVE TI
  OBVIOUS
<1>1. asked \in [Calls -> [by : Processes, id : MaybeId]]
  BY DEF Init, MaybeId
<1>2. TypeOK
  BY <1>1, IdentityAssumption DEF Init, TypeOK, MaybeId, Step
<1>3. Drafted
  BY DEF Init, Drafted
<1>. QED BY <1>2, <1>3 DEF TI

LEMMA TypeStep == TI /\ [Next]_vars => TI'
<1>. SUFFICES ASSUME TI, [Next]_vars PROVE TI'
  OBVIOUS
<1>0. TypeOK /\ Drafted /\ \A c \in Calls : By(c) \in Processes
  BY DEF TI, TypeOK, By
<1>1. ASSUME NEW p \in Processes, Launch(p) PROVE TI'
  BY <1>0, <1>1 DEF TI, TypeOK, Drafted, Launch, By, attemptVars
<1>2. ASSUME NEW p \in Processes, Exit(p) PROVE TI'
  BY <1>0, <1>2 DEF TI, TypeOK, Drafted, Exit, By
<1>3. ASSUME NEW a \in Calls, MkdirDone(a) PROVE TI'
  BY <1>0, <1>3 DEF TI, TypeOK, Drafted, MkdirDone, Step, By
<1>4. ASSUME NEW a \in Calls, ReadDone(a) PROVE TI'
  <2>1. CASE /\ file # NoId /\ Resolve(a, file)
             /\ UNCHANGED <<multi, file, staged, drawn, life, pid, draft, name, awaits, shown>>
    <3>1. file \in Ids
      BY <1>0, <2>1 DEF TypeOK, MaybeId
    <3>2. TypeOK'
      BY <1>0, <1>4, <2>1, <3>1, ResolveTypes DEF TypeOK, ReadDone, CallState
    <3>3. \A c \in Calls : asked'[c].by = asked[c].by
      BY <1>0, ByStays
    <3>4. Drafted'
      BY <1>0, <2>1, <3>3 DEF TypeOK, Drafted, Resolve, Over, By
    <3>. QED BY <3>2, <3>4 DEF TI
  <2>2. CASE Generate(a)
    BY <1>0, <1>4, <2>2, GenerateTypes DEF ReadDone, TypeOK
  <2>. QED BY <1>4, <2>1, <2>2 DEF ReadDone
<1>5. ASSUME NEW a \in Calls, ReadFails(a) PROVE TI'
  BY <1>0, <1>5, GenerateTypes, OneFailureTypes DEF ReadFails, TypeOK
<1>6. ASSUME NEW a \in Calls, WriteDone(a) PROVE TI'
  <2>1. draft[a] \in MaybeId /\ name[a] \in Names
    BY <1>0, <1>6 DEF Drafted, WriteDone, MaybeId
  <2>2. staged' \in [Names -> MaybeId] /\ attempt' \in [Calls -> Step \cup {"none"}]
    BY <1>0, <1>6, <2>1 DEF TypeOK, WriteDone, Step
  <2>3. TypeOK'
    BY <1>0, <1>6, <2>2 DEF TypeOK, WriteDone
  <2>4. Drafted'
    BY <1>0, <1>6 DEF TypeOK, Drafted, WriteDone, By
  <2>. QED BY <2>3, <2>4 DEF TI
<1>7. ASSUME NEW a \in Calls, RenameDone(a) PROVE TI'
  <2>1. draft[a] \in Ids /\ name[a] \in Names
    BY <1>0, <1>7 DEF Drafted, RenameDone
  <2>2. file' \in MaybeId /\ staged' \in [Names -> MaybeId]
    BY <1>0, <1>7, <2>1 DEF TypeOK, RenameDone, MaybeId
  <2>3. TypeOK'
    BY <1>0, <1>7, <2>1, <2>2, ResolveTypes DEF TypeOK, RenameDone, CallState
  <2>4. \A c \in Calls : asked'[c].by = asked[c].by
    BY <1>0, ByStays
  <2>5. Drafted'
    BY <1>0, <1>7, <2>4 DEF TypeOK, Drafted, RenameDone, Resolve, Over, By
  <2>. QED BY <2>3, <2>5 DEF TI
<1>8. ASSUME NEW a \in Calls, AttemptFails(a) PROVE TI'
  <2>1. failures' \in 0..MaxFailures
    BY <1>0, <1>8, OneFailureTypes DEF AttemptFails
  <2>2. TypeOK'
    BY <1>0, <1>8, <2>1 DEF TypeOK, AttemptFails, Over
  <2>3. Drafted'
    BY <1>0, <1>8 DEF TypeOK, Drafted, AttemptFails, Over, By
  <2>. QED BY <2>2, <2>3 DEF TI
<1>9. ASSUME NEW p \in Processes, NEW c \in Calls, GetDeviceId(p, c) PROVE TI'
  <2>1. asked' \in [Calls -> [by : Processes, id : MaybeId]]
    <3>1. CASE asked' = [asked EXCEPT ![c].id = cachedId[p]]
      BY <1>0, <3>1, AnswerTyped DEF TypeOK
    <3>2. CASE UNCHANGED asked
      BY <1>0, <3>2 DEF TypeOK
    <3>. QED BY <1>9, <3>1, <3>2 DEF GetDeviceId
  <2>2. /\ attempt' \in [Calls -> Step \cup {"none"}] /\ awaits' \in [Calls -> Calls]
        /\ pending' \in [Processes -> Calls \cup {NoCall}]
    <3>1. pending[p] \in Calls \cup {NoCall}
      BY <1>0 DEF TypeOK
    <3>2. CASE UNCHANGED <<attempt, pending, awaits>>
      BY <1>0, <3>2 DEF TypeOK
    <3>3. CASE Begin(p, c)
      BY <1>0, <3>3 DEF TypeOK, Begin, Step
    <3>4. CASE pending[p] # NoCall /\ awaits' = [awaits EXCEPT ![c] = pending[p]]
               /\ UNCHANGED <<attempt, pending>>
      BY <1>0, <3>1, <3>4 DEF TypeOK
    <3>. QED BY <1>9, <3>2, <3>3, <3>4 DEF GetDeviceId
  <2>6. state' \in [Calls -> CallState]
    BY <1>0, <1>9 DEF TypeOK, GetDeviceId, CallState
  <2>3. TypeOK'
    BY <1>0, <1>9, <2>1, <2>2, <2>6 DEF TypeOK, GetDeviceId, CallState
  <2>4. \A d \in Calls : asked'[d].by = asked[d].by
    BY <1>0, ByStays
  <2>5. Drafted'
    BY <1>0, <1>9, <2>4 DEF TypeOK, Drafted, GetDeviceId, Begin, By
  <2>. QED BY <2>3, <2>5 DEF TI
<1>10. ASSUME NEW c \in Calls, Boots(c) PROVE TI'
  BY <1>0, <1>10 DEF TI, TypeOK, Drafted, Boots, MaybeId, By, attemptVars
<1>11. CASE UNCHANGED vars
  BY <1>0, <1>11 DEF TI, TypeOK, Drafted, vars, By, attemptVars
<1>. QED
  BY <1>1, <1>2, <1>3, <1>4, <1>5, <1>6, <1>7, <1>8, <1>9, <1>10, <1>11 DEF Next, Disk

\* Every variable keeps its type.
THEOREM IdentityTypeCorrect == Spec => []TypeOK
<1>1. Spec => []TI
  BY TypeInit, TypeStep, PTL DEF Spec
<1>. QED BY <1>1, PTL DEF TI
-----------------------------------------------------------------------------
(* The inductive invariant *)

\* Only the pending attempt of a process that runs and has no id yet is at work:
\* single flight.
SingleFlight ==
    \A a \in Calls : attempt[a] # "none" =>
        pending[By(a)] = a /\ life[By(a)] = "up" /\ cachedId[By(a)] = NoId

\* A call shares an attempt of its own process.
SharedAtHome ==
    \A c \in Calls : By(awaits[c]) = By(c)

PendingAtHome ==
    \A p \in Processes : pending[p] # NoCall => By(pending[p]) = p

\* Processes that run have process ids of their own.
OwnPid ==
    \A p, q \in Processes : life[p] = "up" /\ life[q] = "up" /\ pid[p] = pid[q] => p = q

\* The lock: without `multi` one process runs at a time.
OneInstance ==
    multi \/ \A p, q \in Processes : life[p] = "up" /\ life[q] = "up" => p = q

\* Who is about to store an identity found none and could see that.
NoneYet ==
    multi \/ blind # {} \/
    \A a \in Calls : attempt[a] \in {"write", "rename"} => file = NoId

IInv ==
    /\ TI
    /\ SingleFlight /\ SharedAtHome /\ PendingAtHome
    /\ OwnPid /\ OneInstance /\ NoneYet
    /\ StagedIsMine /\ OneIdPerRun /\ UsedIsStored

LEMMA InvInit == Init => IInv
<1>. SUFFICES ASSUME Init PROVE IInv
  OBVIOUS
<1>1. SingleFlight /\ SharedAtHome /\ PendingAtHome /\ OwnPid /\ OneInstance
  BY DEF Init, SingleFlight, SharedAtHome, PendingAtHome, OwnPid, OneInstance
<1>2. NoneYet /\ StagedIsMine /\ OneIdPerRun /\ UsedIsStored
  BY DEF Init, NoneYet, StagedIsMine, OneIdPerRun, UsedIsStored
<1>. QED BY <1>1, <1>2, TypeInit DEF IInv

\* The process of a call.
LEMMA ByTyped == TypeOK => \A c \in Calls : By(c) \in Processes
  BY DEF TypeOK, By

\* Two attempts that stage have different names: they are of one process only if
\* they are one, and processes that run have different process ids.
LEMMA NamesApart ==
    ASSUME IInv, NEW a \in Calls, NEW b \in Calls, a # b,
           attempt[a] \in {"write", "rename"}, attempt[b] \in {"write", "rename"}
    PROVE  name[a] # name[b]
<1>1. By(a) # By(b)
  BY DEF IInv, SingleFlight
<1>2. By(a) \in Processes /\ By(b) \in Processes /\ life[By(a)] = "up" /\ life[By(b)] = "up"
  BY ByTyped DEF IInv, TI, SingleFlight
<1>3. pid[By(a)] # pid[By(b)]
  BY <1>1, <1>2 DEF IInv, OwnPid
<1>. QED BY <1>3 DEF IInv, TI, Drafted

\* The other attempts and their promises are untouched by the end of one.
LEMMA OverInv ==
    ASSUME IInv, NEW a \in Calls, attempt[a] # "none", Over(a),
           UNCHANGED <<multi, life, pid, awaits>>,
           \A c \in Calls : asked'[c].by = asked[c].by,
           \A q \in Processes : q # By(a) => cachedId'[q] = cachedId[q]
    PROVE  /\ SingleFlight' /\ SharedAtHome' /\ PendingAtHome' /\ OwnPid' /\ OneInstance'
           /\ \A b \in Calls : attempt'[b] # "none" => b # a /\ attempt'[b] = attempt[b]
<1>1. ASSUME NEW b \in Calls, attempt'[b] # "none"
      PROVE  b # a /\ attempt'[b] = attempt[b]
  BY <1>1 DEF Over, IInv, TI, TypeOK
<1>2. ASSUME NEW b \in Calls, attempt'[b] # "none"
      PROVE  pending'[By(b)] = b /\ life[By(b)] = "up" /\ cachedId'[By(b)] = NoId
  <2>1. b # a /\ attempt[b] # "none"
    BY <1>1, <1>2
  <2>2. By(a) # By(b) /\ By(b) \in Processes /\ By(a) \in Processes
    BY <2>1, ByTyped DEF IInv, TI, SingleFlight
  <2>3. pending'[By(b)] = pending[By(b)]
    BY <2>2 DEF Over, IInv, TI, TypeOK
  <2>. QED BY <2>1, <2>2, <2>3 DEF IInv, SingleFlight
<1>3. SingleFlight'
  BY <1>2 DEF SingleFlight, By
<1>4. SharedAtHome'
  BY DEF IInv, TI, TypeOK, SharedAtHome, By
<1>5. PendingAtHome'
  BY DEF IInv, TI, TypeOK, PendingAtHome, Over, By
<1>6. OwnPid' /\ OneInstance'
  BY DEF IInv, OwnPid, OneInstance
<1>. QED BY <1>1, <1>3, <1>4, <1>5, <1>6

\* An attempt that ends with an id keeps what is said of ids handed out.
LEMMA ResolveInv ==
    ASSUME IInv, NEW a \in Calls, NEW id \in Ids, attempt[a] # "none", Resolve(a, id),
           UNCHANGED <<awaits, shown>>,
           \A c \in Calls : asked'[c].by = asked[c].by
    PROVE  OneIdPerRun'
<1>. DEFINE p == By(a)
<1>1. p \in Processes /\ cachedId[p] = NoId /\ id # NoId
  BY ByTyped, IdentityAssumption DEF IInv, TI, SingleFlight
<1>2. cachedId' = [cachedId EXCEPT ![p] = id] /\ cachedId'[p] = id
  BY <1>1 DEF Resolve, IInv, TI, TypeOK
<1>3. ASSUME NEW c \in Calls, By(c) = p, state'[c] = "answered"
      PROVE  asked'[c].id = id
  <2>1. state[c] # "answered"
    BY <1>1, <1>3 DEF IInv, OneIdPerRun
  <2>2. c \in Waiting(a)
    BY <1>3, <2>1 DEF Resolve, IInv, TI, TypeOK
  <2>. QED BY <2>2 DEF Resolve
<1>4. ASSUME NEW q \in Processes, q # p, NEW c \in Calls, By(c) = q, state'[c] = "answered"
      PROVE  asked'[c].id = cachedId[q] /\ cachedId[q] # NoId
  <2>1. c \notin Waiting(a)
    BY <1>4 DEF Waiting, IInv, SharedAtHome
  <2>2. state[c] = "answered" /\ asked'[c] = asked[c]
    BY <1>4, <2>1 DEF Resolve, IInv, TI, TypeOK
  <2>. QED BY <1>4, <2>2 DEF IInv, OneIdPerRun
<1>5. \A q \in Processes : shown'[q] \in {NoId, cachedId'[q]}
  BY <1>1, <1>2 DEF IInv, TI, TypeOK, OneIdPerRun
<1>6. \A q \in Processes : q # p => cachedId'[q] = cachedId[q]
  BY <1>2 DEF IInv, TI, TypeOK
<1>. HIDE DEF p
<1>7. ASSUME NEW q \in Processes, NEW c \in Calls, asked'[c].by = q, state'[c] = "answered"
      PROVE  asked'[c].id = cachedId'[q] /\ cachedId'[q] # NoId
  <2>1. By(c) = q
    BY <1>7 DEF By
  <2>. QED BY <1>1, <1>2, <1>3, <1>4, <1>6, <1>7, <2>1
<1>. QED BY <1>5, <1>7 DEF OneIdPerRun, By

LEMMA GenerateInv ==
    ASSUME IInv, NEW a \in Calls, attempt[a] = "read", Generate(a)
    PROVE  /\ SingleFlight' /\ SharedAtHome' /\ PendingAtHome' /\ OwnPid' /\ OneInstance'
           /\ StagedIsMine' /\ OneIdPerRun'
<1>1. \A b \in Calls : b # a => draft'[b] = draft[b] /\ name'[b] = name[b]
  BY DEF Generate, IInv, TI, TypeOK
<1>2. /\ attempt'[a] = "write"
      /\ \A b \in Calls : b # a => attempt'[b] = attempt[b]
  BY DEF Generate, IInv, TI, TypeOK
<1>3. SingleFlight' /\ SharedAtHome' /\ PendingAtHome' /\ OwnPid' /\ OneInstance'
  BY <1>2 DEF Generate, IInv, SingleFlight, SharedAtHome, PendingAtHome, OwnPid, OneInstance, By
<1>4. StagedIsMine'
  BY <1>1, <1>2 DEF Generate, IInv, StagedIsMine
<1>5. OneIdPerRun'
  BY DEF Generate, IInv, OneIdPerRun, By
<1>. QED BY <1>3, <1>4, <1>5

LEMMA InvStep == IInv /\ [Next]_vars => IInv'
<1>. SUFFICES ASSUME IInv, [Next]_vars PROVE IInv'
  OBVIOUS
<1>. DEFINE Rest == /\ SingleFlight /\ SharedAtHome /\ PendingAtHome
                    /\ OwnPid /\ OneInstance /\ NoneYet
                    /\ StagedIsMine /\ OneIdPerRun /\ UsedIsStored
<1>0. TI' /\ TypeOK /\ TI
  BY TypeStep DEF IInv, TI
<1>b. \A c \in Calls : asked'[c].by = asked[c].by /\ By(c) \in Processes
  BY <1>0, ByStays, ByTyped
<1>1. ASSUME NEW p \in Processes, Launch(p) PROVE Rest'
  <2>1. OwnPid' /\ OneInstance'
    BY <1>0, <1>1 DEF Launch, PidFree, IInv, TypeOK, OwnPid, OneInstance
  <2>2. SingleFlight' /\ SharedAtHome' /\ PendingAtHome'
    BY <1>0, <1>1 DEF Launch, IInv, TypeOK, SingleFlight, SharedAtHome, PendingAtHome, By, attemptVars
  <2>3. NoneYet' /\ StagedIsMine' /\ OneIdPerRun' /\ UsedIsStored'
    BY <1>1 DEF Launch, IInv, NoneYet, StagedIsMine, OneIdPerRun, UsedIsStored, By, attemptVars
  <2>. QED BY <2>1, <2>2, <2>3
<1>2. ASSUME NEW p \in Processes, Exit(p) PROVE Rest'
  <2>1. OwnPid' /\ OneInstance'
    BY <1>0, <1>2 DEF Exit, IInv, TypeOK, OwnPid, OneInstance
  <2>2. \A a \in Calls : attempt'[a] # "none" => attempt'[a] = attempt[a] /\ By(a) # p
    BY <1>2 DEF Exit
  <2>3. SingleFlight' /\ SharedAtHome' /\ PendingAtHome'
    BY <1>0, <1>2, <2>2 DEF Exit, IInv, TypeOK, SingleFlight, SharedAtHome, PendingAtHome, By
  <2>4. NoneYet' /\ StagedIsMine'
    BY <1>2, <2>2 DEF Exit, IInv, NoneYet, StagedIsMine
  <2>5. OneIdPerRun' /\ UsedIsStored'
    BY <1>0, <1>2 DEF Exit, IInv, TypeOK, OneIdPerRun, UsedIsStored, By
  <2>. QED BY <2>1, <2>3, <2>4, <2>5
<1>3. ASSUME NEW a \in Calls, MkdirDone(a) PROVE Rest'
  <2>1. \A b \in Calls : attempt'[b] = (IF b = a THEN "read" ELSE attempt[b])
    BY <1>0, <1>3 DEF MkdirDone, TypeOK
  <2>2. SingleFlight' /\ SharedAtHome' /\ PendingAtHome' /\ OwnPid' /\ OneInstance'
    BY <1>3, <2>1 DEF MkdirDone, IInv, SingleFlight, SharedAtHome, PendingAtHome, OwnPid,
                      OneInstance, By
  <2>3. NoneYet' /\ StagedIsMine' /\ OneIdPerRun' /\ UsedIsStored'
    BY <1>3, <2>1 DEF MkdirDone, IInv, NoneYet, StagedIsMine, OneIdPerRun, UsedIsStored, By
  <2>. QED BY <2>2, <2>3
<1>4. ASSUME NEW a \in Calls, ReadDone(a) PROVE Rest'
  <2>1. CASE /\ file # NoId /\ Resolve(a, file)
             /\ UNCHANGED <<multi, file, staged, drawn, life, pid, draft, name, awaits, shown>>
    <3>1. file \in Ids /\ attempt[a] # "none"
      BY <1>0, <1>4, <2>1 DEF TypeOK, MaybeId, ReadDone
    <3>2. cachedId' = [cachedId EXCEPT ![By(a)] = file] /\ Over(a)
      BY <2>1 DEF Resolve
    <3>3. /\ SingleFlight' /\ SharedAtHome' /\ PendingAtHome' /\ OwnPid' /\ OneInstance'
          /\ \A b \in Calls : attempt'[b] # "none" => b # a /\ attempt'[b] = attempt[b]
      BY <1>0, <1>b, <2>1, <3>1, <3>2, OverInv DEF TypeOK
    <3>4. OneIdPerRun'
      BY <1>b, <2>1, <3>1, ResolveInv
    <3>5. StagedIsMine'
      BY <2>1, <3>3 DEF IInv, StagedIsMine
    <3>6. NoneYet' /\ UsedIsStored'
      BY <1>0, <1>4, <2>1, <3>2, <3>3 DEF ReadDone, IInv, TypeOK, NoneYet, UsedIsStored
    <3>. QED BY <3>3, <3>4, <3>5, <3>6
  <2>2. CASE file = NoId /\ Generate(a)
    <3>1. /\ SingleFlight' /\ SharedAtHome' /\ PendingAtHome' /\ OwnPid' /\ OneInstance'
          /\ StagedIsMine' /\ OneIdPerRun'
      BY <1>4, <2>2, GenerateInv DEF ReadDone
    <3>2. NoneYet' /\ UsedIsStored'
      BY <1>0, <1>4, <2>2 DEF ReadDone, Generate, IInv, TypeOK, NoneYet, UsedIsStored
    <3>. QED BY <3>1, <3>2
  <2>. QED BY <1>4, <2>1, <2>2 DEF ReadDone
<1>5. ASSUME NEW a \in Calls, ReadFails(a) PROVE Rest'
  <2>1. /\ SingleFlight' /\ SharedAtHome' /\ PendingAtHome' /\ OwnPid' /\ OneInstance'
        /\ StagedIsMine' /\ OneIdPerRun'
    BY <1>5, GenerateInv DEF ReadFails
  <2>2. NoneYet' /\ UsedIsStored'
    BY <1>0, <1>5 DEF ReadFails, Generate, IInv, TypeOK, NoneYet, UsedIsStored
  <2>. QED BY <2>1, <2>2
<1>6. ASSUME NEW a \in Calls, WriteDone(a) PROVE Rest'
  <2>1. \A b \in Calls : attempt'[b] = (IF b = a THEN "rename" ELSE attempt[b])
    BY <1>0, <1>6 DEF WriteDone, TypeOK
  <2>2. SingleFlight' /\ SharedAtHome' /\ PendingAtHome' /\ OwnPid' /\ OneInstance'
    BY <1>6, <2>1 DEF WriteDone, IInv, SingleFlight, SharedAtHome, PendingAtHome, OwnPid,
                      OneInstance, By
  <2>3. NoneYet' /\ OneIdPerRun' /\ UsedIsStored'
    BY <1>6, <2>1 DEF WriteDone, IInv, NoneYet, OneIdPerRun, UsedIsStored, By
  <2>4. draft[a] \in Ids /\ name[a] \in Names /\ draft[a] # NoId
    BY <1>0, <1>6, IdentityAssumption DEF TI, Drafted, WriteDone
  <2>5. staged'[name[a]] = draft[a]
    BY <1>0, <1>6, <2>4 DEF WriteDone, TypeOK
  <2>6. ASSUME NEW b \in Calls, b # a, attempt[b] = "rename"
        PROVE  staged'[name[b]] = draft[b] /\ draft[b] # NoId
    <3>1. name[b] # name[a]
      BY <1>6, <2>6, NamesApart DEF WriteDone
    <3>2. name[b] \in Names
      BY <1>0, <2>6 DEF TI, Drafted
    <3>. QED BY <1>0, <1>6, <2>6, <3>1, <3>2 DEF WriteDone, TypeOK, IInv, StagedIsMine
  <2>7. StagedIsMine'
    BY <1>6, <2>1, <2>4, <2>5, <2>6 DEF WriteDone, StagedIsMine
  <2>. QED BY <2>2, <2>3, <2>7
<1>7. ASSUME NEW a \in Calls, RenameDone(a) PROVE Rest'
  <2>1. /\ draft[a] \in Ids /\ name[a] \in Names /\ staged[name[a]] = draft[a]
        /\ attempt[a] # "none"
    BY <1>0, <1>7 DEF TI, Drafted, IInv, StagedIsMine, RenameDone
  <2>2. cachedId' = [cachedId EXCEPT ![By(a)] = draft[a]] /\ Over(a) /\ file' = draft[a]
    BY <1>7, <2>1 DEF RenameDone, Resolve
  <2>3. /\ SingleFlight' /\ SharedAtHome' /\ PendingAtHome' /\ OwnPid' /\ OneInstance'
        /\ \A b \in Calls : attempt'[b] # "none" => b # a /\ attempt'[b] = attempt[b]
    BY <1>0, <1>b, <1>7, <2>1, <2>2, OverInv DEF TypeOK, RenameDone
  <2>4. OneIdPerRun'
    BY <1>b, <1>7, <2>1, ResolveInv DEF RenameDone
  <2>5. ASSUME NEW b \in Calls, attempt'[b] = "rename"
        PROVE  staged'[name[b]] = draft[b] /\ draft[b] # NoId
    <3>1. b # a /\ attempt[b] = "rename"
      BY <2>3, <2>5
    <3>2. name[b] # name[a] /\ name[b] \in Names
      BY <1>0, <1>7, <3>1, NamesApart DEF RenameDone, TI, Drafted
    <3>. QED BY <1>0, <1>7, <3>1, <3>2 DEF RenameDone, TypeOK, IInv, StagedIsMine
  <2>6. StagedIsMine'
    BY <1>7, <2>5 DEF RenameDone, StagedIsMine
  <2>7. multi \/ \A b \in Calls : b # a => attempt[b] = "none"
    <3>1. ASSUME ~multi, NEW b \in Calls, b # a, attempt[b] # "none" PROVE FALSE
      <4>1. By(a) = By(b)
        BY <1>b, <2>1, <3>1 DEF IInv, SingleFlight, OneInstance
      <4>. QED BY <2>1, <3>1, <4>1 DEF IInv, SingleFlight
    <3>. QED BY <3>1
  <2>8. NoneYet'
    BY <1>7, <2>3, <2>7 DEF RenameDone, NoneYet
  <2>9. multi \/ blind # {} \/ \A q \in Processes : cachedId[q] = NoId
    BY <1>7 DEF RenameDone, IInv, NoneYet, UsedIsStored
  <2>10. UsedIsStored'
    BY <1>0, <1>b, <1>7, <2>2, <2>9 DEF RenameDone, TypeOK, UsedIsStored
  <2>. QED BY <2>3, <2>4, <2>6, <2>8, <2>10
<1>8. ASSUME NEW a \in Calls, AttemptFails(a) PROVE Rest'
  <2>1. attempt[a] # "none" /\ Over(a)
    BY <1>8 DEF AttemptFails
  <2>2. /\ SingleFlight' /\ SharedAtHome' /\ PendingAtHome' /\ OwnPid' /\ OneInstance'
        /\ \A b \in Calls : attempt'[b] # "none" => b # a /\ attempt'[b] = attempt[b]
    BY <1>b, <1>8, <2>1, OverInv DEF AttemptFails
  <2>3. NoneYet' /\ StagedIsMine' /\ UsedIsStored'
    BY <1>8, <2>2 DEF AttemptFails, IInv, NoneYet, StagedIsMine, UsedIsStored
  <2>4. OneIdPerRun'
    BY <1>0, <1>8 DEF AttemptFails, IInv, TypeOK, OneIdPerRun, By
  <2>. QED BY <2>2, <2>3, <2>4
<1>9. ASSUME NEW p \in Processes, NEW c \in Calls, GetDeviceId(p, c) PROVE Rest'
  <2>0. By(c) = p /\ life[p] = "up" /\ state[c] = "unused"
        /\ UNCHANGED <<multi, file, staged, life, pid, draft, name, cachedId, shown, blind>>
    BY <1>9 DEF GetDeviceId
  <2>1. CASE /\ cachedId[p] # NoId /\ state' = [state EXCEPT ![c] = "answered"]
             /\ asked' = [asked EXCEPT ![c].id = cachedId[p]]
             /\ UNCHANGED <<attempt, pending, awaits>>
    <3>1. asked'[c].id = cachedId[p] /\ \A d \in Calls : d # c => asked'[d] = asked[d]
      BY <1>0, <2>1, AnswerTyped DEF TypeOK
    <3>2. OneIdPerRun'
      BY <1>0, <1>b, <2>0, <2>1, <3>1 DEF IInv, TypeOK, OneIdPerRun, By
    <3>3. SingleFlight' /\ SharedAtHome' /\ PendingAtHome' /\ OwnPid' /\ OneInstance'
      BY <1>0, <1>b, <2>0, <2>1 DEF IInv, TypeOK, SingleFlight, SharedAtHome, PendingAtHome,
                               OwnPid, OneInstance, By
    <3>4. NoneYet' /\ StagedIsMine' /\ UsedIsStored'
      BY <2>0, <2>1 DEF IInv, NoneYet, StagedIsMine, UsedIsStored
    <3>. QED BY <3>2, <3>3, <3>4
  <2>2. ASSUME cachedId[p] = NoId, state' = [state EXCEPT ![c] = "waiting"], UNCHANGED asked
        PROVE  OneIdPerRun' /\ UsedIsStored' /\ OwnPid' /\ OneInstance'
    BY <1>0, <2>0, <2>2 DEF IInv, TypeOK, OneIdPerRun, UsedIsStored, OwnPid, OneInstance, By
  <2>3. CASE /\ cachedId[p] = NoId /\ state' = [state EXCEPT ![c] = "waiting"]
             /\ UNCHANGED asked /\ pending[p] = NoCall /\ Begin(p, c)
    <3>1. \A b \in Calls : attempt'[b] = (IF b = c THEN "mkdir" ELSE attempt[b])
      BY <1>0, <2>3 DEF Begin, TypeOK
    <3>2. \A q \in Processes : pending'[q] = (IF q = p THEN c ELSE pending[q])
      BY <1>0, <2>3 DEF Begin, TypeOK
    <3>3. \A b \in Calls : attempt[b] # "none" => By(b) # p
      BY <2>3, IdentityAssumption DEF IInv, SingleFlight
    <3>4. SingleFlight'
      BY <1>b, <2>0, <2>3, <3>1, <3>2, <3>3 DEF IInv, SingleFlight, By
    <3>5. SharedAtHome' /\ PendingAtHome'
      BY <1>b, <2>0, <2>3, <3>2 DEF IInv, SharedAtHome, PendingAtHome, By, Begin
    <3>6. NoneYet' /\ StagedIsMine'
      BY <2>0, <3>1 DEF IInv, NoneYet, StagedIsMine
    <3>. QED BY <2>2, <2>3, <3>4, <3>5, <3>6
  <2>4. CASE /\ cachedId[p] = NoId /\ state' = [state EXCEPT ![c] = "waiting"]
             /\ UNCHANGED asked /\ pending[p] # NoCall
             /\ awaits' = [awaits EXCEPT ![c] = pending[p]] /\ UNCHANGED <<attempt, pending>>
    <3>1. SingleFlight' /\ PendingAtHome'
      BY <2>0, <2>4 DEF IInv, SingleFlight, PendingAtHome, By
    <3>2. SharedAtHome'
      BY <1>0, <2>0, <2>4 DEF IInv, TypeOK, SharedAtHome, PendingAtHome, By
    <3>3. NoneYet' /\ StagedIsMine'
      BY <2>0, <2>4 DEF IInv, NoneYet, StagedIsMine
    <3>. QED BY <2>2, <2>4, <3>1, <3>2, <3>3
  <2>. QED BY <1>9, <2>1, <2>3, <2>4 DEF GetDeviceId
<1>10. ASSUME NEW c \in Calls, Boots(c) PROVE Rest'
  <2>1. SingleFlight' /\ SharedAtHome' /\ PendingAtHome' /\ OwnPid' /\ OneInstance'
    BY <1>10 DEF Boots, IInv, SingleFlight, SharedAtHome, PendingAtHome, OwnPid, OneInstance, By,
                 attemptVars
  <2>2. NoneYet' /\ StagedIsMine' /\ UsedIsStored'
    BY <1>10 DEF Boots, IInv, NoneYet, StagedIsMine, UsedIsStored, attemptVars
  <2>3. OneIdPerRun'
    BY <1>0, <1>b, <1>10 DEF Boots, IInv, TypeOK, OneIdPerRun, By
  <2>. QED BY <2>1, <2>2, <2>3
<1>11. ASSUME UNCHANGED vars PROVE Rest'
  BY <1>11 DEF vars, attemptVars, IInv, SingleFlight, SharedAtHome, PendingAtHome, OwnPid,
               OneInstance, NoneYet, StagedIsMine, OneIdPerRun, UsedIsStored, By
<1>12. Rest'
  BY <1>1, <1>2, <1>3, <1>4, <1>5, <1>6, <1>7, <1>8, <1>9, <1>10, <1>11 DEF Next, Disk
<1>. QED BY <1>0, <1>12 DEF IInv

\* The inductive invariant: the lock, single flight, process ids and the order of
\* staging, renaming and answering together.
THEOREM IdentityInvariant == Spec => []IInv
  BY InvInit, InvStep, PTL DEF Spec

\* Nobody renames what another has staged, although the random part of two names
\* may be the same and process ids are given again: single flight keeps two attempts
\* of one process apart, the process id those of two.
THEOREM StagedAlwaysMine == Spec => []StagedIsMine
  BY IdentityInvariant, PTL DEF IInv

\* All calls to one process, and its store, get one id.
THEOREM OneIdAlways == Spec => []OneIdPerRun
  BY IdentityInvariant, PTL DEF IInv

\* The id in use is the stored one.
THEOREM UsedAlwaysStored == Spec => []UsedIsStored
  BY IdentityInvariant, PTL DEF IInv

\* A stored identity is not replaced.
THEOREM IdentityAlwaysLasts == Spec => IdentityLasts
<1>1. IInv /\ [Next]_vars => [file # NoId /\ file' # file => multi \/ blind # {}]_vars
  <2>. SUFFICES ASSUME IInv, Next, file # NoId, file' # file
                PROVE  multi \/ blind # {}
    OBVIOUS
  <2>1. PICK a \in Calls : RenameDone(a)
    BY DEF Next, Disk, Launch, Exit, MkdirDone, ReadDone, ReadFails, Generate, WriteDone,
           AttemptFails, GetDeviceId, Boots
  <2>. QED BY <2>1 DEF RenameDone, IInv, NoneYet
<1>. QED BY <1>1, IdentityInvariant, PTL DEF Spec, IdentityLasts
=============================================================================
