--------------------------- MODULE DeviceIdentity ---------------------------
(***************************************************************************)
(* The device id: DeviceIdentityService.ts in the main processes that      *)
(* share one profile, and the boot effect of App.tsx that asks for it.     *)
(*                                                                         *)
(* An id is an opaque value drawn at random, never the same one twice.  A  *)
(* process runs once; a restart is another process.  Normally the second   *)
(* one finds the single-instance lock taken; with `multi` it does not.     *)
(***************************************************************************)
EXTENDS Integers

CONSTANTS
    Processes, Calls, Ids,
    Pids, Salts,  \* process ids and the random part of a staging name
    NoId,         \* no file, or one that is not a stored identity
    NoCall,       \* null promise
    MaxFailures   \* file operations that fail

ASSUME IdentityAssumption == NoId \notin Ids /\ NoCall \notin Calls /\ MaxFailures \in Nat

VARIABLES
    multi,     \* LANTERN_ALLOW_MULTI_INSTANCE or a profile of one's own
    file,      \* the id in device-identity.json
    staged,    \* staging name -> the id in the file of that name
    drawn,     \* ids drawn so far
    life,      \* process -> "new", "up" or "gone"
    pid,       \* process -> the process id the system gives it
    pending,   \* process -> the attempt that its calls share, by the call that began it
    attempt,   \* call -> what the loadOrCreate it began waits for, "none" if not running
    draft,     \* call -> the digits that its attempt has generated
    name,      \* call -> the name that its attempt stages under
    cachedId,  \* process -> the id it has resolved
    asked,     \* call -> [by, id]: its process and the answer
    awaits,    \* call -> the attempt whose promise it was given
    state,     \* call -> "unused", "waiting", "answered", "failed" or "lost"
    shown,     \* process -> the id its device store shows
    blind,     \* processes that could not read a file that is there
    failures

attemptVars == <<pending, attempt, draft, name, awaits>>
vars == <<multi, file, staged, drawn, life, pid, attemptVars, cachedId, asked, state,
          shown, blind, failures>>

Step == {"mkdir", "read", "write", "rename"}
MaybeId == Ids \cup {NoId}
Names == Pids \X Salts
NoName == <<>>
By(c) == asked[c].by

TypeOK ==
    /\ multi \in BOOLEAN
    /\ file \in MaybeId
    /\ staged \in [Names -> MaybeId]
    /\ drawn \subseteq Ids
    /\ life \in [Processes -> {"new", "up", "gone"}]
    /\ pid \in [Processes -> Pids]
    /\ pending \in [Processes -> Calls \cup {NoCall}]
    /\ attempt \in [Calls -> Step \cup {"none"}]
    /\ draft \in [Calls -> MaybeId]
    /\ name \in [Calls -> Names \cup {NoName}]
    /\ cachedId \in [Processes -> MaybeId]
    /\ asked \in [Calls -> [by : Processes, id : MaybeId]]
    /\ awaits \in [Calls -> Calls]
    /\ state \in [Calls -> {"unused", "waiting", "answered", "failed", "lost"}]
    /\ shown \in [Processes -> MaybeId]
    /\ blind \subseteq Processes
    /\ failures \in 0..MaxFailures

\* A profile is new, or has an identity, or a file that does not parse.
Init ==
    /\ multi \in BOOLEAN
    /\ file \in MaybeId
    /\ staged = [n \in Names |-> NoId]
    /\ drawn = {file} \cap Ids
    /\ life = [p \in Processes |-> "new"]
    /\ pid \in [Processes -> Pids]
    /\ pending = [p \in Processes |-> NoCall]
    /\ attempt = [c \in Calls |-> "none"]
    /\ draft = [c \in Calls |-> NoId]
    /\ name = [c \in Calls |-> NoName]
    /\ cachedId = [p \in Processes |-> NoId]
    /\ asked \in [Calls -> [by : Processes, id : {NoId}]]
    /\ awaits = [c \in Calls |-> c]
    /\ state = [c \in Calls |-> "unused"]
    /\ shown = [p \in Processes |-> NoId]
    /\ blind = {}
    /\ failures = 0

-----------------------------------------------------------------------------
(* Processes *)

\* A process id is given again only when its process is gone.
PidFree(p) == \A q \in Processes : life[q] = "up" => pid[q] # pid[p]

\* Fault: the lock is not asked for.
LaunchUnlocked(p) ==
    /\ life[p] = "new" /\ PidFree(p)
    /\ life' = [life EXCEPT ![p] = "up"]
    /\ UNCHANGED <<multi, file, staged, drawn, pid, attemptVars, cachedId, asked, state,
                   shown, blind, failures>>

\* requestSingleInstanceLock: an instance that does not get it quits.
Launch(p) ==
    /\ life[p] = "new" /\ PidFree(p)
    /\ multi \/ \A q \in Processes : life[q] # "up"
    /\ life' = [life EXCEPT ![p] = "up"]
    /\ UNCHANGED <<multi, file, staged, drawn, pid, attemptVars, cachedId, asked, state,
                   shown, blind, failures>>

\* The process quits or is killed, between any two of its file operations;
\* what it staged stays on the disk.
Exit(p) ==
    /\ life[p] = "up"
    /\ life' = [life EXCEPT ![p] = "gone"]
    /\ attempt' = [c \in Calls |-> IF By(c) = p THEN "none" ELSE attempt[c]]
    /\ pending' = [pending EXCEPT ![p] = NoCall]
    /\ state' = [c \in Calls |-> IF By(c) = p /\ state[c] = "waiting" THEN "lost" ELSE state[c]]
    /\ UNCHANGED <<multi, file, staged, drawn, pid, draft, name, awaits, cachedId, asked,
                   shown, blind, failures>>

-----------------------------------------------------------------------------
(* DeviceIdentityService *)

\* An attempt of its own for the call.
Begin(p, c) ==
    /\ attempt' = [attempt EXCEPT ![c] = "mkdir"]
    /\ pending' = [pending EXCEPT ![p] = c]
    /\ UNCHANGED awaits

\* Fault: every call makes an attempt of its own.
GetDeviceIdAlone(p, c) ==
    /\ life[p] = "up"
    /\ state[c] = "unused" /\ By(c) = p
    /\ \/ /\ cachedId[p] # NoId
          /\ state' = [state EXCEPT ![c] = "answered"]
          /\ asked' = [asked EXCEPT ![c].id = cachedId[p]]
          /\ UNCHANGED <<attempt, pending, awaits>>
       \/ /\ cachedId[p] = NoId
          /\ state' = [state EXCEPT ![c] = "waiting"]
          /\ Begin(p, c)
          /\ UNCHANGED asked
    /\ UNCHANGED <<multi, file, staged, drawn, life, pid, draft, name, cachedId, shown, blind,
                   failures>>

\* getDeviceId: the cached id, or the attempt that is pending, or a new one.
GetDeviceId(p, c) ==
    /\ life[p] = "up"
    /\ state[c] = "unused" /\ By(c) = p
    /\ \/ /\ cachedId[p] # NoId
          /\ state' = [state EXCEPT ![c] = "answered"]
          /\ asked' = [asked EXCEPT ![c].id = cachedId[p]]
          /\ UNCHANGED <<attempt, pending, awaits>>
       \/ /\ cachedId[p] = NoId
          /\ state' = [state EXCEPT ![c] = "waiting"]
          /\ IF pending[p] = NoCall
             THEN Begin(p, c)
             ELSE awaits' = [awaits EXCEPT ![c] = pending[p]] /\ UNCHANGED <<attempt, pending>>
          /\ UNCHANGED asked
    /\ UNCHANGED <<multi, file, staged, drawn, life, pid, draft, name, cachedId, shown, blind,
                   failures>>

Waiting(a) == {c \in Calls : awaits[c] = a /\ state[c] = "waiting"}

\* The attempt that a began is over; `pending` is reset whichever it names.
Over(a) ==
    /\ attempt' = [attempt EXCEPT ![a] = "none"]
    /\ pending' = [pending EXCEPT ![By(a)] = NoCall]

\* It ends with an id, which all that share it get.
Resolve(a, id) ==
    /\ Over(a)
    /\ cachedId' = [cachedId EXCEPT ![By(a)] = id]
    /\ state' = [c \in Calls |-> IF c \in Waiting(a) THEN "answered" ELSE state[c]]
    /\ asked' = [c \in Calls |-> IF c \in Waiting(a) THEN [by |-> By(c), id |-> id] ELSE asked[c]]

MkdirDone(a) ==
    /\ attempt[a] = "mkdir"
    /\ attempt' = [attempt EXCEPT ![a] = "read"]
    /\ UNCHANGED <<multi, file, staged, drawn, life, pid, pending, draft, name, awaits,
                   cachedId, asked, state, shown, blind, failures>>

\* Fault: the name carries no process id.
StagingNameUnowned(p, salt) == <<CHOOSE i \in Pids : TRUE, salt>>

\* `device-identity.json.<pid>.<random>.tmp`; the random part may repeat.
StagingName(p, salt) == <<pid[p], salt>>

\* generateDigits and the name to stage under, after a read that gave no identity.
Generate(a) ==
    /\ \E id \in Ids \ drawn :
          /\ drawn' = drawn \cup {id}
          /\ draft' = [draft EXCEPT ![a] = id]
    /\ \E salt \in Salts : name' = [name EXCEPT ![a] = StagingName(By(a), salt)]
    /\ attempt' = [attempt EXCEPT ![a] = "write"]
    /\ UNCHANGED <<multi, file, staged, life, pid, pending, awaits, cachedId, asked, state, shown>>

\* readStored: a missing file and one that does not parse are alike.
ReadDone(a) ==
    /\ attempt[a] = "read"
    /\ \/ /\ file # NoId /\ Resolve(a, file)
          /\ UNCHANGED <<multi, file, staged, drawn, life, pid, draft, name, awaits, shown>>
       \/ file = NoId /\ Generate(a)
    /\ UNCHANGED <<blind, failures>>

OneFailure == failures < MaxFailures /\ failures' = failures + 1

\* So is one that cannot be read at the moment.
ReadFails(a) ==
    /\ attempt[a] = "read"
    /\ OneFailure
    /\ Generate(a)
    /\ blind' = IF file = NoId THEN blind ELSE blind \cup {By(a)}

\* Fault: the id is resolved before the file is in place.
WriteResolves(a) ==
    /\ attempt[a] = "write"
    /\ staged' = [staged EXCEPT ![name[a]] = draft[a]]
    /\ Resolve(a, draft[a])
    /\ UNCHANGED <<multi, file, drawn, life, pid, draft, name, awaits, shown, blind, failures>>

\* writeFile: a file of that name, a leftover of a crash perhaps, is overwritten.
WriteDone(a) ==
    /\ attempt[a] = "write"
    /\ staged' = [staged EXCEPT ![name[a]] = draft[a]]
    /\ attempt' = [attempt EXCEPT ![a] = "rename"]
    /\ UNCHANGED <<multi, file, drawn, life, pid, pending, draft, name, awaits, cachedId, asked,
                   state, shown, blind, failures>>

\* Whatever is under the name by now becomes the identity file; the answer is
\* what the attempt has generated.
RenameDone(a) ==
    /\ attempt[a] = "rename" /\ staged[name[a]] # NoId
    /\ file' = staged[name[a]]
    /\ staged' = [staged EXCEPT ![name[a]] = NoId]
    /\ Resolve(a, draft[a])
    /\ UNCHANGED <<multi, drawn, life, pid, draft, name, awaits, shown, blind, failures>>

\* ENOENT: nothing is under the name any more.
StagedIsGone(a) == attempt[a] = "rename" /\ staged[name[a]] = NoId

\* Fault: a failed attempt stays the pending one.
AttemptFailsPending(a) ==
    /\ attempt[a] \in {"mkdir", "write", "rename"}
    /\ IF StagedIsGone(a) THEN UNCHANGED failures ELSE OneFailure
    /\ attempt' = [attempt EXCEPT ![a] = "rejected"]
    /\ state' = [c \in Calls |-> IF c \in Waiting(a) THEN "failed" ELSE state[c]]
    /\ UNCHANGED <<multi, file, staged, drawn, life, pid, pending, draft, name, awaits, cachedId,
                   asked, shown, blind>>

\* Fault: the error is swallowed.
AttemptFailsUntold(a) ==
    /\ attempt[a] \in {"mkdir", "write", "rename"}
    /\ IF StagedIsGone(a) THEN UNCHANGED failures ELSE OneFailure
    /\ Over(a)
    /\ UNCHANGED <<multi, file, staged, drawn, life, pid, draft, name, awaits, cachedId, asked,
                   state, shown, blind>>

\* The error of an attempt reaches all that share it; the next call tries anew.
AttemptFails(a) ==
    /\ attempt[a] \in {"mkdir", "write", "rename"}
    /\ IF StagedIsGone(a) THEN UNCHANGED failures ELSE OneFailure
    /\ Over(a)
    /\ state' = [c \in Calls |-> IF c \in Waiting(a) THEN "failed" ELSE state[c]]
    /\ UNCHANGED <<multi, file, staged, drawn, life, pid, draft, name, awaits, cachedId, asked,
                   shown, blind>>

-----------------------------------------------------------------------------
\* boot: the answer goes to the device store unless the effect was cancelled.
Boots(c) ==
    LET p == By(c)
    IN  /\ state[c] = "answered" /\ life[p] = "up"
        /\ shown' = [shown EXCEPT ![p] = asked[c].id]
        /\ UNCHANGED <<multi, file, staged, drawn, life, pid, attemptVars, cachedId, asked,
                       state, blind, failures>>

Disk(a) ==
    \/ MkdirDone(a) \/ ReadDone(a) \/ ReadFails(a)
    \/ WriteDone(a) \/ RenameDone(a) \/ AttemptFails(a)

Next ==
    \/ \E p \in Processes : Launch(p) \/ Exit(p)
    \/ \E p \in Processes, c \in Calls : GetDeviceId(p, c)
    \/ \E a \in Calls : Disk(a)
    \/ \E c \in Calls : Boots(c)

\* Every file operation ends, one way or the other.
Fairness == \A a \in Calls : WF_vars(Disk(a))

Spec == Init /\ [][Next]_vars
FairSpec == Spec /\ Fairness

-----------------------------------------------------------------------------
(* Properties *)

\* "concurrent writers (or a second process) can never steal each other's
\* staged file before rename()": an attempt that is about to rename finds under
\* its name the id it generated, whoever else stages and renames meanwhile and
\* whatever crashed processes left under names that are given again.
StagedIsMine ==
    \A a \in Calls : attempt[a] = "rename" => staged[name[a]] = draft[a] /\ draft[a] # NoId

\* All calls to one process get the same id, the shown one included, although
\* failed attempts are repeated and another process may replace the file.
OneIdPerRun ==
    \A p \in Processes :
        /\ \A c \in Calls :
              By(c) = p /\ state[c] = "answered" =>
                  asked[c].id = cachedId[p] /\ cachedId[p] # NoId
        /\ shown[p] \in {NoId, cachedId[p]}

\* An identity, once in the file, is there for ever, through crashes and failed
\* attempts: it is replaced only by a process that could not read it or, with
\* several instances on one profile, by one that read before it was written.
IdentityLasts ==
    [][file # NoId /\ file' # file => multi \/ blind # {}]_vars

\* Under the same conditions the id in use is the one on the disk: a restart
\* keeps it.
UsedIsStored ==
    multi \/ blind # {} \/
    \A p \in Processes : cachedId[p] # NoId => file = cachedId[p]

\* Every call is answered, with an id or an error, unless its process ends.
CallsSettle == \A c \in Calls : state[c] = "waiting" ~> state[c] # "waiting"
=============================================================================
