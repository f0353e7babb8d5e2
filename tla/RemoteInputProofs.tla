-------------------------- MODULE RemoteInputProofs --------------------------
(***************************************************************************)
(* Theorems about remote control, for every number of keys, points, events *)
(* and failures: the types, and the inductive invariant that ties what the *)
(* client holds and sent to what the host has played and will play.        *)
(***************************************************************************)
EXTENDS MCRemoteInput, FiniteSetTheorems, SequenceTheorems, TLAPS

-----------------------------------------------------------------------------
(* The inductive invariant, over a queue q of frames not played yet.  The    *)
(* properties of RemoteInput speak of the last frame of a kind; here no      *)
(* later frame undoes what an earlier one does.                              *)

\* Playing q leaves the key c down.
ComesDown(q, dn, t, c) ==
    /\ CanHold(t, c)
    /\ \/ \E i \in DOMAIN q :
             q[i] = KeyDown(c) /\ \A j \in DOMAIN q : j > i => q[j] # KeyUp(c)
       \/ c \in dn /\ \A j \in DOMAIN q : q[j] # KeyUp(c)

\* Playing q leaves the button down.
StaysPressed(q, pr) ==
    \/ \E i \in DOMAIN q :
          q[i].op = "press" /\ \A j \in DOMAIN q : j > i => q[j].op # "release"
    \/ pr /\ \A j \in DOMAIN q : q[j].op # "release"

\* No frame between lo and hi moves a cursor that is at p, whatever the tool.
Stays(q, lo, hi, p) ==
    \A k \in DOMAIN q : lo < k /\ k < hi =>
        /\ q[k].op # "move"
        /\ q[k].op \in {"press", "release"} => q[k].what = p

\* The cursor is at p when the frame hi of q is played.
At(q, cur, hi, p) ==
    \/ cur = p /\ Stays(q, 0, hi, p)
    \/ \E j \in DOMAIN q : j < hi /\ q[j] = Move(p) /\ Stays(q, j, hi, p)

KeysInv(q, dn, t, h) ==
    /\ \A c \in dn : CanHold(t, c)
    /\ \A c \in Codes : ComesDown(q, dn, t, c) => c \in h

ButtonInv(q, pr, g) == StaysPressed(q, pr) => g

\* The last point the user moved to is the one that the cursor goes to last.
LatestInv(q, cur, p) == At(q, cur, Len(q) + 1, p)

\* A press meets the cursor at its point, unless that is one of a.
AimInv(q, cur, a) ==
    \A i \in DOMAIN q :
        q[i].op = "press" /\ q[i].what \notin a => At(q, cur, i, q[i].what)

TimerInv == timerSet => pendingMove = pointer /\ pointer # NoPoint

KeysPart == KeysInv(Ahead, down, tool, held \cup lost)
ButtonPart == ButtonInv(Ahead, pressed, grip \/ Button \in lost)
\* The move to the pointer was not lost.
PointerSure == pointer # NoPoint /\ (~moveLost \/ pointer \notin aimless)

CursorPart ==
    /\ PointerSure => timerSet \/ LatestInv(Ahead, cursor, pointer)
    /\ AimInv(Ahead, cursor, aimless)

InputInv ==
    /\ TypeOK /\ IsFiniteSet(held)
    /\ TimerInv /\ KeysPart /\ ButtonPart /\ CursorPart

LEMMA InvImplies ==
    ASSUME InputInv
    PROVE  DownIsHeldOrLost /\ LatestMoveKept /\ PressLandsWhereAimed
<1>1. ASSUME NEW c \in Codes, WillBeDown(c) PROVE ComesDown(Ahead, down, tool, c)
  <2>1. KeyUp(c).what = c
    BY DEF KeyUp
  <2>. QED BY <1>1, <2>1 DEF WillBeDown, ComesDown, InputInv, KeysPart, KeysInv
<1>2. WillBePressed => StaysPressed(Ahead, pressed)
  BY DEF WillBePressed, StaysPressed
<1>3. DownIsHeldOrLost
  BY <1>1, <1>2 DEF DownIsHeldOrLost, InputInv, KeysPart, KeysInv, ButtonPart, ButtonInv
<1>4. Ahead \in Seq(Frame)
  BY DEF InputInv, TypeOK, Ahead
<1>5. LatestMoveKept
  BY <1>4 DEF LatestMoveKept, InputInv, TimerInv, CursorPart, PointerSure, LatestInv, At, Stays
<1>6. PressLandsWhereAimed
  <2>1. SUFFICES ASSUME NEW i \in DOMAIN Ahead, Ahead[i].op = "press",
                        Ahead[i].what \notin aimless
                 PROVE  \/ /\ cursor = Ahead[i].what
                           /\ \A j \in 1..(i - 1) : Ahead[j].op # "move"
                        \/ \E j \in 1..(i - 1) :
                              /\ Ahead[j] = Move(Ahead[i].what)
                              /\ \A k \in (j + 1)..(i - 1) : Ahead[k].op # "move"
    BY DEF PressLandsWhereAimed
  <2>2. At(Ahead, cursor, i, Ahead[i].what)
    BY <2>1 DEF InputInv, CursorPart, AimInv
  <2>. QED BY <1>4, <2>2 DEF At, Stays
<1>. QED BY <1>3, <1>5, <1>6

-----------------------------------------------------------------------------
(* A queue that loses frames: q2 is q without some of them, f says where.    *)

Thinned(q, q2, f) ==
    /\ f \in [1..(Len(q2) + 1) -> 1..(Len(q) + 1)]
    /\ \A i, j \in 1..(Len(q2) + 1) : i < j => f[i] < f[j]
    /\ f[Len(q2) + 1] = Len(q) + 1
    /\ \A i \in 1..Len(q2) : q2[i] = q[f[i]]

Kept(q2, f, k) == \E i \in 1..Len(q2) : f[i] = k

LEMMA ThinnedOrder ==
    ASSUME NEW q \in Seq(Frame), NEW q2 \in Seq(Frame), NEW f, Thinned(q, q2, f),
           NEW i \in 1..(Len(q2) + 1), NEW k \in 1..(Len(q2) + 1)
    PROVE  /\ f[i] \in 1..(Len(q) + 1)
           /\ i < k <=> f[i] < f[k]
           /\ i <= Len(q2) => f[i] \in 1..Len(q) /\ q2[i] = q[f[i]]
<1>1. /\ f[i] \in 1..(Len(q) + 1) /\ f[k] \in 1..(Len(q) + 1)
      /\ i < k => f[i] < f[k]
      /\ k < i => f[k] < f[i]
  BY DEF Thinned
<1>2. i < k <=> f[i] < f[k]
  BY <1>1
<1>3. i <= Len(q2) => f[i] < Len(q) + 1 /\ q2[i] = q[f[i]]
  BY DEF Thinned
<1>. QED BY <1>1, <1>2, <1>3

LEMMA StaysThinned ==
    ASSUME NEW q \in Seq(Frame), NEW q2 \in Seq(Frame), NEW f, Thinned(q, q2, f),
           NEW lo \in Nat, NEW j \in 0..Len(q2), IF j = 0 THEN lo = 0 ELSE f[j] = lo,
           NEW i \in 1..(Len(q2) + 1), NEW p, Stays(q, lo, f[i], p)
    PROVE  Stays(q2, j, i, p)
<1>. SUFFICES ASSUME NEW k \in 1..Len(q2), j < k, k < i
              PROVE  /\ q2[k].op # "move"
                     /\ q2[k].op \in {"press", "release"} => q2[k].what = p
  BY DEF Stays
<1>1. f[k] \in 1..Len(q) /\ q2[k] = q[f[k]] /\ f[k] < f[i]
  BY ThinnedOrder
<1>2. lo < f[k]
  BY <1>1, ThinnedOrder
<1>. QED BY <1>1, <1>2 DEF Stays

LEMMA AtThinned ==
    ASSUME NEW q \in Seq(Frame), NEW q2 \in Seq(Frame), NEW f, Thinned(q, q2, f),
           NEW p, \A k \in 1..Len(q) : q[k] = Move(p) => Kept(q2, f, k),
           NEW cur, NEW i \in 1..(Len(q2) + 1), At(q, cur, f[i], p)
    PROVE  At(q2, cur, i, p)
<1>1. CASE cur = p /\ Stays(q, 0, f[i], p)
  <2>1. Stays(q2, 0, i, p)
    BY <1>1, StaysThinned
  <2>. QED BY <1>1, <2>1 DEF At
<1>2. ASSUME NEW j \in 1..Len(q), j < f[i], q[j] = Move(p), Stays(q, j, f[i], p)
      PROVE  At(q2, cur, i, p)
  <2>1. PICK k \in 1..Len(q2) : f[k] = j
    BY <1>2 DEF Kept
  <2>2. k < i /\ q2[k] = Move(p)
    BY <1>2, <2>1, ThinnedOrder
  <2>3. Stays(q2, k, i, p)
    BY <1>2, <2>1, StaysThinned
  <2>. QED BY <2>2, <2>3 DEF At
<1>. QED BY <1>1, <1>2 DEF At

LEMMA KeysThinned ==
    ASSUME NEW q \in Seq(Frame), NEW q2 \in Seq(Frame), NEW f, Thinned(q, q2, f),
           NEW dn, NEW t, NEW h, NEW h2, h \subseteq h2, KeysInv(q, dn, t, h),
           \A k \in 1..Len(q) : \A c \in Codes :
              q[k] = KeyUp(c) /\ CanHold(t, c) => Kept(q2, f, k) \/ c \in h2
    PROVE  KeysInv(q2, dn, t, h2)
<1>. SUFFICES ASSUME NEW c \in Codes, ComesDown(q2, dn, t, c), c \notin h2
              PROVE  FALSE
  BY DEF KeysInv
<1>1. CanHold(t, c)
  BY DEF ComesDown
<1>2. ASSUME NEW i \in 0..Len(q2), \A j \in 1..Len(q2) : j > i => q2[j] # KeyUp(c),
             NEW k \in 1..Len(q), k > (IF i = 0 THEN 0 ELSE f[i]), q[k] = KeyUp(c)
      PROVE  FALSE
  <2>1. PICK j \in 1..Len(q2) : f[j] = k
    BY <1>1, <1>2 DEF Kept
  <2>2. q2[j] = KeyUp(c)
    BY <1>2, <2>1, ThinnedOrder
  <2>3. j > i
    BY <1>2, <2>1, ThinnedOrder
  <2>. QED BY <1>2, <2>2, <2>3
<1>3. ASSUME NEW i \in 1..Len(q2), q2[i] = KeyDown(c),
             \A j \in 1..Len(q2) : j > i => q2[j] # KeyUp(c)
      PROVE  FALSE
  <2>1. f[i] \in 1..Len(q) /\ q[f[i]] = KeyDown(c)
    BY <1>3, ThinnedOrder
  <2>2. \A k \in 1..Len(q) : k > f[i] => q[k] # KeyUp(c)
    BY <1>2, <1>3
  <2>3. ComesDown(q, dn, t, c)
    BY <1>1, <2>1, <2>2 DEF ComesDown
  <2>. QED BY <2>3 DEF KeysInv
<1>4. ASSUME c \in dn, \A j \in 1..Len(q2) : q2[j] # KeyUp(c)
      PROVE  FALSE
  <2>1. \A k \in 1..Len(q) : q[k] # KeyUp(c)
    BY <1>2, <1>4
  <2>2. ComesDown(q, dn, t, c)
    BY <1>1, <1>4, <2>1 DEF ComesDown
  <2>. QED BY <2>2 DEF KeysInv
<1>. QED BY <1>3, <1>4 DEF ComesDown

LEMMA ButtonThinned ==
    ASSUME NEW q \in Seq(Frame), NEW q2 \in Seq(Frame), NEW f, Thinned(q, q2, f),
           NEW pr, NEW g, NEW g2, g => g2, ButtonInv(q, pr, g),
           \A k \in 1..Len(q) : q[k].op = "release" => Kept(q2, f, k) \/ g2
    PROVE  ButtonInv(q2, pr, g2)
<1>. SUFFICES ASSUME StaysPressed(q2, pr), ~g2
              PROVE  FALSE
  BY DEF ButtonInv
<1>1. ASSUME NEW i \in 0..Len(q2), \A j \in 1..Len(q2) : j > i => q2[j].op # "release",
             NEW k \in 1..Len(q), k > (IF i = 0 THEN 0 ELSE f[i]), q[k].op = "release"
      PROVE  FALSE
  <2>1. PICK j \in 1..Len(q2) : f[j] = k
    BY <1>1 DEF Kept
  <2>2. q2[j].op = "release"
    BY <1>1, <2>1, ThinnedOrder
  <2>3. j > i
    BY <1>1, <2>1, ThinnedOrder
  <2>. QED BY <1>1, <2>2, <2>3
<1>2. ASSUME NEW i \in 1..Len(q2), q2[i].op = "press",
             \A j \in 1..Len(q2) : j > i => q2[j].op # "release"
      PROVE  FALSE
  <2>1. f[i] \in 1..Len(q) /\ q[f[i]].op = "press"
    BY <1>2, ThinnedOrder
  <2>2. \A k \in 1..Len(q) : k > f[i] => q[k].op # "release"
    BY <1>1, <1>2
  <2>3. StaysPressed(q, pr)
    BY <2>1, <2>2 DEF StaysPressed
  <2>. QED BY <2>3 DEF ButtonInv
<1>3. ASSUME pr, \A j \in 1..Len(q2) : q2[j].op # "release"
      PROVE  FALSE
  <2>1. \A k \in 1..Len(q) : q[k].op # "release"
    BY <1>1, <1>3
  <2>2. StaysPressed(q, pr)
    BY <1>3, <2>1 DEF StaysPressed
  <2>. QED BY <2>2 DEF ButtonInv
<1>. QED BY <1>2, <1>3 DEF StaysPressed

LEMMA CursorThinned ==
    ASSUME NEW q \in Seq(Frame), NEW q2 \in Seq(Frame), NEW f, Thinned(q, q2, f),
           NEW a, NEW a2, a \subseteq a2,
           \A p : p \notin a2 => \A k \in 1..Len(q) : q[k] = Move(p) => Kept(q2, f, k),
           NEW cur
    PROVE  /\ \A p : p \notin a2 /\ LatestInv(q, cur, p) => LatestInv(q2, cur, p)
           /\ AimInv(q, cur, a) => AimInv(q2, cur, a2)
<1>1. ASSUME NEW p, p \notin a2, LatestInv(q, cur, p) PROVE LatestInv(q2, cur, p)
  <2>1. Len(q2) + 1 \in 1..(Len(q2) + 1) /\ f[Len(q2) + 1] = Len(q) + 1
    BY DEF Thinned
  <2>2. At(q, cur, f[Len(q2) + 1], p)
    BY <1>1, <2>1 DEF LatestInv
  <2>3. \A k \in 1..Len(q) : q[k] = Move(p) => Kept(q2, f, k)
    BY <1>1
  <2>4. At(q2, cur, Len(q2) + 1, p)
    BY <2>1, <2>2, <2>3, AtThinned
  <2>. QED BY <2>4 DEF LatestInv
<1>2. ASSUME AimInv(q, cur, a), NEW i \in 1..Len(q2), q2[i].op = "press", q2[i].what \notin a2
      PROVE  At(q2, cur, i, q2[i].what)
  <2>1. f[i] \in 1..Len(q) /\ q2[i] = q[f[i]]
    BY ThinnedOrder
  <2>2. PICK p : p = q2[i].what
    OBVIOUS
  <2>3. At(q, cur, f[i], p)
    BY <1>2, <2>1, <2>2 DEF AimInv
  <2>4. \A k \in 1..Len(q) : q[k] = Move(p) => Kept(q2, f, k)
    BY <1>2, <2>2
  <2>. QED BY <2>2, <2>3, <2>4, AtThinned
<1>. QED BY <1>1, <1>2 DEF AimInv

\* One frame is lost.
LEMMA OneLost ==
    ASSUME NEW q \in Seq(Frame), NEW q2 \in Seq(Frame), NEW n \in 1..Len(q),
           Len(q2) = Len(q) - 1,
           \A i \in 1..Len(q2) : q2[i] = IF i < n THEN q[i] ELSE q[i + 1]
    PROVE  \E f : Thinned(q, q2, f) /\ \A k \in 1..Len(q) : k # n => Kept(q2, f, k)
<1>1. PICK f : f = [i \in 1..(Len(q2) + 1) |-> IF i < n THEN i ELSE i + 1]
  OBVIOUS
<1>2. Thinned(q, q2, f)
  <2>1. PICK m \in Nat : m = Len(q2)
    OBVIOUS
  <2>2. Len(q) = m + 1 /\ n \in 1..(m + 1)
    BY <2>1
  <2>3. \A i \in 1..(m + 1) : f[i] = IF i < n THEN i ELSE i + 1
    BY <1>1, <2>1
  <2>4. f \in [1..(m + 1) -> 1..(m + 2)]
    <3>1. \A i \in 1..(m + 1) : (IF i < n THEN i ELSE i + 1) \in 1..(m + 2)
      BY <2>2
    <3>. QED BY <1>1, <2>1, <3>1
  <2>5. \A i, j \in 1..(m + 1) : i < j => f[i] < f[j]
    BY <2>2, <2>3
  <2>6. f[m + 1] = m + 2
    BY <2>2, <2>3
  <2>7. \A i \in 1..m : q2[i] = q[f[i]]
    BY <2>1, <2>2, <2>3
  <2>. QED BY <2>1, <2>2, <2>4, <2>5, <2>6, <2>7 DEF Thinned
<1>3. ASSUME NEW k \in 1..Len(q), k # n PROVE Kept(q2, f, k)
  <2>1. CASE k < n
    <3>1. k \in 1..Len(q2) /\ f[k] = k
      BY <1>1, <2>1
    <3>. QED BY <3>1 DEF Kept
  <2>2. CASE k > n
    <3>1. k - 1 \in 1..Len(q2) /\ f[k - 1] = k
      BY <1>1, <2>2
    <3>. QED BY <3>1 DEF Kept
  <2>. QED BY <1>3, <2>1, <2>2
<1>. QED BY <1>2, <1>3

\* All frames after the first ones are lost.
LEMMA RestLost ==
    ASSUME NEW q2 \in Seq(Frame), NEW r \in Seq(Frame)
    PROVE  \E f : /\ Thinned(q2 \o r, q2, f)
                  /\ \A k \in 1..Len(q2) : Kept(q2, f, k)
<1>1. PICK q : q = q2 \o r
  OBVIOUS
<1>2. PICK f : f = [i \in 1..(Len(q2) + 1) |-> IF i = Len(q2) + 1 THEN Len(q) + 1 ELSE i]
  OBVIOUS
<1>3. Len(q) = Len(q2) + Len(r) /\ \A i \in 1..Len(q2) : q2[i] = q[i]
  BY <1>1
<1>4. Thinned(q, q2, f)
  <2>1. PICK m \in Nat, l \in Nat : m = Len(q2) /\ l = Len(r)
    OBVIOUS
  <2>2. Len(q) = m + l
    BY <1>3, <2>1
  <2>3. \A i \in 1..(m + 1) : f[i] = IF i = m + 1 THEN m + l + 1 ELSE i
    BY <1>2, <2>1, <2>2
  <2>4. f \in [1..(m + 1) -> 1..(m + l + 1)]
    <3>1. \A i \in 1..(m + 1) : (IF i = m + 1 THEN m + l + 1 ELSE i) \in 1..(m + l + 1)
      OBVIOUS
    <3>. QED BY <1>2, <2>1, <2>2, <3>1
  <2>5. \A i, j \in 1..(m + 1) : i < j => f[i] < f[j]
    BY <2>3
  <2>6. f[m + 1] = m + l + 1
    BY <2>3
  <2>7. \A i \in 1..m : q2[i] = q[f[i]]
    BY <1>3, <2>1, <2>3
  <2>. QED BY <2>1, <2>2, <2>4, <2>5, <2>6, <2>7 DEF Thinned
<1>5. \A k \in 1..Len(q2) : f[k] = k
  BY <1>2
<1>. QED BY <1>1, <1>4, <1>5 DEF Kept

-----------------------------------------------------------------------------
(* A queue whose oldest frame is played                                      *)

LEMMA TailFacts ==
    ASSUME NEW q \in Seq(Frame), q # <<>>
    PROVE  /\ Tail(q) \in Seq(Frame) /\ Len(Tail(q)) = Len(q) - 1 /\ Len(q) >= 1
           /\ \A i \in 1..Len(Tail(q)) : Tail(q)[i] = q[i + 1] /\ i + 1 \in 1..Len(q)
           /\ Head(q) = q[1] /\ Head(q) \in Frame /\ 1 \in 1..Len(q)
           /\ \A i \in 1..Len(q) : i # 1 => i - 1 \in 1..Len(Tail(q)) /\ Tail(q)[i - 1] = q[i]
OBVIOUS

LEMMA KeysPlayed ==
    ASSUME NEW q \in Seq(Frame), q # <<>>, NEW dn, NEW t, NEW h, KeysInv(q, dn, t, h)
    PROVE  KeysInv(Tail(q), DownAfter(t, Head(q), dn), t, h)
<1>1. PICK q2 \in Seq(Frame) : q2 = Tail(q)
  BY TailFacts
<1>2. PICK e \in Frame : e = Head(q)
  BY TailFacts
<1>3. /\ Len(q2) = Len(q) - 1 /\ 1 \in 1..Len(q) /\ q[1] = e
      /\ \A i \in 1..Len(q2) : q2[i] = q[i + 1] /\ i + 1 \in 1..Len(q)
      /\ \A i \in 1..Len(q) : i # 1 => i - 1 \in 1..Len(q2) /\ q2[i - 1] = q[i]
  BY <1>1, <1>2, TailFacts
<1>4. PICK dn2 : dn2 = DownAfter(t, e, dn)
  OBVIOUS
<1>5. /\ \A c \in dn2 : CanHold(t, c)
      /\ \A c \in dn2 : c \in dn \/ (e.op = "keydown" /\ e.what = c)
      /\ \A c \in dn2 : ~(e.op = "keyup" /\ e.what = c)
  BY <1>4 DEF DownAfter, KeysInv
<1>6. ASSUME NEW c \in Codes, ComesDown(q2, dn2, t, c)
      PROVE  ComesDown(q, dn, t, c)
  <2>1. CanHold(t, c)
    BY <1>6 DEF ComesDown
  <2>2. ASSUME NEW i \in 1..Len(q2), q2[i] = KeyDown(c),
               \A j \in 1..Len(q2) : j > i => q2[j] # KeyUp(c)
        PROVE  ComesDown(q, dn, t, c)
    <3>1. i + 1 \in 1..Len(q) /\ q[i + 1] = KeyDown(c)
      BY <1>3, <2>2
    <3>2. ASSUME NEW j \in 1..Len(q), j > i + 1 PROVE q[j] # KeyUp(c)
      <4>1. j - 1 \in 1..Len(q2) /\ q2[j - 1] = q[j] /\ j - 1 > i
        BY <1>3, <3>2
      <4>. QED BY <2>2, <4>1
    <3>. QED BY <2>1, <3>1, <3>2 DEF ComesDown
  <2>3. ASSUME c \in dn2, \A j \in 1..Len(q2) : q2[j] # KeyUp(c)
        PROVE  ComesDown(q, dn, t, c)
    <3>1. \A j \in 1..Len(q) : j > 1 => q[j] # KeyUp(c)
      BY <1>3, <2>3
    <3>2. CASE e.op = "keydown" /\ e.what = c
      <4>1. e = KeyDown(c)
        BY <3>2 DEF KeyDown, Frame, KeyFrame, PointFrame
      <4>. QED BY <1>3, <2>1, <3>1, <4>1 DEF ComesDown
    <3>3. CASE c \in dn
      <4>1. q[1] # KeyUp(c)
        BY <1>3, <1>5, <2>3 DEF KeyUp
      <4>2. \A j \in 1..Len(q) : q[j] # KeyUp(c)
        BY <3>1, <4>1
      <4>. QED BY <2>1, <3>3, <4>2 DEF ComesDown
    <3>. QED BY <1>5, <2>3, <3>2, <3>3
  <2>. QED BY <1>6, <2>2, <2>3 DEF ComesDown
<1>. QED BY <1>1, <1>2, <1>4, <1>5, <1>6 DEF KeysInv

LEMMA ButtonPlayed ==
    ASSUME NEW q \in Seq(Frame), q # <<>>, NEW pr, NEW g, ButtonInv(q, pr, g)
    PROVE  ButtonInv(Tail(q), PressedAfter(Head(q), pr), g)
<1>1. PICK q2 \in Seq(Frame) : q2 = Tail(q)
  BY TailFacts
<1>2. PICK e \in Frame : e = Head(q)
  BY TailFacts
<1>3. /\ Len(q2) = Len(q) - 1 /\ 1 \in 1..Len(q) /\ q[1] = e
      /\ \A i \in 1..Len(q2) : q2[i] = q[i + 1] /\ i + 1 \in 1..Len(q)
      /\ \A i \in 1..Len(q) : i # 1 => i - 1 \in 1..Len(q2) /\ q2[i - 1] = q[i]
  BY <1>1, <1>2, TailFacts
<1>4. ASSUME NEW i \in 1..Len(q2), q2[i].op = "press",
             \A j \in 1..Len(q2) : j > i => q2[j].op # "release"
      PROVE  StaysPressed(q, pr)
  <2>1. i + 1 \in 1..Len(q) /\ q[i + 1].op = "press"
    BY <1>3, <1>4
  <2>2. ASSUME NEW j \in 1..Len(q), j > i + 1 PROVE q[j].op # "release"
    <3>1. j - 1 \in 1..Len(q2) /\ q2[j - 1] = q[j] /\ j - 1 > i
      BY <1>3, <2>2
    <3>. QED BY <1>4, <3>1
  <2>. QED BY <2>1, <2>2 DEF StaysPressed
<1>5. ASSUME PressedAfter(e, pr), \A j \in 1..Len(q2) : q2[j].op # "release"
      PROVE  StaysPressed(q, pr)
  <2>1. \A j \in 1..Len(q) : j > 1 => q[j].op # "release"
    BY <1>3, <1>5
  <2>2. CASE e.op = "press"
    BY <1>3, <2>1, <2>2 DEF StaysPressed
  <2>3. CASE pr /\ e.op # "release"
    <3>1. \A j \in 1..Len(q) : q[j].op # "release"
      BY <1>3, <2>1, <2>3
    <3>. QED BY <2>3, <3>1 DEF StaysPressed
  <2>. QED BY <1>5, <2>2, <2>3 DEF PressedAfter
<1>6. StaysPressed(q2, PressedAfter(e, pr)) => StaysPressed(q, pr)
  BY <1>4, <1>5 DEF StaysPressed
<1>. QED BY <1>1, <1>2, <1>6 DEF ButtonInv

LEMMA AtPlayed ==
    ASSUME NEW q \in Seq(Frame), q # <<>>, NEW cur, NEW t, NEW p,
           NEW hi \in 2..(Len(q) + 1), At(q, cur, hi, p)
    PROVE  At(Tail(q), CursorAfter(t, Head(q), cur), hi - 1, p)
<1>1. PICK q2 \in Seq(Frame) : q2 = Tail(q)
  BY TailFacts
<1>2. PICK e \in Frame : e = Head(q)
  BY TailFacts
<1>3. /\ Len(q2) = Len(q) - 1 /\ 1 \in 1..Len(q) /\ q[1] = e
      /\ \A i \in 1..Len(q2) : q2[i] = q[i + 1] /\ i + 1 \in 1..Len(q)
      /\ \A i \in 1..Len(q) : i # 1 => i - 1 \in 1..Len(q2) /\ q2[i - 1] = q[i]
  BY <1>1, <1>2, TailFacts
<1>4. ASSUME NEW lo \in Nat, NEW lo2 \in Nat, lo2 >= lo - 1, Stays(q, lo, hi, p)
      PROVE  Stays(q2, lo2, hi - 1, p)
  <2>. SUFFICES ASSUME NEW k \in 1..Len(q2), lo2 < k, k < hi - 1
                PROVE  /\ q2[k].op # "move"
                       /\ q2[k].op \in {"press", "release"} => q2[k].what = p
    BY DEF Stays
  <2>1. k + 1 \in 1..Len(q) /\ q2[k] = q[k + 1] /\ lo < k + 1 /\ k + 1 < hi
    BY <1>3, <1>4
  <2>. QED BY <1>4, <2>1 DEF Stays
<1>5. CASE cur = p /\ Stays(q, 0, hi, p)
  <2>1. e.op # "move" /\ (e.op \in {"press", "release"} => e.what = p)
    BY <1>3, <1>5 DEF Stays
  <2>2. CursorAfter(t, e, cur) = p
    BY <1>5, <2>1 DEF CursorAfter
  <2>3. Stays(q2, 0, hi - 1, p)
    BY <1>4, <1>5
  <2>. QED BY <1>1, <1>2, <2>2, <2>3 DEF At
<1>6. ASSUME NEW j \in 1..Len(q), j < hi, q[j] = Move(p), Stays(q, j, hi, p)
      PROVE  At(q2, CursorAfter(t, e, cur), hi - 1, p)
  <2>1. CASE j = 1
    <3>1. CursorAfter(t, e, cur) = p
      BY <1>3, <1>6, <2>1 DEF CursorAfter, Move
    <3>2. Stays(q2, 0, hi - 1, p)
      BY <1>4, <1>6, <2>1
    <3>. QED BY <3>1, <3>2 DEF At
  <2>2. CASE j # 1
    <3>1. j - 1 \in 1..Len(q2) /\ q2[j - 1] = Move(p) /\ j - 1 < hi - 1
      BY <1>3, <1>6, <2>2
    <3>2. Stays(q2, j - 1, hi - 1, p)
      BY <1>4, <1>6, <2>2
    <3>. QED BY <3>1, <3>2 DEF At
  <2>. QED BY <2>1, <2>2
<1>. QED BY <1>1, <1>2, <1>5, <1>6 DEF At

LEMMA CursorPlayed ==
    ASSUME NEW q \in Seq(Frame), q # <<>>, NEW cur, NEW t, NEW a
    PROVE  /\ \A p : LatestInv(q, cur, p)
                        => LatestInv(Tail(q), CursorAfter(t, Head(q), cur), p)
           /\ AimInv(q, cur, a) => AimInv(Tail(q), CursorAfter(t, Head(q), cur), a)
<1>1. PICK q2 \in Seq(Frame) : q2 = Tail(q)
  BY TailFacts
<1>2. /\ Len(q2) = Len(q) - 1 /\ Len(q) >= 1
      /\ \A i \in 1..Len(q2) : q2[i] = q[i + 1] /\ i + 1 \in 1..Len(q)
  BY <1>1, TailFacts
<1>3. PICK cur2 : cur2 = CursorAfter(t, Head(q), cur)
  OBVIOUS
<1>4. ASSUME NEW hi \in 2..(Len(q) + 1), NEW p, At(q, cur, hi, p)
      PROVE  At(q2, cur2, hi - 1, p)
  BY <1>1, <1>3, <1>4, AtPlayed
<1>5. ASSUME NEW p, LatestInv(q, cur, p) PROVE LatestInv(q2, cur2, p)
  <2>1. Len(q) + 1 \in 2..(Len(q) + 1) /\ Len(q2) + 1 = (Len(q) + 1) - 1
    BY <1>2
  <2>. QED BY <1>4, <1>5, <2>1 DEF LatestInv
<1>6. ASSUME AimInv(q, cur, a), NEW i \in 1..Len(q2), q2[i].op = "press", q2[i].what \notin a
      PROVE  At(q2, cur2, i, q2[i].what)
  <2>1. i + 1 \in 1..Len(q) /\ i + 1 \in 2..(Len(q) + 1) /\ q2[i] = q[i + 1] /\ (i + 1) - 1 = i
    BY <1>2
  <2>2. At(q, cur, i + 1, q2[i].what)
    BY <1>6, <2>1 DEF AimInv
  <2>. QED BY <1>4, <2>1, <2>2
<1>. QED BY <1>1, <1>3, <1>5, <1>6 DEF AimInv

-----------------------------------------------------------------------------
(* A queue that new frames r join                                            *)

LEMMA JoinFacts ==
    ASSUME NEW q \in Seq(Frame), NEW r \in Seq(Frame)
    PROVE  /\ q \o r \in Seq(Frame) /\ Len(q \o r) = Len(q) + Len(r)
           /\ \A i \in 1..Len(q) : (q \o r)[i] = q[i] /\ i \in 1..Len(q \o r)
           /\ \A i \in 1..Len(r) : (q \o r)[Len(q) + i] = r[i] /\ Len(q) + i \in 1..Len(q \o r)
           /\ \A i \in 1..Len(q \o r) : i \notin 1..Len(q) =>
                 /\ i - Len(q) \in 1..Len(r) /\ i > Len(q)
                 /\ (q \o r)[i] = r[i - Len(q)]
OBVIOUS

LEMMA KeysJoined ==
    ASSUME NEW q \in Seq(Frame), NEW r \in Seq(Frame), NEW dn, NEW t, NEW h, NEW h2,
           KeysInv(q, dn, t, h),
           \A c \in Codes : \A i \in 1..Len(r) : r[i] = KeyDown(c) => c \in h2,
           \A c \in Codes : c \in h => c \in h2 \/ \E i \in 1..Len(r) : r[i] = KeyUp(c)
    PROVE  KeysInv(q \o r, dn, t, h2)
<1>1. PICK s \in Seq(Frame) : s = q \o r
  BY JoinFacts
<1>2. /\ \A i \in 1..Len(q) : s[i] = q[i] /\ i \in 1..Len(s)
      /\ \A i \in 1..Len(r) : s[Len(q) + i] = r[i] /\ Len(q) + i \in 1..Len(s)
      /\ \A i \in 1..Len(s) : i \notin 1..Len(q) =>
            /\ i - Len(q) \in 1..Len(r) /\ i > Len(q)
            /\ s[i] = r[i - Len(q)]
  BY <1>1, JoinFacts
<1>. SUFFICES ASSUME NEW c \in Codes, ComesDown(s, dn, t, c), c \notin h2 PROVE FALSE
  BY <1>1 DEF KeysInv
<1>3. CanHold(t, c)
  BY DEF ComesDown
<1>4. \A i \in 1..Len(r) : r[i] # KeyDown(c)
  OBVIOUS
<1>5. ASSUME NEW i \in 1..Len(s), s[i] = KeyDown(c),
             \A j \in 1..Len(s) : j > i => s[j] # KeyUp(c)
      PROVE  FALSE
  <2>1. i \in 1..Len(q) /\ q[i] = KeyDown(c)
    BY <1>2, <1>4, <1>5
  <2>2. ComesDown(q, dn, t, c)
    BY <1>2, <1>3, <1>5, <2>1 DEF ComesDown
  <2>3. PICK k \in 1..Len(r) : r[k] = KeyUp(c)
    BY <2>2 DEF KeysInv
  <2>4. Len(q) + k > i
    BY <2>1
  <2>. QED BY <1>2, <1>5, <2>3, <2>4
<1>6. ASSUME c \in dn, \A j \in 1..Len(s) : s[j] # KeyUp(c)
      PROVE  FALSE
  <2>1. ComesDown(q, dn, t, c)
    BY <1>2, <1>3, <1>6 DEF ComesDown
  <2>2. PICK k \in 1..Len(r) : r[k] = KeyUp(c)
    BY <2>1 DEF KeysInv
  <2>. QED BY <1>2, <1>6, <2>2
<1>. QED BY <1>5, <1>6 DEF ComesDown

LEMMA ButtonJoined ==
    ASSUME NEW q \in Seq(Frame), NEW r \in Seq(Frame), NEW pr, NEW g, NEW g2,
           ButtonInv(q, pr, g),
           \A i \in 1..Len(r) : r[i].op = "press" => g2,
           g => g2 \/ \E i \in 1..Len(r) : r[i].op = "release"
    PROVE  ButtonInv(q \o r, pr, g2)
<1>1. PICK s \in Seq(Frame) : s = q \o r
  BY JoinFacts
<1>2. /\ \A i \in 1..Len(q) : s[i] = q[i] /\ i \in 1..Len(s)
      /\ \A i \in 1..Len(r) : s[Len(q) + i] = r[i] /\ Len(q) + i \in 1..Len(s)
      /\ \A i \in 1..Len(s) : i \notin 1..Len(q) =>
            /\ i - Len(q) \in 1..Len(r) /\ i > Len(q)
            /\ s[i] = r[i - Len(q)]
  BY <1>1, JoinFacts
<1>. SUFFICES ASSUME StaysPressed(s, pr), ~g2 PROVE FALSE
  BY <1>1 DEF ButtonInv
<1>3. \A i \in 1..Len(r) : r[i].op # "press"
  OBVIOUS
<1>4. ASSUME NEW i \in 1..Len(s), s[i].op = "press",
             \A j \in 1..Len(s) : j > i => s[j].op # "release"
      PROVE  FALSE
  <2>1. i \in 1..Len(q) /\ q[i].op = "press"
    BY <1>2, <1>3, <1>4
  <2>2. StaysPressed(q, pr)
    <3>1. \A j \in 1..Len(q) : j > i => q[j].op # "release"
      BY <1>2, <1>4
    <3>. QED BY <2>1, <3>1 DEF StaysPressed
  <2>3. PICK k \in 1..Len(r) : r[k].op = "release"
    <3>1. g
      BY <2>2, Zenon DEF ButtonInv
    <3>. QED BY <3>1, Zenon
  <2>4. Len(q) + k > i
    BY <2>1
  <2>. QED BY <1>2, <1>4, <2>3, <2>4
<1>5. ASSUME pr, \A j \in 1..Len(s) : s[j].op # "release"
      PROVE  FALSE
  <2>1. StaysPressed(q, pr)
    <3>1. \A j \in 1..Len(q) : q[j].op # "release"
      BY <1>2, <1>5
    <3>. QED BY <1>5, <3>1 DEF StaysPressed
  <2>2. PICK k \in 1..Len(r) : r[k].op = "release"
    <3>1. g
      BY <2>1, Zenon DEF ButtonInv
    <3>. QED BY <3>1, Zenon
  <2>. QED BY <1>2, <1>5, <2>2
<1>. QED BY <1>4, <1>5 DEF StaysPressed

LEMMA AtJoined ==
    ASSUME NEW q \in Seq(Frame), NEW r \in Seq(Frame), NEW cur, NEW p,
           NEW hi \in 1..(Len(q) + 1), At(q, cur, hi, p)
    PROVE  At(q \o r, cur, hi, p)
<1>1. PICK s \in Seq(Frame) : s = q \o r
  BY JoinFacts
<1>2. /\ \A i \in 1..Len(q) : s[i] = q[i] /\ i \in 1..Len(s)
      /\ \A i \in 1..Len(s) : i < hi => i \in 1..Len(q)
  BY <1>1, JoinFacts
<1>3. \A lo \in Nat : Stays(q, lo, hi, p) => Stays(s, lo, hi, p)
  BY <1>2 DEF Stays
<1>4. CASE cur = p /\ Stays(q, 0, hi, p)
  BY <1>1, <1>3, <1>4 DEF At
<1>5. ASSUME NEW j \in 1..Len(q), j < hi, q[j] = Move(p), Stays(q, j, hi, p)
      PROVE  At(s, cur, hi, p)
  <2>1. j \in DOMAIN s /\ s[j] = Move(p) /\ Stays(s, j, hi, p)
    BY <1>2, <1>3, <1>5
  <2>. QED BY <1>5, <2>1 DEF At
<1>. QED BY <1>1, <1>4, <1>5 DEF At

\* New frames that do not move the cursor away from p.
LEMMA LatestJoined ==
    ASSUME NEW q \in Seq(Frame), NEW r \in Seq(Frame), NEW cur, NEW p, LatestInv(q, cur, p),
           \A i \in 1..Len(r) : /\ r[i].op # "move"
                                /\ r[i].op \in {"press", "release"} => r[i].what = p
    PROVE  LatestInv(q \o r, cur, p)
<1>1. PICK s \in Seq(Frame) : s = q \o r
  BY JoinFacts
<1>2. /\ \A i \in 1..Len(q) : s[i] = q[i] /\ i \in 1..Len(s)
      /\ \A i \in 1..Len(s) : i \notin 1..Len(q) =>
            /\ i - Len(q) \in 1..Len(r) /\ i > Len(q)
            /\ s[i] = r[i - Len(q)]
      /\ Len(s) = Len(q) + Len(r)
  BY <1>1, JoinFacts
<1>3. ASSUME NEW lo \in Nat, Stays(q, lo, Len(q) + 1, p)
      PROVE  Stays(s, lo, Len(s) + 1, p)
  <2>. SUFFICES ASSUME NEW k \in 1..Len(s), lo < k
                PROVE  /\ s[k].op # "move"
                       /\ s[k].op \in {"press", "release"} => s[k].what = p
    BY DEF Stays
  <2>1. CASE k \in 1..Len(q)
    BY <1>2, <1>3, <2>1 DEF Stays
  <2>2. CASE k \notin 1..Len(q)
    BY <1>2, <2>2
  <2>. QED BY <2>1, <2>2
<1>4. CASE cur = p /\ Stays(q, 0, Len(q) + 1, p)
  BY <1>1, <1>3, <1>4 DEF LatestInv, At
<1>5. ASSUME NEW j \in 1..Len(q), q[j] = Move(p), Stays(q, j, Len(q) + 1, p)
      PROVE  LatestInv(s, cur, p)
  <2>1. j \in 1..Len(s) /\ j < Len(s) + 1 /\ s[j] = Move(p)
    BY <1>2, <1>5
  <2>2. Stays(s, j, Len(s) + 1, p)
    BY <1>3, <1>5
  <2>. QED BY <2>1, <2>2 DEF LatestInv, At
<1>. QED BY <1>1, <1>4, <1>5 DEF LatestInv, At

LEMMA LatestMoved ==
    ASSUME NEW q \in Seq(Frame), NEW p \in Points, NEW cur
    PROVE  LatestInv(q \o <<Move(p)>>, cur, p)
<1>1. PICK s : s = q \o <<Move(p)>>
  OBVIOUS
<1>2. Len(s) = Len(q) + 1 /\ s[Len(s)] = Move(p) /\ Len(s) \in 1..Len(s) /\ DOMAIN s = 1..Len(s)
  BY <1>1 DEF Move
<1>3. Stays(s, Len(s), Len(s) + 1, p)
  BY <1>2 DEF Stays
<1>. QED BY <1>1, <1>2, <1>3 DEF LatestInv, At

\* A new press is aimed where the cursor goes last, and a point that leaves a
\* has no press waiting.
LEMMA AimJoined ==
    ASSUME NEW q \in Seq(Frame), NEW r \in Seq(Frame), NEW cur, NEW a, NEW a2, AimInv(q, cur, a),
           \A i \in 1..Len(q) : q[i].op = "press" /\ q[i].what \in a => q[i].what \in a2,
           \A i \in 1..Len(r) : r[i].op = "press" /\ r[i].what \notin a2 =>
              i = 1 /\ LatestInv(q, cur, r[i].what)
    PROVE  AimInv(q \o r, cur, a2)
<1>1. PICK s \in Seq(Frame) : s = q \o r
  BY JoinFacts
<1>2. /\ \A i \in 1..Len(q) : s[i] = q[i] /\ i \in 1..(Len(q) + 1)
      /\ \A i \in 1..Len(s) : i \notin 1..Len(q) =>
            /\ i - Len(q) \in 1..Len(r) /\ i > Len(q)
            /\ s[i] = r[i - Len(q)]
  BY <1>1, JoinFacts
<1>. SUFFICES ASSUME NEW i \in 1..Len(s), s[i].op = "press", s[i].what \notin a2
              PROVE  At(s, cur, i, s[i].what)
  BY <1>1 DEF AimInv
<1>3. CASE i \in 1..Len(q)
  <2>1. At(q, cur, i, s[i].what)
    BY <1>2, <1>3 DEF AimInv
  <2>. QED BY <1>1, <1>2, <1>3, <2>1, AtJoined
<1>4. CASE i \notin 1..Len(q)
  <2>1. LatestInv(q, cur, s[i].what) /\ i - Len(q) = 1
    BY <1>2, <1>4
  <2>2. i = Len(q) + 1
    BY <2>1
  <2>3. At(q, cur, i, s[i].what)
    BY <2>1, <2>2 DEF LatestInv
  <2>. QED BY <1>1, <2>2, <2>3, AtJoined
<1>. QED BY <1>3, <1>4

-----------------------------------------------------------------------------
(* Types                                                                     *)

\* TypeOK in two halves: what is captured and on its way, and what it comes to.
FlowTypes ==
    /\ connected \in BOOLEAN /\ stream \in BOOLEAN /\ inputOpen \in BOOLEAN
    /\ capture \in BOOLEAN /\ timerSet \in BOOLEAN /\ cooling \in BOOLEAN
    /\ held \subseteq Codes /\ IsFiniteSet(held)
    /\ pendingMove \in Points \cup {NoPoint}
    /\ pointer \in Points \cup {NoPoint}
    /\ frames \in Seq(Frame)
    /\ ctl \in Seq({"video-tracks-added", "video-tracks-ended"})
    /\ reoffer \in {"none", "offered", "answered"}
    /\ hostUp \in BOOLEAN
    /\ share \in {"none", "sized", "unsized"} /\ tool \in Tools
    /\ jobs \in Seq(Frame)

PlayTypes ==
    /\ down \subseteq Codes /\ pressed \in BOOLEAN
    /\ cursor \in Points \cup {NoPoint}
    /\ grip \in BOOLEAN
    /\ lost \subseteq Codes \cup {Button}
    /\ moveLost \in BOOLEAN /\ aimless \subseteq Points
    /\ events \in 0..MaxEvents /\ shares \in 0..MaxShares /\ failures \in 0..MaxFailures

TypeInv == FlowTypes /\ PlayTypes

LEMMA FrameTypes ==
    /\ \A c \in Codes : KeyDown(c) \in Frame /\ KeyUp(c) \in Frame
    /\ \A p \in Points : Move(p) \in Frame /\ Press(p) \in Frame /\ Release(p) \in Frame
BY DEF KeyDown, KeyUp, Move, Press, Release, Frame, KeyFrame, PointFrame

LEMMA FrameSeqs ==
    /\ \A c \in Codes : <<KeyDown(c)>> \in Seq(Frame) /\ <<KeyUp(c)>> \in Seq(Frame)
    /\ \A p \in Points : /\ <<Move(p)>> \in Seq(Frame)
                         /\ <<Press(p)>> \in Seq(Frame) /\ <<Release(p)>> \in Seq(Frame)
BY FrameTypes

LEMMA NoMoves ==
    ASSUME NEW q, ~HasMove(q)
    PROVE  Moves(q) = {}
BY DEF HasMove, Moves, Move

\* Flushing sends a key-up of every key held, and nothing else.
LEMMA FlushSends ==
    ASSUME IsFiniteSet(held), held \subseteq Codes, FlushHeldKeys
    PROVE  \E r \in Seq(Frame) :
              /\ SendReleases(r)
              /\ \A c \in held : \E i \in 1..Len(r) : r[i] = KeyUp(c)
              /\ \A i \in 1..Len(r) : \E c \in Codes : r[i] = KeyUp(c)
<1>1. PICK order \in [1..Cardinality(held) -> held] :
         /\ Range(order) = held
         /\ SendReleases([i \in DOMAIN order |-> KeyUp(order[i])])
  BY DEF FlushHeldKeys
<1>2. PICK n \in Nat : n = Cardinality(held)
  BY FS_CardinalityType
<1>3. PICK r : r = [i \in DOMAIN order |-> KeyUp(order[i])]
  OBVIOUS
<1>4. order \in [1..n -> held]
  BY <1>1, <1>2
<1>5. \A i \in 1..n : order[i] \in Codes /\ r[i] = KeyUp(order[i])
  BY <1>3, <1>4
<1>6. r \in [1..n -> Frame]
  BY <1>3, <1>4, <1>5, FrameTypes
<1>7. r \in Seq(Frame) /\ Len(r) = n
  BY <1>6
<1>8. \A c \in held : \E i \in 1..n : order[i] = c
  BY <1>1, <1>4 DEF Range
<1>9. SendReleases(r)
  BY <1>1, <1>3
<1>. QED BY <1>5, <1>7, <1>8, <1>9

LEMMA ReleasesType ==
    ASSUME NEW q, frames \in Seq(Frame), q \in Seq(Frame), lost \subseteq Codes \cup {Button},
           moveLost \in BOOLEAN, aimless \subseteq Points
    PROVE  /\ Send(q) => frames' \in Seq(Frame) /\ jobs' = jobs
           /\ Losing(q) => /\ lost' \subseteq Codes \cup {Button}
                           /\ moveLost' \in BOOLEAN /\ aimless' \subseteq Points
           /\ SendReleases(q) => /\ frames' \in Seq(Frame) /\ jobs' = jobs
                                 /\ lost' \subseteq Codes \cup {Button}
                                 /\ moveLost' \in BOOLEAN /\ aimless' \subseteq Points
<1>1. Send(q) => frames' \in Seq(Frame) /\ jobs' = jobs
  BY DEF Send
<1>2. Losing(q) => /\ lost' \subseteq Codes \cup {Button}
                   /\ moveLost' \in BOOLEAN /\ aimless' \subseteq Points
  BY DEF Losing, Releases, HasMove, Moves
<1>. QED BY <1>1, <1>2 DEF SendReleases, lossVars

LEMMA FlushType ==
    ASSUME TypeInv, FlushHeldKeys
    PROVE  /\ frames' \in Seq(Frame) /\ jobs' = jobs
           /\ lost' \subseteq Codes \cup {Button}
           /\ moveLost' \in BOOLEAN /\ aimless' \subseteq Points
           /\ held' = {} /\ IsFiniteSet(held')
<1>1. held' = {} /\ IsFiniteSet({})
  BY FS_EmptySet DEF FlushHeldKeys
<1>2. PICK r \in Seq(Frame) : SendReleases(r)
  BY FlushSends DEF TypeInv, FlowTypes, PlayTypes
<1>. QED BY <1>1, <1>2, ReleasesType DEF TypeInv, FlowTypes, PlayTypes

LEMMA MoveType ==
    ASSUME TypeInv, NEW p \in Points, SendMove(p)
    PROVE  /\ frames' \in Seq(Frame) /\ jobs' = jobs /\ lost' = lost
           /\ moveLost' \in BOOLEAN /\ aimless' \subseteq Points
<1>1. <<Move(p)>> \in Seq(Frame)
  BY FrameTypes
<1>. QED BY <1>1 DEF SendMove, Send, TypeInv, FlowTypes, PlayTypes

LEMMA TypeStep ==
    ASSUME TypeInv, TimerInv, Next
    PROVE  TypeInv'
<1>. USE LimitsAssumption DEF clientVars, heldVars, moveVars, hostVars, osVars,
         lossVars, budgets
<1>0. /\ held \subseteq Codes /\ IsFiniteSet(held) /\ pendingMove \in Points \cup {NoPoint}
      /\ frames \in Seq(Frame) /\ jobs \in Seq(Frame)
      /\ lost \subseteq Codes \cup {Button} /\ moveLost \in BOOLEAN /\ aimless \subseteq Points
  BY DEF TypeInv, FlowTypes, PlayTypes
<1>1. ASSUME NEW c \in Codes, OnKeyDown(c) PROVE TypeInv'
  <2>1. <<KeyDown(c)>> \in Seq(Frame)
    BY FrameTypes
  <2>2. IsFiniteSet(held')
    <3>1. IsFiniteSet(held \cup {c})
      BY <1>0, FS_AddElement
    <3>. QED BY <1>0, <1>1, <3>1 DEF OnKeyDown
  <2>3. FlowTypes'
    BY <1>1, <2>1, <2>2 DEF TypeInv, FlowTypes, OnKeyDown, UserActs, Send
  <2>4. PlayTypes'
    BY <1>1, <2>1, <2>2 DEF TypeInv, PlayTypes, OnKeyDown, UserActs, Send
  <2>. QED BY <2>3, <2>4 DEF TypeInv
<1>2. ASSUME NEW c \in Codes, OnKeyUp(c) PROVE TypeInv'
  <2>1. <<KeyUp(c)>> \in Seq(Frame)
    BY FrameTypes
  <2>2. IsFiniteSet(held')
    BY <1>0, <1>2, FS_Subset DEF OnKeyUp
  <2>3. /\ frames' \in Seq(Frame) /\ jobs' = jobs /\ lost' \subseteq Codes \cup {Button}
        /\ moveLost' \in BOOLEAN /\ aimless' \subseteq Points
    BY <1>2, <2>1, <1>0, ReleasesType DEF OnKeyUp
  <2>4. FlowTypes'
    BY <1>2, <2>2, <2>3 DEF TypeInv, FlowTypes, OnKeyUp, UserActs
  <2>5. PlayTypes'
    BY <1>2, <2>2, <2>3 DEF TypeInv, PlayTypes, OnKeyUp, UserActs
  <2>. QED BY <2>4, <2>5 DEF TypeInv
<1>3. ASSUME NEW p \in Points, OnMouseMove(p) PROVE TypeInv'
  <2>1. p # NoPoint
    BY NamesAssumption
  <2>2. CASE ~cooling
    <3>1. FlowTypes'
      BY <1>3, <2>1, <2>2, MoveType DEF TypeInv, FlowTypes, OnMouseMove, UserActs
    <3>2. PlayTypes'
      BY <1>3, <2>1, <2>2, MoveType DEF TypeInv, PlayTypes, OnMouseMove, UserActs
    <3>. QED BY <3>1, <3>2 DEF TypeInv
  <2>3. CASE cooling
    <3>1. FlowTypes'
      BY <1>3, <2>1, <2>3 DEF TypeInv, FlowTypes, OnMouseMove, UserActs
    <3>2. PlayTypes'
      BY <1>3, <2>1, <2>3 DEF TypeInv, PlayTypes, OnMouseMove, UserActs
    <3>. QED BY <3>1, <3>2 DEF TypeInv
  <2>. QED BY <2>2, <2>3
<1>4. ASSUME NEW p \in Points, OnMouseDown(p) PROVE TypeInv'
  <2>1. <<Press(p)>> \in Seq(Frame)
    BY FrameTypes
  <2>2. FlowTypes'
    BY <1>4, <2>1 DEF TypeInv, FlowTypes, OnMouseDown, UserActs, Send
  <2>3. PlayTypes'
    BY <1>4, <2>1 DEF TypeInv, PlayTypes, OnMouseDown, UserActs, Send
  <2>. QED BY <2>2, <2>3 DEF TypeInv
<1>5. ASSUME NEW p \in Points, OnMouseUp(p) PROVE TypeInv'
  <2>1. <<Release(p)>> \in Seq(Frame)
    BY FrameTypes
  <2>2. /\ frames' \in Seq(Frame) /\ jobs' = jobs /\ lost' \subseteq Codes \cup {Button}
        /\ moveLost' \in BOOLEAN /\ aimless' \subseteq Points
    BY <1>5, <2>1, <1>0, ReleasesType DEF OnMouseUp
  <2>3. FlowTypes'
    BY <1>5, <2>2 DEF TypeInv, FlowTypes, OnMouseUp, UserActs
  <2>4. events' \in 0..MaxEvents /\ shares' = shares /\ failures' = failures
    BY <1>5 DEF TypeInv, PlayTypes, OnMouseUp, UserActs
  <2>5. PlayTypes'
    BY <1>5, <2>2, <2>4 DEF TypeInv, PlayTypes, OnMouseUp
  <2>. QED BY <2>3, <2>5 DEF TypeInv
<1>6. ASSUME OnBlur PROVE TypeInv'
  <2>1. FlushHeldKeys
    BY <1>6 DEF OnBlur
  <2>2. FlowTypes'
    BY <1>6, <2>1, FlushType DEF TypeInv, FlowTypes, OnBlur, UserActs
  <2>3. PlayTypes'
    BY <1>6, <2>1, FlushType DEF TypeInv, PlayTypes, OnBlur, UserActs
  <2>. QED BY <2>2, <2>3 DEF TypeInv
<1>7. ASSUME MouseUpUnseen PROVE TypeInv'
  <2>1. FlowTypes'
    BY <1>7 DEF TypeInv, FlowTypes, MouseUpUnseen
  <2>2. PlayTypes'
    BY <1>7 DEF TypeInv, PlayTypes, MouseUpUnseen
  <2>. QED BY <2>1, <2>2 DEF TypeInv
<1>8. ASSUME ThrottleEnds PROVE TypeInv'
  <2>1. FlowTypes'
    BY <1>8 DEF TypeInv, FlowTypes, ThrottleEnds
  <2>2. PlayTypes'
    BY <1>8 DEF TypeInv, PlayTypes, ThrottleEnds
  <2>. QED BY <2>1, <2>2 DEF TypeInv
<1>9. ASSUME FlushMove PROVE TypeInv'
  <2>1. pendingMove \in Points
    BY <1>0, <1>9, Zenon DEF FlushMove, TimerInv
  <2>2. FlowTypes'
    BY <1>9, <2>1, MoveType DEF TypeInv, FlowTypes, FlushMove
  <2>3. PlayTypes'
    BY <1>9, <2>1, MoveType DEF TypeInv, PlayTypes, FlushMove
  <2>. QED BY <2>2, <2>3 DEF TypeInv
<1>10. ASSUME AttachCapture PROVE TypeInv'
  <2>1. FlowTypes'
    BY <1>10 DEF TypeInv, FlowTypes, AttachCapture
  <2>2. PlayTypes'
    BY <1>10 DEF TypeInv, PlayTypes, AttachCapture
  <2>. QED BY <2>1, <2>2 DEF TypeInv
<1>11. ASSUME DetachCapture PROVE TypeInv'
  <2>1. FlushHeldKeys
    BY <1>11 DEF DetachCapture
  <2>2. FlowTypes'
    BY <1>11, <2>1, FlushType DEF TypeInv, FlowTypes, DetachCapture
  <2>3. PlayTypes'
    BY <1>11, <2>1, FlushType DEF TypeInv, PlayTypes, DetachCapture
  <2>. QED BY <2>2, <2>3 DEF TypeInv
<1>12. ASSUME OnControlMessage PROVE TypeInv'
  <2>1. ctl' \in Seq({"video-tracks-added", "video-tracks-ended"})
    BY <1>12 DEF TypeInv, FlowTypes, OnControlMessage
  <2>2. ASSUME Head(ctl) = "video-tracks-added" PROVE FlowTypes'
    BY <1>12, <2>1, <2>2 DEF TypeInv, FlowTypes, OnControlMessage
  <2>3. ASSUME Head(ctl) # "video-tracks-added" PROVE FlowTypes'
    BY <1>12, <2>1, <2>3 DEF TypeInv, FlowTypes, OnControlMessage
  <2>4. FlowTypes'
    BY <2>2, <2>3
  <2>5. PlayTypes'
    BY <1>12 DEF TypeInv, PlayTypes, OnControlMessage
  <2>. QED BY <2>4, <2>5 DEF TypeInv
<1>13. ASSUME AnswerOffer \/ OnRemoteStream PROVE TypeInv'
  <2>1. FlowTypes'
    BY <1>13 DEF TypeInv, FlowTypes, AnswerOffer, OnRemoteStream
  <2>2. PlayTypes'
    BY <1>13 DEF TypeInv, PlayTypes, AnswerOffer, OnRemoteStream
  <2>. QED BY <2>1, <2>2 DEF TypeInv
<1>14. ASSUME ChannelsClose \/ TeardownSession \/ HostTeardown PROVE TypeInv'
  <2>1. FlowTypes'
    BY <1>14 DEF TypeInv, FlowTypes, ChannelsClose, TeardownSession, HostTeardown
  <2>2. PlayTypes'
    BY <1>14 DEF TypeInv, PlayTypes, ChannelsClose, TeardownSession, HostTeardown
  <2>. QED BY <2>1, <2>2 DEF TypeInv
<1>15. ASSUME FramesCut PROVE TypeInv'
  <2>1. <<>> \in Seq(Frame)
    OBVIOUS
  <2>2. /\ lost' \subseteq Codes \cup {Button} /\ moveLost' \in BOOLEAN /\ aimless' \subseteq Points
    BY <1>15, <1>0, ReleasesType DEF FramesCut
  <2>3. FlowTypes'
    BY <1>15, <2>1, <2>2 DEF TypeInv, FlowTypes, FramesCut
  <2>4. PlayTypes'
    BY <1>15, <2>1, <2>2 DEF TypeInv, PlayTypes, FramesCut
  <2>. QED BY <2>3, <2>4 DEF TypeInv
<1>16. ASSUME StartSharing PROVE TypeInv'
  <2>1. FlowTypes'
    BY <1>16 DEF TypeInv, FlowTypes, StartSharing
  <2>2. PlayTypes'
    BY <1>16 DEF TypeInv, PlayTypes, StartSharing
  <2>. QED BY <2>1, <2>2 DEF TypeInv
<1>17. ASSUME StopSharing PROVE TypeInv'
  <2>1. FlowTypes'
    BY <1>17 DEF TypeInv, FlowTypes, StopSharing
  <2>2. PlayTypes'
    BY <1>17 DEF TypeInv, PlayTypes, StopSharing
  <2>. QED BY <2>1, <2>2 DEF TypeInv
<1>18. ASSUME OnRemoteInputMessage PROVE TypeInv'
  <2>1. frames' \in Seq(Frame) /\ Head(frames) \in Frame /\ <<Head(frames)>> \in Seq(Frame)
    BY <1>0, <1>18 DEF OnRemoteInputMessage
  <2>2. CASE share = "sized"
    <3>1. jobs' \in Seq(Frame)
      BY <1>0, <1>18, <2>1, <2>2 DEF OnRemoteInputMessage
    <3>2. FlowTypes'
      BY <1>18, <2>1, <2>2, <3>1 DEF TypeInv, FlowTypes, OnRemoteInputMessage
    <3>3. PlayTypes'
      BY <1>18, <2>1, <2>2 DEF TypeInv, PlayTypes, OnRemoteInputMessage
    <3>. QED BY <3>2, <3>3 DEF TypeInv
  <2>3. CASE share # "sized"
    <3>1. /\ lost' \subseteq Codes \cup {Button} /\ moveLost' \in BOOLEAN /\ aimless' \subseteq Points
      BY <1>18, <2>1, <2>3, <1>0, ReleasesType DEF OnRemoteInputMessage
    <3>2. FlowTypes'
      BY <1>18, <2>1, <2>3, <3>1 DEF TypeInv, FlowTypes, OnRemoteInputMessage
    <3>3. PlayTypes'
      BY <1>18, <2>1, <2>3, <3>1 DEF TypeInv, PlayTypes, OnRemoteInputMessage
    <3>. QED BY <3>2, <3>3 DEF TypeInv
  <2>. QED BY <2>2, <2>3
<1>19. ASSUME RunCommand PROVE TypeInv'
  <2>1. PICK e \in Frame : e = Head(jobs)
    BY <1>0, <1>19 DEF RunCommand
  <2>2. jobs' \in Seq(Frame)
    BY <1>0, <1>19 DEF RunCommand
  <2>3. e.op = "keydown" => e.what \in Codes
    BY DEF Frame, KeyFrame, PointFrame
  <2>4. down' \subseteq Codes
    <3>1. down' = DownAfter(tool, e, down)
      BY <1>19, <2>1 DEF RunCommand, Play
    <3>. QED BY <2>3, <3>1 DEF DownAfter, TypeInv, PlayTypes
  <2>5. cursor' \in Points \cup {NoPoint}
    <3>1. cursor' = CursorAfter(tool, e, cursor)
      BY <1>19, <2>1 DEF RunCommand, Play
    <3>. QED BY <3>1 DEF CursorAfter, TypeInv, PlayTypes, Frame, KeyFrame, PointFrame
  <2>6. pressed' \in BOOLEAN
    BY <1>19 DEF RunCommand, Play, PressedAfter
  <2>7. FlowTypes'
    BY <1>19, <2>2, <2>4, <2>5, <2>6 DEF TypeInv, FlowTypes, RunCommand, Play
  <2>8. PlayTypes'
    BY <1>19, <2>2, <2>4, <2>5, <2>6 DEF TypeInv, PlayTypes, RunCommand, Play
  <2>. QED BY <2>7, <2>8 DEF TypeInv
<1>20. ASSUME CommandFails PROVE TypeInv'
  <2>1. jobs' \in Seq(Frame) /\ <<Head(jobs)>> \in Seq(Frame)
    BY <1>0, <1>20 DEF CommandFails
  <2>2. /\ lost' \subseteq Codes \cup {Button} /\ moveLost' \in BOOLEAN /\ aimless' \subseteq Points
    BY <1>20, <2>1, <1>0, ReleasesType DEF CommandFails
  <2>3. FlowTypes'
    BY <1>20, <2>1, <2>2 DEF TypeInv, FlowTypes, CommandFails
  <2>4. PlayTypes'
    BY <1>20, <2>1, <2>2 DEF TypeInv, PlayTypes, CommandFails
  <2>. QED BY <2>3, <2>4 DEF TypeInv
<1>21. ASSUME Refuse PROVE TypeInv'
  <2>1. FlowTypes'
    BY <1>21 DEF TypeInv, FlowTypes, Refuse
  <2>2. PlayTypes'
    BY <1>21 DEF TypeInv, PlayTypes, Refuse
  <2>. QED BY <2>1, <2>2 DEF TypeInv
<1>. QED BY <1>1, <1>2, <1>3, <1>4, <1>5, <1>6, <1>7, <1>8, <1>9, <1>10, <1>11, <1>12, <1>13,
            <1>14, <1>15, <1>16, <1>17, <1>18, <1>19, <1>20, <1>21 DEF Next

-----------------------------------------------------------------------------
(* What a step does to the invariant, by what it does to the queue           *)

LEMMA AheadSent ==
    ASSUME TypeInv, NEW r \in Seq(Frame), frames' = frames \o r, jobs' = jobs
    PROVE  Ahead \in Seq(Frame) /\ Ahead' = Ahead \o r
<1>1. frames \in Seq(Frame) /\ jobs \in Seq(Frame)
  BY DEF TypeInv, FlowTypes
<1>. QED BY <1>1, ConcatAssociative DEF Ahead

\* Nothing new is on its way and nothing is played.
LEMMA NothingSent ==
    ASSUME KeysPart, ButtonPart, CursorPart, UNCHANGED <<osVars, tool>>, Ahead' = Ahead,
           held \cup lost \subseteq held' \cup lost',
           grip \/ Button \in lost => grip' \/ Button \in lost',
           \/ pointer' = NoPoint \/ timerSet' \/ (moveLost' /\ pointer' \in aimless')
           \/ pointer' = pointer /\ (timerSet => timerSet') /\ (moveLost => moveLost'),
           aimless \subseteq aimless'
    PROVE  KeysPart' /\ ButtonPart' /\ CursorPart'
<1>1. /\ Ahead' = Ahead /\ down' = down /\ pressed' = pressed
      /\ cursor' = cursor /\ tool' = tool
  BY DEF osVars
<1>2. KeysPart'
  <2>1. \A c \in Codes : ComesDown(Ahead', down', tool', c) => c \in held \cup lost
    BY <1>1 DEF KeysPart, KeysInv
  <2>. QED BY <1>1, <2>1 DEF KeysPart, KeysInv
<1>3. ButtonPart'
  <2>1. StaysPressed(Ahead', pressed') => StaysPressed(Ahead, pressed)
    BY <1>1
  <2>. QED BY <2>1, Zenon DEF ButtonPart, ButtonInv
<1>4. CursorPart'
  <2>1. AimInv(Ahead', cursor', aimless')
    BY <1>1 DEF CursorPart, AimInv
  <2>2. ASSUME PointerSure', ~timerSet' PROVE LatestInv(Ahead', cursor', pointer')
    <3>1. pointer' = pointer /\ (timerSet => timerSet') /\ (moveLost => moveLost')
      BY <2>2, Zenon DEF PointerSure
    <3>2. PointerSure /\ ~timerSet
      BY <2>2, <3>1, Zenon DEF PointerSure
    <3>. QED BY <1>1, <3>1, <3>2 DEF CursorPart
  <2>. QED BY <2>1, <2>2, Zenon DEF CursorPart
<1>. QED BY <1>2, <1>3, <1>4

\* What the step that sends the frames r owes the keys, the button and the cursor.
KeysFollow(r) ==
    /\ \A c \in Codes : \A i \in 1..Len(r) : r[i] = KeyDown(c) => c \in held' \cup lost'
    /\ \A c \in Codes : c \in held \cup lost =>
          c \in held' \cup lost' \/ \E i \in 1..Len(r) : r[i] = KeyUp(c)

ButtonFollows(r) ==
    /\ \A i \in 1..Len(r) : r[i].op = "press" => grip' \/ Button \in lost'
    /\ grip \/ Button \in lost =>
          (grip' \/ Button \in lost') \/ \E i \in 1..Len(r) : r[i].op = "release"

PointerFollows(r) ==
    \/ pointer' = NoPoint \/ timerSet'
    \/ \E p \in Points : r = <<Move(p)>> /\ pointer' = p
    \/ /\ pointer' = pointer /\ (timerSet => timerSet') /\ (moveLost => moveLost')
       /\ \A i \in 1..Len(r) :
             /\ r[i].op # "move"
             /\ pointer # NoPoint /\ r[i].op \in {"press", "release"} => r[i].what = pointer

AimFollows(r) ==
    /\ \/ aimless \subseteq aimless'
       \/ \E p \in Points : /\ aimless \ {p} \subseteq aimless'
                            /\ r = <<Move(p)>> /\ pointer' = p
                            /\ \A i \in 1..Len(Ahead) : Ahead[i] # Press(p)
    /\ \A i \in 1..Len(r) : r[i].op = "press" /\ r[i].what \notin aimless' =>
          i = 1 /\ LatestInv(Ahead, cursor, r[i].what)

\* The frames r join the queue.
LEMMA FramesSent ==
    ASSUME KeysPart, ButtonPart, CursorPart, UNCHANGED <<osVars, tool>>,
           NEW r \in Seq(Frame), Ahead \in Seq(Frame), Ahead' = Ahead \o r,
           KeysFollow(r), ButtonFollows(r), PointerFollows(r), AimFollows(r)
    PROVE  KeysPart' /\ ButtonPart' /\ CursorPart'
<1>1. down' = down /\ pressed' = pressed /\ cursor' = cursor /\ tool' = tool
  BY DEF osVars
<1>2. KeysPart'
  <2>1. PICK h, h2 : h = held \cup lost /\ h2 = held' \cup lost'
    OBVIOUS
  <2>2. KeysInv(Ahead \o r, down, tool, h2)
    BY <2>1, KeysJoined DEF KeysPart, KeysFollow
  <2>. QED BY <1>1, <2>1, <2>2 DEF KeysPart
<1>3. ButtonPart'
  <2>1. PICK g, g2 : g = (grip \/ Button \in lost) /\ g2 = (grip' \/ Button \in lost')
    OBVIOUS
  <2>2. ButtonInv(Ahead, pressed, g)
    BY <2>1, Zenon DEF ButtonPart
  <2>3. \A i \in 1..Len(r) : r[i].op = "press" => g2
    BY <2>1 DEF ButtonFollows
  <2>4. g => g2 \/ \E i \in 1..Len(r) : r[i].op = "release"
    BY <2>1 DEF ButtonFollows
  <2>5. ButtonInv(Ahead \o r, pressed, g2)
    BY <2>2, <2>3, <2>4, ButtonJoined
  <2>6. StaysPressed(Ahead', pressed') => g2
    BY <1>1, <2>5 DEF ButtonInv
  <2>. QED BY <2>1, <2>6, Zenon DEF ButtonPart, ButtonInv
<1>4. ASSUME PointerSure', ~timerSet' PROVE LatestInv(Ahead', cursor', pointer')
  <2>1. ASSUME NEW p \in Points, r = <<Move(p)>>, pointer' = p
        PROVE  LatestInv(Ahead', cursor', pointer')
    BY <2>1, LatestMoved
  <2>2. ASSUME pointer' = pointer, timerSet => timerSet', moveLost => moveLost',
               \A i \in 1..Len(r) :
                  /\ r[i].op # "move"
                  /\ pointer # NoPoint /\ r[i].op \in {"press", "release"} => r[i].what = pointer
        PROVE  LatestInv(Ahead', cursor', pointer')
    <3>1. aimless \subseteq aimless'
      <4>1. ASSUME NEW p \in Points, r = <<Move(p)>> PROVE FALSE
        <5>1. 1 \in 1..Len(r) /\ r[1].op = "move"
          BY <4>1 DEF Move
        <5>. QED BY <2>2, <5>1
      <4>. QED BY <4>1 DEF AimFollows
    <3>2. PointerSure /\ ~timerSet
      BY <1>4, <2>2, <3>1, Zenon DEF PointerSure
    <3>3. LatestInv(Ahead, cursor, pointer) /\ pointer # NoPoint
      BY <3>2, Zenon DEF CursorPart, PointerSure
    <3>4. PICK p : p = pointer
      OBVIOUS
    <3>5. LatestInv(Ahead \o r, cursor, p)
      BY <2>2, <3>3, <3>4, LatestJoined
    <3>. QED BY <1>1, <2>2, <3>4, <3>5
  <2>. QED BY <1>4, <2>1, <2>2 DEF PointerFollows, PointerSure
<1>5. AimInv(Ahead', cursor', aimless')
  <2>1. AimInv(Ahead, cursor, aimless)
    BY DEF CursorPart
  <2>2. ASSUME NEW i \in 1..Len(Ahead), Ahead[i].op = "press", Ahead[i].what \in aimless
        PROVE  Ahead[i].what \in aimless'
    <3>1. Ahead[i] \in Frame
      OBVIOUS
    <3>2. Ahead[i] = Press(Ahead[i].what)
      BY <2>2, <3>1 DEF Press, Frame, KeyFrame, PointFrame
    <3>. QED BY <2>2, <3>2 DEF AimFollows
  <2>3. AimInv(Ahead \o r, cursor, aimless')
    <3>1. PICK a2 : a2 = aimless'
      OBVIOUS
    <3>2. AimInv(Ahead \o r, cursor, a2)
      BY <2>1, <2>2, <3>1, AimJoined DEF AimFollows
    <3>. QED BY <3>1, <3>2
  <2>. QED BY <1>1, <2>3
<1>6. CursorPart'
  BY <1>4, <1>5, Zenon DEF CursorPart
<1>. QED BY <1>2, <1>3, <1>6

\* Frames of the queue are dropped.
LEMMA FramesLost ==
    ASSUME KeysPart, ButtonPart, CursorPart, TypeInv, UNCHANGED <<osVars, tool, heldVars, moveVars>>,
           NEW q2 \in Seq(Frame), Ahead' = q2, NEW f, Thinned(Ahead, q2, f),
           NEW g \in Seq(Frame), Losing(g),
           \A k \in 1..Len(Ahead) : Kept(q2, f, k) \/ \E i \in 1..Len(g) : g[i] = Ahead[k]
    PROVE  KeysPart' /\ ButtonPart' /\ CursorPart'
<1>1. /\ down' = down /\ pressed' = pressed /\ cursor' = cursor /\ tool' = tool
      /\ held' = held /\ grip' = grip /\ pointer' = pointer
  BY DEF osVars, heldVars, moveVars
<1>2. timerSet' <=> timerSet
  BY DEF moveVars
<1>3. Ahead \in Seq(Frame)
  BY DEF TypeInv, FlowTypes, Ahead
<1>4. KeysPart'
  <2>1. PICK h, h2 : h = held \cup lost /\ h2 = held' \cup lost'
    OBVIOUS
  <2>2. h \subseteq h2
    BY <1>1, <2>1 DEF Losing
  <2>3. \A k \in 1..Len(Ahead) : \A c \in Codes :
           Ahead[k] = KeyUp(c) /\ CanHold(tool, c) => Kept(q2, f, k) \/ c \in h2
    BY <2>1 DEF Losing, Releases
  <2>4. KeysInv(q2, down, tool, h2)
    BY <1>3, <2>1, <2>2, <2>3, KeysThinned DEF KeysPart
  <2>. QED BY <1>1, <2>1, <2>4 DEF KeysPart
<1>5. ButtonPart'
  <2>1. PICK b, b2 : b = (grip \/ Button \in lost) /\ b2 = (grip' \/ Button \in lost')
    OBVIOUS
  <2>2. ButtonInv(Ahead, pressed, b)
    BY <2>1, Zenon DEF ButtonPart
  <2>3. \A k \in 1..Len(Ahead) : Ahead[k].op = "release" => Kept(q2, f, k) \/ b2
    <3>1. ASSUME NEW k \in 1..Len(Ahead), Ahead[k].op = "release", ~Kept(q2, f, k)
          PROVE  Button \in lost'
      BY <3>1 DEF Losing, Releases
    <3>. QED BY <2>1, <3>1
  <2>4. b => b2
    BY <1>1, <2>1 DEF Losing
  <2>5. ButtonInv(q2, pressed, b2)
    BY <1>3, <2>2, <2>3, <2>4, ButtonThinned
  <2>6. StaysPressed(Ahead', pressed') => b2
    BY <1>1, <2>5 DEF ButtonInv
  <2>. QED BY <2>1, <2>6, Zenon DEF ButtonPart, ButtonInv
<1>6. CursorPart'
  <2>1. PICK a2 : a2 = aimless'
    OBVIOUS
  <2>2. a2 = aimless \cup Moves(g) /\ (moveLost' <=> (moveLost \/ HasMove(g)))
    BY <2>1 DEF Losing
  <2>3. ASSUME NEW p, NEW k \in 1..Len(Ahead), Ahead[k] = Move(p), ~Kept(q2, f, k)
        PROVE  p \in a2 /\ HasMove(g)
    <3>1. Ahead[k] \in Frame
      BY <1>3
    <3>2. p \in Points
      BY <2>3, <3>1 DEF Move, Frame, KeyFrame, PointFrame
    <3>3. PICK i \in 1..Len(g) : g[i] = Move(p)
      BY <2>3
    <3>4. g[i].op = "move"
      BY <3>3 DEF Move
    <3>. QED BY <2>2, <3>2, <3>3, <3>4 DEF Moves, HasMove
  <2>4. /\ \A p : p \notin a2 /\ LatestInv(Ahead, cursor, p) => LatestInv(q2, cursor, p)
        /\ AimInv(Ahead, cursor, aimless) => AimInv(q2, cursor, a2)
    <3>1. aimless \subseteq a2
      BY <2>2
    <3>2. \A p : p \notin a2 => \A k \in 1..Len(Ahead) : Ahead[k] = Move(p) => Kept(q2, f, k)
      BY <2>3
    <3>. QED BY <1>3, <3>1, <3>2, CursorThinned
  <2>5. AimInv(Ahead', cursor', aimless')
    BY <1>1, <2>1, <2>4 DEF CursorPart
  <2>6. ASSUME PointerSure', ~timerSet' PROVE LatestInv(Ahead', cursor', pointer')
    <3>1. PointerSure /\ ~timerSet
      BY <1>1, <1>2, <2>1, <2>2, <2>6 DEF PointerSure
    <3>2. LatestInv(Ahead, cursor, pointer)
      BY <3>1, Zenon DEF CursorPart
    <3>3. CASE pointer \notin a2
      BY <1>1, <2>4, <3>2, <3>3
    <3>4. CASE pointer \in a2
      <4>1. ~HasMove(g)
        BY <1>1, <2>1, <2>2, <2>6, <3>4 DEF PointerSure
      <4>2. PICK p : p = pointer
        OBVIOUS
      <4>3. \A k \in 1..Len(Ahead) : Ahead[k] = Move(p) => Kept(q2, f, k)
        BY <2>3, <4>1
      <4>4. Len(q2) + 1 \in 1..(Len(q2) + 1) /\ f[Len(q2) + 1] = Len(Ahead) + 1
        BY DEF Thinned
      <4>5. At(Ahead, cursor, f[Len(q2) + 1], p)
        BY <3>2, <4>2, <4>4 DEF LatestInv
      <4>6. At(q2, cursor, Len(q2) + 1, p)
        BY <1>3, <4>3, <4>4, <4>5, AtThinned
      <4>. QED BY <1>1, <4>2, <4>6 DEF LatestInv
    <3>. QED BY <3>3, <3>4
  <2>. QED BY <2>5, <2>6, Zenon DEF CursorPart
<1>. QED BY <1>4, <1>5, <1>6

-----------------------------------------------------------------------------
(* The steps                                                                 *)

LEMMA TypesAgree == TypeInv <=> TypeOK /\ IsFiniteSet(held)
BY DEF TypeInv, FlowTypes, PlayTypes, TypeOK

PartsInv == KeysPart /\ ButtonPart /\ CursorPart

LEMMA SameAhead ==
    UNCHANGED <<frames, jobs>> => Ahead' = Ahead
BY DEF Ahead

LEMMA KeyStep ==
    ASSUME TypeInv, PartsInv, NEW c \in Codes, OnKeyDown(c) \/ OnKeyUp(c)
    PROVE  PartsInv'
<1>. USE DEF PartsInv
<1>1. CASE OnKeyDown(c)
  <2>1. CASE inputOpen
    <3>1. PICK r : r = <<KeyDown(c)>> /\ r \in Seq(Frame)
      BY FrameSeqs
    <3>2. Ahead \in Seq(Frame) /\ Ahead' = Ahead \o r
      BY <1>1, <2>1, <3>1, AheadSent DEF OnKeyDown, Send
    <3>3. /\ held' = held \cup {c} /\ lost' = lost \ {c} /\ UNCHANGED <<osVars, tool>>
          /\ grip' = grip /\ pointer' = pointer /\ (timerSet => timerSet')
          /\ (moveLost' <=> moveLost) /\ aimless' = aimless
      BY <1>1, <2>1 DEF OnKeyDown, moveVars, hostVars
    <3>4. /\ Len(r) = 1 /\ \A i \in 1..Len(r) : r[i].op = "keydown"
          /\ \A d \in Codes : \A i \in 1..Len(r) : r[i] = KeyDown(d) => d = c
      BY <3>1 DEF KeyDown
    <3>5. c \notin {Button}
      BY NamesAssumption
    <3>6. KeysFollow(r)
      BY <3>2, <3>3, <3>4, <3>5 DEF KeysFollow
    <3>7. ButtonFollows(r)
      BY <3>2, <3>3, <3>4, <3>5 DEF ButtonFollows
    <3>8. PointerFollows(r)
      BY <3>2, <3>3, <3>4, <3>5 DEF PointerFollows
    <3>9. AimFollows(r)
      BY <3>2, <3>3, <3>4, <3>5 DEF AimFollows
    <3>. QED BY <3>1, <3>2, <3>3, <3>6, <3>7, <3>8, <3>9, FramesSent
  <2>2. CASE ~inputOpen
    <3>1. /\ Ahead' = Ahead /\ UNCHANGED <<osVars, tool>>
          /\ held' = held /\ lost' = lost /\ grip' = grip /\ pointer' = pointer
          /\ (timerSet => timerSet')
          /\ (moveLost' <=> moveLost) /\ aimless' = aimless
      BY <1>1, <2>2, SameAhead DEF OnKeyDown, Send, moveVars, hostVars
    <3>. QED BY <3>1, NothingSent
  <2>. QED BY <2>1, <2>2
<1>2. CASE OnKeyUp(c)
  <2>1. /\ UNCHANGED <<osVars, tool>> /\ held' = held \ {c} /\ SendReleases(<<KeyUp(c)>>)
        /\ grip' = grip /\ pointer' = pointer /\ (timerSet => timerSet')
    BY <1>2 DEF OnKeyUp, moveVars, hostVars
  <2>2. PICK r : r = <<KeyUp(c)>> /\ r \in Seq(Frame)
    BY FrameSeqs
  <2>3. /\ Len(r) = 1 /\ r[1] = KeyUp(c) /\ \A i \in 1..Len(r) : r[i].op = "keyup"
        /\ \A d \in Codes : \A i \in 1..Len(r) : r[i] # KeyDown(d)
    BY <2>2 DEF KeyUp, KeyDown
  <2>4. CASE inputOpen
    <3>1. Ahead \in Seq(Frame) /\ Ahead' = Ahead \o r
      BY <2>1, <2>2, <2>4, AheadSent DEF SendReleases, Send
    <3>2. /\ lost' = lost /\ (moveLost' <=> moveLost) /\ aimless' = aimless
      BY <2>1, <2>4 DEF SendReleases, lossVars
    <3>3. 1 \in 1..Len(r)
      BY <2>3
    <3>6. KeysFollow(r)
      BY <2>1, <2>3, <3>1, <3>2, <3>3 DEF KeysFollow
    <3>7. ButtonFollows(r)
      BY <2>1, <2>3, <3>1, <3>2, <3>3 DEF ButtonFollows
    <3>8. PointerFollows(r)
      BY <2>1, <2>3, <3>1, <3>2, <3>3 DEF PointerFollows
    <3>9. AimFollows(r)
      BY <2>1, <2>3, <3>1, <3>2, <3>3 DEF AimFollows
    <3>. QED BY <2>1, <2>2, <3>1, <3>6, <3>7, <3>8, <3>9, FramesSent
  <2>5. CASE ~inputOpen
    <3>1. Ahead' = Ahead
      BY <2>1, <2>5, SameAhead DEF SendReleases, Send
    <3>2. ~HasMove(r) /\ c \in Releases(r)
      BY <2>3 DEF HasMove, Releases
    <3>3. Losing(r)
      BY <2>1, <2>2, <2>5 DEF SendReleases
    <3>4. lost \cup {c} \subseteq lost' /\ (moveLost' <=> moveLost) /\ aimless' = aimless
      BY <3>2, <3>3, NoMoves DEF Losing, TypeInv, PlayTypes
    <3>. QED BY <2>1, <3>1, <3>4, NothingSent
  <2>. QED BY <2>4, <2>5
<1>. QED BY <1>1, <1>2

LEMMA FlushStep ==
    ASSUME TypeInv, PartsInv, FlushHeldKeys, UNCHANGED <<osVars, tool, grip>>,
           pointer' = NoPoint \/ (pointer' = pointer /\ (timerSet => timerSet'))
    PROVE  PartsInv'
<1>. USE DEF PartsInv
<1>1. PICK r \in Seq(Frame) :
         /\ SendReleases(r)
         /\ \A c \in held : \E i \in 1..Len(r) : r[i] = KeyUp(c)
         /\ \A i \in 1..Len(r) : \E c \in Codes : r[i] = KeyUp(c)
  BY FlushSends DEF TypeInv, FlowTypes
<1>2. ASSUME NEW i \in 1..Len(r)
      PROVE  r[i].op = "keyup" /\ \A d \in Codes : r[i] # KeyDown(d)
  <2>1. PICK c \in Codes : r[i] = KeyUp(c)
    BY <1>1
  <2>. QED BY <2>1 DEF KeyUp, KeyDown
<1>3. held' = {} /\ grip' = grip /\ UNCHANGED <<osVars, tool>>
  BY DEF FlushHeldKeys
<1>4. CASE inputOpen
  <2>1. Ahead \in Seq(Frame) /\ Ahead' = Ahead \o r
    BY <1>1, <1>4, AheadSent DEF SendReleases, Send
  <2>2. /\ lost' = lost /\ (moveLost' <=> moveLost) /\ aimless' = aimless
    BY <1>1, <1>4 DEF SendReleases, lossVars
  <2>6. KeysFollow(r)
    BY <1>1, <1>2, <1>3, <2>1, <2>2 DEF KeysFollow
  <2>7. ButtonFollows(r)
    BY <1>1, <1>2, <1>3, <2>1, <2>2 DEF ButtonFollows
  <2>8. PointerFollows(r)
    BY <1>1, <1>2, <1>3, <2>1, <2>2 DEF PointerFollows
  <2>9. AimFollows(r)
    BY <1>1, <1>2, <1>3, <2>1, <2>2 DEF AimFollows
  <2>. QED BY <1>1, <1>2, <1>3, <2>1, <2>2, <2>6, <2>7, <2>8, <2>9, FramesSent
<1>5. CASE ~inputOpen
  <2>1. Ahead' = Ahead
    BY <1>1, <1>5, SameAhead DEF SendReleases, Send
  <2>2. ~HasMove(r) /\ held \subseteq Releases(r)
    <3>1. held \subseteq Codes
      BY DEF TypeInv, FlowTypes
    <3>2. held \subseteq Releases(r)
      BY <1>1, <3>1 DEF Releases
    <3>. QED BY <1>2, <3>2 DEF HasMove
  <2>3. Losing(r)
    BY <1>1, <1>5 DEF SendReleases
  <2>4. lost \cup held \subseteq lost' /\ (moveLost' <=> moveLost) /\ aimless' = aimless
    BY <2>2, <2>3, NoMoves DEF Losing, TypeInv, PlayTypes
  <2>. QED BY <1>3, <2>1, <2>4, NothingSent
<1>. QED BY <1>4, <1>5

LEMMA MoveStep ==
    ASSUME TypeInv, PartsInv, NEW p \in Points, SendMove(p), pointer' = p,
           UNCHANGED <<osVars, tool, heldVars>>
    PROVE  PartsInv'
<1>. USE DEF PartsInv
<1>0. /\ held' = held /\ grip' = grip /\ UNCHANGED <<osVars, tool>> /\ lost' = lost
  BY DEF heldVars, SendMove
<1>1. CASE inputOpen
  <2>1. PICK r : r = <<Move(p)>> /\ r \in Seq(Frame)
    BY FrameSeqs
  <2>2. Ahead \in Seq(Frame) /\ Ahead' = Ahead \o r
    BY <1>1, <2>1, AheadSent DEF SendMove, Send
  <2>3. \/ aimless \subseteq aimless'
        \/ /\ aimless \ {p} \subseteq aimless'
           /\ \A i \in 1..Len(Ahead) : Ahead[i] # Press(p)
    BY <1>1, <2>2 DEF SendMove
  <2>4. \A i \in 1..Len(r) : r[i].op = "move" /\ \A d \in Codes : r[i] # KeyDown(d)
    BY <2>1 DEF Move, KeyDown
  <2>6. KeysFollow(r)
    BY <1>0, <2>1, <2>2, <2>3, <2>4 DEF KeysFollow
  <2>7. ButtonFollows(r)
    BY <1>0, <2>1, <2>2, <2>3, <2>4 DEF ButtonFollows
  <2>8. PointerFollows(r)
    BY <1>0, <2>1, <2>2, <2>3, <2>4 DEF PointerFollows
  <2>9. AimFollows(r)
    BY <1>0, <2>1, <2>2, <2>3, <2>4 DEF AimFollows
  <2>. QED BY <1>0, <2>1, <2>2, <2>3, <2>4, <2>6, <2>7, <2>8, <2>9, FramesSent
<1>2. CASE ~inputOpen
  <2>1. moveLost' /\ pointer' \in aimless' /\ aimless \subseteq aimless'
    BY <1>2 DEF SendMove
  <2>2. Ahead' = Ahead
    BY <1>2, SameAhead DEF SendMove, Send
  <2>. QED BY <1>0, <2>1, <2>2, NothingSent
<1>. QED BY <1>1, <1>2

LEMMA ButtonStep ==
    ASSUME TypeInv, PartsInv, NEW p \in Points, OnMouseDown(p) \/ OnMouseUp(p)
    PROVE  PartsInv'
<1>. USE DEF PartsInv
<1>1. CASE OnMouseDown(p)
  <2>1. /\ UNCHANGED <<osVars, tool>> /\ held' = held /\ grip' /\ pointer' = pointer
        /\ pointer \in {p, NoPoint}
        /\ (timerSet => timerSet') /\ (moveLost' <=> moveLost)
        /\ aimless \subseteq aimless'
        /\ p \notin aimless' => p \notin aimless /\ ~timerSet /\ pointer # NoPoint
    BY <1>1 DEF OnMouseDown, moveVars, hostVars
  <2>2. \A c \in Codes : c \in lost => c \in lost'
    BY <1>1, NamesAssumption DEF OnMouseDown
  <2>3. CASE inputOpen
    <3>1. PICK r : r = <<Press(p)>> /\ r \in Seq(Frame)
      BY FrameSeqs
    <3>2. Ahead \in Seq(Frame) /\ Ahead' = Ahead \o r
      BY <1>1, <2>3, <3>1, AheadSent DEF OnMouseDown, Send
    <3>3. /\ Len(r) = 1
          /\ \A i \in 1..Len(r) : /\ i = 1 /\ r[i].op = "press" /\ r[i].what = p
                                  /\ \A d \in Codes : r[i] # KeyDown(d)
      BY <3>1 DEF Press, KeyDown
    <3>4. ASSUME p \notin aimless' PROVE LatestInv(Ahead, cursor, p)
      <4>1. ~timerSet /\ pointer = p /\ PointerSure
        BY <2>1, <3>4 DEF PointerSure
      <4>. QED BY <4>1 DEF CursorPart
    <3>6. KeysFollow(r)
      BY <2>1, <2>2, <3>2, <3>3, <3>4 DEF KeysFollow
    <3>7. ButtonFollows(r)
      BY <2>1, <2>2, <3>2, <3>3, <3>4 DEF ButtonFollows
    <3>8. PointerFollows(r)
      BY <2>1, <2>2, <3>2, <3>3, <3>4 DEF PointerFollows
    <3>9. AimFollows(r)
      BY <2>1, <2>2, <3>2, <3>3, <3>4 DEF AimFollows
    <3>. QED BY <2>1, <3>1, <3>2, <3>6, <3>7, <3>8, <3>9, FramesSent
  <2>4. CASE ~inputOpen
    <3>1. Ahead' = Ahead /\ lost' = lost
      BY <1>1, <2>4, SameAhead DEF OnMouseDown, Send
    <3>. QED BY <2>1, <3>1, NothingSent
  <2>. QED BY <2>3, <2>4
<1>2. CASE OnMouseUp(p)
  <2>1. /\ UNCHANGED <<osVars, tool>> /\ held' = held /\ SendReleases(<<Release(p)>>)
        /\ pointer' = pointer /\ pointer \in {p, NoPoint} /\ (timerSet => timerSet')
    BY <1>2 DEF OnMouseUp, moveVars, hostVars
  <2>2. PICK r : r = <<Release(p)>> /\ r \in Seq(Frame)
    BY FrameSeqs
  <2>3. /\ 1 \in 1..Len(r)
        /\ \A i \in 1..Len(r) : /\ r[i].op = "release" /\ r[i].what = p
                                /\ \A d \in Codes : r[i] # KeyDown(d)
    BY <2>2 DEF Release, KeyDown
  <2>4. CASE inputOpen
    <3>1. Ahead \in Seq(Frame) /\ Ahead' = Ahead \o r
      BY <2>1, <2>2, <2>4, AheadSent DEF SendReleases, Send
    <3>2. /\ lost' = lost /\ (moveLost' <=> moveLost) /\ aimless' = aimless
      BY <2>1, <2>4 DEF SendReleases, lossVars
    <3>6. KeysFollow(r)
      BY <2>1, <2>3, <3>1, <3>2 DEF KeysFollow
    <3>7. ButtonFollows(r)
      BY <2>1, <2>3, <3>1, <3>2 DEF ButtonFollows
    <3>8. PointerFollows(r)
      BY <2>1, <2>3, <3>1, <3>2 DEF PointerFollows
    <3>9. AimFollows(r)
      BY <2>1, <2>3, <3>1, <3>2 DEF AimFollows
    <3>. QED BY <2>1, <2>2, <3>1, <3>6, <3>7, <3>8, <3>9, FramesSent
  <2>5. CASE ~inputOpen
    <3>1. Ahead' = Ahead
      BY <2>1, <2>5, SameAhead DEF SendReleases, Send
    <3>2. ~HasMove(r) /\ Button \in Releases(r)
      BY <2>3 DEF HasMove, Releases
    <3>3. Losing(r)
      BY <2>1, <2>2, <2>5 DEF SendReleases
    <3>4. /\ lost \subseteq lost' /\ Button \in lost'
          /\ (moveLost' <=> moveLost) /\ aimless' = aimless
      BY <3>2, <3>3, NoMoves DEF Losing, TypeInv, PlayTypes
    <3>. QED BY <2>1, <3>1, <3>4, NothingSent
  <2>. QED BY <2>4, <2>5
<1>. QED BY <1>1, <1>2

\* The host drops a frame it does not forward; a closed channel drops all.
LEMMA DropStep ==
    ASSUME TypeInv, PartsInv, FramesCut \/ OnRemoteInputMessage \/ CommandFails
    PROVE  PartsInv'
<1>. USE DEF PartsInv
<1>0. /\ frames \in Seq(Frame) /\ jobs \in Seq(Frame) /\ Ahead \in Seq(Frame)
  BY DEF TypeInv, FlowTypes, Ahead
<1>1. ASSUME NEW n \in 1..Len(Ahead), NEW q2 \in Seq(Frame), Ahead' = q2,
             Len(q2) = Len(Ahead) - 1,
             \A i \in 1..Len(q2) : q2[i] = IF i < n THEN Ahead[i] ELSE Ahead[i + 1],
             UNCHANGED <<osVars, tool, heldVars, moveVars>>, Losing(<<Ahead[n]>>)
      PROVE  PartsInv'
  <2>1. PICK f : Thinned(Ahead, q2, f) /\ \A k \in 1..Len(Ahead) : k # n => Kept(q2, f, k)
    BY <1>0, <1>1, OneLost
  <2>2. PICK g : g = <<Ahead[n]>> /\ g \in Seq(Frame)
    <3>1. Ahead[n] \in Frame
      BY <1>0
    <3>2. <<Ahead[n]>> \in Seq(Frame)
      BY <3>1
    <3>. QED BY <3>2
  <2>3. \A k \in 1..Len(Ahead) : Kept(q2, f, k) \/ \E i \in 1..Len(g) : g[i] = Ahead[k]
    <3>1. 1 \in 1..Len(g) /\ g[1] = Ahead[n]
      BY <2>2
    <3>. QED BY <2>1, <3>1
  <2>. QED BY <1>1, <2>1, <2>2, <2>3, FramesLost
<1>2. CASE FramesCut
  <2>1. UNCHANGED <<osVars, tool, heldVars, moveVars>> /\ Losing(frames)
    BY <1>2 DEF FramesCut, hostVars
  <2>5. PICK q2, g : q2 = jobs /\ g = frames
    OBVIOUS
  <2>2. Ahead' = jobs
    <3>1. frames' = <<>> /\ jobs' = jobs
      BY <1>2 DEF FramesCut
    <3>. QED BY <1>0, <3>1, ConcatEmptySeq DEF Ahead
  <2>3. PICK f : Thinned(Ahead, jobs, f) /\ \A k \in 1..Len(jobs) : Kept(jobs, f, k)
    BY <1>0, RestLost DEF Ahead
  <2>4. \A k \in 1..Len(Ahead) : Kept(jobs, f, k) \/ \E i \in 1..Len(frames) : frames[i] = Ahead[k]
    <3>1. ASSUME NEW k \in 1..Len(Ahead), k \notin 1..Len(jobs)
          PROVE  \E i \in 1..Len(frames) : frames[i] = Ahead[k]
      BY <1>0, <3>1, JoinFacts DEF Ahead
    <3>. QED BY <2>3, <3>1
  <2>6. /\ q2 \in Seq(Frame) /\ Ahead' = q2 /\ Thinned(Ahead, q2, f)
        /\ g \in Seq(Frame) /\ Losing(g)
    BY <1>0, <2>1, <2>2, <2>3, <2>5
  <2>7. \A k \in 1..Len(Ahead) : Kept(q2, f, k) \/ \E i \in 1..Len(g) : g[i] = Ahead[k]
    BY <2>4, <2>5
  <2>. QED BY <2>1, <2>6, <2>7, FramesLost
<1>3. CASE OnRemoteInputMessage
  <2>1. frames # <<>> /\ frames' = Tail(frames)
    BY <1>3 DEF OnRemoteInputMessage
  <2>2. ASSUME share = "sized" PROVE PartsInv'
    <3>1. /\ UNCHANGED <<osVars, tool>> /\ held' = held /\ grip' = grip /\ lost' = lost
          /\ pointer' = pointer /\ (timerSet => timerSet')
          /\ (moveLost' <=> moveLost) /\ aimless' = aimless
      BY <1>3, <2>2 DEF OnRemoteInputMessage, heldVars, moveVars, hostVars, lossVars
    <3>2. Ahead' = Ahead
      <4>1. jobs' = Append(jobs, Head(frames))
        BY <1>3, <2>2 DEF OnRemoteInputMessage
      <4>2. PICK e, s : e = Head(frames) /\ s = Tail(frames)
        OBVIOUS
      <4>5. e \in Frame /\ s \in Seq(Frame)
        BY <1>0, <2>1, <4>2, TailFacts
      <4>3. frames = <<e>> \o s /\ <<e>> \in Seq(Frame)
        BY <1>0, <2>1, <4>2, <4>5
      <4>4. jobs' = jobs \o <<e>>
        BY <1>0, <4>1, <4>2, <4>5, AppendIsConcat
      <4>6. Ahead = jobs \o (<<e>> \o s) /\ Ahead' = (jobs \o <<e>>) \o s
        BY <2>1, <4>2, <4>3, <4>4 DEF Ahead
      <4>. QED BY <1>0, <4>3, <4>5, <4>6, ConcatAssociative
    <3>. QED BY <1>0, <3>1, <3>2, NothingSent
  <2>3. ASSUME share # "sized" PROVE PartsInv'
    <3>1. /\ UNCHANGED <<osVars, tool, heldVars, moveVars>> /\ jobs' = jobs
          /\ Losing(<<Head(frames)>>)
      BY <1>3, <2>3 DEF OnRemoteInputMessage, hostVars
    <3>2. PICK n : n = Len(jobs) + 1
      OBVIOUS
    <3>3. n \in 1..Len(Ahead) /\ Ahead[n] = Head(frames)
      BY <1>0, <2>1, <3>2 DEF Ahead
    <3>4. PICK q2 : q2 = jobs \o Tail(frames) /\ q2 \in Seq(Frame)
      <4>1. jobs \o Tail(frames) \in Seq(Frame)
        BY <1>0, <2>1, TailFacts
      <4>. QED BY <4>1
    <3>5. /\ Ahead' = q2 /\ Len(q2) = Len(Ahead) - 1
          /\ \A i \in 1..Len(q2) : q2[i] = IF i < n THEN Ahead[i] ELSE Ahead[i + 1]
      BY <1>0, <2>1, <3>1, <3>2, <3>4 DEF Ahead
    <3>. QED BY <1>1, <3>1, <3>3, <3>4, <3>5
  <2>. QED BY <2>2, <2>3
<1>4. CASE CommandFails
  <2>1. /\ UNCHANGED <<osVars, tool, heldVars, moveVars>> /\ jobs # <<>> /\ jobs' = Tail(jobs)
        /\ Losing(<<Head(jobs)>>) /\ frames' = frames
    BY <1>4 DEF CommandFails, hostVars
  <2>2. Ahead' = Tail(Ahead) /\ Ahead # <<>> /\ Head(jobs) = Ahead[1]
    BY <1>0, <2>1 DEF Ahead
  <2>3. PICK q2 : q2 = Tail(Ahead) /\ q2 \in Seq(Frame)
    <3>1. Tail(Ahead) \in Seq(Frame)
      BY <1>0, <2>2, TailFacts
    <3>. QED BY <3>1
  <2>4. /\ 1 \in 1..Len(Ahead) /\ Len(q2) = Len(Ahead) - 1
        /\ \A i \in 1..Len(q2) : q2[i] = IF i < 1 THEN Ahead[i] ELSE Ahead[i + 1]
    BY <1>0, <2>2, <2>3
  <2>. QED BY <1>1, <2>1, <2>2, <2>3, <2>4
<1>. QED BY <1>2, <1>3, <1>4

\* The host plays the oldest frame, or has no command for it.
LEMMA PlayStep ==
    ASSUME TypeInv, PartsInv, RunCommand \/ Refuse
    PROVE  PartsInv'
<1>. USE DEF PartsInv
<1>0. /\ frames \in Seq(Frame) /\ jobs \in Seq(Frame) /\ Ahead \in Seq(Frame)
  BY DEF TypeInv, FlowTypes, Ahead
<1>1. /\ jobs # <<>> /\ jobs' = Tail(jobs) /\ frames' = frames /\ tool' = tool
      /\ held' = held /\ grip' = grip /\ lost' = lost /\ pointer' = pointer
      /\ (timerSet' <=> timerSet) /\ (moveLost' <=> moveLost) /\ aimless' = aimless
  BY DEF RunCommand, Refuse, Play, heldVars, moveVars, hostVars, lossVars
<1>2. Ahead' = Tail(Ahead) /\ Ahead # <<>> /\ Head(jobs) = Head(Ahead)
  BY <1>0, <1>1 DEF Ahead
<1>3. CASE RunCommand
  <2>1. /\ down' = DownAfter(tool, Head(Ahead), down)
        /\ pressed' = PressedAfter(Head(Ahead), pressed)
        /\ cursor' = CursorAfter(tool, Head(Ahead), cursor)
    BY <1>2, <1>3 DEF RunCommand, Play
  <2>2. KeysPart'
    BY <1>0, <1>1, <1>2, <2>1, KeysPlayed DEF KeysPart
  <2>3. ButtonPart'
    <3>1. PICK g : g = (grip \/ Button \in lost)
      OBVIOUS
    <3>2. ButtonInv(Ahead, pressed, g)
      BY <3>1, Zenon DEF ButtonPart
    <3>3. ButtonInv(Tail(Ahead), PressedAfter(Head(Ahead), pressed), g)
      BY <1>0, <1>2, <3>2, ButtonPlayed
    <3>4. StaysPressed(Ahead', pressed') => g
      BY <1>2, <2>1, <3>3 DEF ButtonInv
    <3>. QED BY <1>1, <3>1, <3>4, Zenon DEF ButtonPart, ButtonInv
  <2>4. CursorPart'
    <3>1. /\ LatestInv(Ahead, cursor, pointer) => LatestInv(Ahead', cursor', pointer')
          /\ AimInv(Ahead, cursor, aimless) => AimInv(Ahead', cursor', aimless)
      BY <1>0, <1>1, <1>2, <2>1, CursorPlayed
    <3>. QED BY <1>1, <3>1 DEF CursorPart, PointerSure
  <2>. QED BY <2>2, <2>3, <2>4
<1>4. CASE Refuse
  <2>1. /\ ~Maps(tool, Head(Ahead)) /\ down' = down /\ cursor' = cursor
        /\ pressed' = pressed
    BY <1>2, <1>4 DEF Refuse, osVars
  <2>2. PICK q2 : q2 = Tail(Ahead) /\ q2 \in Seq(Frame)
    <3>1. Tail(Ahead) \in Seq(Frame)
      BY <1>0, <1>2
    <3>. QED BY <3>1
  <2>3. /\ 1 \in 1..Len(Ahead) /\ Len(q2) = Len(Ahead) - 1 /\ Head(Ahead) = Ahead[1]
        /\ \A i \in 1..Len(q2) : q2[i] = IF i < 1 THEN Ahead[i] ELSE Ahead[i + 1]
    BY <1>0, <1>2, <2>2
  <2>4. PICK f : Thinned(Ahead, q2, f) /\ \A k \in 1..Len(Ahead) : k # 1 => Kept(q2, f, k)
    BY <1>0, <2>2, <2>3, OneLost
  <2>5. Ahead[1].op \in {"keydown", "keyup"} /\ ~CanHold(tool, Ahead[1].what)
    BY <2>1, <2>3 DEF Maps, CanPress
  <2>6. KeysPart'
    <3>1. PICK h : h = held \cup lost
      OBVIOUS
    <3>2. \A k \in 1..Len(Ahead) : \A c \in Codes :
             Ahead[k] = KeyUp(c) /\ CanHold(tool, c) => Kept(q2, f, k) \/ c \in h
      BY <2>4, <2>5 DEF KeyUp
    <3>3. KeysInv(q2, down, tool, h)
      BY <1>0, <2>2, <2>4, <3>1, <3>2, KeysThinned DEF KeysPart
    <3>. QED BY <1>1, <1>2, <2>1, <2>2, <3>1, <3>3 DEF KeysPart
  <2>7. ButtonPart'
    <3>1. PICK g, g2 : g = (grip \/ Button \in lost) /\ g2 = (grip \/ Button \in lost)
      OBVIOUS
    <3>2. ButtonInv(Ahead, pressed, g)
      BY <3>1, Zenon DEF ButtonPart
    <3>3. \A k \in 1..Len(Ahead) : Ahead[k].op = "release" => Kept(q2, f, k) \/ g2
      BY <2>4, <2>5
    <3>6. g => g2
      BY <3>1
    <3>4. ButtonInv(q2, pressed, g2)
      <4>1. Ahead \in Seq(Frame) /\ q2 \in Seq(Frame) /\ Thinned(Ahead, q2, f)
        BY <1>0, <2>2, <2>4
      <4>. QED BY <3>2, <3>3, <3>6, <4>1, ButtonThinned
    <3>5. StaysPressed(Ahead', pressed') => g2
      BY <1>2, <2>1, <2>2, <3>4 DEF ButtonInv
    <3>. QED BY <1>1, <3>1, <3>5, Zenon DEF ButtonPart, ButtonInv
  <2>8. CursorPart'
    <3>1. \A p : \A k \in 1..Len(Ahead) : Ahead[k] = Move(p) => Kept(q2, f, k)
      BY <2>4, <2>5 DEF Move
    <3>2. PICK none : none = {}
      OBVIOUS
    <3>3. \A p : LatestInv(Ahead, cursor, p) => LatestInv(q2, cursor, p)
      <4>1. \A p : p \notin none
        BY <3>2
      <4>2. none \subseteq none
        OBVIOUS
      <4>3. \A p : p \notin none /\ LatestInv(Ahead, cursor, p) => LatestInv(q2, cursor, p)
        <5>1. Ahead \in Seq(Frame) /\ q2 \in Seq(Frame) /\ Thinned(Ahead, q2, f)
          BY <1>0, <2>2, <2>4
        <5>. QED BY <3>1, <4>2, <5>1, CursorThinned
      <4>. QED BY <4>1, <4>3
    <3>4. AimInv(Ahead, cursor, aimless) => AimInv(q2, cursor, aimless)
      BY <1>0, <2>2, <2>4, <3>1, CursorThinned
    <3>. QED BY <1>1, <1>2, <2>1, <2>2, <3>3, <3>4 DEF CursorPart, PointerSure
  <2>. QED BY <2>6, <2>7, <2>8
<1>. QED BY <1>3, <1>4

LEMMA TimerStep ==
    ASSUME TypeInv, TimerInv, Next
    PROVE  TimerInv'
<1>1. ASSUME NEW p \in Points, OnMouseMove(p) PROVE TimerInv'
  <2>1. p # NoPoint
    BY NamesAssumption
  <2>2. ASSUME ~cooling PROVE TimerInv'
    BY <1>1, <2>2 DEF OnMouseMove, TimerInv
  <2>3. ASSUME cooling PROVE TimerInv'
    BY <1>1, <2>1, <2>3 DEF OnMouseMove, TimerInv
  <2>. QED BY <2>2, <2>3
<1>2. ASSUME FlushMove \/ AttachCapture \/ DetachCapture PROVE TimerInv'
  BY <1>2 DEF FlushMove, AttachCapture, DetachCapture, TimerInv
<1>3. ASSUME ThrottleEnds PROVE TimerInv'
  BY <1>3, Zenon DEF ThrottleEnds, TimerInv
<1>4. ASSUME UNCHANGED moveVars PROVE TimerInv'
  BY <1>4, Zenon DEF moveVars, TimerInv
<1>5. ASSUME NEW c \in Codes, OnKeyDown(c) \/ OnKeyUp(c) PROVE UNCHANGED moveVars
  BY <1>5 DEF OnKeyDown, OnKeyUp
<1>6. ASSUME NEW p \in Points, OnMouseDown(p) \/ OnMouseUp(p) PROVE UNCHANGED moveVars
  BY <1>6 DEF OnMouseDown, OnMouseUp
<1>7. ASSUME OnBlur \/ MouseUpUnseen \/ OnControlMessage \/ AnswerOffer \/ OnRemoteStream
      PROVE  UNCHANGED moveVars
  BY <1>7 DEF OnBlur, MouseUpUnseen, OnControlMessage, AnswerOffer, OnRemoteStream
<1>8. ASSUME ChannelsClose \/ TeardownSession \/ FramesCut \/ StartSharing \/ StopSharing
             \/ HostTeardown
      PROVE  UNCHANGED moveVars
  BY <1>8 DEF ChannelsClose, TeardownSession, FramesCut, StartSharing, StopSharing, HostTeardown
<1>9. ASSUME OnRemoteInputMessage \/ RunCommand \/ CommandFails \/ Refuse
      PROVE  UNCHANGED moveVars
  BY <1>9 DEF OnRemoteInputMessage, RunCommand, CommandFails, Refuse, Play
<1>. QED BY <1>1, <1>2, <1>3, <1>4, <1>5, <1>6, <1>7, <1>8, <1>9 DEF Next

\* The queue, the losses and what the host has played stay as they are.
LEMMA IdleStep ==
    ASSUME PartsInv, UNCHANGED <<frames, jobs, osVars, tool, held, lossVars>>,
           grip \/ Button \in lost => grip' \/ Button \in lost',
           pointer' = NoPoint \/ timerSet' \/ (pointer' = pointer /\ (timerSet => timerSet'))
    PROVE  PartsInv'
<1>1. /\ Ahead' = Ahead /\ UNCHANGED <<osVars, tool>> /\ held' = held /\ lost' = lost
      /\ (moveLost' <=> moveLost) /\ aimless' = aimless
  BY SameAhead DEF lossVars
<1>. QED BY <1>1, NothingSent DEF PartsInv

LEMMA PartsStep ==
    ASSUME TypeInv, TimerInv, PartsInv, Next
    PROVE  PartsInv'
<1>1. ASSUME NEW c \in Codes, OnKeyDown(c) \/ OnKeyUp(c) PROVE PartsInv'
  BY <1>1, KeyStep
<1>2. ASSUME NEW p \in Points, OnMouseDown(p) \/ OnMouseUp(p) PROVE PartsInv'
  BY <1>2, ButtonStep
<1>3. ASSUME NEW p \in Points, OnMouseMove(p) PROVE PartsInv'
  <2>1. ASSUME ~cooling PROVE PartsInv'
    <3>1. SendMove(p) /\ pointer' = p /\ UNCHANGED <<osVars, tool, heldVars>>
      BY <1>3, <2>1 DEF OnMouseMove, hostVars
    <3>. QED BY <3>1, MoveStep
  <2>2. ASSUME cooling PROVE PartsInv'
    <3>1. /\ UNCHANGED <<frames, jobs, osVars, tool, held, lossVars>> /\ grip' = grip
          /\ lost' = lost /\ timerSet'
      BY <1>3, <2>2 DEF OnMouseMove, hostVars, heldVars, lossVars
    <3>. QED BY <3>1, IdleStep
  <2>. QED BY <2>1, <2>2
<1>4. ASSUME OnBlur \/ DetachCapture PROVE PartsInv'
  <2>1. /\ FlushHeldKeys /\ UNCHANGED <<osVars, tool, grip>>
        /\ pointer' = NoPoint \/ (pointer' = pointer /\ (timerSet => timerSet'))
    BY <1>4 DEF OnBlur, DetachCapture, moveVars, hostVars
  <2>. QED BY <2>1, FlushStep
<1>5. ASSUME FlushMove PROVE PartsInv'
  <2>1. pendingMove \in Points /\ pendingMove = pointer
    <3>1. pendingMove = pointer /\ pointer # NoPoint
      BY <1>5, Zenon DEF FlushMove, TimerInv
    <3>. QED BY <3>1 DEF TypeInv, FlowTypes
  <2>2. PICK p \in Points : p = pendingMove
    BY <2>1
  <2>3. SendMove(p) /\ pointer' = p /\ UNCHANGED <<osVars, tool, heldVars>>
    BY <1>5, <2>1, <2>2 DEF FlushMove, hostVars
  <2>. QED BY <2>3, MoveStep
<1>6. ASSUME MouseUpUnseen PROVE PartsInv'
  <2>1. /\ UNCHANGED <<osVars, tool, held>> /\ Button \in lost' /\ lost \subseteq lost'
        /\ pointer' = pointer /\ (timerSet => timerSet') /\ Ahead' = Ahead
        /\ (moveLost' <=> moveLost) /\ aimless' = aimless
    BY <1>6, SameAhead DEF MouseUpUnseen, moveVars, hostVars
  <2>. QED BY <2>1, NothingSent DEF PartsInv
<1>7. ASSUME ThrottleEnds \/ AttachCapture PROVE PartsInv'
  <2>1. /\ UNCHANGED <<frames, jobs, osVars, tool, held, lossVars>> /\ grip' = grip /\ lost' = lost
        /\ pointer' = NoPoint \/ (pointer' = pointer /\ (timerSet => timerSet'))
    BY <1>7 DEF ThrottleEnds, AttachCapture, hostVars, heldVars, lossVars
  <2>. QED BY <2>1, IdleStep
<1>8. ASSUME \/ OnControlMessage \/ AnswerOffer \/ OnRemoteStream \/ ChannelsClose
             \/ TeardownSession \/ StartSharing \/ StopSharing \/ HostTeardown
      PROVE  PartsInv'
  <2>1. /\ UNCHANGED <<frames, jobs, osVars, heldVars, moveVars, lossVars>> /\ tool' = tool
    BY <1>8 DEF OnControlMessage, AnswerOffer, OnRemoteStream, ChannelsClose, TeardownSession,
                StartSharing, StopSharing, HostTeardown, hostVars
  <2>2. /\ UNCHANGED <<frames, jobs, osVars, tool, held, lossVars>> /\ grip' = grip /\ lost' = lost
        /\ pointer' = pointer /\ (timerSet => timerSet')
    BY <2>1 DEF heldVars, moveVars, lossVars
  <2>. QED BY <2>2, IdleStep
<1>9. ASSUME FramesCut \/ OnRemoteInputMessage \/ CommandFails PROVE PartsInv'
  BY <1>9, DropStep
<1>10. ASSUME RunCommand \/ Refuse PROVE PartsInv'
  BY <1>10, PlayStep
<1>. QED BY <1>1, <1>2, <1>3, <1>4, <1>5, <1>6, <1>7, <1>8, <1>9, <1>10 DEF Next

\* The invariant of remote control holds in every state.
THEOREM InputInvariant == Spec => []InputInv
<1>1. Init => InputInv
  <2>. SUFFICES ASSUME Init PROVE InputInv
    OBVIOUS
  <2>1. TypeOK
    <3>1. FlowTypes
      <4>1. /\ connected \in BOOLEAN /\ stream \in BOOLEAN /\ inputOpen \in BOOLEAN
            /\ capture \in BOOLEAN /\ timerSet \in BOOLEAN /\ cooling \in BOOLEAN
            /\ reoffer = "none" /\ hostUp \in BOOLEAN /\ share = "none" /\ tool \in Tools
        BY DEF Init
      <4>2. held = {} /\ pendingMove = NoPoint /\ pointer = NoPoint
        BY DEF Init
      <4>3. frames = <<>> /\ ctl = <<>> /\ jobs = <<>>
        BY DEF Init
      <4>4. \A S : <<>> \in Seq(S)
        OBVIOUS
      <4>. QED BY <4>1, <4>2, <4>3, <4>4, FS_EmptySet DEF FlowTypes
    <3>2. PlayTypes
      <4>1. down = {} /\ cursor = NoPoint /\ lost = {} /\ events = 0 /\ shares = 0 /\ failures = 0
        BY DEF Init
      <4>2. /\ pressed \in BOOLEAN /\ grip \in BOOLEAN
            /\ moveLost \in BOOLEAN /\ aimless = {}
        BY DEF Init
      <4>. QED BY <4>1, <4>2, LimitsAssumption DEF PlayTypes
    <3>. QED BY <3>1, <3>2, TypesAgree DEF TypeInv
  <2>2. IsFiniteSet(held)
    BY FS_EmptySet DEF Init
  <2>3. Ahead = <<>> /\ Len(Ahead) = 0 /\ down = {} /\ ~pressed /\ pointer = NoPoint
    BY DEF Init, Ahead
  <2>4. KeysPart /\ ButtonPart
    BY <2>3 DEF KeysPart, KeysInv, ComesDown, ButtonPart, ButtonInv, StaysPressed
  <2>5. CursorPart /\ TimerInv
    BY <2>3 DEF Init, CursorPart, PointerSure, AimInv, TimerInv
  <2>. QED BY <2>1, <2>2, <2>4, <2>5 DEF InputInv
<1>2. InputInv /\ [Next]_vars => InputInv'
  <2>1. ASSUME InputInv, Next PROVE InputInv'
    <3>1. TypeInv /\ TimerInv /\ PartsInv
      BY <2>1, TypesAgree DEF InputInv, PartsInv
    <3>2. TypeInv' /\ TimerInv' /\ PartsInv'
      BY <2>1, <3>1, TypeStep, TimerStep, PartsStep
    <3>3. TypeOK' /\ IsFiniteSet(held')
      BY <3>2 DEF TypeInv, FlowTypes, PlayTypes, TypeOK
    <3>. QED BY <3>2, <3>3 DEF InputInv, PartsInv
  <2>2. ASSUME InputInv, UNCHANGED vars PROVE InputInv'
    <3>1. TypeInv /\ TimerInv /\ PartsInv
      BY <2>2, TypesAgree DEF InputInv, PartsInv
    <3>2. TypeInv'
      <4>1. FlowTypes'
        BY <2>2, <3>1 DEF TypeInv, FlowTypes, vars, clientVars, heldVars, moveVars, hostVars
      <4>2. PlayTypes'
        BY <2>2, <3>1 DEF TypeInv, PlayTypes, vars, heldVars, osVars, lossVars, budgets
      <4>. QED BY <4>1, <4>2 DEF TypeInv
    <3>3. TypeOK' /\ IsFiniteSet(held')
      BY <3>2 DEF TypeInv, FlowTypes, PlayTypes, TypeOK
    <3>4. TimerInv'
      BY <2>2, <3>1, Zenon DEF TimerInv, vars, moveVars
    <3>5. PartsInv'
      <4>1. UNCHANGED <<frames, jobs, osVars, tool, held, lossVars>> /\ grip' = grip /\ lost' = lost
            /\ pointer' = pointer /\ (timerSet => timerSet')
        BY <2>2 DEF vars, heldVars, moveVars, hostVars, lossVars
      <4>. QED BY <3>1, <4>1, IdleStep
    <3>. QED BY <3>3, <3>4, <3>5 DEF InputInv, PartsInv
  <2>. QED BY <2>1, <2>2
<1>. QED BY <1>1, <1>2, PTL DEF Spec

\* Every variable of remote control keeps to its type.
THEOREM InputTypeCorrect == Spec => []TypeOK
<1>1. InputInv => TypeOK
  BY DEF InputInv
<1>. QED BY <1>1, InputInvariant, PTL

\* No key and no button stays down on the host that the client forgot, unless
\* its release was lost (heldKeys, flushHeldKeys).
THEOREM DownAlwaysHeldOrLost == Spec => []DownIsHeldOrLost
BY InvImplies, InputInvariant, PTL

\* The throttle never loses the last move of the user.
THEOREM LatestMoveAlwaysKept == Spec => []LatestMoveKept
BY InvImplies, InputInvariant, PTL

\* A press meets the cursor at its point, except at a point whose move was lost,
\* or waited for the throttle when a press left for it, and that was not moved to
\* anew since (onMouseDown sends no move; aimless).
THEOREM PressAlwaysLandsWhereAimed == Spec => []PressLandsWhereAimed
BY InvImplies, InputInvariant, PTL

-----------------------------------------------------------------------------
(* The messages, for every size of a window, a video and a display           *)

LEMMA AlongTyped ==
    ASSUME NEW l \in Int, NEW v \in Int, NEW o \in Int, NEW n \in Int, NEW d \in Int
    PROVE  Along(l, v, Frac(n, d), o).num \in Int /\ Along(l, v, Frac(n, d), o).den \in Int
BY DEF Along, Frac

LEMMA SizeTyped ==
    ASSUME NEW s \in Size
    PROVE  s.width \in Int /\ s.height \in Int
BY MessagesAssumption DEF Size

\* Coordinates of a point that normalizePoint returns are between 0 and 1.
LEMMA PointIsUnit ==
    ASSUME NEW e \in Size, NEW v \in Size, NEW ox \in Int, NEW oy \in Int,
           NormalizePoint(e, v, ox, oy) # Null
    PROVE  /\ IsUnit(NormalizePoint(e, v, ox, oy).x)
           /\ IsUnit(NormalizePoint(e, v, ox, oy).y)
<1>1. PICK n \in Int, d \in Int : Scale(e, v) = Frac(n, d)
  BY SizeTyped DEF Scale
<1>2. PICK fx, fy : /\ fx = Along(e.width, v.width, Frac(n, d), ox)
                    /\ fy = Along(e.height, v.height, Frac(n, d), oy)
  OBVIOUS
<1>3. fx.num \in Int /\ fx.den \in Int /\ fy.num \in Int /\ fy.den \in Int
  BY <1>2, SizeTyped, AlongTyped
<1>4. /\ ~(fx.num < 0 \/ fy.num < 0 \/ fx.num > fx.den \/ fy.num > fy.den)
      /\ NormalizePoint(e, v, ox, oy) = [kind |-> "point", x |-> Clamp01(fx), y |-> Clamp01(fy)]
  BY <1>1, <1>2 DEF NormalizePoint
<1>5. Clamp01(fx) = fx /\ Clamp01(fy) = fy
  BY <1>4 DEF Clamp01
<1>. QED BY <1>3, <1>4, <1>5 DEF IsUnit

LEMMA NotchesBounded ==
    ASSUME NEW delta \in Int
    PROVE  WheelNotches(delta) \in 1..MaxWheelNotches
<1>1. Abs(delta) \in Nat
  BY DEF Abs
<1>2. PICK n : n = Round(Frac(Abs(delta), WheelNotchPx))
  OBVIOUS
<1>3. n \in Int
  BY <1>1, <1>2, MessagesAssumption DEF Round, Frac
<1>. QED BY <1>2, <1>3, MessagesAssumption DEF WheelNotches

\* What the listeners produce, by kind.
LEMMA ProducedTyped ==
    ASSUME NEW m \in Produced \ {Null}
    PROVE  \/ m.kind = "mouse-move" /\ IsUnit(m.x) /\ IsUnit(m.y)
           \/ /\ m.kind = "mouse-button" /\ IsUnit(m.x) /\ IsUnit(m.y)
              /\ m.event \in {"down", "up"} /\ m.button \in {"left", "middle", "right"}
           \/ /\ m.kind = "mouse-wheel" /\ IsUnit(m.x) /\ IsUnit(m.y)
              /\ m.deltaX \in Int /\ m.deltaY \in Int
           \/ /\ m.kind = "keyboard" /\ m.event \in {"keydown", "keyup"}
              /\ m.key \in 1..MaxKeyLength /\ m.code \in Whitelisted
<1>. DEFINE points == {NormalizePoint(e, v, o, o) : e \in Size, v \in Size, o \in Offsets} \ {Null}
<1>1. ASSUME NEW p \in points PROVE IsUnit(p.x) /\ IsUnit(p.y)
  BY PointIsUnit, MessagesAssumption
<1>2. ASSUME NEW p \in points, m = MouseMove(p)
      PROVE  m.kind = "mouse-move" /\ IsUnit(m.x) /\ IsUnit(m.y)
  BY <1>1, <1>2 DEF MouseMove
<1>3. ASSUME NEW e \in {"down", "up"}, NEW b \in {"left", "middle", "right", "other"},
             NEW p \in points, m = ButtonAt(e, b, p)
      PROVE  /\ m.kind = "mouse-button" /\ IsUnit(m.x) /\ IsUnit(m.y)
             /\ m.event \in {"down", "up"} /\ m.button \in {"left", "middle", "right"}
  BY <1>1, <1>3 DEF ButtonAt
<1>4. ASSUME NEW dx \in Deltas, NEW dy \in Deltas, NEW mode \in {"pixel", "line", "page"},
             NEW p \in points, m = Wheel(dx, dy, mode, p)
      PROVE  /\ m.kind = "mouse-wheel" /\ IsUnit(m.x) /\ IsUnit(m.y)
             /\ m.deltaX \in Int /\ m.deltaY \in Int
  <2>1. /\ m.kind = "mouse-wheel" /\ IsUnit(m.x) /\ IsUnit(m.y)
        /\ m.deltaX = ToPixels(dx, mode) /\ m.deltaY = ToPixels(dy, mode)
    BY <1>1, <1>4 DEF Wheel
  <2>2. ToPixels(dx, mode) \in Int /\ ToPixels(dy, mode) \in Int
    BY MessagesAssumption DEF ToPixels
  <2>. QED BY <2>1, <2>2
<1>5. ASSUME NEW e \in {"keydown", "keyup"}, NEW n \in KeyLengths, NEW c \in KeyCodes,
             m = KeyMessage(e, n, c)
      PROVE  /\ m.kind = "keyboard" /\ m.event \in {"keydown", "keyup"}
             /\ m.key \in 1..MaxKeyLength /\ m.code \in Whitelisted
  <2>1. c \in Whitelisted
    BY <1>5 DEF KeyMessage
  <2>2. m = [kind |-> "keyboard", event |-> e, code |-> c,
             key |-> IF n = 0 THEN CodeLength
                     ELSE IF n > MaxKeyLength THEN MaxKeyLength ELSE n]
    BY <1>5, <2>1 DEF KeyMessage
  <2>3. m.kind = "keyboard" /\ m.event = e /\ m.code = c
    BY <2>2
  <2>4. m.key \in 1..MaxKeyLength
    BY <2>2, MessagesAssumption
  <2>. QED BY <2>1, <2>3, <2>4
<1>6. m \in {MouseMove(p) : p \in points}
        \cup {ButtonAt(e, b, p) : e \in {"down", "up"},
                                  b \in {"left", "middle", "right", "other"}, p \in points}
        \cup {Wheel(dx, dy, mode, p) : dx \in Deltas, dy \in Deltas,
                                       mode \in {"pixel", "line", "page"}, p \in points}
        \cup {KeyMessage(e, n, c) : e \in {"keydown", "keyup"}, n \in KeyLengths, c \in KeyCodes}
  BY DEF Produced
<1>. QED BY <1>2, <1>3, <1>4, <1>5, <1>6

\* The two parsers accept what the listeners produce, but for oversized wheels,
\* whatever the limits and the sizes are (parseRemoteInputMessage and
\* parseRemoteInputRequest of remoteInput.ts).
LEMMA ProducedAlwaysAccepted == ProducedIsAccepted
<1>. SUFFICES ASSUME NEW m \in Produced \ {Null}, NEW display \in Displays
              PROVE  /\ ParseRequest(m, display) <=> ~Oversized(m)
                     /\ m.kind = "mouse-wheel" => WheelNotches(m.deltaX) \in 1..MaxWheelNotches
  BY DEF ProducedIsAccepted
<1>1. IsDisplayDimension(display.width) /\ IsDisplayDimension(display.height)
  BY DEF Displays
<1>2. m # Null
  OBVIOUS
<1>3. CASE m.kind = "mouse-move" /\ IsUnit(m.x) /\ IsUnit(m.y)
  <2>1. ParseMessage(m) = m
    BY <1>3 DEF ParseMessage
  <2>. QED BY <1>1, <1>2, <1>3, <2>1 DEF ParseRequest, Oversized
<1>4. CASE /\ m.kind = "mouse-button" /\ IsUnit(m.x) /\ IsUnit(m.y)
           /\ m.event \in {"down", "up"} /\ m.button \in {"left", "middle", "right"}
  <2>1. ParseMessage(m) = m
    BY <1>4 DEF ParseMessage
  <2>. QED BY <1>1, <1>2, <1>4, <2>1 DEF ParseRequest, Oversized
<1>5. CASE /\ m.kind = "mouse-wheel" /\ IsUnit(m.x) /\ IsUnit(m.y)
           /\ m.deltaX \in Int /\ m.deltaY \in Int
  <2>1. ParseMessage(m) = IF IsDelta(m.deltaX) /\ IsDelta(m.deltaY) THEN m ELSE Null
    BY <1>5 DEF ParseMessage
  <2>2. WheelNotches(m.deltaX) \in 1..MaxWheelNotches
    BY <1>5, NotchesBounded
  <2>. QED BY <1>1, <1>2, <1>5, <2>1, <2>2 DEF ParseRequest, Oversized
<1>6. CASE /\ m.kind = "keyboard" /\ m.event \in {"keydown", "keyup"}
           /\ m.key \in 1..MaxKeyLength /\ m.code \in Whitelisted
  <2>1. ParseMessage(m) = m
    BY <1>6 DEF ParseMessage
  <2>. QED BY <1>1, <1>2, <1>6, <2>1 DEF ParseRequest, Oversized
<1>. QED BY <1>3, <1>4, <1>5, <1>6, ProducedTyped

\* Both adapters take what they should, and no half of a gesture: past the
\* parsers only the button or the code decides.
LEMMA BothAdaptersTake == AdaptersThatTake = Tools
<1>. SUFFICES ASSUME NEW adapter \in Tools PROVE HostTakes(adapter)
  BY DEF AdaptersThatTake, Tools
<1>. SUFFICES ASSUME NEW display \in Displays
              PROVE  /\ \A m \in Produced \ {Null} :
                           \/ Takes(adapter, m, display)
                           \/ Oversized(m)
                           \/ /\ adapter = "cliclick"
                              /\ \/ m.kind = "mouse-wheel"
                                 \/ m.kind = "mouse-button" /\ m.button # "left"
                                 \/ m.kind = "keyboard" /\ m.code = "letter"
                     /\ \A b \in {"left", "middle", "right"} :
                           AllOrNone(adapter, OfButton(b), display)
                     /\ \A c \in Whitelisted : AllOrNone(adapter, OfKey(c), display)
  BY DEF HostTakes
<1>1. ASSUME NEW m \in Produced \ {Null}, ~Oversized(m)
      PROVE  Takes(adapter, m, display) <=> HasCommand(adapter, m)
  BY <1>1, ProducedAlwaysAccepted DEF ProducedIsAccepted, Takes
<1>2. ASSUME NEW m \in Produced \ {Null}
      PROVE  \/ Takes(adapter, m, display)
             \/ Oversized(m)
             \/ /\ adapter = "cliclick"
                /\ \/ m.kind = "mouse-wheel"
                   \/ m.kind = "mouse-button" /\ m.button # "left"
                   \/ m.kind = "keyboard" /\ m.code = "letter"
  <2>1. \/ HasCommand(adapter, m)
        \/ /\ adapter = "cliclick"
           /\ \/ m.kind = "mouse-wheel"
              \/ m.kind = "mouse-button" /\ m.button # "left"
              \/ m.kind = "keyboard" /\ m.code = "letter"
    BY ProducedTyped DEF HasCommand, Whitelisted, Tools
  <2>. QED BY <1>1, <2>1
<1>3. ASSUME NEW b \in {"left", "middle", "right"}
      PROVE  AllOrNone(adapter, OfButton(b), display)
  <2>1. ASSUME NEW m \in OfButton(b)
        PROVE  Takes(adapter, m, display) <=> adapter = "xdotool" \/ b = "left"
    <3>1. m \in Produced \ {Null} /\ m.kind = "mouse-button" /\ m.button = b
      BY DEF OfButton
    <3>2. m.event \in {"down", "up"}
      BY <3>1, ProducedTyped
    <3>3. ~Oversized(m)
      BY <3>1 DEF Oversized
    <3>4. HasCommand(adapter, m) <=> adapter = "xdotool" \/ b = "left"
      BY <3>1, <3>2 DEF HasCommand
    <3>. QED BY <1>1, <3>1, <3>3, <3>4
  <2>. QED BY <2>1 DEF AllOrNone
<1>4. ASSUME NEW c \in Whitelisted
      PROVE  AllOrNone(adapter, OfKey(c), display)
  <2>1. ASSUME NEW m \in OfKey(c)
        PROVE  Takes(adapter, m, display) <=>
                  adapter = "xdotool" \/ c \in {"modifier", "pressable"}
    <3>1. m \in Produced \ {Null} /\ m.kind = "keyboard" /\ m.code = c
      BY DEF OfKey
    <3>2. ~Oversized(m)
      BY <3>1 DEF Oversized
    <3>3. HasCommand(adapter, m) <=> adapter = "xdotool" \/ c \in {"modifier", "pressable"}
      BY <3>1 DEF HasCommand
    <3>. QED BY <1>1, <3>1, <3>2, <3>3
  <2>. QED BY <2>1 DEF AllOrNone
<1>. QED BY <1>2, <1>3, <1>4

-----------------------------------------------------------------------------
(* The arithmetic of the fractions                                           *)

LEMMA Cancel ==
    ASSUME NEW k \in Int, k > 0, NEW a \in Int, NEW b \in Int
    PROVE  /\ k * a <= k * b <=> a <= b
           /\ k * a >= k * b <=> a >= b
<1>1. a <= b => k * a <= k * b
  OBVIOUS
<1>2. ASSUME a > b PROVE k * a > k * b
  <2>1. a - b >= 1 /\ k * (a - b) >= k
    BY <1>2
  <2>2. k * a = k * b + k * (a - b)
    OBVIOUS
  <2>. QED BY <2>1, <2>2
<1>3. a >= b => k * a >= k * b
  OBVIOUS
<1>4. ASSUME a < b PROVE k * a < k * b
  <2>1. b - a >= 1 /\ k * (b - a) >= k
    BY <1>4
  <2>2. k * b = k * a + k * (b - a)
    OBVIOUS
  <2>. QED BY <2>1, <2>2
<1>. QED BY <1>1, <1>2, <1>3, <1>4

\* Math.round goes to a closest integer.
LEMMA RoundIsNearest ==
    ASSUME NEW n \in Int, NEW d \in Int, d > 0
    PROVE  /\ Round(Frac(n, d)) \in Int
           /\ 2 * Abs(Round(Frac(n, d)) * d - n) <= d
<1>1. PICK p : p = (2 * n + d) \div (2 * d)
  OBVIOUS
<1>2. p \in Int
  BY <1>1
<1>3. (2 * d) * p <= 2 * n + d /\ 2 * n + d < (2 * d) * p + 2 * d
  BY <1>1
<1>4. PICK z \in Int : z = p * d
  BY <1>2
<1>5. (2 * d) * p = 2 * z
  BY <1>2, <1>4
<1>6. 2 * Abs(z - n) <= d
  BY <1>3, <1>5 DEF Abs
<1>. QED BY <1>1, <1>2, <1>4, <1>6 DEF Round, Frac

\* A fraction of a length is rounded to between 0 and the length.
LEMMA RoundIsWithin ==
    ASSUME NEW n \in Int, NEW d \in Int, NEW l \in Int, d > 0, 0 <= n, n <= d, 0 <= l
    PROVE  Round(Frac(n * l, d)) \in 0..l
<1>1. PICK m \in Int, c \in Int : m = n * l /\ c = d * l
  OBVIOUS
<1>2. 0 <= m /\ m <= c
  <2>1. l * n <= l * d
    OBVIOUS
  <2>2. m = l * n /\ c = l * d
    BY <1>1
  <2>3. 0 <= l * n
    OBVIOUS
  <2>. QED BY <2>1, <2>2, <2>3
<1>3. PICK p \in Int : p = Round(Frac(m, d))
  BY RoundIsNearest
<1>4. PICK z \in Int : z = p * d
  OBVIOUS
<1>5. 2 * (z - m) <= d /\ 2 * (m - z) <= d
  <2>1. 2 * Abs(z - m) <= d
    BY <1>3, <1>4, RoundIsNearest
  <2>. QED BY <2>1 DEF Abs
<1>6. p >= 0
  <2>. SUFFICES ASSUME p <= -1 PROVE FALSE
    OBVIOUS
  <2>1. d * p <= d * (-1)
    BY Cancel
  <2>2. z <= -d
    BY <1>4, <2>1
  <2>. QED BY <1>2, <1>5, <2>2
<1>7. p <= l
  <2>. SUFFICES ASSUME p >= l + 1 PROVE FALSE
    OBVIOUS
  <2>1. d * p >= d * (l + 1)
    BY Cancel
  <2>2. z >= c + d
    BY <1>1, <1>4, <2>1
  <2>. QED BY <1>2, <1>5, <2>2
<1>. QED BY <1>1, <1>3, <1>6, <1>7

\* Being closest does not depend on how the fraction is written.
LEMMA NearestScaled ==
    ASSUME NEW k \in Int, k > 0, NEW p \in Int, NEW n \in Int, NEW d \in Int
    PROVE  2 * Abs(p * (k * d) - k * n) <= k * d <=> 2 * Abs(p * d - n) <= d
<1>1. PICK z \in Int : z = p * d - n
  OBVIOUS
<1>2. p * (k * d) - k * n = k * z
  BY <1>1
<1>3. Abs(z) \in Int /\ Abs(k * z) = k * Abs(z)
  <2>1. CASE z >= 0
    <3>1. k * z >= 0
      BY <2>1
    <3>. QED BY <2>1, <3>1 DEF Abs
  <2>2. CASE z < 0
    <3>1. k * z < 0 /\ -(k * z) = k * (-z)
      BY <2>2
    <3>. QED BY <2>2, <3>1 DEF Abs
  <2>. QED BY <2>1, <2>2
<1>4. 2 * (k * Abs(z)) = k * (2 * Abs(z))
  BY <1>3
<1>5. k * (2 * Abs(z)) <= k * d <=> 2 * Abs(z) <= d
  BY <1>3, Cancel
<1>. QED BY <1>1, <1>2, <1>3, <1>4, <1>5

\* Along one axis, the fraction f hits what is shown from start over span.
Hits(f, o, start, span) ==
    /\ f.num \in Int /\ f.den \in Int /\ f.den > 0
    /\ IsInside(o, start, span) <=> f.num >= 0 /\ f.num <= f.den
    /\ IsInside(o, start, span) =>
          \A length \in Nat :
             /\ IsNearest(Round(Frac(f.num * length, f.den)), o, start, span, length)
             /\ Round(Frac(f.num * length, f.den)) \in 0..length

\* The axis that the video spans.
LEMMA SpannedHit ==
    ASSUME NEW l \in Int, l > 0, NEW v \in Int, v > 0, NEW o \in Int
    PROVE  Hits(Along(l, v, Frac(l, v), o), o, Frac(0, 1), Frac(l, 1))
<1>1. PICK k \in Int : k = 2 * v
  OBVIOUS
<1>2. k > 0
  BY <1>1
<1>3. PICK f : f = Along(l, v, Frac(l, v), o)
  OBVIOUS
<1>4. f.num = k * o /\ f.den = k * l
  <2>1. f.num = 2 * v * o - (v * l - v * l) /\ f.den = 2 * v * l
    BY <1>3 DEF Along, Frac
  <2>2. v * l \in Int /\ 2 * v * o \in Int
    OBVIOUS
  <2>3. f.num = 2 * v * o
    BY <2>1, <2>2
  <2>. QED BY <1>1, <2>1, <2>3
<1>5. f.num \in Int /\ f.den \in Int /\ f.den > 0
  BY <1>2, <1>4
<1>6. IsInside(o, Frac(0, 1), Frac(l, 1)) <=> o >= 0 /\ o <= l
  BY DEF IsInside, Frac
<1>7. (f.num >= 0 <=> o >= 0) /\ (f.num <= f.den <=> o <= l)
  <2>1. (k * o >= k * 0 <=> o >= 0) /\ (k * o <= k * l <=> o <= l)
    BY <1>2, Cancel
  <2>2. k * 0 = 0
    OBVIOUS
  <2>. QED BY <1>4, <2>1, <2>2
<1>8. ASSUME o >= 0, o <= l, NEW length \in Nat
      PROVE  /\ IsNearest(Round(Frac(f.num * length, f.den)), o, Frac(0, 1), Frac(l, 1), length)
             /\ Round(Frac(f.num * length, f.den)) \in 0..length
  <2>1. PICK p : p = Round(Frac(f.num * length, f.den))
    OBVIOUS
  <2>2. f.num * length \in Int /\ p \in Int /\ 2 * Abs(p * f.den - f.num * length) <= f.den
    <3>1. PICK m \in Int : m = f.num * length
      BY <1>5
    <3>2. p = Round(Frac(m, f.den))
      BY <2>1, <3>1
    <3>. QED BY <1>5, <3>1, <3>2, RoundIsNearest
  <2>3. PICK n \in Int : n = o * length
    OBVIOUS
  <2>4. f.num * length = k * n
    BY <1>4, <2>3
  <2>5. 2 * Abs(p * (k * l) - k * n) <= k * l
    BY <1>4, <2>2, <2>4
  <2>6. 2 * Abs(p * l - n) <= l
    BY <1>2, <2>2, <2>5, NearestScaled
  <2>7. IsNearest(p, o, Frac(0, 1), Frac(l, 1), length)
    BY <2>2, <2>3, <2>6 DEF IsNearest, Frac
  <2>8. p \in 0..length
    BY <1>5, <1>7, <1>8, <2>1, RoundIsWithin
  <2>. QED BY <2>1, <2>7, <2>8
<1>. QED BY <1>3, <1>5, <1>6, <1>7, <1>8 DEF Hits

\* The axis with bars on both sides.
LEMMA CentredHit ==
    ASSUME NEW l \in Int, l > 0, NEW v \in Int, v > 0, NEW o \in Int,
           NEW s \in Int, s > 0, NEW u \in Int, u > 0
    PROVE  Hits(Along(l, v, Frac(s, u), o), o, Frac(l * u - v * s, 2 * u), Frac(v * s, u))
<1>1. PICK c \in Int, b \in Int : c = v * s /\ b = l * u - v * s
  OBVIOUS
<1>2. PICK f : f = Along(l, v, Frac(s, u), o)
  OBVIOUS
<1>3. PICK n \in Int : n = 2 * u * o - b
  BY <1>1
<1>4. f.num = n /\ f.den = 2 * c
  <2>1. f.num = 2 * u * o - (u * l - v * s) /\ f.den = 2 * v * s
    BY <1>2 DEF Along, Frac
  <2>. QED BY <1>1, <1>3, <2>1
<1>5. c > 0 /\ f.num \in Int /\ f.den \in Int /\ f.den > 0
  BY <1>1, <1>4
<1>6. PICK start, span : start = Frac(b, 2 * u) /\ span = Frac(c, u)
  OBVIOUS
<1>7. /\ start.num = b /\ start.den = 2 * u /\ span.num = c /\ span.den = u
      /\ o * start.den - start.num = n
  BY <1>3, <1>6 DEF Frac
<1>8. IsInside(o, start, span) <=> f.num >= 0 /\ f.num <= f.den
  <2>1. o * start.den >= start.num <=> n >= 0
    BY <1>3, <1>7
  <2>2. (o * start.den - start.num) * span.den = u * n
    BY <1>7
  <2>3. span.num * start.den = u * (2 * c)
    BY <1>7
  <2>4. u * n <= u * (2 * c) <=> n <= 2 * c
    BY Cancel
  <2>. QED BY <1>4, <2>1, <2>2, <2>3, <2>4 DEF IsInside
<1>9. ASSUME f.num >= 0, f.num <= f.den, NEW length \in Nat
      PROVE  /\ IsNearest(Round(Frac(f.num * length, f.den)), o, start, span, length)
             /\ Round(Frac(f.num * length, f.den)) \in 0..length
  <2>1. PICK p : p = Round(Frac(f.num * length, f.den))
    OBVIOUS
  <2>2. f.num * length \in Int /\ p \in Int /\ 2 * Abs(p * f.den - f.num * length) <= f.den
    <3>1. PICK m \in Int : m = f.num * length
      BY <1>5
    <3>2. p = Round(Frac(m, f.den))
      BY <2>1, <3>1
    <3>. QED BY <1>5, <3>1, <3>2, RoundIsNearest
  <2>3. PICK m \in Int, d \in Int : m = n * length /\ d = 2 * c
    OBVIOUS
  <2>4. 2 * Abs(p * d - m) <= d
    BY <1>4, <2>2, <2>3
  <2>5. 2 * Abs(p * (u * d) - u * m) <= u * d
    BY <2>2, <2>4, NearestScaled
  <2>6. start.den * span.num = u * d
    BY <1>7, <2>3
  <2>7. (o * start.den - start.num) * span.den * length = u * m
    BY <1>7, <2>3
  <2>8. IsNearest(p, o, start, span, length)
    BY <2>5, <2>6, <2>7 DEF IsNearest
  <2>9. p \in 0..length
    BY <1>5, <1>9, <2>1, RoundIsWithin
  <2>. QED BY <2>1, <2>8, <2>9
<1>. QED BY <1>1, <1>2, <1>5, <1>6, <1>8, <1>9 DEF Hits

\* A point hits what both of its axes hit, at the pixels of any display.
LEMMA BothAxesHit ==
    ASSUME NEW e \in Positive, NEW v \in Positive, NEW ox \in Int, NEW oy \in Int,
           NEW fx, NEW fy, NEW shown,
           fx = Along(e.width, v.width, Scale(e, v), ox),
           fy = Along(e.height, v.height, Scale(e, v), oy),
           Hits(fx, ox, shown.left, shown.width), Hits(fy, oy, shown.top, shown.height)
    PROVE  IF IsInside(ox, shown.left, shown.width) /\ IsInside(oy, shown.top, shown.height)
           THEN /\ NormalizePoint(e, v, ox, oy) # Null
                /\ \A display \in Displays :
                      LET at == DenormalizePoint(display, NormalizePoint(e, v, ox, oy).x,
                                                 NormalizePoint(e, v, ox, oy).y)
                      IN  /\ IsNearest(at.x, ox, shown.left, shown.width, display.width)
                          /\ IsNearest(at.y, oy, shown.top, shown.height, display.height)
                          /\ at.x \in 0..display.width /\ at.y \in 0..display.height
           ELSE NormalizePoint(e, v, ox, oy) = Null
<1>1. /\ e.width \in Int /\ e.height \in Int /\ v.width \in Int /\ v.height \in Int
      /\ e.width > 0 /\ e.height > 0 /\ v.width > 0 /\ v.height > 0
  BY SizeTyped DEF Positive
<1>2. NormalizePoint(e, v, ox, oy) =
         IF fx.num < 0 \/ fy.num < 0 \/ fx.num > fx.den \/ fy.num > fy.den
         THEN Null
         ELSE [kind |-> "point", x |-> Clamp01(fx), y |-> Clamp01(fy)]
  BY <1>1 DEF NormalizePoint
<1>3. CASE IsInside(ox, shown.left, shown.width) /\ IsInside(oy, shown.top, shown.height)
  <2>1. /\ fx.num \in Int /\ fx.den \in Int /\ fx.num >= 0 /\ fx.num <= fx.den
        /\ fy.num \in Int /\ fy.den \in Int /\ fy.num >= 0 /\ fy.num <= fy.den
    BY <1>3 DEF Hits
  <2>2. Clamp01(fx) = fx /\ Clamp01(fy) = fy
    BY <2>1 DEF Clamp01
  <2>3. NormalizePoint(e, v, ox, oy) = [kind |-> "point", x |-> fx, y |-> fy]
    BY <1>2, <2>1, <2>2
  <2>4. [kind |-> "point", x |-> fx, y |-> fy] # Null
    BY DEF Null
  <2>5. ASSUME NEW display \in Displays
        PROVE  LET at == DenormalizePoint(display, fx, fy)
               IN  /\ IsNearest(at.x, ox, shown.left, shown.width, display.width)
                   /\ IsNearest(at.y, oy, shown.top, shown.height, display.height)
                   /\ at.x \in 0..display.width /\ at.y \in 0..display.height
    <3>1. display.width \in Nat /\ display.height \in Nat
      BY SizeTyped DEF Displays, IsDisplayDimension
    <3>2. PICK at : at = DenormalizePoint(display, fx, fy)
      OBVIOUS
    <3>3. /\ at.x = Round(Frac(fx.num * display.width, fx.den))
          /\ at.y = Round(Frac(fy.num * display.height, fy.den))
      BY <2>2, <3>2 DEF DenormalizePoint
    <3>. QED BY <1>3, <3>1, <3>2, <3>3 DEF Hits
  <2>. QED BY <1>3, <2>3, <2>4, <2>5
<1>4. CASE ~(IsInside(ox, shown.left, shown.width) /\ IsInside(oy, shown.top, shown.height))
  <2>1. fx.num < 0 \/ fy.num < 0 \/ fx.num > fx.den \/ fy.num > fy.den
    BY <1>4 DEF Hits
  <2>. QED BY <1>2, <1>4, <2>1
<1>. QED BY <1>3, <1>4

\* What is under the pointer is what the host's cursor hits, for windows, videos
\* and displays of every size (normalizePoint, denormalizePoint).
THEOREM AlwaysHitsWhatIsShown == HitsWhatIsShown
<1>. SUFFICES ASSUME NEW e \in Positive, NEW v \in Positive, NEW ox \in Offsets, NEW oy \in Offsets
              PROVE  LET shown == Shown(e, v)
                         point == NormalizePoint(e, v, ox, oy)
                     IN  IF /\ IsInside(ox, shown.left, shown.width)
                            /\ IsInside(oy, shown.top, shown.height)
                         THEN /\ point # Null
                              /\ \A display \in Displays :
                                    LET at == DenormalizePoint(display, point.x, point.y)
                                    IN  /\ IsNearest(at.x, ox, shown.left, shown.width, display.width)
                                        /\ IsNearest(at.y, oy, shown.top, shown.height, display.height)
                                        /\ at.x \in 0..display.width /\ at.y \in 0..display.height
                         ELSE point = Null
  BY DEF HitsWhatIsShown
<1>1. /\ e.width \in Int /\ e.height \in Int /\ v.width \in Int /\ v.height \in Int
      /\ e.width > 0 /\ e.height > 0 /\ v.width > 0 /\ v.height > 0
      /\ ox \in Int /\ oy \in Int
  BY SizeTyped, MessagesAssumption DEF Positive
<1>2. PICK fx, fy, shown :
         /\ fx = Along(e.width, v.width, Scale(e, v), ox)
         /\ fy = Along(e.height, v.height, Scale(e, v), oy)
         /\ shown = Shown(e, v)
  OBVIOUS
<1>3. Hits(fx, ox, shown.left, shown.width) /\ Hits(fy, oy, shown.top, shown.height)
  <2>1. ASSUME e.width * v.height <= e.height * v.width
        PROVE  Hits(fx, ox, shown.left, shown.width) /\ Hits(fy, oy, shown.top, shown.height)
    <3>1. Scale(e, v) = Frac(e.width, v.width)
      BY <2>1 DEF Scale
    <3>2. v.width * e.height >= e.width * v.height
      BY <1>1, <2>1
    <3>3. /\ shown.left = Frac(0, 1) /\ shown.width = Frac(e.width, 1)
          /\ shown.top = Frac(e.height * v.width - v.height * e.width, 2 * v.width)
          /\ shown.height = Frac(v.height * e.width, v.width)
      BY <1>2, <3>2 DEF Shown
    <3>4. Hits(Along(e.width, v.width, Frac(e.width, v.width), ox), ox,
               Frac(0, 1), Frac(e.width, 1))
      BY <1>1, SpannedHit
    <3>5. Hits(Along(e.height, v.height, Frac(e.width, v.width), oy), oy,
               Frac(e.height * v.width - v.height * e.width, 2 * v.width),
               Frac(v.height * e.width, v.width))
      BY <1>1, CentredHit
    <3>. QED BY <1>2, <3>1, <3>3, <3>4, <3>5
  <2>2. ASSUME ~(e.width * v.height <= e.height * v.width)
        PROVE  Hits(fx, ox, shown.left, shown.width) /\ Hits(fy, oy, shown.top, shown.height)
    <3>1. Scale(e, v) = Frac(e.height, v.height)
      BY <2>2 DEF Scale
    <3>2. ~(v.width * e.height >= e.width * v.height)
      BY <1>1, <2>2
    <3>3. /\ shown.top = Frac(0, 1) /\ shown.height = Frac(e.height, 1)
          /\ shown.left = Frac(e.width * v.height - v.width * e.height, 2 * v.height)
          /\ shown.width = Frac(v.width * e.height, v.height)
      BY <1>2, <3>2 DEF Shown
    <3>4. Hits(Along(e.height, v.height, Frac(e.height, v.height), oy), oy,
               Frac(0, 1), Frac(e.height, 1))
      BY <1>1, SpannedHit
    <3>5. Hits(Along(e.width, v.width, Frac(e.height, v.height), ox), ox,
               Frac(e.width * v.height - v.width * e.height, 2 * v.height),
               Frac(v.width * e.height, v.height))
      BY <1>1, CentredHit
    <3>. QED BY <1>2, <3>1, <3>3, <3>4, <3>5
  <2>. QED BY <2>1, <2>2
<1>. QED BY <1>1, <1>2, <1>3, BothAxesHit

\* While a display of a known size is shared, the host's cursor hits what the
\* client's pointer is on.
THEOREM SharedScreenAlwaysHit == Spec => []SharedScreenIsHit
<1>1. SharedScreenIsHit
  BY AlwaysHitsWhatIsShown DEF SharedScreenIsHit
<1>. QED BY <1>1, PTL

\* While it is, no parser on the host turns down what the client's listeners
\* produce, except oversized wheels, and the adapter of either platform takes
\* all that its tool has commands for, presses and releases alike.
THEOREM SharedScreenAlwaysTakesInput == Spec => []SharedScreenTakesInput
<1>1. Spec => []TypeOK
  BY InputTypeCorrect
<1>2. TypeOK => SharedScreenTakesInput
  BY ProducedAlwaysAccepted, BothAdaptersTake DEF TypeOK, SharedScreenTakesInput
<1>. QED BY <1>1, <1>2, PTL
=============================================================================
