-------------------------- MODULE MCDeviceIdentity --------------------------
(***************************************************************************)
(* Two processes on one profile, at the same time or one after the other.  *)
(***************************************************************************)
EXTENDS DeviceIdentity, TLC

CONSTANTS p1, p2, c1, c2, c3, i1, i2, i3, n1, n2, s1, s2, none

\* One initial state of each class that renaming processes, calls, ids and process
\* ids makes equal: the module and its properties name none of them, so the
\* behaviours left out are renamings of ones that are kept.
MCInit ==
    /\ Init
    /\ file \in {none, i1}
    /\ pid[p1] = n1
    /\ By(c1) = p1 /\ By(c2) = p1
MCSpec == MCInit /\ [][Next]_vars /\ Fairness
=============================================================================
