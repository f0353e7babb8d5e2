--------------------------- MODULE MCClipboardSync ---------------------------
(***************************************************************************)
(* Instances of ClipboardSync for TLC.                                     *)
(***************************************************************************)
EXTENDS ClipboardSync

CONSTANTS p1, p2, x, y, none, null

TwoPeers == {p1, p2}
TwoTexts == {x, y}
OneUnsendable == {none}

\* One initial state of each class that renaming peers and texts makes equal: the
\* module and its properties name neither, so the behaviours left out are renamings
\* of ones that are kept.
FirstClips == {<<none, none>>, <<none, x>>, <<x, x>>, <<x, y>>}
MCInit ==
    /\ Init
    /\ setting[p2] => setting[p1]
    /\ \/ <<os[p1], os[p2]>> \in FirstClips
       \/ setting[p1] # setting[p2] /\ <<os[p1], os[p2]>> = <<x, none>>
MCSpec == MCInit /\ [][Next]_vars /\ Fairness
=============================================================================
