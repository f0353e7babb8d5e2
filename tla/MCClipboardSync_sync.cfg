SPECIFICATION MCSpec
CONSTANTS
    p1 = p1
    p2 = p2
    x = x
    y = y
    none = none
    null = null
    Peers <- TwoPeers
    Texts <- TwoTexts
    Unsendable <- OneUnsendable
    NoText = null
    MaxCopies = 2
    MaxSwitches = 2
    MaxPending = 1
CHECK_DEADLOCK FALSE
CONSTRAINT NoOverlap
INVARIANT TypeOK
PROPERTIES AsksOnlyWhileRunning  Settles
