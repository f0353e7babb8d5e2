SPECIFICATION Spec
CONSTANTS
    p1 = p1
    p2 = p2
    x = x
    y = y
    none = none
    null = null
    Peers <- TwoPeers
    Texts <- TwoTexts
    Unsendable <- OneUnsendable
    NoText = null
    MaxCopies = 1
    MaxSwitches = 2
    MaxPending = 2
CHECK_DEADLOCK FALSE
PROPERTY OffBlocksBothDirections
