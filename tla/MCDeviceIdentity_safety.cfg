CONSTANTS
    p1 = p1
    p2 = p2
    c1 = c1
    c2 = c2
    c3 = c3
    i1 = i1
    i2 = i2
    i3 = i3
    n1 = n1
    n2 = n2
    s1 = s1
    s2 = s2
    none = none
    Processes = {p1, p2}
    Calls = {c1, c2, c3}
    Ids = {i1, i2, i3}
    Pids = {n1, n2}
    Salts = {s1, s2}
    NoId = none
    NoCall = none
    MaxFailures = 1
SPECIFICATION MCSpec
INVARIANTS
    TypeOK
    StagedIsMine
    OneIdPerRun
    UsedIsStored
PROPERTIES
    IdentityLasts
    CallsSettle
CHECK_DEADLOCK FALSE
