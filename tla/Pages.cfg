\* Safety: two networks, two peers, one WebSocket, two loads under way at once.
SPECIFICATION Spec
CONSTANTS
    Networks = {n1, n2}
    Peers = {p1, p2}
    Absent = Absent
    Feeds = {f1}
    Off = Off
    Loads = {l1, l2}
    NoLoad = NoLoad
    Unread = Unread
    RowLimit = 1
    WorkValues = {1, 2}
    MaxPublished = 2
    MaxFailures = 1
INVARIANTS
    TypeOK
    KeptWhereItBelongs
    ScreenIsBacked
PROPERTY
    RegressOnlyByLoad
SYMMETRY PageSymmetry
CHECK_DEADLOCK FALSE
