\* Liveness: one network, two peers, and a query that returns fewer rows than there are.
SPECIFICATION FairSpec
CONSTANTS
    Networks = {n1}
    Peers = {p1, p2}
    Absent = Absent
    Feeds = {f1}
    Off = Off
    Loads = {l1, l2}
    NoLoad = NoLoad
    Unread = Unread
    RowLimit = 2
    WorkValues = {1}
    MaxPublished = 3
    MaxFailures = 1
PROPERTY
    CaughtUp
CHECK_DEADLOCK FALSE
