\* One mount and three handler changes or reconnects, with the code's five attempts.
SPECIFICATION FairSpec
CONSTANTS
    Sockets = {s1, s2, s3, s4, s5}
    None = None
    MaxReconnectAttempts = 5
    MaxCalls = 3
INVARIANTS
    TypeOK
    NoStorm
    GivesUpLast
    LiveBadgeIsTrue
PROPERTIES
    GoodNetConnects
    DeadNetGoesQuiet
CHECK_DEADLOCK FALSE
