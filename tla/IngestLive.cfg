\* Liveness: two topics, two clients, one message on each topic; stalled clients recover.
SPECIFICATION FairSpec
CONSTANTS
    Broadcasters <- BlockAndSubtree
    Conns = {c1, c2}
    Nobody = Nobody
    Payloads <- PlainAndMalformed
    MaxMessages <- OneEach
PROPERTIES
    EveryMessageServed
    DeadClientsForgotten
CHECK_DEADLOCK FALSE
