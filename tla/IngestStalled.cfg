\* The same without the assumption that stalled clients recover.
SPECIFICATION StallSpec
CONSTANTS
    Broadcasters <- BlockAndSubtree
    Conns = {c1}
    Nobody = Nobody
    Payloads <- PlainOnly
    MaxMessages <- OneEach
PROPERTIES
    EveryMessageServed
CHECK_DEADLOCK FALSE
