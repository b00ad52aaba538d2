\* Two generated topics and bitcoin/node_status, two clients; two messages on the block
\* topic, one on each other.
SPECIFICATION Spec
CONSTANTS
    Broadcasters <- WithNodeStatus
    Conns = {c1, c2}
    Nobody = Nobody
    Payloads <- AnyBlock
    MaxMessages <- TwoBlocks
INVARIANTS
    TypeOK
    OneOrderNoGaps
    RegistryMatchesHandlers
    StoredBeforeBroadcast
    TopicOrderKept
    ConsumersEndForCause
SYMMETRY ClientSymmetry
CHECK_DEADLOCK FALSE
