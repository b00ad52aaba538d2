\* Batches of two in chunks of one; the second row refused, one fault, one crash.
SPECIFICATION FairSpec
CONSTANTS
    p1 = p1
    p2 = p2
    Flusher = Flusher
    Nobody = Nobody
    NKinds = 2
    Producers = {p1, p2}
    Feeds <- MCFeeds
    BatchSize = 2
    ChunkSize = 1
    Poison <- PoisonSecond
    MaxRows = 3
    RowBound <- ThreeAndOne
    MaxFaults = 1
    MaxCopies = 3
    MaxCrashes = 1
INVARIANTS
    TypeOK
    NothingLost
    DuplicatesNeedFailure
    OverfullOnlyAfterFailure
    StopFlushesEarlierRows
PROPERTIES
    StoreSpec
    HealthyKindsDrain
    StopReturns
\* After Stop and the last bounded Add nothing is left to do.
CHECK_DEADLOCK FALSE
