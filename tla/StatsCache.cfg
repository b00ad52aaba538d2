\* Three calculations of two goroutines, one message at a time in the database, one pruned
\* message, one failing statement, one restart, two requests.
SPECIFICATION Spec
CONSTANTS
    Nothing = Nothing
    Pending = Pending
    MaxStored = 1
    MaxPruned = 1
    MaxStarts = 3
    MaxErrors = 1
    MaxCrashes = 1
    MaxCalls = 2
INVARIANTS
    CacheServesLast
    BarsShortOnlyByLoss
PROPERTY
    PageGoesBackOnlyByRace
CHECK_DEADLOCK FALSE
