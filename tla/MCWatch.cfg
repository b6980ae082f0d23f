SPECIFICATION WatchSpec
CONSTANTS
    Chan = {w1, w2}
    NoChan = NoChan
    MaxUpdates = 3
    RacyClose = FALSE
    Failures = TRUE
    Key = {1, 2, 3}
    Val = {v1, v2}
    NoVal = NoVal
    HashSize = 4
    HashFns <- MCHashFns
    NoEntry = NoEntry
    HasFinalize = TRUE
    Unsafe = TRUE
    CollidingDeletes = FALSE
INVARIANTS
    NoLostUpdate
    NoPanic
    KeysFinalizedOnce
PROPERTIES
    ProcessedInOrder
    EventuallyProcessed
    GoroutinesEnd
    ImplementsDictionary
CHECK_DEADLOCK FALSE
