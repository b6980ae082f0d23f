SPECIFICATION HashMapSpec
CONSTANTS
    Key = {k1, k2, k3}
    Val = {v1}
    NoVal = NoVal
    HashSize = 4
    HashFns <- AllHashFns
    NoEntry = NoEntry
    HasFinalize = TRUE
    Unsafe = FALSE
    CollidingDeletes = TRUE
PROPERTY ImplementsDictionary
CHECK_DEADLOCK FALSE
