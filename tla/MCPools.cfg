SPECIFICATION PoolsSpec
CONSTANTS
    Obj = {o1, o2, o3, o4, o5}
    Client = {p1, p2}
    NoObj = NoObj
    MaxHeld = 1
    PoolSize = 2
    refillLowWatermark = 1
    refillHighWatermark = 2
    Task = {t1, t2, t3}
    Tokens = 2
    Work = {f1, f2, f3}
    Worker = {w1, w2, w3, w4, w5}
    NoWork = NoWork
    Size = 3
    NumShards = 2
    GrowOnDemand = TRUE
    SliceClient = {c1, c2}
    EmptyElem = EmptyElem
    sizesAsc <- MCSizes
    BucketSize = 1
    MaxCapacity = 2
    MaxCap = 3
    Elem <- MCElem
    MaxGets = 5
    DisallowUntrackedPuts = TRUE
    Owner = o
    User = {u1}
    FinObj = {f1, f2}
    Traceback = TRUE
    PollsNumRef = FALSE
    MaxRounds = 2
    MaxOps = 3
INVARIANTS
    OneOwner
    TokensConserved
    ShardsStaffed
    SlicesFitAndOwn
    LeaksFound
    ReportsExact
    FinalizerKept
PROPERTIES
    RefillReachesHigh
    AllWorkDone
CHECK_DEADLOCK FALSE
