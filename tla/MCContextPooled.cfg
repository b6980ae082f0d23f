SPECIFICATION FairSpec
CONSTANTS
    Ctx = {c1, c2, c3}
    Pooled = {c1, c2}
    Res = {x1}
    Goroutine = {g1, g2}
    NoCtx = NoCtx
    PoolSize = 1
    MaxWait = 1
    Traced = {c1}
    Sampled = FALSE
    Resets = TRUE
    LateDepends = FALSE
INVARIANTS
    FinalizedExactlyOnce
    FinalizersWaitForBlockers
    OneHolder
    FreshFromPool
PROPERTY NoFinalizerStranded
CHECK_DEADLOCK FALSE
