SPECIFICATION FairSpec
CONSTANTS
    Ctx = {c1, c2}
    Pooled = {c1}
    Res = {x1}
    Goroutine = {g1, g2}
    NoCtx = NoCtx
    PoolSize = 1
    MaxWait = 1
    Traced = {}
    Sampled = FALSE
    Resets = FALSE
    LateDepends = TRUE
PROPERTY NoFinalizerStranded
CHECK_DEADLOCK FALSE
