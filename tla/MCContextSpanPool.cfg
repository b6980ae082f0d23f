SPECIFICATION Spec
CONSTANTS
    Ctx = {c1, c2}
    Pooled = {c1, c2}
    Res = {x1}
    Goroutine = {g1, g2}
    NoCtx = NoCtx
    PoolSize = 1
    MaxWait = 1
    Traced = {c1, c2}
    Sampled = TRUE
    Resets = FALSE
    LateDepends = FALSE
INVARIANT NoParentFromPool
CHECK_DEADLOCK FALSE
