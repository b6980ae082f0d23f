SPECIFICATION Spec
CONSTANTS
    Ctx = {c1, c2, c3}
    Pooled = {}
    Res = {x1}
    Goroutine = {g1, g2}
    NoCtx = NoCtx
    PoolSize = 0
    MaxWait = 1
    Traced = {c1, c2, c3}
    Sampled = TRUE
    Resets = FALSE
    LateDepends = FALSE
SYMMETRY Symmetry
INVARIANTS
    FinalizedExactlyOnce
CHECK_DEADLOCK FALSE
