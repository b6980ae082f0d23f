SPECIFICATION Spec
CONSTANTS
    MultiErrorVar = {m1, m2}
    Live = {m1, m2}
    MaxErrors = 9
    NoErr = NoErr
INVARIANT MultiErrorImmutable
CHECK_DEADLOCK FALSE
