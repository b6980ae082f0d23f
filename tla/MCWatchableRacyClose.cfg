SPECIFICATION WatchableSpec
CONSTANTS
    Chan = {c1, c2}
    MaxUpdates = 2
    RacyClose = TRUE
INVARIANT NoPanic
CHECK_DEADLOCK FALSE
