SPECIFICATION ServicesSpec
CONSTANTS
    Conn = {c1, c2}
    Closer = {k1, k2}
    Starter = {s1, s2}
    NoStarter = NoStarter
    MaxStarts = 3
    Ring = 2
    GCWidth = 3
    FirstGC = {0, 6}
    MaxGC = 11
    MutexUser = {u1, u2}
    NoUser = NoUser
INVARIANTS
    ConnsTracked
    ClosedReachesEveryConn
    OneReporter
    PausesReportedOnce
    ReportShowsWriter
PROPERTIES
    ShutsDown
    StopReturns
CHECK_DEADLOCK FALSE
