SPECIFICATION Spec
CONSTANTS
    RangesVar = {r1, r2}
    Horizon = 4
    Width = 8
    unitsToDuration <- MCUnits
    durationUnits <- MCTextUnits
    Number = {1, 200}
    BadUnit = "x"
    RetryConfig <- MCRetryConfig
    IntWidth = 6
    FloatBits = 3
    defaultInitialBackoff = 2
    defaultMaxRetries = 2
    FnError <- MCFnError
    MaxAttempts = 6
    MultiErrorVar = {m1, m2}
    Live = {m1}
    MaxErrors = 9
    NoErr = NoErr
    SampleEvery = {1, 2, 3, 5}
    CntWidth = 3
    MaxCalls = 18
    LoggerVar = {l1, l2}
    Field = {f, g}
    NoField = NoField
    NullLogger = NullLogger
    LevelFatal = 2
    MaxFields = 4
    MaxWrappers = 1
    Interval = 2
    Timeout <- MCTimeout
    Late = 1
    MaxPollTime = 9
    tracebackCycles = 2
    Entry = {1, 2, 3, 4}
    MaxTraceEvents = 6
    MaxIDs = 4
    MaxBytes = 4
    IDText = {x}
    NoText = NoText
    NoBytes = NoBytes
    TagsVar = {t1, t2}
    SharedBytes = FALSE
    IterObj = {i1, i2}
    Tag = {a, b}
    NoTag = NoTag
    MaxTags = 2
INVARIANTS
    RangesAreSets
    DurationsExact
    AttemptsAccounted
    BackoffInRange
    MultiErrorImmutable
    SampledEvenly
    LoggersKeepTheirFields
    PollFindsInTime
    TraceIsRecent
    IDsKeepTheirBytes
    IteratorsComplete
CHECK_DEADLOCK FALSE
