SPECIFICATION RetrySpec
CONSTANTS
    RetryConfig <- MCRetryConfig
    IntWidth = 6
    FloatBits = 3
    defaultInitialBackoff = 2
    defaultMaxRetries = 2
    FnError <- MCFnError
    MaxAttempts = 6
INVARIANTS
    BackoffNotNegative
CHECK_DEADLOCK FALSE
