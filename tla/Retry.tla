-------------------------------- MODULE Retry --------------------------------
(***************************************************************************)
(* retry/retry.go: Attempt and AttemptWhile with exponential backoff, and  *)
(* the options they run with, made from a configuration.                   *)
(*                                                                         *)
(* The state is that of one attempt: a retrier keeps nothing between them  *)
(* but its metrics.  Times are integers of IntWidth bits; the backoff is   *)
(* computed in floating point, of FloatBits significant bits (64 and 53 in *)
(* the code), and converted.  Each operation is rounded to the nearest.    *)
(***************************************************************************)
EXTENDS Errors

CONSTANTS
    RetryConfig,     \* configurations: records of the fields that are given
    IntWidth,        \* bits of a duration
    FloatBits,       \* significant bits of a floating-point number
    defaultInitialBackoff, defaultMaxRetries,
    FnError,         \* what fn may return, <<>> for nil
    MaxAttempts      \* bound on the attempts of a retrier that retries forever

ASSUME RetryAssumption ==
    /\ IntWidth \in Nat \ {0} /\ FloatBits \in Nat \ {0} /\ MaxAttempts \in Nat
    /\ defaultInitialBackoff \in Nat /\ defaultMaxRetries \in Nat
    /\ FnError \subseteq Seq(Layer \cup {"leaf"})
    \* a negative number, which nothing refuses, allows one call as zero does
    /\ \A c \in RetryConfig : "maxRetries" \in DOMAIN c => c.maxRetries \in Nat

VARIABLES
    opts,     \* the options of the retrier; factor is a fraction <<num, den>>
    while,    \* whether AttemptWhile was called, with a continueFn
    rpc,      \* "start", "call", "failed", "slept" or "done"
    attempt,  \* calls of fn
    i,        \* the loop variable
    slept,    \* the last backoff, in nanoseconds
    err,      \* what fn returned last
    result,   \* what the attempt returned; <<"whileConditionFalse">> is ErrWhileConditionFalse
    metrics
retryVars == <<opts, while, rpc, attempt, i, slept, err, result, metrics>>

MaxInt64 == 2 ^ (IntWidth - 1) - 1

NewRetryOptions ==
    [initialBackoff |-> defaultInitialBackoff, backoffFactor |-> <<2, 1>>, maxBackoff |-> MaxInt64,
     maxRetries |-> defaultMaxRetries, forever |-> FALSE, jitter |-> TRUE]

\* The setters copy the options; a configured zero leaves the default.
ConfigOptions(c) ==
    LET zero == [initialBackoff |-> 0, backoffFactor |-> <<0, 1>>, maxBackoff |-> 0, maxRetries |-> 0]
    IN [f \in DOMAIN NewRetryOptions |->
        IF f \in DOMAIN c /\ (f \in DOMAIN zero => c[f] # zero[f]) THEN c[f] ELSE NewRetryOptions[f]]

\* The floating-point number nearest to the fraction x, to even if two are, as
\* a fraction.  Its unit is 2^e, the least with which the digits are enough;
\* what is less than 2^-FloatBits is lost.
Float(x) ==
    LET Scaled(e) == IF e < 0 THEN <<x[1] * 2 ^ (-e), x[2]>> ELSE <<x[1], x[2] * 2 ^ e>>
        Fits(e) == Scaled(e)[1] < 2 ^ FloatBits * Scaled(e)[2]
        unit == CHOOSE e \in -FloatBits .. IntWidth * (MaxAttempts + 1) :
                    Fits(e) /\ (e > -FloatBits => ~Fits(e - 1))
        y == Scaled(unit)
        floor == y[1] \div y[2]
        rest == 2 * (y[1] % y[2])
        digits == IF rest > y[2] \/ (rest = y[2] /\ floor % 2 = 1) THEN floor + 1 ELSE floor
    IN IF unit < 0 THEN <<digits, 2 ^ (-unit)>> ELSE <<digits * 2 ^ unit, 1>>

\* float64(backoff) * math.Pow(backoffFactor, float64(n-1)) under options o.
Exponential(o, n) ==
    LET backoff == Float(<<o.initialBackoff, 1>>)
        power == Float(<<o.backoffFactor[1] ^ (n - 1), o.backoffFactor[2] ^ (n - 1)>>)
    IN Float(<<backoff[1] * power[1], backoff[2] * power[2]>>)

\* The options are natural numbers and the exponentials fractions (arithmetic,
\* which TLC evaluates and a proof takes from here).
ASSUME BackoffAssumption ==
    /\ 2 ^ (IntWidth - 1) \in Nat \ {0}
    /\ \A c \in RetryConfig : LET o == ConfigOptions(c) IN
        /\ o.initialBackoff \in Nat /\ o.maxBackoff \in Nat
        /\ \A n \in 1 .. MaxAttempts : Exponential(o, n) \in Nat \X (Nat \ {0})

Counters == {"success", "errors", "errorsNotRetryable", "errorsFinal", "retries"}

Count_(names) == metrics' = [m \in Counters |-> IF m \in names THEN metrics[m] + 1 ELSE metrics[m]]

RetryInit ==
    /\ opts \in {ConfigOptions(c) : c \in RetryConfig}
    /\ while \in BOOLEAN
    /\ rpc = "start" /\ attempt = 0 /\ i = 1 /\ slept = 0 /\ err = <<>> /\ result = <<>>
    /\ metrics = [m \in Counters |-> 0]

-----------------------------------------------------------------------------
(* The backoff before retry n.                                             *)

\* Faulty variant: the result is not compared with the largest integer before
\* it is converted, which gives the least one.
BackoffNanos_NoOverflow(n) ==
    LET x == Exponential(opts, n)
        backoff == IF x[1] >= (MaxInt64 + 1) * x[2] THEN -MaxInt64 - 1 ELSE x[1] \div x[2]
    IN {IF backoff > opts.maxBackoff THEN opts.maxBackoff ELSE backoff}

\* The exponential is rounded to the first number that is too large, 2^63.
\* It is not larger than math.MaxInt64, which as a floating-point number is
\* the same.
RoundsToLimit(n) == LET x == Exponential(opts, n) IN x[1] = (MaxInt64 + 1) * x[2]

\* The backoffs that are possible.  The conversion of 2^63 is the least or the
\* largest integer, as the processor has it.
BackoffNanos(n) ==
    LET x == Exponential(opts, n)
        converted == IF RoundsToLimit(n) THEN {MaxInt64, -MaxInt64 - 1} ELSE {x[1] \div x[2]}
        Jittered(b) == IF opts.jitter /\ b >= 2 THEN b \div 2 .. 2 * (b \div 2) - 1 ELSE {b}
        Capped(b) == IF b > opts.maxBackoff THEN opts.maxBackoff ELSE b
    IN IF x[1] > (MaxInt64 + 1) * x[2] THEN {opts.maxBackoff}
       ELSE {Capped(b) : b \in UNION {Jittered(c) : c \in converted}}

-----------------------------------------------------------------------------

Finish(r) == rpc' = "done" /\ result' = r

\* if continueFn != nil && !continueFn(attempt)
ContinueFalse ==
    /\ rpc \in {"start", "slept"} /\ while
    /\ Finish(<<"whileConditionFalse">>)
    /\ UNCHANGED <<opts, while, attempt, i, slept, err, metrics>>

\* fn is called, again after a sleep.
CallFn ==
    /\ rpc \in {"start", "slept"}
    /\ rpc' = "call"
    /\ Count_(IF rpc = "slept" THEN {"retries"} ELSE {})
    /\ UNCHANGED <<opts, while, attempt, i, slept, err, result>>

\* Faulty variant: an error that was retried is not looked at.
FnReturns_RetriesAll(e) ==
    /\ rpc = "call" /\ attempt' = attempt + 1 /\ err' = e
    /\ IF e = <<>> THEN Finish(e) /\ Count_({"success"}) /\ i' = i
       ELSE IF IsNonRetryableError(e) /\ attempt = 0
       THEN Finish(e) /\ Count_({"errorsNotRetryable"}) /\ i' = i
       ELSE /\ rpc' = "failed" /\ Count_({"errors"}) /\ i' = IF attempt = 0 THEN 1 ELSE i + 1
            /\ UNCHANGED result
    /\ UNCHANGED <<opts, while, slept>>

\* fn returned: nil and errors that are not retryable end the attempt, others
\* go round the loop.
FnReturns(e) ==
    /\ rpc = "call" /\ attempt' = attempt + 1 /\ err' = e
    /\ IF e = <<>> THEN Finish(e) /\ Count_({"success"}) /\ i' = i
       ELSE IF IsNonRetryableError(e) THEN Finish(e) /\ Count_({"errorsNotRetryable"}) /\ i' = i
       ELSE /\ rpc' = "failed" /\ Count_({"errors"}) /\ i' = IF attempt = 0 THEN 1 ELSE i + 1
            /\ UNCHANGED result
    /\ UNCHANGED <<opts, while, slept>>

\* r.forever || i <= r.maxRetries: sleep.
Sleep(b) ==
    /\ rpc = "failed" /\ (opts.forever \/ i <= opts.maxRetries) /\ attempt < MaxAttempts
    /\ b \in BackoffNanos(i)
    /\ slept' = b /\ rpc' = "slept"
    /\ UNCHANGED <<opts, while, attempt, i, err, result, metrics>>

\* No retry is left.
GiveUp ==
    /\ rpc = "failed" /\ ~opts.forever /\ i > opts.maxRetries
    /\ Finish(err) /\ Count_({"errorsFinal"})
    /\ UNCHANGED <<opts, while, attempt, i, slept, err>>

RetryStep == ContinueFalse \/ CallFn \/ (\E b \in BackoffNanos(i) : Sleep(b)) \/ GiveUp
FnStep == \E e \in FnError : FnReturns(e)

RetryNext == RetryStep \/ FnStep

RetrySpec == RetryInit /\ [][RetryNext]_retryVars

-----------------------------------------------------------------------------
(* Properties.                                                             *)

\* The metrics and the result tell what happened: each call of fn is counted
\* once, as a success, an error or a non-retryable error, every call but the
\* first as a retry; success and non-retryable errors, however wrapped, are
\* the last call; the final error is counted when the retries are used up and
\* not when the condition or a non-retryable error ends the attempt.
AttemptsAccounted ==
    /\ attempt = metrics.success + metrics.errors + metrics.errorsNotRetryable
    /\ metrics.success + metrics.errorsNotRetryable <= 1
    /\ rpc = "done" =>
        /\ metrics.retries = IF attempt = 0 THEN 0 ELSE attempt - 1
        /\ ~opts.forever => attempt <= opts.maxRetries + 1
        /\ metrics.success = 1 <=> result = <<>>
        /\ metrics.errorsFinal = 1 <=> result = err /\ result # <<>> /\ ~IsNonRetryableError(err)
        /\ metrics.errorsFinal = 1 => attempt = opts.maxRetries + 1
    /\ (\E n \in DOMAIN err : err[n] = "nonRetryable" /\ n < Len(err)) => rpc = "done"

\* A backoff is never above the maximum and, unless the exponential is rounded
\* to 2^63, never below half of it (or the maximum, if that is less), whatever
\* the jitter: a sleep is not skipped because a factor is large or the retries
\* are many.  What is rounded to 2^63 is another matter, see BackoffNotNegative.
BackoffInRange ==
    rpc = "slept" =>
        LET x == Exponential(opts, i) IN
        /\ slept <= opts.maxBackoff
        /\ RoundsToLimit(i) \/ slept >= opts.maxBackoff \/ 2 * slept + 1 >= x[1] \div x[2]

\* What a retrier sleeps is not negative, so that it does sleep: what the test
\* TestBackoffValidResult says of BackoffNanos for any parameters that are not.
BackoffNotNegative == rpc = "slept" => slept >= 0

=============================================================================
