------------------------------- MODULE MCRetry -------------------------------
(* Retry for TLC.                                                          *)
EXTENDS Retry

\* Factors, zeros that leave the default, and an initial backoff that is the
\* largest integer and rounded to one more.
MCRetryConfig ==
    [initialBackoff : {0, 3, 4}, backoffFactor : {<<0, 1>>, <<3, 2>>}, maxBackoff : {0, 10}, maxRetries : {0, 4}]
    \cup [initialBackoff : {4, MaxInt64}, backoffFactor : {<<0, 1>>, <<3, 2>>}, forever : BOOLEAN, jitter : BOOLEAN]

MCFnError == {<<>>, <<"leaf">>, <<"renamed", "nonRetryable", "leaf">>, <<"nonRetryable">>}

=============================================================================
