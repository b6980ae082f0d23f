------------------------------ MODULE Sampling ------------------------------
(***************************************************************************)
(* sampler/sampler.go and the sampled timers of instrument/methods.go:     *)
(* every n-th call is sampled, counted with an integer that wraps.         *)
(*                                                                         *)
(* Rates are given by their reciprocal, cut to an integer as the code      *)
(* does: a rate of 0.4 samples every second call.                          *)
(***************************************************************************)
EXTENDS Integers

CONSTANTS
    SampleEvery,  \* values of int(1.0 / rate)
    CntWidth,     \* bits of the counters
    MaxCalls      \* bound on the calls

ASSUME SamplingAssumption ==
    /\ CntWidth \in Nat \ {0} /\ MaxCalls \in Nat /\ SampleEvery \subseteq Nat \ {0}
    \* arithmetic that TLC evaluates and a proof takes from here
    /\ 2 ^ (CntWidth - 1) \in Nat \ {0} /\ 2 ^ CntWidth = 2 * 2 ^ (CntWidth - 1)

Outcome == {"success", "error"}

VARIABLES
    every,     \* sampleEvery of the sampler, rate of the timers
    numTried,  \* the signed counter of the sampler
    cnt,       \* the unsigned counters of the timers of a MethodMetrics
    reported,  \* its counters Success and Errors
    recorded,  \* latencies that reached the underlying timers
    calls, gap \* history: calls of Sample, calls since one was sampled
samplingVars == <<every, numTried, cnt, reported, recorded, calls, gap>>

SamplingInit ==
    /\ every \in SampleEvery
    /\ numTried = 0 /\ calls = 0 /\ gap = 0
    /\ cnt = [o \in Outcome |-> 0]
    /\ reported = [o \in Outcome |-> 0]
    /\ recorded = [o \in Outcome |-> 0]

Signed(n) == IF n >= 2 ^ (CntWidth - 1) THEN n - 2 ^ CntWidth ELSE n

\* Faulty variant: compares with the rest of the first call.
Sample_OffByOne ==
    /\ calls < MaxCalls /\ calls' = calls + 1
    /\ numTried' = Signed((numTried + 1) % (2 ^ CntWidth))
    /\ gap' = IF numTried % every = 1 THEN 0 ELSE gap + 1
    /\ UNCHANGED <<every, cnt, reported, recorded>>

\* (numTried.Inc() - 1) % sampleEvery == 0
Sample ==
    /\ calls < MaxCalls /\ calls' = calls + 1
    /\ numTried' = Signed((numTried + 1) % (2 ^ CntWidth))
    /\ gap' = IF numTried % every = 0 THEN 0 ELSE gap + 1
    /\ UNCHANGED <<every, cnt, reported, recorded>>

\* ReportSuccess, ReportError, ReportSuccessOrError: the counter, and the
\* latency if the timer samples it.
Report(o) ==
    /\ reported[o] < MaxCalls
    /\ reported' = [reported EXCEPT ![o] = @ + 1]
    /\ cnt' = [cnt EXCEPT ![o] = (@ + 1) % (2 ^ CntWidth)]
    /\ recorded' = IF cnt'[o] % every = 0 THEN [recorded EXCEPT ![o] = @ + 1] ELSE recorded
    /\ UNCHANGED <<every, numTried, calls, gap>>

SamplingNext == Sample \/ \E o \in Outcome : Report(o)

SamplingSpec == SamplingInit /\ [][SamplingNext]_samplingVars

\* One call in every n is sampled: the calls since the last one that was are
\* fewer than n, and where the counter wraps, fewer than 2n - 1; a timer has
\* recorded a latency for every n reports, and at most one more for each time
\* that its counter has wrapped.
SampledEvenly ==
    /\ gap <= IF calls <= 2 ^ (CntWidth - 1) THEN every - 1 ELSE 2 * every - 2
    /\ \A o \in Outcome :
        recorded[o] - reported[o] \div every \in 0 .. reported[o] \div 2 ^ CntWidth

=============================================================================
