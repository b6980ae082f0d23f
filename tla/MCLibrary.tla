------------------------------ MODULE MCLibrary ------------------------------
(***************************************************************************)
(* The components of the library that share nothing with each other, side  *)
(* by side: a behaviour exercises one of them, picked at the start, and    *)
(* the others stay in one initial state.                                   *)
(***************************************************************************)
EXTENDS TimeRanges, Durations, MCRetry, MultiError, Sampling, Logging, Polling,
        Debugger, Ident, Iterators, TLC

VARIABLE part

MCUnits == [y |-> 60, d |-> 12, h |-> 6, s |-> 2, ns |-> 1]
MCTextUnits == MCUnits @@ [mon |-> 48, w |-> 24]

MCTimeout == {-1, 0, 2, 5}

allVars ==
    <<part, rangesVars, durationsVars, retryVars, multiErrorVars, samplingVars, loggingVars, pollingVars,
      debuggerVars, identVars, iteratorsVars>>

Init ==
    /\ part \in {"ranges", "durations", "retry", "multiError", "sampling", "logging", "polling",
               "debugger", "ident", "iterators"}
    /\ RangesInit /\ MultiErrorInit /\ DebuggerInit /\ IdentInit
    /\ DurationsInit /\ (part # "durations" => dur = 0)
    /\ RetryInit /\ (part # "retry" => while /\ opts = ConfigOptions([forever |-> FALSE]))
    /\ SamplingInit /\ (part # "sampling" => every = 1)
    /\ LoggingInit /\ (part # "logging" => \A v \in LoggerVar : logger[v].array = NullLogger)
    /\ PollingInit /\ (part # "polling" => timeout = 0 /\ file = "absent")
    /\ IteratorsInit /\ (part # "iterators" => iterPooled)

\* Only component p takes steps.
Only(p) ==
    /\ part = p /\ UNCHANGED part
    /\ p # "ranges" => UNCHANGED rangesVars
    /\ p # "durations" => UNCHANGED durationsVars
    /\ p # "retry" => UNCHANGED retryVars
    /\ p # "multiError" => UNCHANGED multiErrorVars
    /\ p # "sampling" => UNCHANGED samplingVars
    /\ p # "logging" => UNCHANGED loggingVars
    /\ p # "polling" => UNCHANGED pollingVars
    /\ p # "debugger" => UNCHANGED debuggerVars
    /\ p # "ident" => UNCHANGED identVars
    /\ p # "iterators" => UNCHANGED iteratorsVars

Next ==
    \/ Only("ranges") /\ RangesNext
    \/ Only("durations") /\ DurationsNext
    \/ Only("retry") /\ RetryNext
    \/ Only("multiError") /\ MultiErrorNext
    \/ Only("sampling") /\ SamplingNext
    \/ Only("logging") /\ LoggingNext
    \/ Only("polling") /\ PollingNext
    \/ Only("debugger") /\ DebuggerNext
    \/ Only("ident") /\ IdentNext
    \/ Only("iterators") /\ IteratorsNext

Spec == Init /\ [][Next]_allVars

=============================================================================
