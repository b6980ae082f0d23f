------------------------------ MODULE Reporters ------------------------------
(***************************************************************************)
(* The reporters of instrument: goroutines that report at an interval      *)
(* between Start and Stop.                                                 *)
(*   "base"      baseReporter, of the process reporter: started once.      *)
(*   "extended"  the same, reporting the pauses of the garbage collector.  *)
(*   "build"     buildReporter: may be started again after Stop.           *)
(*                                                                         *)
(* Start holds the mutex and does not block, so it is a step; Stop holds   *)
(* it while it waits.  A build reporter makes new channels at each Start,  *)
(* and its goroutine reads the fields that hold them whenever it selects.  *)
(* Report intervals are positive: a base reporter refuses others, a build  *)
(* reporter panics on them.                                                *)
(***************************************************************************)
EXTENDS Integers, Sequences

CONSTANTS
    Starter,    \* goroutines that call Start and Stop
    NoStarter,
    MaxStarts,  \* bound on successful Starts
    Ring,       \* pauses the runtime remembers (256)
    GCWidth,    \* bits of the collection counter
    FirstGC,    \* collections before the reporter is made
    MaxGC       \* bound on the collections

ASSUME ReportersAssumption ==
    /\ NoStarter \notin Starter
    /\ MaxStarts \in Nat /\ MaxGC \in Nat /\ FirstGC \subseteq Nat
    /\ Ring \in Nat \ {0}
    /\ GCWidth \in Nat /\ 2 ^ GCWidth \in Nat \ {0} /\ 2 ^ GCWidth % Ring = 0

Gen == 1 .. MaxStarts

VARIABLES
    kind,      \* which reporter it is
    state,     \* "notStarted", "started" or "stopped"
    stopping,  \* the goroutine that waits in Stop, holding the mutex
    gen,       \* Starts so far: the channels in the fields are those of the last
    closeCh,   \* generations whose closeCh is closed
    doneCh,    \* generations whose doneCh is closed (build) or received from
    gor,       \* gor[g]: "none", "select", "fn", "ending" or "ended"
    gcs,       \* collections so far
    lastNumGC, \* the counter at the last report
    paused     \* pauses reported, in order, by their number
reportersVars == <<kind, state, stopping, gen, closeCh, doneCh, gor, gcs, lastNumGC, paused>>
gcVars == <<gcs, lastNumGC, paused>>

Counter(n) == n % (2 ^ GCWidth)

ReportersInit ==
    /\ kind \in {"base", "extended", "build"}
    /\ state = "notStarted" /\ stopping = NoStarter
    /\ gen = 0 /\ closeCh = {} /\ doneCh = {}
    /\ gor = [g \in Gen |-> "none"]
    /\ gcs \in FirstGC /\ lastNumGC = Counter(gcs) /\ paused = <<>>

\* The goroutine that Start has made, on the channels of its generation.
Started ==
    /\ stopping = NoStarter /\ state = "notStarted" /\ gen < MaxStarts
    /\ state' = "started" /\ gen' = gen + 1
    /\ gor' = [gor EXCEPT ![gen + 1] = "select"]
    /\ UNCHANGED <<kind, stopping, closeCh, doneCh, gcVars>>

\* Start of a base reporter; any other state is an error.
StartReporter == kind # "build" /\ Started

\* Start of a build reporter, which is active or not and makes new channels.
StartBuildReporter == kind = "build" /\ Started

\* Stop closes the channel and waits; a base reporter is stopped for good.
StopReporter(c) ==
    /\ stopping = NoStarter /\ state = "started"
    /\ stopping' = c /\ closeCh' = closeCh \cup {gen}
    /\ state' = IF kind = "build" THEN state ELSE "stopped"
    /\ UNCHANGED <<kind, gen, doneCh, gor, gcVars>>

\* Faulty variant: Stop does not wait for the goroutine.
StopReturn_NoWait ==
    /\ stopping # NoStarter
    /\ stopping' = NoStarter
    /\ state' = IF kind = "build" THEN "notStarted" ELSE state
    /\ UNCHANGED <<kind, gen, closeCh, doneCh, gor, gcVars>>

\* <-doneCh
StopReturn ==
    /\ stopping # NoStarter /\ gen \in doneCh
    /\ stopping' = NoStarter
    /\ state' = IF kind = "build" THEN "notStarted" ELSE state
    /\ UNCHANGED <<kind, gen, closeCh, doneCh, gor, gcVars>>

-----------------------------------------------------------------------------
(* The goroutine of generation g.                                          *)

Goto(g, pc) == gor' = [gor EXCEPT ![g] = pc]

\* case <-ticker.C
ReporterTick(g) ==
    /\ gor[g] = "select" /\ Goto(g, "fn")
    /\ UNCHANGED <<kind, state, stopping, gen, closeCh, doneCh, gcVars>>

\* Faulty variant: only what is more than the ring holds is cut off.
Pauses_Late(last, num) ==
    IF Counter(num - last) > Ring + 1 THEN Counter(num - Ring) ELSE last

\* The first pause to report: those the ring has lost are skipped.
Pauses(last, num) ==
    IF Counter(num - last) > Ring - 1 THEN Counter(num - Ring) ELSE last

\* The pause that place p of the ring holds.
PauseNs(p) == CHOOSE n \in gcs - Ring .. gcs - 1 : n % Ring = p

\* fn: for an extended reporter, the pauses since the last report; a build
\* reporter updates its gauges.
ReporterFn(g) ==
    LET num   == Counter(gcs)
        first == Pauses(lastNumGC, num)
    IN /\ gor[g] = "fn" /\ Goto(g, "select")
       /\ IF kind = "extended"
          THEN /\ lastNumGC' = num
               /\ paused' = paused \o [k \in 1 .. Counter(num - first) |-> PauseNs(Counter(first + k - 1) % Ring)]
               /\ UNCHANGED gcs
          ELSE UNCHANGED gcVars
       /\ UNCHANGED <<kind, state, stopping, gen, closeCh, doneCh>>

\* case <-closeCh, of the channel the field holds now.
ReporterClosed(g) ==
    /\ gor[g] = "select" /\ gen \in closeCh /\ Goto(g, "ending")
    /\ UNCHANGED <<kind, state, stopping, gen, closeCh, doneCh, gcVars>>

\* Faulty variant: the goroutine ends without a word.
ReporterDone_Silent(g) ==
    /\ gor[g] = "ending" /\ Goto(g, "ended")
    /\ UNCHANGED <<kind, state, stopping, gen, closeCh, doneCh, gcVars>>

\* The deferred function closes doneCh, or sends to Stop, which receives.
ReporterDone(g) ==
    /\ gor[g] = "ending" /\ Goto(g, "ended")
    /\ kind = "build" \/ stopping # NoStarter
    /\ doneCh' = doneCh \cup {gen}
    /\ UNCHANGED <<kind, state, stopping, gen, closeCh, gcVars>>

\* The garbage collector runs, less than 2^32 times between two reports.
Collect ==
    /\ kind = "extended" /\ gcs < MaxGC /\ Counter(gcs - lastNumGC) < 2 ^ GCWidth - 1
    /\ gcs' = gcs + 1
    /\ UNCHANGED <<kind, state, stopping, gen, closeCh, doneCh, gor, lastNumGC, paused>>

ReportersNext ==
    \/ StartReporter \/ StartBuildReporter \/ StopReturn \/ Collect
    \/ \E c \in Starter : StopReporter(c)
    \/ \E g \in Gen : ReporterTick(g) \/ ReporterFn(g) \/ ReporterClosed(g) \/ ReporterDone(g)

ReportersSpec == ReportersInit /\ [][ReportersNext]_reportersVars

-----------------------------------------------------------------------------
(* Properties.                                                             *)

\* A reporter has at most one goroutine that reports, whoever starts and stops
\* it and however often, and when Stop has returned it has none.
OneReporter ==
    /\ \A g, h \in Gen : gor[g] \notin {"none", "ended"} /\ gor[h] \notin {"none", "ended"} => g = h
    /\ stopping = NoStarter /\ state # "started" => \A g \in Gen : gor[g] \in {"none", "ended"}

\* Stop returns: the goroutine that holds the mutex does not wait forever.
StopReturns == (stopping # NoStarter) ~> (stopping = NoStarter)

\* Every pause is reported once and in order, and none is left out that the
\* runtime remembered when the report was made, also where its counter wraps:
\* gaps are only where more than Ring collections passed between two reports.
PausesReportedOnce ==
    /\ \A k \in 1 .. Len(paused) - 1 : paused[k] < paused[k + 1]
    /\ \A k \in DOMAIN paused : paused[k] \in 0 .. gcs - 1
    /\ \A k \in 1 .. Len(paused) - 1 : paused[k + 1] # paused[k] + 1 => Len(paused) >= k + Ring
    /\ paused # <<>> => Counter(paused[Len(paused)] + 1) = lastNumGC

=============================================================================
