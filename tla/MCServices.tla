----------------------------- MODULE MCServices -----------------------------
(***************************************************************************)
(* The server, a metrics reporter and a debug mutex, side by side.  They   *)
(* share nothing, so that a behaviour exercises one of them, picked at the *)
(* start.                                                                  *)
(***************************************************************************)
EXTENDS Server, Reporters, DebugMutex, TLC

VARIABLE service

servicesVars == <<service, allServerVars, reportersVars, debugMutexVars>>

InServer == service = "server" /\ UNCHANGED <<service, reportersVars, debugMutexVars>>
InReporter == service = "reporter" /\ UNCHANGED <<service, allServerVars, debugMutexVars>>
InMutex == service = "mutex" /\ UNCHANGED <<service, allServerVars, reportersVars>>

ServicesInit ==
    /\ service \in {"server", "reporter", "mutex"}
    /\ ServerInit /\ ReportersInit /\ DebugMutexInit
    /\ service # "reporter" => kind = "base" /\ gcs = 0

ServicesNext ==
    \/ InServer /\ ServerNext
    \/ InReporter /\ ReportersNext
    \/ InMutex /\ DebugMutexNext

\* Goroutines and calls under way go on; nobody has to call Close or Stop.
\* Accept fails on a closed listener, a handler returns when its connection is
\* closed, a reporting function returns, and a select whose channel stays
\* closed while its ticker goes on ticking takes the closed channel in the end.
ServicesSpec ==
    /\ ServicesInit /\ [][ServicesNext]_servicesVars
    /\ WF_servicesVars(InServer /\ ServeLoop) /\ WF_servicesVars(InServer /\ AcceptRetry)
    /\ WF_servicesVars(InServer /\ AcceptError)
    /\ WF_servicesVars(InServer /\ listener = "closed" /\ AcceptFatal)
    /\ WF_servicesVars(InServer /\ reportMetrics /\ reporter' = "stopped")
    /\ \A c \in Conn : /\ WF_servicesVars(InServer /\ ConnGoroutine(c))
                       /\ WF_servicesVars(InServer /\ ~open[c] /\ HandleReturn(c))
    /\ \A k \in Closer : WF_servicesVars(InServer /\ CloseStep(k))
    /\ \A g \in Gen : /\ WF_servicesVars(InReporter /\ ReporterFn(g))
                      /\ SF_servicesVars(InReporter /\ ReporterClosed(g))
                      /\ WF_servicesVars(InReporter /\ ReporterDone(g))
    /\ WF_servicesVars(InReporter /\ StopReturn)

=============================================================================
