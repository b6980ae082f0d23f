------------------------------- MODULE Server -------------------------------
(***************************************************************************)
(* server/server.go on the accept loop of net/server.go: one listener, the *)
(* goroutine that accepts, the goroutine serve, a goroutine per connection *)
(* and callers of Close.  A critical section of the server's lock is one   *)
(* step.  The channel connCh has no buffer, so a send and the receive of   *)
(* serve are one step.                                                     *)
(***************************************************************************)
EXTENDS Integers, Sequences, FiniteSets, SequencesExt

CONSTANTS
    Conn,      \* connections that clients make
    Closer     \* callers of Close

ASSUME ServerAssumption == IsFiniteSet(Conn)

VARIABLES
    listener,   \* "none", "open" or "closed"
    acceptor,   \* the goroutine of StartAcceptLoop
    serve,      \* the goroutine serve
    \* @struct server (serverClosed: its closed)
    serverClosed, numConns, conns, wgConns,
    reporter, openConnections,   \* the goroutine reportMetrics and its gauge
    connAt, open,  \* where a connection is; not closed yet by the server
    handlerClosed,
    close, openConns             \* the calls of Close: where, and their copy

\* connAt is one of "client", "accepted" (held by the acceptor), "received" (by
\* serve), "rejected", "added" to conns, "handling" (counted in wgConns);
\* the goroutine then has "returned" from Handle, "closed" the connection,
\* "removed" it from conns and is "done" with wgConns.
netVars == <<listener, acceptor, serve>>
serverVars == <<serverClosed, numConns, conns, wgConns>>
metricVars == <<reporter, openConnections>>
connVars == <<connAt, open>>
closeVars == <<handlerClosed, close, openConns>>
allServerVars == <<netVars, serverVars, metricVars, connVars, closeVars>>

ServerInit ==
    /\ listener = "none" /\ acceptor = "off" /\ serve = "off"
    /\ serverClosed = FALSE /\ numConns = 0 /\ conns = <<>> /\ wgConns = 0
    /\ reporter = "running" /\ openConnections = 0
    /\ connAt = [c \in Conn |-> "client"]
    /\ open = [c \in Conn |-> TRUE]
    /\ handlerClosed = FALSE
    /\ close = [k \in Closer |-> "idle"]
    /\ openConns = [k \in Closer |-> {}]

-----------------------------------------------------------------------------
(* ListenAndServe, Serve and the accept loop.                              *)

\* Nothing keeps Serve from being called after Close.
Serve ==
    /\ listener = "none"
    /\ listener' = "open" /\ acceptor' = "accept" /\ serve' = "range"
    /\ UNCHANGED <<serverVars, metricVars, connVars, closeVars>>

\* Accept returns a connection, ...
Accept(c) ==
    /\ acceptor = "accept" /\ listener = "open" /\ connAt[c] = "client"
    /\ connAt' = [connAt EXCEPT ![c] = "accepted"]
    /\ acceptor' = "send"
    /\ UNCHANGED <<listener, serve, serverVars, metricVars, open, closeVars>>

\* ... a temporary error, which the retrier sleeps over, for ever if need be, ...
AcceptTemporary ==
    /\ acceptor = "accept" /\ listener = "open"
    /\ acceptor' = "backoff"
    /\ UNCHANGED <<listener, serve, serverVars, metricVars, connVars, closeVars>>

AcceptRetry ==
    /\ acceptor = "backoff"
    /\ acceptor' = "accept"
    /\ UNCHANGED <<listener, serve, serverVars, metricVars, connVars, closeVars>>

\* ... or any other error, as a closed listener does: connCh is closed.
AcceptFatal ==
    /\ acceptor = "accept"
    /\ acceptor' = "failed"
    /\ UNCHANGED <<listener, serve, serverVars, metricVars, connVars, closeVars>>

\* connCh <- conn meets the range loop of serve.
AcceptSend(c) ==
    /\ acceptor = "send" /\ serve = "range" /\ connAt[c] = "accepted"
    /\ acceptor' = "accept" /\ serve' = "add"
    /\ connAt' = [connAt EXCEPT ![c] = "received"]
    /\ UNCHANGED <<listener, serverVars, metricVars, open, closeVars>>

\* serve's loop ends on the closed connCh.
ServeLoopEnd ==
    /\ serve = "range" /\ acceptor = "failed"
    /\ serve' = "error"
    /\ UNCHANGED <<listener, acceptor, serverVars, metricVars, connVars, closeVars>>

\* errCh <- err meets <-errCh; the deferred Close of the listener follows.
AcceptError ==
    /\ acceptor = "failed" /\ serve = "error"
    /\ acceptor' = "ended" /\ serve' = "ended" /\ listener' = "closed"
    /\ UNCHANGED <<serverVars, metricVars, connVars, closeVars>>

-----------------------------------------------------------------------------
(* serve and the goroutines of the connections.                            *)

\* Faulty variant: a closed server takes connections.
addConnection_Closed(c) ==
    /\ serve = "add" /\ connAt[c] = "received"
    /\ connAt' = [connAt EXCEPT ![c] = "added"] /\ serve' = "go"
    /\ conns' = Append(conns, c) /\ numConns' = numConns + 1
    /\ UNCHANGED <<listener, acceptor, serverClosed, wgConns, metricVars, open, closeVars>>

addConnection(c) ==
    /\ serve = "add" /\ connAt[c] = "received"
    /\ IF serverClosed
       THEN /\ connAt' = [connAt EXCEPT ![c] = "rejected"] /\ serve' = "reject"
            /\ UNCHANGED <<conns, numConns>>
       ELSE /\ connAt' = [connAt EXCEPT ![c] = "added"] /\ serve' = "go"
            /\ conns' = Append(conns, c) /\ numConns' = numConns + 1
    /\ UNCHANGED <<listener, acceptor, serverClosed, wgConns, metricVars, open, closeVars>>

\* Faulty variant: a rejected connection is dropped.
RejectConn_Dropped(c) ==
    /\ serve = "reject" /\ connAt[c] = "rejected" /\ open[c]
    /\ serve' = "range"
    /\ UNCHANGED <<listener, acceptor, serverVars, metricVars, connVars, closeVars>>

RejectConn(c) ==
    /\ serve = "reject" /\ connAt[c] = "rejected" /\ open[c]
    /\ open' = [open EXCEPT ![c] = FALSE]
    /\ serve' = "range"
    /\ UNCHANGED <<listener, acceptor, serverVars, metricVars, connAt, closeVars>>

\* wgConns.Add(1), and the goroutine that calls Handle.
StartHandler(c) ==
    /\ serve = "go" /\ connAt[c] = "added"
    /\ wgConns' = wgConns + 1
    /\ connAt' = [connAt EXCEPT ![c] = "handling"]
    /\ serve' = "range"
    /\ UNCHANGED <<listener, acceptor, serverClosed, numConns, conns, metricVars, open, closeVars>>

\* Handle returns: it may at any time, and does when the connection closes.
HandleReturn(c) ==
    /\ connAt[c] = "handling"
    /\ connAt' = [connAt EXCEPT ![c] = "returned"]
    /\ UNCHANGED <<netVars, serverVars, metricVars, open, closeVars>>

HandlerCloseConn(c) ==
    /\ connAt[c] = "returned"
    /\ open' = [open EXCEPT ![c] = FALSE]
    /\ connAt' = [connAt EXCEPT ![c] = "closed"]
    /\ UNCHANGED <<netVars, serverVars, metricVars, closeVars>>

\* Faulty variant: the last connection is cut off, whichever was found.
removeConnection_CutLast(c) ==
    /\ connAt[c] = "closed"
    /\ conns' = Front(conns)
    /\ numConns' = numConns - 1
    /\ connAt' = [connAt EXCEPT ![c] = "removed"]
    /\ UNCHANGED <<netVars, serverClosed, wgConns, metricVars, open, closeVars>>

\* The last connection takes the place of the removed one.
removeConnection(c) ==
    /\ connAt[c] = "closed"
    /\ \E i \in DOMAIN conns : conns[i] = c /\ conns' = Front([conns EXCEPT ![i] = Last(conns)])
    /\ numConns' = numConns - 1
    /\ connAt' = [connAt EXCEPT ![c] = "removed"]
    /\ UNCHANGED <<netVars, serverClosed, wgConns, metricVars, open, closeVars>>

HandlerDone(c) ==
    /\ connAt[c] = "removed"
    /\ wgConns' = wgConns - 1
    /\ connAt' = [connAt EXCEPT ![c] = "done"]
    /\ UNCHANGED <<netVars, serverClosed, numConns, conns, metricVars, open, closeVars>>

-----------------------------------------------------------------------------
(* Close.                                                                  *)

\* Up to Unlock.  A caller that finds the server closed returns at once.
CloseBegin(k) ==
    /\ close[k] = "idle"
    /\ IF serverClosed
       THEN close' = [close EXCEPT ![k] = "returned"] /\ UNCHANGED <<serverClosed, openConns>>
       ELSE /\ serverClosed' = TRUE
            /\ openConns' = [openConns EXCEPT ![k] = ToSet(conns)]
            /\ close' = [close EXCEPT ![k] = "conns"]
    /\ UNCHANGED <<netVars, numConns, conns, wgConns, metricVars, connVars, handlerClosed>>

\* Close of one connection of the copy, or the end of that loop.
CloseConns(k) ==
    /\ close[k] = "conns"
    /\ \/ \E c \in openConns[k] :
            /\ open' = [open EXCEPT ![c] = FALSE]
            /\ openConns' = [openConns EXCEPT ![k] = @ \ {c}]
            /\ UNCHANGED close
       \/ /\ openConns[k] = {}
          /\ close' = [close EXCEPT ![k] = "listener"]
          /\ UNCHANGED <<open, openConns>>
    /\ UNCHANGED <<netVars, serverVars, metricVars, connAt, handlerClosed>>

CloseListener(k) ==
    /\ close[k] = "listener"
    /\ listener' = IF listener = "none" THEN "none" ELSE "closed"
    /\ close' = [close EXCEPT ![k] = "wait"]
    /\ UNCHANGED <<acceptor, serve, serverVars, metricVars, connVars, handlerClosed, openConns>>

\* wgConns.Wait returns.
CloseWait(k) ==
    /\ close[k] = "wait" /\ wgConns = 0
    /\ close' = [close EXCEPT ![k] = "handler"]
    /\ UNCHANGED <<netVars, serverVars, metricVars, connVars, handlerClosed, openConns>>

CloseHandler(k) ==
    /\ close[k] = "handler"
    /\ handlerClosed' = TRUE
    /\ close' = [close EXCEPT ![k] = "returned"]
    /\ UNCHANGED <<netVars, serverVars, metricVars, connVars, openConns>>

\* reportMetrics: a tick, or the closed closedChan.
reportMetrics ==
    /\ reporter = "running"
    /\ \/ openConnections' = numConns /\ UNCHANGED reporter
       \/ serverClosed /\ reporter' = "stopped" /\ UNCHANGED openConnections
    /\ UNCHANGED <<netVars, serverVars, connVars, closeVars>>

-----------------------------------------------------------------------------
AcceptLoop ==
    \/ AcceptTemporary \/ AcceptRetry \/ AcceptFatal \/ AcceptError
    \/ \E c \in Conn : Accept(c)

ServeLoop ==
    \/ ServeLoopEnd
    \/ \E c \in Conn : AcceptSend(c) \/ addConnection(c) \/ RejectConn(c) \/ StartHandler(c)

ConnGoroutine(c) == HandlerCloseConn(c) \/ removeConnection(c) \/ HandlerDone(c)

CloseStep(k) == CloseConns(k) \/ CloseListener(k) \/ CloseWait(k) \/ CloseHandler(k)

ServerNext ==
    \/ Serve \/ AcceptLoop \/ ServeLoop \/ reportMetrics
    \/ \E c \in Conn : HandleReturn(c) \/ ConnGoroutine(c)
    \/ \E k \in Closer : CloseBegin(k) \/ CloseStep(k)

ServerSpec == ServerInit /\ [][ServerNext]_allServerVars

-----------------------------------------------------------------------------
(* Properties.                                                             *)

\* The connections that addConnection has taken and removeConnection has not
\* yet given back.
Live == {c \in Conn : connAt[c] \in {"added", "handling", "returned", "closed"}}

\* conns holds the live connections, each once, and numConns counts them,
\* through every interleaving of appends and swap removals: Close finds
\* every connection there is to close, and the gauge reports no other.
ConnsTracked ==
    /\ ToSet(conns) = Live
    /\ Len(conns) = Cardinality(Live) /\ numConns = Len(conns)

\* Once the server is closed no connection stays open behind its back: one
\* that serve still has is going to be rejected, every other open connection
\* is in the copy a Close call works through, or its goroutine closes it.
ClosedReachesEveryConn ==
    serverClosed => \A c \in Conn : open[c] /\ connAt[c] \in {"added", "handling"} =>
                \E k \in Closer : c \in openConns[k]

\* After Close every connection the server ever accepted gets closed and
\* reportMetrics ends; the acceptor and serve of a server that is closed
\* after Serve end too.
ShutsDown ==
    /\ \A c \in Conn : serverClosed /\ connAt[c] # "client" ~> ~open[c]
    /\ serverClosed ~> reporter = "stopped"
    /\ serve # "off" /\ ~serverClosed ~> []~serverClosed \/ (acceptor = "ended" /\ serve = "ended")

=============================================================================
