---------------------------- MODULE ServerProofs ----------------------------
(***************************************************************************)
(* Proofs about the server: the bookkeeping of its connections through     *)
(* every interleaving of serve, the goroutines of the connections and the  *)
(* callers of Close, for any sets of connections and callers.              *)
(***************************************************************************)
EXTENDS Server, FiniteSetTheorems, SequenceTheorems, TLAPS

\* s holds nothing twice.
Distinct(s) == \A i, j \in DOMAIN s : s[i] = s[j] => i = j

LEMMA AppendNew ==
    ASSUME NEW S, NEW s \in Seq(S), NEW x \in S, Distinct(s), x \notin ToSet(s)
    PROVE  /\ Append(s, x) \in Seq(S) /\ Distinct(Append(s, x))
           /\ ToSet(Append(s, x)) = ToSet(s) \cup {x}
           /\ Len(Append(s, x)) = Len(s) + 1
<1> DEFINE t == Append(s, x)
<1>1. t \in Seq(S) /\ Len(t) = Len(s) + 1 /\ Len(s) \in Nat
      /\ DOMAIN t = 1 .. Len(s) + 1 /\ DOMAIN s = 1 .. Len(s)
    OBVIOUS
<1>2. t[Len(s) + 1] = x /\ \A i \in DOMAIN s : t[i] = s[i] OBVIOUS
<1>3. \A i \in DOMAIN s : s[i] # x BY DEF ToSet
<1> HIDE DEF t
<1>4. Distinct(t) BY <1>1, <1>2, <1>3 DEF Distinct
<1>5. ToSet(t) = ToSet(s) \cup {x} BY <1>1, <1>2 DEF ToSet
<1> QED BY <1>1, <1>4, <1>5 DEF t

\* What removeConnection does to the slice: the last element takes the place
\* of the one that is removed.
LEMMA SwapRemove ==
    ASSUME NEW S, NEW s \in Seq(S), NEW i \in DOMAIN s, Distinct(s)
    PROVE  LET t == Front([s EXCEPT ![i] = Last(s)])
           IN  /\ t \in Seq(S) /\ Distinct(t)
               /\ ToSet(t) = ToSet(s) \ {s[i]}
               /\ Len(t) = Len(s) - 1
<1> DEFINE u == [s EXCEPT ![i] = Last(s)]
           t == Front(u)
<1>1. PICK n \in Nat : n = Len(s) /\ n >= 1 /\ DOMAIN s = 1 .. n /\ i \in 1 .. n OBVIOUS
<1>2. u \in Seq(S) /\ Len(u) = n BY <1>1 DEF Last
<1>3. t \in Seq(S) /\ Len(t) = n - 1 /\ \A j \in 1 .. n - 1 : t[j] = u[j]
    <2>1. t = SubSeq(u, 1, n - 1) BY <1>2 DEF Front
    <2>2. \A j \in 1 .. n - 1 : u[j] \in S BY <1>1, <1>2
    <2> HIDE DEF u, t
    <2>3. /\ SubSeq(u, 1, n - 1) \in Seq(S)
          /\ Len(SubSeq(u, 1, n - 1)) = IF 1 <= n - 1 THEN n - 1 - 1 + 1 ELSE 0
          /\ \A j \in 1 .. n - 1 - 1 + 1 : SubSeq(u, 1, n - 1)[j] = u[1 + j - 1]
        BY <1>1, <2>2, SubSeqProperties
    <2> QED BY <1>1, <2>1, <2>3
<1>4. \A j \in 1 .. n - 1 : t[j] = IF j = i THEN s[n] ELSE s[j]
    <2>1. \A j \in 1 .. n : u[j] = IF j = i THEN s[n] ELSE s[j] BY <1>1 DEF Last
    <2> HIDE DEF u, t
    <2> QED BY <1>1, <1>3, <2>1
<1>5. DOMAIN t = 1 .. n - 1 BY <1>3
<1> HIDE DEF t, u
<1>6. Distinct(t) BY <1>1, <1>4, <1>5 DEF Distinct
<1>7. ToSet(t) = ToSet(s) \ {s[i]}
    <2>1. \A j \in 1 .. n - 1 : \E k \in 1 .. n : k # i /\ t[j] = s[k]
        BY <1>1, <1>4
    <2>2. \A k \in 1 .. n : k # i => \E j \in 1 .. n - 1 : t[j] = s[k]
        <3> SUFFICES ASSUME NEW k \in 1 .. n, k # i PROVE \E j \in 1 .. n - 1 : t[j] = s[k]
            OBVIOUS
        <3>1. CASE k = n
            <4>1. i \in 1 .. n - 1 /\ t[i] = s[k] BY <1>1, <1>4, <3>1
            <4> QED BY <4>1
        <3>2. CASE k # n
            <4>1. k \in 1 .. n - 1 BY <1>1, <3>2
            <4>2. t[k] = s[k] BY <1>4, <4>1
            <4> QED BY <4>1, <4>2
        <3> QED BY <3>1, <3>2
    <2>3. \A k \in 1 .. n : k # i => s[k] # s[i] BY <1>1 DEF Distinct
    <2>4. ToSet(s) = {s[k] : k \in 1 .. n} /\ ToSet(t) = {t[j] : j \in 1 .. n - 1}
        BY <1>1, <1>5 DEF ToSet
    <2>5. ToSet(t) \subseteq ToSet(s) \ {s[i]} BY <2>1, <2>3, <2>4
    <2>6. ToSet(s) \ {s[i]} \subseteq ToSet(t) BY <2>2, <2>4
    <2> QED BY <2>5, <2>6
<1> QED BY <1>1, <1>3, <1>6, <1>7 DEF t, u

-----------------------------------------------------------------------------
(* The inductive invariant.                                                *)

ConnState ==
    {"client", "accepted", "received", "rejected", "added", "handling",
     "returned", "closed", "removed", "done"}

ServerTypeOK ==
    /\ connAt \in [Conn -> ConnState] /\ open \in [Conn -> BOOLEAN]
    /\ conns \in Seq(Conn)
    /\ close \in [Closer -> {"idle", "conns", "listener", "wait", "handler", "returned"}]
    /\ openConns \in [Closer -> SUBSET Conn]
    /\ serverClosed \in BOOLEAN /\ handlerClosed \in BOOLEAN

\* The connections whose goroutine wgConns waits for.
Counted == {c \in Conn : connAt[c] \in {"handling", "returned", "closed", "removed"}}

\* wgConns counts the goroutines of the connections, so its counter is never
\* negative, which would be a panic, and Wait returns only when they are gone.
WaitGroupCounts == wgConns = Cardinality(Counted)

\* The callers of Close that found the server open.
Closing == {k \in Closer : close[k] \in {"conns", "listener", "wait", "handler"}}

\* At most one caller of Close works through the connections, the listener and
\* the handler, and the handler is closed by it once.
OneCloses ==
    /\ \A j, k \in Closing : j = k
    /\ Closing # {} => serverClosed /\ ~handlerClosed
    /\ handlerClosed => serverClosed

ServerInv ==
    /\ ServerTypeOK /\ Distinct(conns)
    /\ ConnsTracked /\ ClosedReachesEveryConn /\ WaitGroupCounts /\ OneCloses

LEMMA ConnSetsFinite ==
    /\ IsFiniteSet(Live) /\ Cardinality(Live) \in Nat
    /\ IsFiniteSet(Counted) /\ Cardinality(Counted) \in Nat
<1>1. Live \in SUBSET Conn /\ Counted \in SUBSET Conn BY DEF Live, Counted
<1> QED BY <1>1, FS_Subset, FS_CardinalityType, ServerAssumption

LEMMA ServerInitInv == ServerInit => ServerInv
<1> SUFFICES ASSUME ServerInit PROVE ServerInv
    OBVIOUS
<1>1. ServerTypeOK
    <2>1. connAt \in [Conn -> ConnState] /\ open \in [Conn -> BOOLEAN]
        BY DEF ServerInit, ConnState
    <2>2. conns \in Seq(Conn) BY DEF ServerInit
    <2>3. openConns \in [Closer -> SUBSET Conn] BY DEF ServerInit
    <2> QED BY <2>1, <2>2, <2>3 DEF ServerInit, ServerTypeOK
<1>2. Live = {} /\ Counted = {} /\ Closing = {} BY DEF ServerInit, Live, Counted, Closing
<1>3. conns = <<>> /\ numConns = 0 /\ wgConns = 0 /\ ~serverClosed /\ ~handlerClosed BY DEF ServerInit
<1>4. Cardinality({}) = 0 BY FS_EmptySet
<1>5. Distinct(conns) /\ ToSet(conns) = {} /\ Len(conns) = 0 BY <1>3 DEF Distinct, ToSet
<1> QED BY <1>1, <1>2, <1>3, <1>4, <1>5
        DEF ServerInv, ConnsTracked, ClosedReachesEveryConn, WaitGroupCounts, OneCloses

\* A connection that moves without entering or leaving the two sets.
LEMMA MovesWithin ==
    ASSUME ServerTypeOK, NEW c \in Conn, NEW x, connAt' = [connAt EXCEPT ![c] = x],
           connAt[c] \in {"added", "handling", "returned", "closed"}
               <=> x \in {"added", "handling", "returned", "closed"}
    PROVE  Live' = Live
<1>1. \A d \in Conn : connAt'[d] = IF d = c THEN x ELSE connAt[d] BY DEF ServerTypeOK
<1> QED BY <1>1 DEF Live

LEMMA CountedWithin ==
    ASSUME ServerTypeOK, NEW c \in Conn, NEW x, connAt' = [connAt EXCEPT ![c] = x],
           connAt[c] \in {"handling", "returned", "closed", "removed"}
               <=> x \in {"handling", "returned", "closed", "removed"}
    PROVE  Counted' = Counted
<1>1. \A d \in Conn : connAt'[d] = IF d = c THEN x ELSE connAt[d] BY DEF ServerTypeOK
<1> QED BY <1>1 DEF Counted

LEMMA TrackedSame ==
    ASSUME ConnsTracked, conns' = conns, numConns' = numConns, Live' = Live
    PROVE  ConnsTracked'
BY DEF ConnsTracked

LEMMA ClosersSame ==
    ASSUME OneCloses, close' = close, serverClosed' = serverClosed, handlerClosed' = handlerClosed
    PROVE  OneCloses'
BY DEF OneCloses, Closing

\* A step that opens nothing leaves to Close what it has to reach.
LEMMA ReachedSame ==
    ASSUME ClosedReachesEveryConn, serverClosed' = serverClosed, openConns' = openConns,
           \A d \in Conn : open'[d] /\ connAt'[d] \in {"added", "handling"}
                           => open[d] /\ connAt[d] \in {"added", "handling"}
    PROVE  ClosedReachesEveryConn'
BY DEF ClosedReachesEveryConn

-----------------------------------------------------------------------------
(* The steps of the accept loop, serve and the connections.                *)

\* What a step of the network, of serve or of a connection leaves alone.
CloseAlone == UNCHANGED <<serverClosed, close, openConns, handlerClosed>>

LEMMA QuietInv ==
    ASSUME ServerInv, CloseAlone, UNCHANGED <<connAt, open, conns, numConns, wgConns>>
    PROVE  ServerInv'
BY DEF ServerInv, ServerTypeOK, ConnsTracked, ClosedReachesEveryConn, WaitGroupCounts,
       OneCloses, Closing, Live, Counted, CloseAlone

\* A step of one connection that is not in conns, or stays there, and that
\* wgConns does not count, or still counts.
LEMMA ConnMoveInv ==
    ASSUME ServerInv, CloseAlone, UNCHANGED <<conns, numConns, wgConns>>,
           NEW c \in Conn, NEW x \in ConnState, connAt' = [connAt EXCEPT ![c] = x],
           open' \in {open, [open EXCEPT ![c] = FALSE]},
           connAt[c] \in {"added", "handling", "returned", "closed"}
               <=> x \in {"added", "handling", "returned", "closed"},
           connAt[c] \in {"handling", "returned", "closed", "removed"}
               <=> x \in {"handling", "returned", "closed", "removed"},
           x \notin {"added", "handling"}
    PROVE  ServerInv'
<1> USE DEF ServerInv
<1>1. Live' = Live /\ Counted' = Counted BY MovesWithin, CountedWithin
<1>2. ServerTypeOK' BY DEF ServerTypeOK, CloseAlone
<1>3. ConnsTracked' BY <1>1, TrackedSame
<1>4. WaitGroupCounts' BY <1>1 DEF WaitGroupCounts
<1>5. OneCloses' BY ClosersSame DEF CloseAlone
<1>6. ClosedReachesEveryConn'
    <2>1. \A d \in Conn : connAt'[d] = IF d = c THEN x ELSE connAt[d] BY DEF ServerTypeOK
    <2>2. \A d \in Conn : open'[d] => open[d] BY DEF ServerTypeOK
    <2> QED BY <2>1, <2>2, ReachedSame DEF CloseAlone
<1> QED BY <1>2, <1>3, <1>4, <1>5, <1>6 DEF Distinct

LEMMA AddInv == ASSUME ServerInv, NEW c \in Conn, addConnection(c) PROVE ServerInv'
<1> USE DEF ServerInv
<1>1. CloseAlone /\ connAt[c] = "received"
    BY DEF addConnection, closeVars, CloseAlone
<1>2. CASE serverClosed
    <2>1. /\ connAt' = [connAt EXCEPT ![c] = "rejected"]
          /\ UNCHANGED <<conns, numConns, wgConns, open>>
        BY <1>2 DEF addConnection
    <2> QED BY <1>1, <2>1, ConnMoveInv DEF ConnState
<1>3. CASE ~serverClosed
    <2>1. /\ connAt' = [connAt EXCEPT ![c] = "added"]
          /\ conns' = Append(conns, c) /\ numConns' = numConns + 1
          /\ UNCHANGED <<wgConns, open>>
        BY <1>3 DEF addConnection
    <2>2. \A d \in Conn : connAt'[d] = IF d = c THEN "added" ELSE connAt[d]
        BY <2>1 DEF ServerTypeOK
    <2>3. Live' = Live \cup {c} /\ c \notin Live BY <1>1, <2>2 DEF Live
    <2>4. c \notin ToSet(conns) BY <2>3 DEF ConnsTracked
    <2>5. /\ conns' \in Seq(Conn) /\ Distinct(conns')
          /\ ToSet(conns') = ToSet(conns) \cup {c} /\ Len(conns') = Len(conns) + 1
        BY <2>1, <2>4, AppendNew DEF ServerTypeOK
    <2>6. ServerTypeOK' BY <1>1, <2>1, <2>5 DEF ServerTypeOK, CloseAlone, ConnState
    <2>7. Cardinality(Live') = Cardinality(Live) + 1 BY <2>3, ConnSetsFinite, FS_AddElement
    <2>8. ConnsTracked' BY <2>1, <2>3, <2>5, <2>7 DEF ConnsTracked
    <2>9. Counted' = Counted BY <1>1, <2>1, CountedWithin
    <2>10. WaitGroupCounts' BY <2>1, <2>9 DEF WaitGroupCounts
    <2>11. OneCloses' BY <1>1, ClosersSame DEF CloseAlone
    <2>12. ClosedReachesEveryConn' BY <1>1, <1>3 DEF ClosedReachesEveryConn, CloseAlone
    <2> QED BY <2>5, <2>6, <2>8, <2>10, <2>11, <2>12 DEF Distinct
<1> QED BY <1>2, <1>3

LEMMA StartInv == ASSUME ServerInv, NEW c \in Conn, StartHandler(c) PROVE ServerInv'
<1> USE DEF ServerInv
<1>1. /\ CloseAlone /\ connAt[c] = "added" /\ connAt' = [connAt EXCEPT ![c] = "handling"]
      /\ wgConns' = wgConns + 1 /\ UNCHANGED <<conns, numConns, open>>
    BY DEF StartHandler, closeVars, CloseAlone
<1>2. \A d \in Conn : connAt'[d] = IF d = c THEN "handling" ELSE connAt[d]
    BY <1>1 DEF ServerTypeOK
<1>3. ServerTypeOK' BY <1>1 DEF ServerTypeOK, CloseAlone, ConnState
<1>4. Live' = Live BY <1>1, MovesWithin
<1>5. ConnsTracked' BY <1>1, <1>4, TrackedSame
<1>6. Counted' = Counted \cup {c} /\ c \notin Counted BY <1>1, <1>2 DEF Counted
<1>7. Cardinality(Counted') = Cardinality(Counted) + 1 BY <1>6, ConnSetsFinite, FS_AddElement
<1>8. WaitGroupCounts' BY <1>1, <1>7 DEF WaitGroupCounts
<1>9. OneCloses' BY <1>1, ClosersSame DEF CloseAlone
<1>10. ClosedReachesEveryConn' BY <1>1, <1>2, ReachedSame DEF CloseAlone
<1> QED BY <1>1, <1>3, <1>5, <1>8, <1>9, <1>10 DEF Distinct

LEMMA RejectInv == ASSUME ServerInv, NEW c \in Conn, RejectConn(c) PROVE ServerInv'
<1> USE DEF ServerInv
<1>1. /\ CloseAlone /\ open' = [open EXCEPT ![c] = FALSE]
      /\ UNCHANGED <<conns, numConns, connAt, wgConns>>
    BY DEF RejectConn, closeVars, serverVars, CloseAlone
<1>2. ServerTypeOK' BY <1>1 DEF ServerTypeOK, CloseAlone
<1>3. Live' = Live /\ Counted' = Counted BY <1>1 DEF Live, Counted
<1>4. ConnsTracked' BY <1>1, <1>3, TrackedSame
<1>5. WaitGroupCounts' BY <1>1, <1>3 DEF WaitGroupCounts
<1>6. OneCloses' BY <1>1, ClosersSame DEF CloseAlone
<1>7. \A d \in Conn : open'[d] => open[d] BY <1>1 DEF ServerTypeOK
<1>8. ClosedReachesEveryConn' BY <1>1, <1>7, ReachedSame DEF CloseAlone
<1> QED BY <1>1, <1>2, <1>4, <1>5, <1>6, <1>8 DEF Distinct

LEMMA RemoveInv == ASSUME ServerInv, NEW c \in Conn, removeConnection(c) PROVE ServerInv'
<1> USE DEF ServerInv
<1>1. /\ CloseAlone /\ connAt[c] = "closed" /\ connAt' = [connAt EXCEPT ![c] = "removed"]
      /\ numConns' = numConns - 1 /\ UNCHANGED <<wgConns, open>>
    BY DEF removeConnection, closeVars, CloseAlone
<1>2. PICK i \in DOMAIN conns : conns[i] = c /\ conns' = Front([conns EXCEPT ![i] = Last(conns)])
    BY DEF removeConnection
<1>3. \A d \in Conn : connAt'[d] = IF d = c THEN "removed" ELSE connAt[d]
    BY <1>1 DEF ServerTypeOK
<1>4. /\ conns' \in Seq(Conn) /\ Distinct(conns')
      /\ ToSet(conns') = ToSet(conns) \ {c} /\ Len(conns') = Len(conns) - 1
    BY <1>2, SwapRemove DEF ServerTypeOK
<1>5. ServerTypeOK' BY <1>1, <1>4 DEF ServerTypeOK, CloseAlone, ConnState
<1>6. Live' = Live \ {c} /\ c \in Live BY <1>1, <1>3 DEF Live
<1>7. Cardinality(Live') = Cardinality(Live) - 1 BY <1>6, ConnSetsFinite, FS_RemoveElement
<1>8. ConnsTracked' BY <1>1, <1>4, <1>6, <1>7 DEF ConnsTracked
<1>9. Counted' = Counted BY <1>1, CountedWithin
<1>10. WaitGroupCounts' BY <1>1, <1>9 DEF WaitGroupCounts
<1>11. OneCloses' BY <1>1, ClosersSame DEF CloseAlone
<1>12. ClosedReachesEveryConn' BY <1>1, <1>3, ReachedSame DEF CloseAlone
<1> QED BY <1>4, <1>5, <1>8, <1>10, <1>11, <1>12 DEF Distinct

LEMMA DoneInv == ASSUME ServerInv, NEW c \in Conn, HandlerDone(c) PROVE ServerInv'
<1> USE DEF ServerInv
<1>1. /\ CloseAlone /\ connAt[c] = "removed" /\ connAt' = [connAt EXCEPT ![c] = "done"]
      /\ wgConns' = wgConns - 1 /\ UNCHANGED <<conns, numConns, open>>
    BY DEF HandlerDone, closeVars, CloseAlone
<1>2. \A d \in Conn : connAt'[d] = IF d = c THEN "done" ELSE connAt[d]
    BY <1>1 DEF ServerTypeOK
<1>3. ServerTypeOK' BY <1>1 DEF ServerTypeOK, CloseAlone, ConnState
<1>4. Live' = Live BY <1>1, MovesWithin
<1>5. ConnsTracked' BY <1>1, <1>4, TrackedSame
<1>6. Counted' = Counted \ {c} /\ c \in Counted BY <1>1, <1>2 DEF Counted
<1>7. Cardinality(Counted') = Cardinality(Counted) - 1 BY <1>6, ConnSetsFinite, FS_RemoveElement
<1>8. WaitGroupCounts' BY <1>1, <1>7 DEF WaitGroupCounts
<1>9. OneCloses' BY <1>1, ClosersSame DEF CloseAlone
<1>10. ClosedReachesEveryConn' BY <1>1, <1>2, ReachedSame DEF CloseAlone
<1> QED BY <1>1, <1>3, <1>5, <1>8, <1>9, <1>10 DEF Distinct

LEMMA ConnInv ==
    ASSUME ServerInv, NEW c \in Conn,
           Accept(c) \/ AcceptSend(c) \/ HandleReturn(c) \/ HandlerCloseConn(c)
    PROVE  ServerInv'
<1>1. CASE Accept(c)
    BY <1>1, ConnMoveInv DEF Accept, closeVars, serverVars, CloseAlone, ConnState
<1>2. CASE AcceptSend(c)
    BY <1>2, ConnMoveInv DEF AcceptSend, closeVars, serverVars, CloseAlone, ConnState
<1>3. CASE HandleReturn(c)
    BY <1>3, ConnMoveInv DEF HandleReturn, closeVars, serverVars, CloseAlone, ConnState
<1>4. CASE HandlerCloseConn(c)
    BY <1>4, ConnMoveInv DEF HandlerCloseConn, closeVars, serverVars, CloseAlone, ConnState
<1> QED BY <1>1, <1>2, <1>3, <1>4

-----------------------------------------------------------------------------
(* The steps of Close.                                                     *)

\* What a step of Close leaves alone.
ConnsAlone == UNCHANGED <<conns, numConns, connAt, wgConns>>

LEMMA ConnsAloneKeeps ==
    ASSUME ServerInv, ConnsAlone
    PROVE  /\ ConnsTracked' /\ WaitGroupCounts' /\ Distinct(conns)'
           /\ connAt' \in [Conn -> ConnState] /\ conns' \in Seq(Conn)
BY DEF ServerInv, ServerTypeOK, ConnsAlone, ConnsTracked, WaitGroupCounts, Live, Counted, Distinct

LEMMA CloseBeginInv == ASSUME ServerInv, NEW k \in Closer, CloseBegin(k) PROVE ServerInv'
<1> USE DEF ServerInv
<1>1. ConnsAlone /\ close[k] = "idle" /\ UNCHANGED <<open, handlerClosed>>
    BY DEF CloseBegin, connVars, ConnsAlone
<1>2. CASE serverClosed
    <2>1. close' = [close EXCEPT ![k] = "returned"] /\ UNCHANGED <<serverClosed, openConns>>
        BY <1>2 DEF CloseBegin
    <2>2. ServerTypeOK' BY <1>1, <2>1, ConnsAloneKeeps DEF ServerTypeOK
    <2>3. \A j \in Closer : close'[j] = IF j = k THEN "returned" ELSE close[j]
        BY <2>1 DEF ServerTypeOK
    <2>4. Closing' = Closing BY <1>1, <2>3 DEF Closing
    <2>5. OneCloses' BY <1>1, <2>1, <2>4 DEF OneCloses
    <2>6. ClosedReachesEveryConn' BY <1>1, <2>1, ReachedSame DEF ConnsAlone
    <2> QED BY <1>1, <2>2, <2>5, <2>6, ConnsAloneKeeps
<1>3. CASE ~serverClosed
    <2>1. /\ serverClosed' = TRUE /\ openConns' = [openConns EXCEPT ![k] = ToSet(conns)]
          /\ close' = [close EXCEPT ![k] = "conns"]
        BY <1>3 DEF CloseBegin
    <2>2. ToSet(conns) = Live /\ Live \subseteq Conn BY DEF ConnsTracked, Live
    <2>3. ServerTypeOK' BY <1>1, <2>1, <2>2, ConnsAloneKeeps DEF ServerTypeOK
    <2>4. \A j \in Closer : close'[j] = IF j = k THEN "conns" ELSE close[j]
        BY <2>1 DEF ServerTypeOK
    <2>5. Closing = {} /\ ~handlerClosed BY <1>3 DEF OneCloses
    <2>6. Closing' = {k} BY <2>4, <2>5 DEF Closing
    <2>7. OneCloses' BY <1>1, <2>1, <2>5, <2>6 DEF OneCloses
    <2>8. openConns'[k] = Live BY <2>1, <2>2 DEF ServerTypeOK
    <2>9. ClosedReachesEveryConn' BY <1>1, <2>8 DEF ClosedReachesEveryConn, ConnsAlone, Live
    <2> QED BY <1>1, <2>3, <2>7, <2>9, ConnsAloneKeeps
<1> QED BY <1>2, <1>3

LEMMA CloseConnsInv == ASSUME ServerInv, NEW k \in Closer, CloseConns(k) PROVE ServerInv'
<1> USE DEF ServerInv
<1>1. ConnsAlone /\ close[k] = "conns" /\ UNCHANGED <<serverClosed, handlerClosed>>
    BY DEF CloseConns, serverVars, ConnsAlone
<1>2. ASSUME NEW c \in openConns[k], open' = [open EXCEPT ![c] = FALSE],
             openConns' = [openConns EXCEPT ![k] = @ \ {c}], UNCHANGED close
      PROVE  ServerInv'
    <2>1. c \in Conn BY <1>2 DEF ServerTypeOK
    <2>2. ServerTypeOK' BY <1>1, <1>2, <2>1, ConnsAloneKeeps DEF ServerTypeOK
    <2>3. OneCloses' BY <1>1, <1>2, ClosersSame
    <2>4. /\ \A d \in Conn : open'[d] => open[d] /\ d # c
          /\ \A j \in Closer : openConns[j] \ {c} \subseteq openConns'[j]
        BY <1>2, <2>1 DEF ServerTypeOK
    <2>5. ClosedReachesEveryConn'
        BY <1>1, <2>4 DEF ClosedReachesEveryConn, ConnsAlone
    <2> QED BY <1>1, <2>2, <2>3, <2>5, ConnsAloneKeeps
<1>3. ASSUME close' = [close EXCEPT ![k] = "listener"], UNCHANGED <<open, openConns>>
      PROVE  ServerInv'
    <2>1. ServerTypeOK' BY <1>1, <1>3, ConnsAloneKeeps DEF ServerTypeOK
    <2>2. \A j \in Closer : close'[j] = IF j = k THEN "listener" ELSE close[j]
        BY <1>3 DEF ServerTypeOK
    <2>3. Closing' = Closing BY <1>1, <2>2 DEF Closing
    <2>4. OneCloses' BY <1>1, <2>3 DEF OneCloses
    <2>5. ClosedReachesEveryConn' BY <1>1, <1>3, ReachedSame DEF ConnsAlone
    <2> QED BY <1>1, <2>1, <2>4, <2>5, ConnsAloneKeeps
<1> QED BY <1>2, <1>3 DEF CloseConns

LEMMA CloseRestInv ==
    ASSUME ServerInv, NEW k \in Closer, CloseListener(k) \/ CloseWait(k) \/ CloseHandler(k)
    PROVE  ServerInv'
<1> USE DEF ServerInv
<1>1. ConnsAlone /\ UNCHANGED <<serverClosed, open, openConns>>
    BY DEF CloseListener, CloseWait, CloseHandler, serverVars, connVars, ConnsAlone
<1>2. ClosedReachesEveryConn' BY <1>1, ReachedSame DEF ConnsAlone
<1>3. CASE CloseListener(k) \/ CloseWait(k)
    <2>1. PICK x \in {"wait", "handler"} : close' = [close EXCEPT ![k] = x]
        BY <1>3 DEF CloseListener, CloseWait
    <2>2. close[k] \in {"listener", "wait"} /\ UNCHANGED handlerClosed
        BY <1>3 DEF CloseListener, CloseWait
    <2>3. ServerTypeOK' BY <1>1, <2>1, <2>2, ConnsAloneKeeps DEF ServerTypeOK
    <2>4. \A j \in Closer : close'[j] = IF j = k THEN x ELSE close[j] BY <2>1 DEF ServerTypeOK
    <2>5. Closing' = Closing BY <2>2, <2>4 DEF Closing
    <2>6. OneCloses' BY <1>1, <2>2, <2>5 DEF OneCloses
    <2> QED BY <1>1, <1>2, <2>3, <2>6, ConnsAloneKeeps
<1>4. CASE CloseHandler(k)
    <2>1. /\ close[k] = "handler" /\ close' = [close EXCEPT ![k] = "returned"]
          /\ handlerClosed' = TRUE
        BY <1>4 DEF CloseHandler
    <2>2. ServerTypeOK' BY <1>1, <2>1, ConnsAloneKeeps DEF ServerTypeOK
    <2>3. \A j \in Closer : close'[j] = IF j = k THEN "returned" ELSE close[j]
        BY <2>1 DEF ServerTypeOK
    <2>4. k \in Closing /\ Closing = {k} BY <2>1 DEF OneCloses, Closing
    <2>5. Closing' = {} BY <2>3, <2>4 DEF Closing
    <2>6. OneCloses' BY <1>1, <2>1, <2>4, <2>5 DEF OneCloses
    <2> QED BY <1>1, <1>2, <2>2, <2>6, ConnsAloneKeeps
<1> QED BY <1>3, <1>4

-----------------------------------------------------------------------------
(* The theorems.                                                           *)

LEMMA ServerStep == ServerInv /\ [ServerNext]_allServerVars => ServerInv'
<1> SUFFICES ASSUME ServerInv, [ServerNext]_allServerVars PROVE ServerInv'
    OBVIOUS
<1>1. CASE Serve \/ AcceptTemporary \/ AcceptRetry \/ AcceptFatal \/ AcceptError \/ ServeLoopEnd
    BY <1>1, QuietInv DEF Serve, AcceptTemporary, AcceptRetry, AcceptFatal, AcceptError,
       ServeLoopEnd, serverVars, connVars, closeVars, CloseAlone
<1>2. CASE reportMetrics
    BY <1>2, QuietInv DEF reportMetrics, serverVars, connVars, closeVars, CloseAlone
<1>3. CASE UNCHANGED allServerVars
    BY <1>3, QuietInv DEF allServerVars, serverVars, connVars, closeVars, CloseAlone
<1> QED BY <1>1, <1>2, <1>3, ConnInv, AddInv, RejectInv, StartInv, RemoveInv, DoneInv,
           CloseBeginInv, CloseConnsInv, CloseRestInv
        DEF ServerNext, AcceptLoop, ServeLoop, ConnGoroutine, CloseStep

\* The invariant holds of every behaviour of the server.
THEOREM ServerInvariant == ServerSpec => []ServerInv
BY ServerInitInv, ServerStep, PTL DEF ServerSpec

\* conns holds exactly the connections between addConnection and
\* removeConnection, each once, and numConns is their number.
THEOREM ConnectionsAreTracked == ServerSpec => []ConnsTracked
BY ServerInvariant, PTL DEF ServerInv

\* Once the server is closed, an open connection with a handler, or about to
\* get one, is in the copy a caller of Close works through: addConnection and
\* Close never pass a connection between them unseen.
THEOREM CloseReachesConnections == ServerSpec => []ClosedReachesEveryConn
BY ServerInvariant, PTL DEF ServerInv

\* The counter of wgConns is the number of goroutines serve has started and
\* that are not done, and so never negative.
THEOREM WaitGroupIsExact == ServerSpec => [](WaitGroupCounts /\ wgConns >= 0)
<1>1. ServerInv => WaitGroupCounts /\ wgConns >= 0
    BY ConnSetsFinite DEF ServerInv, WaitGroupCounts
<1> QED BY <1>1, ServerInvariant, PTL

\* Only one caller of Close closes the handler, and it does so once, however
\* many call and whenever they do.
THEOREM HandlerClosedOnce ==
    ServerSpec => [][\A k \in Closer : CloseHandler(k) => ~handlerClosed]_allServerVars
<1>1. ServerInv => \A k \in Closer : CloseHandler(k) => ~handlerClosed
    BY DEF ServerInv, OneCloses, Closing, CloseHandler
<1> QED BY <1>1, ServerInvariant, PTL

=============================================================================
