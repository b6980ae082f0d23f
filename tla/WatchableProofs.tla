--------------------------- MODULE WatchableProofs ---------------------------
(***************************************************************************)
(* Theorems about Watchable for any number of watches and updates, and     *)
(* about the Source and the Value built on it.                             *)
(*                                                                         *)
(* The three safety invariants rest on WatchableInv: a channel is closed   *)
(* before the watchable is only by its own watch, once, and a channel that *)
(* Watch still has to notify is open unless Close may race with Watch.     *)
(***************************************************************************)
EXTENDS Value, TLAPS

\* A channel is closed while the watchable is open only by Close of its watch.
ShutByWatch == \A c \in Chan : shut[c] /\ ~closed => watchClosed[c]

\* Without a Close racing with Watch, Watch sends on an open channel.
NotifyOpen == ~RacyClose => \A c \in Chan : at[c] = "notify" => ~shut[c]

WatchableInv ==
    /\ WatchableTypeOK
    /\ NoLostUpdate
    /\ ActiveAreOpen
    /\ ShutByWatch
    /\ NotifyOpen
    /\ ~RacyClose => NoPanic

LEMMA WatchableInitInv == WatchableInit => WatchableInv
<1> SUFFICES ASSUME WatchableInit PROVE WatchableInv
    OBVIOUS
<1> USE WatchableAssumption DEF WatchableInit
<1>1. WatchableTypeOK
    <2>0. 0 \in 0 .. MaxUpdates
        OBVIOUS
    <2>1. value \in 0 .. MaxUpdates /\ seen \in [Chan -> 0 .. MaxUpdates]
        BY <2>0, Zenon
    <2>2. /\ closed \in BOOLEAN /\ panicked \in BOOLEAN
          /\ active \subseteq Chan
          /\ token \in [Chan -> BOOLEAN] /\ shut \in [Chan -> BOOLEAN]
          /\ watchClosed \in [Chan -> BOOLEAN] /\ at \in [Chan -> At]
        BY Zenon DEF At
    <2>3. \A c \in Chan : c \notin active /\ seen[c] = 0 /\ ~token[c] /\ ~shut[c] /\ ~watchClosed[c]
        OBVIOUS
    <2> QED BY <2>1, <2>2, <2>3 DEF WatchableTypeOK
<1>2. NoLostUpdate /\ ActiveAreOpen BY DEF NoLostUpdate, ActiveAreOpen
<1>3. ShutByWatch /\ NotifyOpen BY DEF ShutByWatch, NotifyOpen
<1>4. NoPanic BY DEF NoPanic
<1> QED BY <1>1, <1>2, <1>3, <1>4 DEF WatchableInv

\* What every action preserves of the types and of channels not yet made.
LEMMA WatchableTypeStep ==
    WatchableTypeOK /\ [WatchableNext]_watchableVars => WatchableTypeOK'
<1> SUFFICES ASSUME WatchableTypeOK, [WatchableNext]_watchableVars
             PROVE  WatchableTypeOK'
    OBVIOUS
<1> USE WatchableAssumption DEF WatchableTypeOK, At
<1>1. CASE Update BY <1>1 DEF Update
<1>2. CASE Close BY <1>2 DEF Close
<1>3. ASSUME NEW c \in Chan, WatchBegin(c) PROVE WatchableTypeOK'
    BY <1>3 DEF WatchBegin
<1>4. ASSUME NEW c \in Chan, WatchNotify(c) PROVE WatchableTypeOK'
    BY <1>4 DEF WatchNotify
<1>5. ASSUME NEW c \in Chan, CloseWatch(c) PROVE WatchableTypeOK'
    BY <1>5 DEF CloseWatch
<1>6. ASSUME NEW c \in Chan, Receive(c) PROVE WatchableTypeOK'
    BY <1>6 DEF Receive
<1>7. ASSUME NEW c \in Chan, Get(c) PROVE WatchableTypeOK'
    BY <1>7 DEF Get
<1>8. CASE UNCHANGED watchableVars BY <1>8 DEF watchableVars
<1> QED BY <1>1, <1>2, <1>3, <1>4, <1>5, <1>6, <1>7, <1>8 DEF WatchableNext

LEMMA NoLostUpdateStep ==
    WatchableTypeOK /\ NoLostUpdate /\ [WatchableNext]_watchableVars => NoLostUpdate'
<1> SUFFICES ASSUME WatchableTypeOK, NoLostUpdate, [WatchableNext]_watchableVars
             PROVE  NoLostUpdate'
    OBVIOUS
<1> USE WatchableAssumption DEF WatchableTypeOK, At, NoLostUpdate
<1>1. CASE Update BY <1>1 DEF Update
<1>2. CASE Close BY <1>2 DEF Close
<1>3. ASSUME NEW c \in Chan, WatchBegin(c) PROVE NoLostUpdate'
    BY <1>3 DEF WatchBegin
<1>4. ASSUME NEW c \in Chan, WatchNotify(c) PROVE NoLostUpdate'
    BY <1>4 DEF WatchNotify
<1>5. ASSUME NEW c \in Chan, CloseWatch(c) PROVE NoLostUpdate'
    BY <1>5 DEF CloseWatch
<1>6. ASSUME NEW c \in Chan, Receive(c) PROVE NoLostUpdate'
    BY <1>6 DEF Receive
<1>7. ASSUME NEW c \in Chan, Get(c) PROVE NoLostUpdate'
    BY <1>7 DEF Get
<1>8. CASE UNCHANGED watchableVars BY <1>8 DEF watchableVars
<1> QED BY <1>1, <1>2, <1>3, <1>4, <1>5, <1>6, <1>7, <1>8 DEF WatchableNext

LEMMA ChannelsStep ==
    /\ WatchableTypeOK /\ ActiveAreOpen /\ ShutByWatch /\ NotifyOpen
    /\ ~RacyClose => NoPanic
    /\ [WatchableNext]_watchableVars
    => /\ ActiveAreOpen' /\ ShutByWatch' /\ NotifyOpen'
       /\ ~RacyClose => NoPanic'
<1> DEFINE Goal == /\ ActiveAreOpen' /\ ShutByWatch' /\ NotifyOpen'
                   /\ ~RacyClose => NoPanic'
<1> SUFFICES ASSUME WatchableTypeOK, ActiveAreOpen, ShutByWatch, NotifyOpen,
                    ~RacyClose => NoPanic, [WatchableNext]_watchableVars
             PROVE  Goal
    OBVIOUS
<1> USE WatchableAssumption
    DEF WatchableTypeOK, At, ActiveAreOpen, ShutByWatch, NotifyOpen, NoPanic
<1>1. CASE Update BY <1>1 DEF Update
<1>2. CASE Close BY <1>2 DEF Close
<1>3. ASSUME NEW c \in Chan, WatchBegin(c) PROVE Goal
    BY <1>3 DEF WatchBegin
<1>4. ASSUME NEW c \in Chan, WatchNotify(c) PROVE Goal
    BY <1>4 DEF WatchNotify
<1>5. ASSUME NEW c \in Chan, CloseWatch(c) PROVE Goal
    BY <1>5 DEF CloseWatch
<1>6. ASSUME NEW c \in Chan, Receive(c) PROVE Goal
    BY <1>6 DEF Receive
<1>7. ASSUME NEW c \in Chan, Get(c) PROVE Goal
    BY <1>7 DEF Get
<1>8. CASE UNCHANGED watchableVars BY <1>8 DEF watchableVars
<1> QED BY <1>1, <1>2, <1>3, <1>4, <1>5, <1>6, <1>7, <1>8 DEF WatchableNext

\* WatchableInv is inductive: it holds in every state that calls of Watch,
\* Update, Close and Get, and receives, can reach.
THEOREM WatchableInvariant == WatchableSpec => []WatchableInv
<1>1. WatchableInv /\ [WatchableNext]_watchableVars => WatchableInv'
    BY WatchableTypeStep, NoLostUpdateStep, ChannelsStep DEF WatchableInv
<1> QED BY <1>1, WatchableInitInv, PTL DEF WatchableSpec

\* The variables of the watchable and its channels keep their types, and a
\* channel that Watch has not made has no state.
THEOREM WatchableTypeCorrect == WatchableSpec => []WatchableTypeOK
<1>1. WatchableInv => WatchableTypeOK BY DEF WatchableInv
<1> QED BY <1>1, WatchableInvariant, PTL

\* Coalesced, non-blocking notifications lose no update: a watcher whose Get
\* is older than the value has a notification to come, in its channel or in
\* its hand.
THEOREM UpdatesAreNotLost == WatchableSpec => []NoLostUpdate
<1>1. WatchableInv => NoLostUpdate BY DEF WatchableInv
<1> QED BY <1>1, WatchableInvariant, PTL

\* Update, Close and closeFunc keep active and the open channels the same.
THEOREM ActiveChannelsAreOpen == WatchableSpec => []ActiveAreOpen
<1>1. WatchableInv => ActiveAreOpen BY DEF WatchableInv
<1> QED BY <1>1, WatchableInvariant, PTL

\* When Close of the watchable does not overlap a call of Watch, no send on a
\* closed channel and no second close of one happens.
THEOREM NoSendOnClosedChannel == ~RacyClose /\ WatchableSpec => []NoPanic
<1>1. ~RacyClose /\ WatchableInv => NoPanic BY DEF WatchableInv
<1> SUFFICES ASSUME ~RacyClose PROVE WatchableSpec => []NoPanic
    OBVIOUS
<1>2. WatchableInv => NoPanic BY <1>1
<1> QED BY <1>2, WatchableInvariant, PTL

-----------------------------------------------------------------------------
(* The Source and the Value.                                               *)

ValueTypeOK ==
    /\ WatchableTypeOK
    /\ processed \in Nat
    /\ goroutine \in [Chan -> {"none", "running", "exited"}]

\* The Value has an updatable while it watches, and the lock is held over
\* steps only by the Watch call that has set it.
HasUpdatable ==
    /\ status = "valueWatching" => updatable \in Chan
    /\ watching # "unlocked" => status = "valueWatching"

\* The goroutine of an updatable in use is there from the return of Watch on,
\* until the Source has closed the channel.
Served ==
    status = "valueWatching" /\ watching = "unlocked" =>
        goroutine[updatable] = "running" \/ shut[updatable]

ValueInv ==
    /\ ValueTypeOK /\ HasUpdatable /\ Served
    /\ processed <= value

LEMMA ValueInitInv == Init => ValueInv
<1> SUFFICES ASSUME Init PROVE ValueInv
    OBVIOUS
<1>1. WatchableTypeOK BY WatchableInitInv DEF Init, WatchableInv
<1>2. goroutine \in [Chan -> {"none", "running", "exited"}] BY DEF Init
<1> QED BY <1>1, <1>2 DEF Init, WatchableInit, ValueInv, ValueTypeOK, HasUpdatable, Served

\* Every step of the Source, and every one of the Value, is a step of the
\* watchable between them or leaves it alone.
LEMMA ValueStepsWatchable ==
    ValueInv /\ [Next]_vars => [WatchableNext]_watchableVars
<1> SUFFICES ASSUME ValueInv, [Next]_vars PROVE [WatchableNext]_watchableVars
    OBVIOUS
<1> USE DEF WatchableNext
<1>1. CASE ~panicked /\ Source
    BY <1>1 DEF Source, RunCheck, RunPoll, RunUpdate, RunClose, SourceClose
<1>2. CASE ~panicked /\ ClientClose BY <1>2 DEF ClientClose, SourceClose
<1>3. CASE ~panicked /\ WatchCall
    <2>1. updatable \in Chan
        BY <1>3 DEF WatchCall, ValueWatchCreated, ValueWatchInit, ValueWatchTimeout, ValueInv, HasUpdatable
    <2> QED BY <1>3, <2>1 DEF WatchCall, ValueWatchCreated, ValueWatchInit, ValueWatchTimeout
<1>4. CASE ~panicked /\ Unwatch BY <1>4 DEF Unwatch, ValueInv, HasUpdatable
<1>5. ASSUME NEW c \in Chan, ~panicked, ValueWatch(c) PROVE WatchableNext BY <1>5 DEF ValueWatch
<1>6. ASSUME NEW c \in Chan, ~panicked, watchUpdates(c) PROVE [WatchableNext]_watchableVars
    BY <1>6 DEF watchUpdates, GoroutineReceive, GoroutineProcess, GoroutineExit
<1>7. CASE UNCHANGED vars BY <1>7 DEF vars
<1> QED BY <1>1, <1>2, <1>3, <1>4, <1>5, <1>6, <1>7 DEF Next

\* Values only grow, and a channel that is closed stays closed.
LEMMA WatchableMonotone ==
    ASSUME WatchableTypeOK, [WatchableNext]_watchableVars
    PROVE  /\ value' >= value
           /\ \A c \in Chan : shut[c] => shut'[c]
<1> USE WatchableAssumption DEF WatchableTypeOK
<1>1. CASE Update BY <1>1 DEF Update
<1>2. CASE Close BY <1>2 DEF Close
<1>3. ASSUME NEW c \in Chan, WatchBegin(c) \/ WatchNotify(c) \/ Receive(c) \/ Get(c)
      PROVE  value' = value /\ shut' = shut
    BY <1>3 DEF WatchBegin, WatchNotify, Receive, Get
<1>4. ASSUME NEW c \in Chan, CloseWatch(c)
      PROVE  value' = value /\ \A d \in Chan : shut[d] => shut'[d]
    BY <1>4 DEF CloseWatch
<1>5. CASE UNCHANGED watchableVars BY <1>5 DEF watchableVars
<1> QED BY <1>1, <1>2, <1>3, <1>4, <1>5 DEF WatchableNext

\* What a step does to the last update processed.
LEMMA ProcessedStep ==
    ASSUME ValueInv, [Next]_vars
    PROVE  processed' = processed \/ (processed' = value /\ status = "valueWatching")
<1>1. CASE Source
    BY <1>1 DEF Source, RunCheck, RunPoll, RunUpdate, RunClose, SourceClose, valueVars
<1>2. CASE ClientClose BY <1>2 DEF ClientClose, SourceClose, valueVars
<1>3. CASE WatchCall
    BY <1>3 DEF WatchCall, ValueWatchCreated, ValueWatchInit, ValueWatchTimeout, processWithLock,
                valueVars, ValueInv, HasUpdatable
<1>4. CASE Unwatch BY <1>4 DEF Unwatch
<1>5. ASSUME NEW c \in Chan, ValueWatch(c) PROVE processed' = processed BY <1>5 DEF ValueWatch
<1>6. ASSUME NEW c \in Chan, watchUpdates(c)
      PROVE  processed' = processed \/ (processed' = value /\ status = "valueWatching")
    BY <1>6 DEF watchUpdates, GoroutineReceive, GoroutineProcess, GoroutineExit, processWithLock, valueVars
<1>7. CASE UNCHANGED vars BY <1>7 DEF vars, valueVars
<1> QED BY <1>1, <1>2, <1>3, <1>4, <1>5, <1>6, <1>7 DEF Next

LEMMA ServedStep ==
    ASSUME ValueInv, [Next]_vars
    PROVE  /\ goroutine' \in [Chan -> {"none", "running", "exited"}]
           /\ HasUpdatable' /\ Served'
<1>0. \A c \in Chan : shut[c] => shut'[c]
    BY ValueStepsWatchable, WatchableMonotone DEF ValueInv, ValueTypeOK
<1> USE DEF ValueInv, ValueTypeOK, HasUpdatable, Served
<1>1. CASE Source \/ ClientClose \/ UNCHANGED vars
    <2>1. UNCHANGED valueVars
        BY <1>1 DEF Source, RunCheck, RunPoll, RunUpdate, RunClose, ClientClose, SourceClose, vars
    <2> QED BY <1>0, <2>1 DEF valueVars
<1>2. CASE WatchCall
    <2>1. UNCHANGED <<status, updatable>> /\ status = "valueWatching" /\ updatable \in Chan
        BY <1>2 DEF WatchCall, ValueWatchCreated, ValueWatchInit, ValueWatchTimeout, WatchReturn, valueVars
    <2>2. CASE WatchReturn BY <2>1, <2>2 DEF WatchReturn
    <2>3. CASE goroutine' = goroutine /\ watching' # "unlocked" BY <2>1, <2>3
    <2> QED BY <1>2, <2>2, <2>3
            DEF WatchCall, ValueWatchCreated, ValueWatchInit, ValueWatchTimeout, valueVars
<1>3. CASE Unwatch BY <1>3 DEF Unwatch
<1>4. ASSUME NEW c \in Chan, ValueWatch(c) PROVE UNCHANGED goroutine /\ HasUpdatable' /\ Served'
    BY <1>4 DEF ValueWatch
<1>5. ASSUME NEW c \in Chan, watchUpdates(c)
      PROVE  /\ goroutine' \in [Chan -> {"none", "running", "exited"}]
             /\ HasUpdatable' /\ Served'
    <2>1. UNCHANGED <<status, updatable, watching>>
        BY <1>5 DEF watchUpdates, GoroutineReceive, GoroutineProcess, GoroutineExit, valueVars
    <2>2. CASE UNCHANGED goroutine BY <1>0, <2>1, <2>2
    <2>3. CASE goroutine' = [goroutine EXCEPT ![c] = "exited"] /\ (shut[c] \/ ~(status = "valueWatching" /\ updatable = c))
        BY <1>0, <2>1, <2>3
    <2> QED BY <1>5, <2>2, <2>3
            DEF watchUpdates, GoroutineReceive, GoroutineProcess, GoroutineExit, valueVars
<1> QED BY <1>1, <1>2, <1>3, <1>4, <1>5 DEF Next

LEMMA ValueStep == ValueInv /\ [Next]_vars => ValueInv'
<1> SUFFICES ASSUME ValueInv, [Next]_vars PROVE ValueInv'
    OBVIOUS
<1>1. [WatchableNext]_watchableVars BY ValueStepsWatchable
<1>2. WatchableTypeOK /\ WatchableTypeOK' BY <1>1, WatchableTypeStep DEF ValueInv, ValueTypeOK
<1>3. value \in Nat /\ value' \in Nat /\ value' >= value
    BY <1>1, <1>2, WatchableMonotone, WatchableAssumption DEF WatchableTypeOK
<1>4. processed' \in Nat /\ processed' <= value'
    BY <1>3, ProcessedStep DEF ValueInv, ValueTypeOK
<1> QED BY <1>2, <1>4, ServedStep DEF ValueInv, ValueTypeOK

\* ValueInv holds in every state of a Source with a Value behind it.
THEOREM ValueInvariant == ValueSpec => []ValueInv
BY ValueInitInv, ValueStep, PTL DEF ValueSpec

\* The Source and the Value use their watchable as its clients may: what holds
\* of every Watchable holds of theirs, lost updates and panics included.
THEOREM ValueUsesWatchable == ValueSpec => WatchableSpec
<1>1. Init => WatchableInit BY DEF Init
<1> QED BY <1>1, ValueStepsWatchable, ValueInvariant, PTL DEF ValueSpec, WatchableSpec

\* Only the goroutine of the updatable in use calls getUpdateFn.
LEMMA TakesStep ==
    ASSUME ValueInv, [Next]_vars, NEW c \in Chan, goroutine[c] = "running", Takes(c)
    PROVE  status = "valueWatching" /\ updatable = c
<1> USE DEF ValueInv, ValueTypeOK, WatchableTypeOK, HasUpdatable, Takes
<1>1. ASSUME at' = at PROVE FALSE BY <1>1
<1>2. ASSUME NEW d \in Chan, Get(d) PROVE d = c BY <1>2 DEF Get
<1>3. ASSUME NEW d \in Chan, WatchBegin(d) \/ WatchNotify(d) \/ Receive(d) PROVE FALSE
    BY <1>3 DEF WatchBegin, WatchNotify, Receive
<1>4. CASE Source \/ ClientClose
    <2>1. at' = at
        BY <1>4 DEF Source, RunCheck, RunPoll, RunUpdate, RunClose, ClientClose, SourceClose,
                    Update, Close, watchableVars
    <2> QED BY <1>1, <2>1
<1>5. CASE WatchCall
    <2>1. status = "valueWatching" /\ updatable \in Chan
        BY <1>5 DEF WatchCall, ValueWatchCreated, ValueWatchInit, ValueWatchTimeout
    <2>2. Get(updatable) \/ WatchNotify(updatable) \/ Receive(updatable) \/ at' = at
        BY <1>5 DEF WatchCall, ValueWatchCreated, ValueWatchInit, ValueWatchTimeout, watchableVars
    <2> QED BY <1>1, <1>2, <1>3, <2>1, <2>2
<1>6. CASE Unwatch BY <1>1, <1>6 DEF Unwatch, CloseWatch
<1>7. ASSUME NEW d \in Chan, ValueWatch(d) PROVE FALSE BY <1>3, <1>7 DEF ValueWatch
<1>8. ASSUME NEW d \in Chan, watchUpdates(d) PROVE status = "valueWatching" /\ updatable = c
    <2>1. CASE GoroutineReceive(d) \/ GoroutineExit(d)
        BY <1>1, <1>3, <2>1 DEF GoroutineReceive, GoroutineExit, watchableVars
    <2>2. CASE GoroutineProcess(d)
        BY <1>1, <1>2, <2>2 DEF GoroutineProcess, watchableVars
    <2> QED BY <1>8, <2>1, <2>2 DEF watchUpdates
<1>9. CASE UNCHANGED vars BY <1>1, <1>9 DEF vars, watchableVars
<1> QED BY <1>4, <1>5, <1>6, <1>7, <1>8, <1>9 DEF Next

\* processFn is never given an update older than the last, none while the
\* Value does not watch, and none from a watch that another has replaced,
\* although goroutines of earlier Watch calls may still receive notifications.
THEOREM UpdatesProcessedInOrder == ValueSpec => ProcessedInOrder
<1>1. ASSUME ValueInv, [Next]_vars
      PROVE  /\ processed' >= processed
             /\ processed' # processed => status = "valueWatching"
             /\ \A c \in Chan : goroutine[c] = "running" /\ Takes(c) =>
                    status = "valueWatching" /\ updatable = c
    <2>1. processed' >= processed /\ (processed' # processed => status = "valueWatching")
        BY <1>1, ProcessedStep, WatchableAssumption DEF ValueInv, ValueTypeOK, WatchableTypeOK
    <2> QED BY <1>1, <2>1, TakesStep
<1> QED BY <1>1, ValueInvariant, PTL DEF ValueSpec, ProcessedInOrder

\* While a Value watches it has a goroutine that waits for updates, whether
\* Watch got a first value or timed out, until the Source closes the channel;
\* and if that channel is active, a value it has not read has a notification.
THEOREM WatchingValueIsServed == ValueSpec => [](Served /\ NoLostUpdate)
<1>1. ValueInv => Served BY DEF ValueInv
<1> QED BY <1>1, ValueInvariant, ValueUsesWatchable, UpdatesAreNotLost, PTL

=============================================================================
