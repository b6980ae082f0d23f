-------------------------------- MODULE Value --------------------------------
(***************************************************************************)
(* watch/source.go and watch/value.go, composed: a Source polls its input  *)
(* into a Watchable, and a Value follows it through one watch at a time.   *)
(*                                                                         *)
(* Watch of the Value keeps the Value's lock from the creation of the      *)
(* updatable to its return, so it is a sequence of steps under lock; every *)
(* other critical section is one step.  The functions the Value calls      *)
(* (newUpdatableFn, getUpdateFn, processFn) are the options of the caller: *)
(* the updatable is a watch on the Source, getUpdateFn its Get, and both   *)
(* getUpdateFn and processFn may fail.                                     *)
(***************************************************************************)
EXTENDS Watchable

CONSTANTS
    NoChan,   \* the nil updatable
    Failures  \* getUpdateFn and processFn may return errors

ASSUME ValueAssumption == NoChan \notin Chan /\ Failures \in BOOLEAN

VARIABLES
    \* @struct source: the flag, and where the goroutine run is
    sourceClosed, run,
    \* @struct value
    status, updatable,
    watching,   \* where the Watch call that holds the lock is
    goroutine,  \* goroutine[c]: watchUpdates(c)
    processed,  \* the last update processFn took
    failed      \* the last attempt to process an update failed

sourceVars == <<sourceClosed, run>>
valueVars == <<status, updatable, watching, goroutine, processed, failed>>
vars == <<watchableVars, sourceVars, valueVars>>

Init ==
    /\ WatchableInit
    /\ sourceClosed = FALSE /\ run = "check"
    /\ status = "valueNotWatching" /\ updatable = NoChan
    /\ watching = "unlocked"
    /\ goroutine = [c \in Chan |-> "none"]
    /\ processed = 0 /\ failed = FALSE

-----------------------------------------------------------------------------
(* The Source.                                                             *)

\* Faulty variant: the loop does not look at closed.
RunCheck_Forever ==
    /\ run = "check" /\ run' = "poll"
    /\ UNCHANGED <<watchableVars, sourceClosed, valueVars>>

\* The condition of run's loop.
RunCheck ==
    /\ run = "check"
    /\ run' = IF sourceClosed THEN "stopped" ELSE "poll"
    /\ UNCHANGED <<watchableVars, sourceClosed, valueVars>>

\* Poll returns data, an error, or ErrSourceClosed.
RunPoll ==
    /\ run = "poll"
    /\ \/ value < MaxUpdates /\ run' = "update"
       \/ run' = "check"
       \/ run' = "close"
    /\ UNCHANGED <<watchableVars, sourceClosed, valueVars>>

\* Update with the data; its errClosed is only logged.
RunUpdate ==
    /\ run = "update"
    /\ IF closed THEN UNCHANGED watchableVars ELSE Update
    /\ run' = "check"
    /\ UNCHANGED <<sourceClosed, valueVars>>

\* Close of the Source closes the watchable under the Source's lock.
SourceClose ==
    /\ ~sourceClosed /\ sourceClosed' = TRUE
    /\ Close
    /\ UNCHANGED valueVars

\* run closes the Source itself and returns.
RunClose ==
    /\ run = "close"
    /\ \/ SourceClose
       \/ sourceClosed /\ UNCHANGED <<watchableVars, sourceClosed, valueVars>>
    /\ run' = "stopped"

ClientClose == SourceClose /\ UNCHANGED run

-----------------------------------------------------------------------------
(* The Value.                                                              *)

\* getUpdateFn and processWithLock: an error of either, or a nil update,
\* leaves the processed value as it was.
processWithLock ==
    \/ value # 0 /\ processed' = value /\ failed' = FALSE
    \/ (value = 0 \/ Failures) /\ failed' = TRUE /\ UNCHANGED processed

\* Watch locks and calls newUpdatableFn, whose Watch may still have its
\* notification to send.  Nothing when watching already, or when
\* newUpdatableFn fails, as it does on a closed Source.
ValueWatch(c) ==
    /\ watching = "unlocked" /\ status = "valueNotWatching"
    /\ WatchBegin(c)
    /\ status' = "valueWatching" /\ updatable' = c
    /\ watching' = IF value = 0 THEN "select" ELSE "creating"
    /\ UNCHANGED <<sourceVars, goroutine, processed, failed>>

ValueWatchCreated ==
    /\ watching = "creating"
    /\ WatchNotify(updatable)
    /\ watching' = IF panicked' THEN "creating" ELSE "select"
    /\ UNCHANGED <<sourceVars, status, updatable, goroutine, processed, failed>>

\* Watch returns: the deferred functions start watchUpdates and unlock.
WatchReturn ==
    /\ watching' = "unlocked"
    /\ goroutine' = [goroutine EXCEPT ![updatable] = "running"]
    /\ UNCHANGED <<sourceVars, status, updatable>>

\* The select takes a notification, or finds the channel closed, ...
ValueWatchInit ==
    /\ watching = "select"
    /\ \/ Receive(updatable) /\ UNCHANGED <<sourceVars, valueVars>>
       \/ /\ at[updatable] = "open" /\ ~token[updatable] /\ shut[updatable]
          /\ processWithLock /\ WatchReturn
          /\ UNCHANGED watchableVars
       \/ Get(updatable) /\ processWithLock /\ WatchReturn

\* Faulty variant: a Watch that times out starts no goroutine.
ValueWatchTimeout_NoGoroutine ==
    /\ watching = "select" /\ at[updatable] = "open"
    /\ watching' = "unlocked"
    /\ UNCHANGED <<watchableVars, sourceVars, status, updatable, goroutine, processed, failed>>

\* ... or InitWatchTimeout passes first.
ValueWatchTimeout ==
    /\ watching = "select" /\ at[updatable] = "open"
    /\ WatchReturn
    /\ UNCHANGED <<watchableVars, processed, failed>>

\* Unwatch closes the updatable.
Unwatch ==
    /\ watching = "unlocked" /\ status = "valueWatching"
    /\ CloseWatch(updatable)
    /\ status' = "valueNotWatching" /\ updatable' = NoChan
    /\ UNCHANGED <<sourceVars, watching, goroutine, processed, failed>>

\* The loop of watchUpdates receives a notification, ...
GoroutineReceive(c) ==
    /\ goroutine[c] = "running"
    /\ Receive(c)
    /\ UNCHANGED <<sourceVars, valueVars>>

\* Faulty variant: the updatable is not compared with the Value's.
GoroutineProcess_AnyWatch(c) ==
    /\ goroutine[c] = "running" /\ at[c] = "received" /\ watching = "unlocked"
    /\ IF status = "valueWatching"
       THEN Get(c) /\ processWithLock /\ UNCHANGED goroutine
       ELSE /\ goroutine' = [goroutine EXCEPT ![c] = "exited"]
            /\ UNCHANGED <<watchableVars, processed, failed>>
    /\ UNCHANGED <<sourceVars, status, updatable, watching>>

\* ... takes the lock and returns if the Value no longer uses this updatable,
\* else gets and processes the update.
GoroutineProcess(c) ==
    /\ goroutine[c] = "running" /\ at[c] = "received" /\ watching = "unlocked"
    /\ IF status = "valueWatching" /\ updatable = c
       THEN Get(c) /\ processWithLock /\ UNCHANGED goroutine
       ELSE /\ goroutine' = [goroutine EXCEPT ![c] = "exited"]
            /\ UNCHANGED <<watchableVars, processed, failed>>
    /\ UNCHANGED <<sourceVars, status, updatable, watching>>

\* ... and ends when the channel is closed and empty.
GoroutineExit(c) ==
    /\ goroutine[c] = "running" /\ at[c] = "open"
    /\ shut[c] /\ ~token[c]
    /\ goroutine' = [goroutine EXCEPT ![c] = "exited"]
    /\ UNCHANGED <<watchableVars, sourceVars, status, updatable, watching, processed, failed>>

-----------------------------------------------------------------------------
Source == RunCheck \/ RunPoll \/ RunUpdate \/ RunClose
WatchCall == ValueWatchCreated \/ ValueWatchInit \/ ValueWatchTimeout
watchUpdates(c) == GoroutineReceive(c) \/ GoroutineProcess(c) \/ GoroutineExit(c)

\* A panic ends the program.
Next ==
    /\ ~panicked
    /\ \/ Source \/ ClientClose
       \/ WatchCall \/ Unwatch
       \/ \E c \in Chan : ValueWatch(c) \/ watchUpdates(c)

ValueSpec == Init /\ [][Next]_vars

-----------------------------------------------------------------------------
(* Properties.                                                             *)

\* getUpdateFn is called on c after a notification of c.
Takes(c) == at[c] = "received" /\ at'[c] = "open"

\* Updates are processed in order and only for the updatable in use: what
\* processFn has taken is never replaced by an older update; nothing is
\* processed while the Value is not watching; and a goroutine takes no update
\* from a watch that Unwatch, or Unwatch and another Watch, has put away, even
\* if it had received its notification before.
ProcessedInOrder ==
    [][/\ processed' >= processed
       /\ processed' # processed => status = "valueWatching"
       /\ \A c \in Chan : goroutine[c] = "running" /\ Takes(c) =>
              status = "valueWatching" /\ updatable = c]_vars

\* While the Value keeps watching an open Source it processes the value that
\* stays, unless the caller's functions fail.
EventuallyProcessed ==
    []<>(status = "valueWatching" /\ ~closed => processed = value \/ failed)

\* The goroutine of a watch that has been closed, by Unwatch or by the Source,
\* comes to an end, and so does run once the Source is closed.
GoroutinesEnd ==
    /\ \A c \in Chan : goroutine[c] = "running" /\ shut[c] ~> goroutine[c] = "exited"
    /\ sourceClosed ~> run = "stopped"

=============================================================================
