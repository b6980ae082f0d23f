------------------------------ MODULE Watchable ------------------------------
(***************************************************************************)
(* watch/watch.go: a value that is watched through notification channels.  *)
(*                                                                         *)
(* A critical section of the watchable's lock is one step; Watch sends its *)
(* first notification after it has unlocked, a step of its own.  A value   *)
(* is the number of the Update that set it, 0 the nil value.  A watch and  *)
(* its channel of capacity one are one identifier of Chan.                 *)
(***************************************************************************)
EXTENDS Integers, FiniteSets

CONSTANTS
    Chan,        \* the channels that Watch may make
    MaxUpdates,  \* bound on the number of updates
    RacyClose    \* Close may be called while a Watch call is under way

ASSUME WatchableAssumption == MaxUpdates \in Nat /\ RacyClose \in BOOLEAN

VARIABLES
    \* @struct watchable
    value, active, closed,
    \* the channels: a buffered notification, closed by close(c)
    token, shut,
    watchClosed,  \* the closed flag of the watch
    at,           \* where the users of the channel are
    seen,         \* the value last read with the watch's Get
    panicked      \* the program died of a send on, or a close of, a closed channel

watchableVars == <<value, active, closed, token, shut, watchClosed, at, seen, panicked>>

\* "new": not made.  "notify": Watch has added it to active and unlocked.
\* "open": in the hands of the watcher.  "received": the watcher has taken a
\* notification and not yet called Get.
At == {"new", "notify", "open", "received"}

WatchableTypeOK ==
    /\ value \in 0 .. MaxUpdates
    /\ active \subseteq Chan
    /\ closed \in BOOLEAN
    /\ token \in [Chan -> BOOLEAN]
    /\ shut \in [Chan -> BOOLEAN]
    /\ watchClosed \in [Chan -> BOOLEAN]
    /\ at \in [Chan -> At]
    /\ seen \in [Chan -> 0 .. MaxUpdates]
    /\ panicked \in BOOLEAN
    \* a channel that has not been made has no state
    /\ \A c \in Chan : at[c] = "new" => /\ c \notin active /\ seen[c] = 0
                                       /\ ~token[c] /\ ~shut[c] /\ ~watchClosed[c]

WatchableInit ==
    /\ value = 0
    /\ active = {}
    /\ closed = FALSE
    /\ token = [c \in Chan |-> FALSE]
    /\ shut = [c \in Chan |-> FALSE]
    /\ watchClosed = [c \in Chan |-> FALSE]
    /\ at = [c \in Chan |-> "new"]
    /\ seen = [c \in Chan |-> 0]
    /\ panicked = FALSE

-----------------------------------------------------------------------------
\* Faulty variant: the first notification is not sent.
WatchBegin_NoNotify(c) ==
    /\ ~closed /\ at[c] = "new"
    /\ active' = active \cup {c}
    /\ at' = [at EXCEPT ![c] = "open"]
    /\ UNCHANGED <<value, closed, token, shut, watchClosed, seen, panicked>>

\* Watch up to Unlock.  On a closed watchable it returns errClosed.
WatchBegin(c) ==
    /\ ~closed /\ at[c] = "new"
    /\ active' = active \cup {c}
    /\ at' = [at EXCEPT ![c] = IF value = 0 THEN "open" ELSE "notify"]
    /\ UNCHANGED <<value, closed, token, shut, watchClosed, seen, panicked>>

\* The rest of Watch: a notification for the value that is there already.
\* A send on a closed channel panics, in a select with default too.
WatchNotify(c) ==
    /\ at[c] = "notify"
    /\ IF shut[c]
       THEN panicked' = TRUE /\ UNCHANGED <<token, at>>
       ELSE /\ token' = [token EXCEPT ![c] = TRUE]
            /\ at' = [at EXCEPT ![c] = "open"]
            /\ UNCHANGED panicked
    /\ UNCHANGED <<value, active, closed, shut, watchClosed, seen>>

\* Update notifies every active channel; one that holds a notification
\* already is left alone.  On a closed watchable it returns errClosed.
Update ==
    /\ ~closed /\ value < MaxUpdates
    /\ value' = value + 1
    /\ token' = [c \in Chan |-> token[c] \/ c \in active]
    /\ panicked' = (panicked \/ \E c \in active : shut[c])
    /\ UNCHANGED <<active, closed, shut, watchClosed, at, seen>>

\* Close of the watchable; nothing when it is closed.
Close ==
    /\ ~closed
    /\ RacyClose \/ \A c \in Chan : at[c] # "notify"
    /\ closed' = TRUE
    /\ shut' = [c \in Chan |-> shut[c] \/ c \in active]
    /\ panicked' = (panicked \/ \E c \in active : shut[c])
    /\ active' = {}
    /\ UNCHANGED <<value, token, watchClosed, at, seen>>

\* Faulty variant: closeFunc does not look at closed.
CloseWatch_AfterClose(c) ==
    /\ at[c] \in {"open", "received"} /\ ~watchClosed[c]
    /\ watchClosed' = [watchClosed EXCEPT ![c] = TRUE]
    /\ shut' = [shut EXCEPT ![c] = TRUE]
    /\ panicked' = (panicked \/ shut[c])
    /\ active' = active \ {c}
    /\ UNCHANGED <<value, closed, token, at, seen>>

\* Close of the watch and the closeFunc it calls: nothing the second time,
\* only the flag when the watchable has closed the channel already.
CloseWatch(c) ==
    /\ at[c] \in {"open", "received"} /\ ~watchClosed[c]
    /\ watchClosed' = [watchClosed EXCEPT ![c] = TRUE]
    /\ IF closed
       THEN UNCHANGED <<shut, active, panicked>>
       ELSE /\ shut' = [shut EXCEPT ![c] = TRUE]
            /\ panicked' = (panicked \/ shut[c])
            /\ active' = active \ {c}
    /\ UNCHANGED <<value, closed, token, at, seen>>

\* The watcher receives a notification: those sent before close(c) first.
Receive(c) ==
    /\ at[c] = "open" /\ token[c]
    /\ token' = [token EXCEPT ![c] = FALSE]
    /\ at' = [at EXCEPT ![c] = "received"]
    /\ UNCHANGED <<value, active, closed, shut, watchClosed, seen, panicked>>

\* Get of the watch.
Get(c) ==
    /\ at[c] = "received"
    /\ at' = [at EXCEPT ![c] = "open"]
    /\ seen' = [seen EXCEPT ![c] = value]
    /\ UNCHANGED <<value, active, closed, token, shut, watchClosed, panicked>>

-----------------------------------------------------------------------------
\* A panic ends the program.
WatchableNext ==
    /\ ~panicked
    /\ \/ Update
       \/ Close
       \/ \E c \in Chan : \/ WatchBegin(c) \/ WatchNotify(c) \/ CloseWatch(c)
                          \/ Receive(c) \/ Get(c)

WatchableSpec == WatchableInit /\ [][WatchableNext]_watchableVars

-----------------------------------------------------------------------------
(* Properties.                                                             *)

\* Notifications coalesce and are sent without blocking, and still no watcher
\* misses the last update: one whose Get is older than the value has a
\* notification in its channel, is about to be sent one by Watch, or has
\* received one and not yet called Get.
NoLostUpdate ==
    \A c \in active : seen[c] # value => token[c] \/ at[c] \in {"notify", "received"}

\* Update, Close, the closeFunc of a watch and Watch's own notification never
\* send on or close a channel that is closed, which would be a panic.
NoPanic == ~panicked

\* The channels in active are the open ones: closing a watch or the watchable
\* leaves no closed channel for Update to send on and forgets no open one,
\* whose watcher would wait for ever.
ActiveAreOpen ==
    \A c \in Chan : c \in active <=> at[c] # "new" /\ ~shut[c]

=============================================================================
