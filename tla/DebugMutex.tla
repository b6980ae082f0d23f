----------------------------- MODULE DebugMutex -----------------------------
(***************************************************************************)
(* debug/mutex.go: a read-write mutex that counts its users and remembers  *)
(* the stack of the last writer, and reports of them at any time.  Each    *)
(* access of a counter is a step.  A stack is the goroutine it is of.      *)
(***************************************************************************)
EXTENDS Integers, FiniteSets

CONSTANTS
    MutexUser,  \* goroutines that lock
    NoUser

ASSUME DebugMutexAssumption == IsFiniteSet(MutexUser) /\ NoUser \notin MutexUser

VARIABLES
    upc,            \* upc[u]: "idle", or where u is in Lock, RLock, Unlock, RUnlock
    pendingWriters, writers, readers,
    lastLockStack,
    mpc,            \* Report: "idle", "writers", "pending", "readers" or "stack"
    line,           \* what it has read
    heldAtStart     \* history: the writer that has held the lock since Report began
debugMutexVars == <<upc, pendingWriters, writers, readers, lastLockStack, mpc, line, heldAtStart>>

\* Goroutines inside the underlying mutex.
Writing == {u \in MutexUser : upc[u] \in {"locked", "counted", "unpended", "writing"}}
Reading == {u \in MutexUser : upc[u] = "reading"}

DebugMutexInit ==
    /\ upc = [u \in MutexUser |-> "idle"]
    /\ pendingWriters = 0 /\ writers = 0 /\ readers = 0 /\ lastLockStack = NoUser
    /\ mpc = "idle" /\ line = [writers |-> 0, pending |-> 0, readers |-> 0, stack |-> NoUser]
    /\ heldAtStart = NoUser

Step(u, from, to) == upc[u] = from /\ upc' = [upc EXCEPT ![u] = to]

\* The steps of Lock, ...
LockPending(u) ==
    /\ Step(u, "idle", "pending") /\ pendingWriters' = pendingWriters + 1
    /\ UNCHANGED <<writers, readers, lastLockStack, mpc, line, heldAtStart>>

LockAcquire(u) ==
    /\ Step(u, "pending", "locked") /\ Writing = {} /\ Reading = {}
    /\ UNCHANGED <<pendingWriters, writers, readers, lastLockStack, mpc, line, heldAtStart>>

LockCount(u) ==
    /\ Step(u, "locked", "counted") /\ writers' = writers + 1
    /\ UNCHANGED <<pendingWriters, readers, lastLockStack, mpc, line, heldAtStart>>

LockUnpend(u) ==
    /\ Step(u, "counted", "unpended") /\ pendingWriters' = pendingWriters - 1
    /\ UNCHANGED <<writers, readers, lastLockStack, mpc, line, heldAtStart>>

LockStack(u) ==
    /\ Step(u, "unpended", "writing") /\ lastLockStack' = u
    /\ UNCHANGED <<pendingWriters, writers, readers, mpc, line, heldAtStart>>

\* ... Unlock, ...
Unlock(u) ==
    /\ Step(u, "writing", "unlocked")
    /\ heldAtStart' = IF heldAtStart = u THEN NoUser ELSE heldAtStart
    /\ UNCHANGED <<pendingWriters, writers, readers, lastLockStack, mpc, line>>

\* Faulty variant: there are no writers when the mutex is unlocked.
UnlockCount_Clears(u) ==
    /\ Step(u, "unlocked", "idle") /\ writers' = 0
    /\ UNCHANGED <<pendingWriters, readers, lastLockStack, mpc, line, heldAtStart>>

UnlockCount(u) ==
    /\ Step(u, "unlocked", "idle") /\ writers' = writers - 1
    /\ UNCHANGED <<pendingWriters, readers, lastLockStack, mpc, line, heldAtStart>>

\* ... RLock and RUnlock.
RLockCount(u) ==
    /\ Step(u, "idle", "rcounted") /\ readers' = readers + 1
    /\ UNCHANGED <<pendingWriters, writers, lastLockStack, mpc, line, heldAtStart>>

RLockAcquire(u) ==
    /\ Step(u, "rcounted", "reading") /\ Writing = {}
    /\ UNCHANGED <<pendingWriters, writers, readers, lastLockStack, mpc, line, heldAtStart>>

RUnlock(u) ==
    /\ Step(u, "reading", "runlocked")
    /\ UNCHANGED <<pendingWriters, writers, readers, lastLockStack, mpc, line, heldAtStart>>

RUnlockCount(u) ==
    /\ Step(u, "runlocked", "idle") /\ readers' = readers - 1
    /\ UNCHANGED <<pendingWriters, writers, lastLockStack, mpc, line, heldAtStart>>

\* Report loads the counters one by one, and the stack if there are writers.
Report_ ==
    /\ mpc = "idle" /\ mpc' = "writers"
    /\ heldAtStart' = IF \E u \in MutexUser : upc[u] = "writing"
                      THEN CHOOSE u \in MutexUser : upc[u] = "writing" ELSE NoUser
    /\ UNCHANGED <<upc, pendingWriters, writers, readers, lastLockStack, line>>

ReportLoad ==
    /\ \/ mpc = "writers" /\ mpc' = "pending" /\ line' = [line EXCEPT !.writers = writers]
       \/ mpc = "pending" /\ mpc' = "readers" /\ line' = [line EXCEPT !.pending = pendingWriters]
       \/ mpc = "readers" /\ mpc' = "stack" /\ line' = [line EXCEPT !.readers = readers]
    /\ UNCHANGED <<upc, pendingWriters, writers, readers, lastLockStack, heldAtStart>>

ReportStack ==
    /\ mpc = "stack" /\ mpc' = "idle"
    /\ line' = [line EXCEPT !.stack = IF line.writers > 0 THEN lastLockStack ELSE NoUser]
    /\ UNCHANGED <<upc, pendingWriters, writers, readers, lastLockStack, heldAtStart>>

DebugMutexNext ==
    \/ Report_ \/ ReportLoad \/ ReportStack
    \/ \E u \in MutexUser :
        \/ LockPending(u) \/ LockAcquire(u) \/ LockCount(u) \/ LockUnpend(u) \/ LockStack(u)
        \/ Unlock(u) \/ UnlockCount(u)
        \/ RLockCount(u) \/ RLockAcquire(u) \/ RUnlock(u) \/ RUnlockCount(u)

DebugMutexSpec == DebugMutexInit /\ [][DebugMutexNext]_debugMutexVars

\* A goroutine that has held the write lock from before a Report until its end
\* is reported, with its own stack, whoever else locks and unlocks meanwhile;
\* a reader that has the lock is counted.
ReportShowsWriter ==
    /\ mpc = "idle" /\ heldAtStart # NoUser => line.writers >= 1 /\ line.stack = heldAtStart
    /\ readers >= Cardinality(Reading)

=============================================================================
