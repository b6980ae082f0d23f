--------------------------- MODULE ServicesProofs ---------------------------
(***************************************************************************)
(* Proofs about the debug mutex, the reporters and the sampler, for any    *)
(* number of goroutines, starts, collections and samples.                  *)
(***************************************************************************)
EXTENDS DebugMutex, Reporters, Sampling, FiniteSetTheorems, SequenceTheorems, TLAPS

-----------------------------------------------------------------------------
(* DebugMutex.                                                             *)

UserState ==
    {"idle", "pending", "locked", "counted", "unpended", "writing", "unlocked",
     "rcounted", "reading", "runlocked"}

\* The goroutines at one of the places S.
In(S) == {u \in MutexUser : upc[u] \in S}

DebugMutexTypeOK ==
    /\ upc \in [MutexUser -> UserState]
    /\ mpc \in {"idle", "writers", "pending", "readers", "stack"}
    /\ line \in [writers : Int, pending : Int, readers : Int, stack : MutexUser \cup {NoUser}]
    /\ heldAtStart \in MutexUser \cup {NoUser} /\ lastLockStack \in MutexUser \cup {NoUser}

\* Each counter is the number of goroutines between its two updates: none is
\* ever negative, and what a report reads is how many there are at that moment.
CountersExact ==
    /\ writers = Cardinality(In({"counted", "unpended", "writing", "unlocked"}))
    /\ pendingWriters = Cardinality(In({"pending", "locked", "counted"}))
    /\ readers = Cardinality(In({"rcounted", "reading", "runlocked"}))

\* The mutex keeps writers apart, so the stack is of the writer that has it.
StackOfWriter ==
    /\ \A u, v \in Writing : u = v
    /\ \A u \in MutexUser : upc[u] = "writing" => lastLockStack = u

\* What a report has seen so far of the writer it began with.
ReportSeesWriter ==
    heldAtStart # NoUser =>
        /\ heldAtStart \in MutexUser /\ upc[heldAtStart] = "writing"
        /\ mpc # "writers" => line.writers >= 1
        /\ mpc = "idle" => line.stack = heldAtStart

DebugMutexInv == DebugMutexTypeOK /\ CountersExact /\ StackOfWriter /\ ReportSeesWriter

LEMMA InFinite == ASSUME NEW S PROVE IsFiniteSet(In(S)) /\ Cardinality(In(S)) \in Nat
<1>1. In(S) \in SUBSET MutexUser BY DEF In
<1> QED BY <1>1, FS_Subset, FS_CardinalityType, DebugMutexAssumption

\* A step of u from a to b changes the number of goroutines at S by one at most.
LEMMA StepCounts ==
    ASSUME DebugMutexTypeOK, NEW u \in MutexUser, NEW a, NEW b, Step(u, a, b), NEW S
    PROVE  Cardinality(In(S)') = Cardinality(In(S)) + (IF b \in S THEN 1 ELSE 0)
                                                    - (IF a \in S THEN 1 ELSE 0)
<1>1. upc[u] = a /\ \A v \in MutexUser : upc'[v] = IF v = u THEN b ELSE upc[v]
    BY DEF Step, DebugMutexTypeOK
<1>2. IsFiniteSet(In(S)) /\ Cardinality(In(S)) \in Nat BY InFinite
<1>3. CASE (a \in S) = (b \in S)
    <2>1. In(S)' = In(S) BY <1>1, <1>3 DEF In
    <2> QED BY <1>2, <1>3, <2>1
<1>4. CASE a \in S /\ b \notin S
    <2>1. In(S)' = In(S) \ {u} /\ u \in In(S) BY <1>1, <1>4 DEF In
    <2>2. Cardinality(In(S)') = Cardinality(In(S)) - 1 BY <1>2, <2>1, FS_RemoveElement
    <2> QED BY <1>2, <1>4, <2>2
<1>5. CASE a \notin S /\ b \in S
    <2>1. In(S)' = In(S) \cup {u} /\ u \notin In(S) BY <1>1, <1>5 DEF In
    <2>2. Cardinality(In(S)') = Cardinality(In(S)) + 1 BY <1>2, <2>1, FS_AddElement
    <2> QED BY <1>2, <1>5, <2>2
<1> QED BY <1>3, <1>4, <1>5

LEMMA DebugMutexInitInv == DebugMutexInit => DebugMutexInv
<1> SUFFICES ASSUME DebugMutexInit PROVE DebugMutexInv
    OBVIOUS
<1>1. DebugMutexTypeOK BY DEF DebugMutexInit, DebugMutexTypeOK, UserState
<1>2. ASSUME NEW S, "idle" \notin S PROVE Cardinality(In(S)) = 0
    <2>1. In(S) = {} BY <1>2 DEF DebugMutexInit, In
    <2> QED BY <2>1, FS_EmptySet
<1>3. CountersExact BY <1>2 DEF DebugMutexInit, CountersExact
<1>4. StackOfWriter /\ ReportSeesWriter
    BY DEF DebugMutexInit, StackOfWriter, ReportSeesWriter, Writing
<1> QED BY <1>1, <1>3, <1>4 DEF DebugMutexInv

LEMMA StepTyped ==
    ASSUME DebugMutexTypeOK, NEW u \in MutexUser, NEW a, NEW b \in UserState, Step(u, a, b)
    PROVE  /\ upc' \in [MutexUser -> UserState] /\ upc[u] = a
           /\ \A v \in MutexUser : upc'[v] = IF v = u THEN b ELSE upc[v]
BY DEF Step, DebugMutexTypeOK

\* A step that is neither of a goroutine that becomes the writer of the stack
\* nor of one that unlocks.
LEMMA PlainStep ==
    ASSUME DebugMutexInv, NEW u \in MutexUser, NEW a, NEW b \in UserState, Step(u, a, b),
           a # "writing", b # "writing", UNCHANGED <<lastLockStack, mpc, line, heldAtStart>>,
           Writing = {} \/ b \notin {"locked", "counted", "unpended"} \/ a \in {"locked", "counted"}
    PROVE  DebugMutexTypeOK' /\ StackOfWriter' /\ ReportSeesWriter'
<1> USE DEF DebugMutexInv
<1>1. /\ upc' \in [MutexUser -> UserState] /\ upc[u] = a
      /\ \A v \in MutexUser : upc'[v] = IF v = u THEN b ELSE upc[v]
    BY StepTyped
<1>2. DebugMutexTypeOK' BY <1>1 DEF DebugMutexTypeOK
<1>3. \A v, w \in Writing' : v = w
    <2>1. CASE Writing = {}
        <3>1. Writing' \subseteq {u} BY <1>1, <2>1 DEF Writing
        <3> QED BY <3>1
    <2>2. CASE b \notin {"locked", "counted", "unpended"} \/ a \in {"locked", "counted"}
        <3>1. Writing' \subseteq Writing BY <1>1, <2>2 DEF Writing
        <3> QED BY <3>1 DEF StackOfWriter
    <2> QED BY <2>1, <2>2
<1>4. \A v \in MutexUser : upc'[v] = "writing" => lastLockStack' = v
    BY <1>1 DEF StackOfWriter
<1>5. ReportSeesWriter' BY <1>1 DEF ReportSeesWriter
<1> QED BY <1>2, <1>3, <1>4, <1>5 DEF StackOfWriter

LEMMA LockStackInv == ASSUME DebugMutexInv, NEW u \in MutexUser, LockStack(u) PROVE DebugMutexInv'
<1> USE DEF DebugMutexInv
<1>1. Step(u, "unpended", "writing") BY DEF LockStack
<1>2. /\ upc' \in [MutexUser -> UserState] /\ upc[u] = "unpended"
      /\ \A v \in MutexUser : upc'[v] = IF v = u THEN "writing" ELSE upc[v]
    BY <1>1, StepTyped DEF UserState
<1>3. DebugMutexTypeOK' BY <1>2 DEF LockStack, DebugMutexTypeOK
<1>4. Writing' = Writing /\ u \in Writing BY <1>2 DEF Writing
<1>5. \A v \in MutexUser : upc'[v] = "writing" => lastLockStack' = v
    <2> SUFFICES ASSUME NEW v \in MutexUser, upc'[v] = "writing" PROVE v = u
        BY DEF LockStack
    <2>1. v \in Writing' BY DEF Writing
    <2> QED BY <1>4, <2>1 DEF StackOfWriter
<1>6. StackOfWriter' BY <1>4, <1>5 DEF StackOfWriter
<1>7. ReportSeesWriter' BY <1>2 DEF LockStack, ReportSeesWriter
<1>8. \A S : Cardinality(In(S)') = Cardinality(In(S)) + (IF "writing" \in S THEN 1 ELSE 0)
                                                    - (IF "unpended" \in S THEN 1 ELSE 0)
    BY <1>1, StepCounts
<1>9. CountersExact' BY <1>8, InFinite DEF LockStack, CountersExact
<1> QED BY <1>3, <1>6, <1>7, <1>9

LEMMA UnlockInv == ASSUME DebugMutexInv, NEW u \in MutexUser, Unlock(u) PROVE DebugMutexInv'
<1> USE DEF DebugMutexInv
<1>1. Step(u, "writing", "unlocked") BY DEF Unlock
<1>2. /\ upc' \in [MutexUser -> UserState] /\ upc[u] = "writing"
      /\ \A v \in MutexUser : upc'[v] = IF v = u THEN "unlocked" ELSE upc[v]
    BY <1>1, StepTyped DEF UserState
<1>3. DebugMutexTypeOK' BY <1>2 DEF Unlock, DebugMutexTypeOK
<1>4. Writing' \subseteq Writing BY <1>2 DEF Writing
<1>5. StackOfWriter' BY <1>2, <1>4 DEF Unlock, StackOfWriter
<1>6. ReportSeesWriter' BY <1>2 DEF Unlock, ReportSeesWriter
<1>7. \A S : Cardinality(In(S)') = Cardinality(In(S)) + (IF "unlocked" \in S THEN 1 ELSE 0)
                                                    - (IF "writing" \in S THEN 1 ELSE 0)
    BY <1>1, StepCounts
<1>8. CountersExact' BY <1>7, InFinite DEF Unlock, CountersExact
<1> QED BY <1>3, <1>5, <1>6, <1>8

LEMMA ReportInv ==
    ASSUME DebugMutexInv, Report_ \/ ReportLoad \/ ReportStack
    PROVE  DebugMutexInv'
<1> USE DEF DebugMutexInv
<1>1. UNCHANGED <<upc, pendingWriters, writers, readers, lastLockStack>>
    BY DEF Report_, ReportLoad, ReportStack
<1>2. CountersExact' /\ StackOfWriter' BY <1>1 DEF CountersExact, StackOfWriter, In, Writing
<1>3. DebugMutexTypeOK' /\ ReportSeesWriter'
    <2>1. writers \in Nat /\ readers \in Nat /\ pendingWriters \in Nat
        BY InFinite DEF CountersExact
    <2>2. CASE Report_
        <3>1. heldAtStart' \in MutexUser \cup {NoUser}
              /\ (heldAtStart' # NoUser => upc[heldAtStart'] = "writing")
            BY <2>2 DEF Report_
        <3> QED BY <1>1, <2>2, <3>1 DEF Report_, DebugMutexTypeOK, ReportSeesWriter
    <2>3. CASE ReportLoad
        <3>1. DebugMutexTypeOK' BY <1>1, <2>1, <2>3 DEF ReportLoad, DebugMutexTypeOK
        <3>2. heldAtStart # NoUser => writers >= 1
            <4> SUFFICES ASSUME heldAtStart # NoUser PROVE writers >= 1
                OBVIOUS
            <4> DEFINE C == In({"counted", "unpended", "writing", "unlocked"})
            <4>1. heldAtStart \in C BY DEF ReportSeesWriter, In
            <4>2. IsFiniteSet(C) /\ Cardinality(C) \in Nat BY InFinite
            <4>3. Cardinality(C) # 0 BY <4>1, <4>2, FS_EmptySet
            <4> QED BY <4>2, <4>3 DEF CountersExact
        <3>3. ReportSeesWriter'
            BY <1>1, <2>3, <3>2 DEF ReportLoad, DebugMutexTypeOK, ReportSeesWriter
        <3> QED BY <3>1, <3>3
    <2>4. CASE ReportStack
        <3>1. DebugMutexTypeOK' BY <1>1, <2>4 DEF ReportStack, DebugMutexTypeOK
        <3>2. ReportSeesWriter'
            BY <1>1, <2>4 DEF ReportStack, DebugMutexTypeOK, ReportSeesWriter, StackOfWriter
        <3> QED BY <3>1, <3>2
    <2> QED BY <2>2, <2>3, <2>4
<1> QED BY <1>2, <1>3

LEMMA UserInv ==
    ASSUME DebugMutexInv, NEW u \in MutexUser,
           \/ LockPending(u) \/ LockAcquire(u) \/ LockCount(u) \/ LockUnpend(u) \/ UnlockCount(u)
           \/ RLockCount(u) \/ RLockAcquire(u) \/ RUnlock(u) \/ RUnlockCount(u)
    PROVE  DebugMutexInv'
<1>1. CASE LockPending(u)
    <2>1. Step(u, "idle", "pending") BY <1>1 DEF LockPending
    <2>2. DebugMutexTypeOK' /\ StackOfWriter' /\ ReportSeesWriter'
        BY <1>1, <2>1, PlainStep DEF LockPending, UserState
    <2>3. CountersExact'
        BY <1>1, <2>1, StepCounts, InFinite DEF LockPending, CountersExact, DebugMutexInv
    <2> QED BY <2>2, <2>3 DEF DebugMutexInv
<1>2. CASE LockAcquire(u)
    <2>1. Step(u, "pending", "locked") BY <1>2 DEF LockAcquire
    <2>2. DebugMutexTypeOK' /\ StackOfWriter' /\ ReportSeesWriter'
        BY <1>2, <2>1, PlainStep DEF LockAcquire, UserState
    <2>3. CountersExact'
        BY <1>2, <2>1, StepCounts, InFinite DEF LockAcquire, CountersExact, DebugMutexInv
    <2> QED BY <2>2, <2>3 DEF DebugMutexInv
<1>3. CASE LockCount(u)
    <2>1. Step(u, "locked", "counted") BY <1>3 DEF LockCount
    <2>2. DebugMutexTypeOK' /\ StackOfWriter' /\ ReportSeesWriter'
        BY <1>3, <2>1, PlainStep DEF LockCount, UserState
    <2>3. CountersExact'
        BY <1>3, <2>1, StepCounts, InFinite DEF LockCount, CountersExact, DebugMutexInv
    <2> QED BY <2>2, <2>3 DEF DebugMutexInv
<1>4. CASE LockUnpend(u)
    <2>1. Step(u, "counted", "unpended") BY <1>4 DEF LockUnpend
    <2>2. DebugMutexTypeOK' /\ StackOfWriter' /\ ReportSeesWriter'
        BY <1>4, <2>1, PlainStep DEF LockUnpend, UserState
    <2>3. CountersExact'
        BY <1>4, <2>1, StepCounts, InFinite DEF LockUnpend, CountersExact, DebugMutexInv
    <2> QED BY <2>2, <2>3 DEF DebugMutexInv
<1>5. CASE UnlockCount(u)
    <2>1. Step(u, "unlocked", "idle") BY <1>5 DEF UnlockCount
    <2>2. DebugMutexTypeOK' /\ StackOfWriter' /\ ReportSeesWriter'
        BY <1>5, <2>1, PlainStep DEF UnlockCount, UserState
    <2>3. CountersExact'
        BY <1>5, <2>1, StepCounts, InFinite DEF UnlockCount, CountersExact, DebugMutexInv
    <2> QED BY <2>2, <2>3 DEF DebugMutexInv
<1>6. CASE RLockCount(u)
    <2>1. Step(u, "idle", "rcounted") BY <1>6 DEF RLockCount
    <2>2. DebugMutexTypeOK' /\ StackOfWriter' /\ ReportSeesWriter'
        BY <1>6, <2>1, PlainStep DEF RLockCount, UserState
    <2>3. CountersExact'
        BY <1>6, <2>1, StepCounts, InFinite DEF RLockCount, CountersExact, DebugMutexInv
    <2> QED BY <2>2, <2>3 DEF DebugMutexInv
<1>7. CASE RLockAcquire(u)
    <2>1. Step(u, "rcounted", "reading") BY <1>7 DEF RLockAcquire
    <2>2. DebugMutexTypeOK' /\ StackOfWriter' /\ ReportSeesWriter'
        BY <1>7, <2>1, PlainStep DEF RLockAcquire, UserState
    <2>3. CountersExact'
        BY <1>7, <2>1, StepCounts, InFinite DEF RLockAcquire, CountersExact, DebugMutexInv
    <2> QED BY <2>2, <2>3 DEF DebugMutexInv
<1>8. CASE RUnlock(u)
    <2>1. Step(u, "reading", "runlocked") BY <1>8 DEF RUnlock
    <2>2. DebugMutexTypeOK' /\ StackOfWriter' /\ ReportSeesWriter'
        BY <1>8, <2>1, PlainStep DEF RUnlock, UserState
    <2>3. CountersExact'
        BY <1>8, <2>1, StepCounts, InFinite DEF RUnlock, CountersExact, DebugMutexInv
    <2> QED BY <2>2, <2>3 DEF DebugMutexInv
<1>9. CASE RUnlockCount(u)
    <2>1. Step(u, "runlocked", "idle") BY <1>9 DEF RUnlockCount
    <2>2. DebugMutexTypeOK' /\ StackOfWriter' /\ ReportSeesWriter'
        BY <1>9, <2>1, PlainStep DEF RUnlockCount, UserState
    <2>3. CountersExact'
        BY <1>9, <2>1, StepCounts, InFinite DEF RUnlockCount, CountersExact, DebugMutexInv
    <2> QED BY <2>2, <2>3 DEF DebugMutexInv
<1> QED BY <1>1, <1>2, <1>3, <1>4, <1>5, <1>6, <1>7, <1>8, <1>9

LEMMA DebugMutexInvariant == DebugMutexSpec => []DebugMutexInv
<1>1. DebugMutexInv /\ [DebugMutexNext]_debugMutexVars => DebugMutexInv'
    <2> SUFFICES ASSUME DebugMutexInv, [DebugMutexNext]_debugMutexVars PROVE DebugMutexInv'
        OBVIOUS
    <2>1. CASE UNCHANGED debugMutexVars
        BY <2>1 DEF debugMutexVars, DebugMutexInv, DebugMutexTypeOK, CountersExact,
           StackOfWriter, ReportSeesWriter, In, Writing
    <2> QED BY <2>1, ReportInv, UserInv, LockStackInv, UnlockInv DEF DebugMutexNext
<1> QED BY <1>1, DebugMutexInitInv, PTL DEF DebugMutexSpec

\* A report shows the writer that had the lock all the while, with its own
\* stack, though it reads the counters and the stack one by one while others
\* lock and unlock; a reader that has the lock is counted.
THEOREM ReportsShowWriters == DebugMutexSpec => []ReportShowsWriter
<1>1. DebugMutexInv => ReportShowsWriter
    <2> SUFFICES ASSUME DebugMutexInv PROVE ReportShowsWriter
        OBVIOUS
    <2> DEFINE R == In({"rcounted", "reading", "runlocked"})
    <2>1. IsFiniteSet(R) /\ Cardinality(R) \in Nat BY InFinite
    <2>2. Reading \subseteq R BY DEF Reading, In
    <2>3. Cardinality(Reading) <= Cardinality(R) BY <2>1, <2>2, FS_Subset
    <2>4. readers >= Cardinality(Reading)
        <3>1. Cardinality(Reading) \in Nat BY <2>1, <2>2, FS_Subset, FS_CardinalityType
        <3> QED BY <2>1, <2>3, <3>1 DEF DebugMutexInv, CountersExact
    <2> QED BY <2>4 DEF DebugMutexInv, ReportSeesWriter, ReportShowsWriter
<1> QED BY <1>1, DebugMutexInvariant, PTL

\* The counters are exact and never negative, although they are changed apart
\* from the lock.
THEOREM MutexCountersAreExact ==
    DebugMutexSpec => [](CountersExact /\ writers >= 0 /\ pendingWriters >= 0 /\ readers >= 0)
<1>1. DebugMutexInv => CountersExact /\ writers >= 0 /\ pendingWriters >= 0 /\ readers >= 0
    BY InFinite DEF DebugMutexInv, CountersExact
<1> QED BY <1>1, DebugMutexInvariant, PTL

-----------------------------------------------------------------------------
(* Reporters.                                                              *)

ReportersTypeOK ==
    /\ kind \in {"base", "extended", "build"} /\ state \in {"notStarted", "started", "stopped"}
    /\ stopping \in Starter \cup {NoStarter}
    /\ gen \in 0 .. MaxStarts
    /\ gor \in [Gen -> {"none", "select", "fn", "ending", "ended"}]
    /\ doneCh \subseteq 1 .. gen

\* Only the goroutine of the last Start can be alive; it has ended when doneCh
\* says so, and when nobody is in Stop and the reporter is not started.
LastAlive ==
    /\ \A g \in Gen : /\ g < gen => gor[g] = "ended"
                      /\ g > gen => gor[g] = "none"
                      /\ g = gen /\ gen \in doneCh => gor[g] = "ended"
                      /\ g = gen /\ stopping = NoStarter /\ state # "started" => gor[g] = "ended"
    /\ stopping # NoStarter \/ state # "notStarted" => gen >= 1

ReportersInv == ReportersTypeOK /\ LastAlive

LEMMA ReportersInitInv == ReportersInit => ReportersInv
<1> SUFFICES ASSUME ReportersInit PROVE ReportersInv
    OBVIOUS
<1>1. ReportersTypeOK BY ReportersAssumption DEF ReportersInit, ReportersTypeOK
<1>2. LastAlive BY ReportersAssumption DEF ReportersInit, LastAlive, Gen
<1> QED BY <1>1, <1>2 DEF ReportersInv

LEMMA ReportersStep == ReportersInv /\ [ReportersNext]_reportersVars => ReportersInv'
<1> SUFFICES ASSUME ReportersInv, [ReportersNext]_reportersVars PROVE ReportersInv'
    OBVIOUS
<1> USE ReportersAssumption DEF ReportersInv
<1>1. CASE Started
    <2>1. /\ stopping = NoStarter /\ state = "notStarted" /\ gen < MaxStarts
          /\ state' = "started" /\ gen' = gen + 1
          /\ gor' = [gor EXCEPT ![gen + 1] = "select"]
          /\ kind' = kind /\ stopping' = stopping /\ doneCh' = doneCh
        BY <1>1 DEF Started
    <2>2. ReportersTypeOK' BY <2>1 DEF ReportersTypeOK, Gen
    <2>3. \A g \in Gen : gor'[g] = IF g = gen + 1 THEN "select" ELSE gor[g]
        BY <2>1 DEF ReportersTypeOK, Gen
    <2>4. LastAlive' BY <2>1, <2>3 DEF LastAlive, Gen, ReportersTypeOK
    <2> QED BY <2>2, <2>4
<1>2. ASSUME NEW c \in Starter, StopReporter(c) PROVE ReportersInv'
    <2>1. ReportersTypeOK' BY <1>2 DEF StopReporter, ReportersTypeOK
    <2>2. LastAlive' BY <1>2 DEF StopReporter, LastAlive, ReportersTypeOK
    <2> QED BY <2>1, <2>2
<1>3. CASE StopReturn
    <2>1. ReportersTypeOK' BY <1>3 DEF StopReturn, ReportersTypeOK
    <2>2. LastAlive' BY <1>3 DEF StopReturn, LastAlive, ReportersTypeOK
    <2> QED BY <2>1, <2>2
<1>4. ASSUME NEW g \in Gen, gor[g] \in {"select", "fn", "ending"}
      PROVE  g = gen /\ gen \notin doneCh /\ ~(stopping = NoStarter /\ state # "started")
    BY <1>4 DEF LastAlive, ReportersTypeOK, Gen
<1>5. ASSUME NEW g \in Gen, ReporterTick(g) \/ ReporterFn(g) \/ ReporterClosed(g)
      PROVE  ReportersInv'
    <2>1. PICK x \in {"select", "fn", "ending"} : gor' = [gor EXCEPT ![g] = x]
        BY <1>5 DEF ReporterTick, ReporterFn, ReporterClosed, Goto
    <2>2. gor[g] \in {"select", "fn", "ending"} /\ UNCHANGED <<kind, state, stopping, gen, doneCh>>
        BY <1>5 DEF ReporterTick, ReporterFn, ReporterClosed
    <2>3. \A h \in Gen : gor'[h] = IF h = g THEN x ELSE gor[h] BY <2>1 DEF ReportersTypeOK
    <2>4. ReportersTypeOK' BY <2>1, <2>2 DEF ReportersTypeOK
    <2>5. LastAlive' BY <1>4, <2>2, <2>3 DEF LastAlive, Gen
    <2> QED BY <2>4, <2>5
<1>6. ASSUME NEW g \in Gen, ReporterDone(g) PROVE ReportersInv'
    <2>1. /\ gor[g] = "ending" /\ gor' = [gor EXCEPT ![g] = "ended"]
          /\ doneCh' = doneCh \cup {gen} /\ UNCHANGED <<kind, state, stopping, gen>>
        BY <1>6 DEF ReporterDone, Goto
    <2>2. g = gen BY <1>4, <2>1
    <2>3. \A h \in Gen : gor'[h] = IF h = g THEN "ended" ELSE gor[h] BY <2>1 DEF ReportersTypeOK
    <2>4. ReportersTypeOK' BY <2>1, <2>2 DEF ReportersTypeOK, Gen
    <2>5. LastAlive' BY <2>1, <2>2, <2>3 DEF LastAlive, Gen
    <2> QED BY <2>4, <2>5
<1>7. CASE Collect
    BY <1>7 DEF Collect, ReportersTypeOK, LastAlive
<1>8. CASE UNCHANGED reportersVars
    BY <1>8 DEF reportersVars, ReportersTypeOK, LastAlive
<1> QED BY <1>1, <1>2, <1>3, <1>5, <1>6, <1>7, <1>8
        DEF ReportersNext, StartReporter, StartBuildReporter

LEMMA ReportersInvariant == ReportersSpec => []ReportersInv
BY ReportersInitInv, ReportersStep, PTL DEF ReportersSpec

\* A reporter, also one that is started again after Stop, never has two
\* goroutines, and has none once Stop has returned.
THEOREM ReporterIsAlone == ReportersSpec => []OneReporter
<1>1. ReportersInv => OneReporter
    <2> SUFFICES ASSUME ReportersInv PROVE OneReporter
        OBVIOUS
    <2>1. \A g \in Gen : gor[g] \notin {"none", "ended"} => g = gen
        BY DEF ReportersInv, ReportersTypeOK, LastAlive, Gen
    <2>2. stopping = NoStarter /\ state # "started" => \A g \in Gen : gor[g] \in {"none", "ended"}
        BY DEF ReportersInv, ReportersTypeOK, LastAlive, Gen
    <2> QED BY <2>1, <2>2 DEF OneReporter
<1> QED BY <1>1, ReportersInvariant, PTL

-----------------------------------------------------------------------------
(* Remainders, for the counter of collections.                             *)

\* The remainder is what is left of a multiple of m, ...
LEMMA ModIs ==
    ASSUME NEW a \in Int, NEW m \in Nat \ {0}
    PROVE  a \div m \in Int /\ a % m \in 0 .. m - 1 /\ a = m * (a \div m) + (a % m)
<1>1. a \div m \in Int /\ a % m \in Int OBVIOUS
<1>2. a % m >= 0 /\ a % m < m OBVIOUS
<1>3. a - m * (a \div m) = a % m OBVIOUS
<1> QED BY <1>1, <1>2, <1>3

\* ... and nothing else is.
LEMMA ModUnique ==
    ASSUME NEW a \in Int, NEW m \in Nat \ {0}, NEW q \in Int, NEW r \in 0 .. m - 1, a = m * q + r
    PROVE  r = a % m
OBVIOUS

LEMMA ModPlusMultiple ==
    ASSUME NEW a \in Int, NEW b \in Int, NEW m \in Nat \ {0},
           \E q \in Int : b = a + m * q
    PROVE  b % m = a % m
<1>4. PICK q \in Int : b = a + m * q OBVIOUS
<1> DEFINE p == a \div m  r == a % m
<1>1. p \in Int /\ r \in 0 .. m - 1 /\ a = m * p + r BY ModIs
<1> HIDE DEF p, r
<1>2. p + q \in Int /\ b = m * (p + q) + r BY <1>1, <1>4
<1>3. r = b % m BY <1>1, <1>2, ModUnique
<1> QED BY <1>3 DEF r

\* A counter that is reduced before it is added to or subtracted.
LEMMA ModOfMods ==
    ASSUME NEW x \in Int, NEW y \in Int, NEW m \in Nat \ {0}
    PROVE  /\ ((x % m) - (y % m)) % m = (x - y) % m
           /\ ((x % m) - y) % m = (x - y) % m
           /\ ((x % m) + y) % m = (x + y) % m
           /\ (x - (y % m)) % m = (x - y) % m
<1> DEFINE p == x \div m  q == y \div m  s == x % m  t == y % m
<1>1. p \in Int /\ s \in 0 .. m - 1 /\ x = m * p + s BY ModIs
<1>2. q \in Int /\ t \in 0 .. m - 1 /\ y = m * q + t BY ModIs
<1> HIDE DEF p, q, s, t
<1>3. s - t = (x - y) + m * (q - p) /\ q - p \in Int BY <1>1, <1>2
<1>4. s - y = (x - y) + m * (0 - p) /\ 0 - p \in Int BY <1>1
<1>5. s + y = (x + y) + m * (0 - p) BY <1>1
<1>6. x - t = (x - y) + m * q BY <1>2
<1>7. x - y \in Int /\ x + y \in Int /\ s - t \in Int /\ s - y \in Int /\ s + y \in Int /\ x - t \in Int
    BY <1>1, <1>2
<1>8. (s - t) % m = (x - y) % m
    <2>1. \E k \in Int : s - t = (x - y) + m * k BY <1>3
    <2> QED BY <1>7, <2>1, ModPlusMultiple
<1>9. (s - y) % m = (x - y) % m
    <2>1. \E k \in Int : s - y = (x - y) + m * k BY <1>4
    <2> QED BY <1>7, <2>1, ModPlusMultiple
<1>10. (s + y) % m = (x + y) % m
    <2>1. \E k \in Int : s + y = (x + y) + m * k BY <1>4, <1>5
    <2> QED BY <1>7, <2>1, ModPlusMultiple
<1>11. (x - t) % m = (x - y) % m
    <2>1. \E k \in Int : x - t = (x - y) + m * k BY <1>2, <1>6
    <2> QED BY <1>7, <2>1, ModPlusMultiple
<1> QED BY <1>8, <1>9, <1>10, <1>11 DEF s, t

LEMMA ModSmall ==
    ASSUME NEW x \in Int, NEW m \in Nat \ {0}, 0 <= x, x < m PROVE x % m = x
OBVIOUS

\* The ring divides the range of the counter: the place of a pause can be
\* found from the counter.
LEMMA ModOfMultiple ==
    ASSUME NEW x \in Int, NEW m \in Nat \ {0}, NEW r \in Nat \ {0}, m % r = 0
    PROVE  (x % m) % r = x % r
<1> DEFINE p == x \div m  s == x % m  t == m \div r  u == s \div r  v == s % r
<1>1. p \in Int /\ s \in 0 .. m - 1 /\ x = m * p + s BY ModIs
<1>2. t \in Int /\ m = r * t + (m % r) BY ModIs
<1>3. u \in Int /\ v \in 0 .. r - 1 /\ s = r * u + v BY <1>1, ModIs
<1> HIDE DEF p, s, t, u, v
<1>4. m = r * t BY <1>2
<1>5. m * p = r * (t * p) /\ t * p \in Int BY <1>1, <1>2, <1>4
<1>6. x = r * (t * p) + (r * u + v) BY <1>1, <1>3, <1>5
<1>7. t * p + u \in Int /\ x = r * (t * p + u) + v BY <1>3, <1>5, <1>6
<1>8. v = x % r BY <1>3, <1>7, ModUnique
<1> QED BY <1>8 DEF v, s

\* Of r integers in a row no two have the same remainder.
LEMMA ModDistinct ==
    ASSUME NEW x \in Int, NEW y \in Int, NEW r \in Nat \ {0}, x % r = y % r, x - y \in 0 .. r - 1
    PROVE  x = y
<1> DEFINE p == x \div r  q == y \div r
<1>1. p \in Int /\ x = r * p + (x % r) BY ModIs
<1>2. q \in Int /\ y = r * q + (y % r) BY ModIs
<1>3. x % r \in Int BY ModIs
<1> HIDE DEF p, q
<1>4. p - q \in Int /\ x - y = r * (p - q) + 0 BY <1>1, <1>2, <1>3
<1>5. x - y \in Int /\ 0 \in 0 .. r - 1 OBVIOUS
<1>6. 0 = (x - y) % r BY <1>4, <1>5, ModUnique
<1>7. x - y \in Int /\ 0 <= x - y /\ x - y < r OBVIOUS
<1>8. (x - y) % r = x - y BY <1>7, ModSmall
<1> QED BY <1>8, <1>6

-----------------------------------------------------------------------------
(* The pauses an extended reporter reports.                                *)

LEMMA CounterFacts ==
    ASSUME NEW x \in Int, NEW y \in Int
    PROVE  /\ Counter(x) \in Nat
           /\ Counter(Counter(x) - Counter(y)) = Counter(x - y)
           /\ Counter(Counter(x) - y) = Counter(x - y)
           /\ Counter(Counter(x) + y) = Counter(x + y)
           /\ Counter(x - Counter(y)) = Counter(x - y)
           /\ 0 <= x /\ x < 2 ^ GCWidth => Counter(x) = x
           /\ Counter(x) % Ring = x % Ring
<1> DEFINE m == 2 ^ GCWidth
<1>1. m \in Nat \ {0} /\ m % Ring = 0 /\ Ring \in Nat \ {0} BY ReportersAssumption
<1> HIDE DEF m
<1>2. x % m \in 0 .. m - 1 BY <1>1, ModIs
<1>3. /\ ((x % m) - (y % m)) % m = (x - y) % m
      /\ ((x % m) - y) % m = (x - y) % m
      /\ ((x % m) + y) % m = (x + y) % m
      /\ (x - (y % m)) % m = (x - y) % m
    BY <1>1, ModOfMods
<1>4. 0 <= x /\ x < m => x % m = x BY <1>1, ModSmall
<1>5. (x % m) % Ring = x % Ring BY <1>1, ModOfMultiple
<1>6. x % m \in Nat BY <1>1, <1>2
<1> QED BY <1>3, <1>4, <1>5, <1>6, Zenon DEF Counter, m

\* Of the pauses l + 1 .. gcs since the last report those the ring still has
\* are reported: gcs - b of them, from the pause b on.
LEMMA PausesFrom ==
    ASSUME NEW l \in Nat, gcs \in Nat, l <= gcs, gcs - l < 2 ^ GCWidth, lastNumGC = Counter(l)
    PROVE  \E b \in l .. gcs :
               /\ Pauses(lastNumGC, Counter(gcs)) = Counter(b)
               /\ Counter(Counter(gcs) - Counter(b)) = gcs - b
               /\ gcs - b <= Ring /\ (b = gcs => l = gcs) /\ (b # l => gcs - b = Ring)
<1>1. 2 ^ GCWidth \in Nat \ {0} /\ Ring \in Nat \ {0} BY ReportersAssumption
<1>2. Counter(Counter(gcs) - lastNumGC) = Counter(gcs - l) BY CounterFacts
<1>3. gcs - l \in Int /\ 0 <= gcs - l OBVIOUS
<1>4. Counter(gcs - l) = gcs - l BY <1>3, CounterFacts
<1>5. CASE gcs - l > Ring - 1
    <2>1. Pauses(lastNumGC, Counter(gcs)) = Counter(Counter(gcs) - Ring) BY <1>2, <1>4, <1>5 DEF Pauses
    <2>2. gcs - Ring \in Int /\ Ring \in Int /\ gcs \in Int BY <1>1
    <2>3. Counter(Counter(gcs) - Ring) = Counter(gcs - Ring) BY <2>2, CounterFacts
    <2>4. Counter(Counter(gcs) - Counter(gcs - Ring)) = Counter(gcs - (gcs - Ring))
        BY <2>2, CounterFacts
    <2>5. gcs - (gcs - Ring) = Ring /\ 0 <= Ring /\ Ring < 2 ^ GCWidth BY <1>1, <1>5
    <2>6. Counter(Ring) = Ring BY <2>2, <2>5, CounterFacts
    <2>7. /\ gcs - Ring \in l .. gcs /\ gcs - (gcs - Ring) <= Ring /\ gcs - Ring # gcs
          /\ gcs - (gcs - Ring) = Ring
        BY <1>1, <1>5
    <2>8. Counter(Counter(gcs) - Counter(gcs - Ring)) = gcs - (gcs - Ring) BY <2>4, <2>5, <2>6
    <2>9. Pauses(lastNumGC, Counter(gcs)) = Counter(gcs - Ring) BY <2>1, <2>3
    <2>10. PICK b : b = gcs - Ring OBVIOUS
    <2> QED BY <2>7, <2>8, <2>9, <2>10
<1>6. CASE ~(gcs - l > Ring - 1)
    <2>1. Pauses(lastNumGC, Counter(gcs)) = Counter(l) BY <1>2, <1>4, <1>6 DEF Pauses
    <2>2. Counter(Counter(gcs) - Counter(l)) = gcs - l BY <1>2, <1>4
    <2>3. l \in l .. gcs /\ gcs - l <= Ring BY <1>1, <1>6
    <2> QED BY <2>1, <2>2, <2>3
<1> QED BY <1>5, <1>6

\* The place of the ring that belongs to a pause the runtime remembers holds it.
LEMMA PauseFound ==
    ASSUME gcs \in Nat, NEW n \in gcs - Ring .. gcs - 1
    PROVE  PauseNs(n % Ring) = n
<1>1. Ring \in Nat \ {0} BY ReportersAssumption
<1>2. ASSUME NEW i \in gcs - Ring .. gcs - 1, i % Ring = n % Ring PROVE i = n
    <2>1. i \in Int /\ n \in Int /\ (i - n \in 0 .. Ring - 1 \/ n - i \in 0 .. Ring - 1)
        BY <1>1
    <2> QED BY <1>1, <1>2, <2>1, ModDistinct
<1> QED BY <1>2 DEF PauseNs

\* What ReporterFn appends: the numbers from b to gcs - 1.
LEMMA PausesAppended ==
    ASSUME gcs \in Nat, NEW b \in 0 .. gcs, gcs - b <= Ring
    PROVE  [k \in 1 .. gcs - b |-> PauseNs(Counter(Counter(b) + k - 1) % Ring)]
               = [k \in 1 .. gcs - b |-> b + k - 1]
<1> SUFFICES ASSUME NEW k \in 1 .. gcs - b
             PROVE  PauseNs(Counter(Counter(b) + k - 1) % Ring) = b + k - 1
    OBVIOUS
<1>1. Ring \in Nat \ {0} BY ReportersAssumption
<1>2. b \in Int /\ k - 1 \in Int /\ b + k - 1 \in gcs - Ring .. gcs - 1 /\ b + (k - 1) \in Int BY <1>1
<1>3. Counter(b) \in Nat BY <1>2, CounterFacts
<1>4. Counter(b) + k - 1 = Counter(b) + (k - 1) /\ b + k - 1 = b + (k - 1) BY <1>2, <1>3
<1>5. Counter(Counter(b) + (k - 1)) = Counter(b + (k - 1)) BY <1>2, CounterFacts
<1>6. Counter(b + (k - 1)) % Ring = (b + (k - 1)) % Ring BY <1>2, CounterFacts
<1>7. PauseNs((b + k - 1) % Ring) = b + k - 1 BY <1>2, PauseFound
<1> QED BY <1>4, <1>5, <1>6, <1>7

\* The pauses p, of n collections, are in order, and a gap has the whole ring
\* behind it.
InOrder(p, n) ==
    /\ \A k \in 1 .. Len(p) - 1 : p[k] < p[k + 1]
    /\ \A k \in DOMAIN p : p[k] \in 0 .. n - 1
    /\ \A k \in 1 .. Len(p) - 1 : p[k + 1] # p[k] + 1 => Len(p) >= k + Ring

LEMMA AppendPauses ==
    ASSUME NEW p \in Seq(Int), NEW l \in Nat, NEW n \in Nat, NEW b \in l .. n, InOrder(p, n),
           p # <<>> => p[Len(p)] = l - 1,
           b = n => l = n, b # l => n - b = Ring
    PROVE  LET q == p \o [k \in 1 .. n - b |-> b + k - 1]
           IN  q \in Seq(Int) /\ InOrder(q, n) /\ (q # <<>> => q[Len(q)] = n - 1)
<1> DEFINE t == [k \in 1 .. n - b |-> b + k - 1]  q == p \o t
<1>1. PICK c \in Nat : c = n - b OBVIOUS
<1>2. PICK m \in Nat : m = Len(p) OBVIOUS
<1>3. Ring \in Nat \ {0} BY ReportersAssumption
<1>4. t \in Seq(Int) /\ Len(t) = c /\ \A k \in 1 .. c : t[k] = b + k - 1 BY <1>1
<1>5. DOMAIN p = 1 .. m /\ \A k \in 1 .. m : p[k] \in Int BY <1>2
<1> HIDE DEF t
<1>6. /\ q \in Seq(Int) /\ Len(q) = m + c
      /\ \A k \in 1 .. m : q[k] = p[k]
      /\ \A k \in m + 1 .. m + c : q[k] = t[k - m]
    <2>1. /\ q \in Seq(Int) /\ Len(q) = Len(p) + Len(t)
          /\ \A i \in 1 .. Len(p) + Len(t) : q[i] = IF i <= Len(p) THEN p[i] ELSE t[i - Len(p)]
        BY <1>4, ConcatProperties
    <2> HIDE DEF q
    <2>2. \A i \in 1 .. m + c : q[i] = IF i <= m THEN p[i] ELSE t[i - m] BY <1>2, <1>4, <2>1
    <2>3. \A i \in 1 .. m : q[i] = p[i] BY <2>2
    <2>4. ASSUME NEW i \in m + 1 .. m + c PROVE q[i] = t[i - m]
        <3>1. i \in 1 .. m + c /\ ~(i <= m) OBVIOUS
        <3> QED BY <2>2, <3>1
    <2>5. q \in Seq(Int) /\ Len(q) = m + c BY <1>2, <1>4, <2>1
    <2> QED BY <2>3, <2>4, <2>5
<1>7. \A k \in m + 1 .. m + c : q[k] = b + k - m - 1
    <2> SUFFICES ASSUME NEW k \in m + 1 .. m + c PROVE q[k] = b + k - m - 1
        OBVIOUS
    <2> HIDE DEF q
    <2>1. q[k] = t[k - m] /\ k - m \in 1 .. c BY <1>6
    <2>2. t[k - m] = b + (k - m) - 1 BY <1>4, <2>1
    <2> QED BY <2>1, <2>2
<1>8. DOMAIN q = 1 .. m + c BY <1>6
<1>9. m # 0 => p[m] = l - 1 BY <1>2
<1>10. /\ \A k \in 1 .. m - 1 : p[k] < p[k + 1]
       /\ \A k \in 1 .. m : p[k] \in 0 .. n - 1
       /\ \A k \in 1 .. m - 1 : p[k + 1] # p[k] + 1 => m >= k + Ring
    BY <1>2, <1>5 DEF InOrder
<1> HIDE DEF q
<1>11. ASSUME NEW k \in 1 .. m + c - 1
       PROVE  q[k] < q[k + 1] /\ (q[k + 1] # q[k] + 1 => m + c >= k + Ring)
    <2>1. CASE k < m
        <3>1. k \in 1 .. m - 1 /\ k + 1 \in 1 .. m /\ k \in 1 .. m BY <2>1
        <3>2. q[k] = p[k] /\ q[k + 1] = p[k + 1] BY <1>6, <3>1
        <3> QED BY <1>3, <1>10, <3>1, <3>2
    <2>2. CASE k = m
        <3>1. k \in 1 .. m /\ k + 1 \in m + 1 .. m + c /\ m # 0 BY <2>2
        <3>2. q[k] = l - 1 /\ q[k + 1] = b BY <1>6, <1>7, <1>9, <2>2, <3>1
        <3> QED BY <1>1, <1>3, <2>2, <3>2
    <2>3. CASE k > m
        <3>1. k \in m + 1 .. m + c /\ k + 1 \in m + 1 .. m + c BY <2>3
        <3>2. q[k] = b + k - m - 1 /\ q[k + 1] = b + (k + 1) - m - 1 BY <1>7, <3>1
        <3> QED BY <3>2
    <2> QED BY <2>1, <2>2, <2>3
<1>12. \A k \in 1 .. m + c : q[k] \in 0 .. n - 1
    <2> SUFFICES ASSUME NEW k \in 1 .. m + c PROVE q[k] \in 0 .. n - 1
        OBVIOUS
    <2>1. CASE k \in 1 .. m BY <1>6, <1>10, <2>1
    <2>2. CASE k \in m + 1 .. m + c
        <3>1. q[k] = b + k - m - 1 BY <1>7, <2>2
        <3> QED BY <1>1, <2>2, <3>1
    <2> QED BY <2>1, <2>2
<1>13. InOrder(q, n) BY <1>6, <1>8, <1>11, <1>12 DEF InOrder
<1>14. q # <<>> => q[Len(q)] = n - 1
    <2> SUFFICES ASSUME q # <<>> PROVE q[m + c] = n - 1
        BY <1>6
    <2>1. m + c # 0 BY <1>6
    <2>2. CASE c = 0
        <3>1. m # 0 /\ m \in 1 .. m /\ l = n BY <1>1, <2>1, <2>2
        <3> QED BY <1>6, <1>9, <2>2, <3>1
    <2>3. CASE c # 0
        <3>1. m + c \in m + 1 .. m + c BY <2>3
        <3> QED BY <1>1, <1>7, <3>1
    <2> QED BY <2>2, <2>3
<1> QED BY <1>6, <1>13, <1>14 DEF q, t

\* l: the collections that the reporter has seen.
PausesInv ==
    /\ gcs \in Nat /\ paused \in Seq(Int) /\ InOrder(paused, gcs)
    /\ \E l \in 0 .. gcs : /\ gcs - l < 2 ^ GCWidth /\ lastNumGC = Counter(l)
                           /\ paused # <<>> => paused[Len(paused)] = l - 1

LEMMA PausesStep == PausesInv /\ [ReportersNext]_reportersVars => PausesInv'
<1> SUFFICES ASSUME PausesInv, [ReportersNext]_reportersVars PROVE PausesInv'
    OBVIOUS
<1>1. CASE UNCHANGED gcVars BY <1>1 DEF gcVars, PausesInv, InOrder
<1>2. PICK l \in 0 .. gcs : /\ gcs - l < 2 ^ GCWidth /\ lastNumGC = Counter(l)
                            /\ paused # <<>> => paused[Len(paused)] = l - 1
    BY DEF PausesInv
<1>3. gcs \in Nat /\ paused \in Seq(Int) /\ InOrder(paused, gcs) BY DEF PausesInv
<1>4. CASE Collect
    <2>1. /\ gcs' = gcs + 1 /\ lastNumGC' = lastNumGC /\ paused' = paused
          /\ Counter(gcs - lastNumGC) < 2 ^ GCWidth - 1
        BY <1>4 DEF Collect
    <2>2. gcs \in Int /\ l \in Int /\ gcs - l \in Int /\ 0 <= gcs - l BY <1>3
    <2>3. Counter(gcs - lastNumGC) = gcs - l BY <1>2, <2>2, CounterFacts
    <2>4. gcs + 1 - l < 2 ^ GCWidth BY <1>3, <2>1, <2>3, ReportersAssumption
    <2>5. InOrder(paused, gcs + 1) BY <1>3 DEF InOrder
    <2>6. l \in 0 .. gcs + 1 BY <1>3
    <2> QED BY <1>2, <1>3, <2>1, <2>4, <2>5, <2>6 DEF PausesInv
<1>5. ASSUME NEW g \in Gen, ReporterFn(g), kind = "extended" PROVE PausesInv'
    <2> DEFINE num == Counter(gcs)  first == Pauses(lastNumGC, num)
    <2>1. /\ gcs' = gcs /\ lastNumGC' = num
          /\ paused' = paused \o [k \in 1 .. Counter(num - first) |-> PauseNs(Counter(first + k - 1) % Ring)]
        BY <1>5 DEF ReporterFn
    <2>2. PICK b \in l .. gcs :
               /\ first = Counter(b) /\ Counter(num - Counter(b)) = gcs - b
               /\ gcs - b <= Ring /\ (b = gcs => l = gcs) /\ (b # l => gcs - b = Ring)
        BY <1>2, <1>3, PausesFrom
    <2>3. b \in 0 .. gcs BY <1>3
    <2>4. [k \in 1 .. gcs - b |-> PauseNs(Counter(Counter(b) + k - 1) % Ring)]
              = [k \in 1 .. gcs - b |-> b + k - 1]
        BY <1>3, <2>2, <2>3, PausesAppended
    <2> HIDE DEF num, first
    <2>5. paused' = paused \o [k \in 1 .. gcs - b |-> b + k - 1] BY <2>1, <2>2, <2>4
    <2>6. l \in Nat BY <1>3
    <2>7. paused' \in Seq(Int) /\ InOrder(paused', gcs)
          /\ (paused' # <<>> => paused'[Len(paused')] = gcs - 1)
        BY <1>2, <1>3, <2>2, <2>5, <2>6, AppendPauses
    <2>8. gcs - gcs < 2 ^ GCWidth /\ gcs \in 0 .. gcs BY <1>3, ReportersAssumption
    <2> QED BY <1>3, <2>1, <2>7, <2>8 DEF PausesInv, num
<1>6. ASSUME NEW g \in Gen, ReporterFn(g), kind # "extended" PROVE UNCHANGED gcVars
    BY <1>6 DEF ReporterFn
<1> QED BY <1>1, <1>4, <1>5, <1>6
        DEF ReportersNext, StartReporter, StartBuildReporter, Started, StopReturn, StopReporter,
            ReporterTick, ReporterClosed, ReporterDone, reportersVars, gcVars

\* Pauses are reported once, in order, and none the runtime still remembers is
\* left out, for every width of the counter and size of the ring that divides
\* its range, also where the counter wraps.
THEOREM PausesAreReportedOnce == ReportersSpec => []PausesReportedOnce
<1>1. ReportersInit => PausesInv
    <2> SUFFICES ASSUME ReportersInit PROVE PausesInv
        OBVIOUS
    <2>1. gcs \in Nat /\ paused = <<>> /\ lastNumGC = Counter(gcs)
        BY ReportersAssumption DEF ReportersInit
    <2>2. InOrder(paused, gcs) /\ paused \in Seq(Int) BY <2>1 DEF InOrder
    <2>3. gcs \in 0 .. gcs /\ gcs - gcs < 2 ^ GCWidth BY <2>1, ReportersAssumption
    <2> QED BY <2>1, <2>2, <2>3 DEF PausesInv
<1>2. PausesInv => PausesReportedOnce
    <2> SUFFICES ASSUME PausesInv PROVE PausesReportedOnce
        OBVIOUS
    <2>1. ASSUME paused # <<>> PROVE Counter(paused[Len(paused)] + 1) = lastNumGC
        <3>1. PICK l \in 0 .. gcs : lastNumGC = Counter(l) /\ paused[Len(paused)] = l - 1
            BY <2>1 DEF PausesInv
        <3>2. paused[Len(paused)] + 1 = l BY <3>1
        <3> QED BY <3>1, <3>2
    <2> QED BY <2>1 DEF PausesInv, InOrder, PausesReportedOnce
<1> QED BY <1>1, <1>2, PausesStep, PTL DEF ReportersSpec

-----------------------------------------------------------------------------
(* Sampling.                                                               *)

\* A multiple of n is not between -n and n but for zero.
LEMMA SmallMultiple ==
    ASSUME NEW q \in Int, NEW n \in Nat \ {0}
    PROVE  (n * q < n => q <= 0) /\ (n * q > -n => q >= 0)
<1>1. ASSUME q >= 1 PROVE n * q >= n
    <2>1. PICK p \in Nat : q = p + 1
        <3>1. q - 1 \in Nat /\ q = (q - 1) + 1 BY <1>1
        <3> QED BY <3>1
    <2>2. n * q = n * p + n /\ n * p >= 0 BY <2>1
    <2> QED BY <2>2
<1>2. ASSUME q <= -1 PROVE n * q <= -n
    <2>1. PICK p \in Nat : q = -p - 1
        <3>1. -q - 1 \in Nat /\ q = -(-q - 1) - 1 BY <1>2
        <3> QED BY <3>1
    <2>2. n * q = -(n * p) - n /\ n * p >= 0 BY <2>1
    <2> QED BY <2>2
<1>3. n * q \in Int OBVIOUS
<1> QED BY <1>1, <1>2, <1>3

\* Quotient and remainder are the only ones.
LEMMA QuotientUnique ==
    ASSUME NEW n \in Nat \ {0}, NEW q \in Int, NEW r \in 0 .. n - 1
    PROVE  (n * q + r) % n = r /\ (n * q + r) \div n = q
<1>1. PICK a \in Int : a = n * q + r OBVIOUS
<1>2. PICK p \in Int, s \in 0 .. n - 1 : a = n * p + s /\ p = a \div n /\ s = a % n BY ModIs
<1>3. n * (p - q) = r - s
    <2>1. n * (p - q) = n * p - n * q OBVIOUS
    <2>2. PICK x \in Int, y \in Int : x = n * p /\ y = n * q OBVIOUS
    <2>3. x + s = y + r BY <1>1, <1>2, <2>2
    <2> QED BY <2>1, <2>2, <2>3
<1>4. PICK d \in Int : d = p - q OBVIOUS
<1>5. n * d < n /\ n * d > -n BY <1>3, <1>4
<1>6. d = 0 BY <1>5, SmallMultiple
<1>7. p = q BY <1>4, <1>6
<1>8. r = s
    <2>1. n * 0 = 0 OBVIOUS
    <2>2. n * d = 0 BY <1>6, <2>1
    <2> QED BY <1>3, <1>4, <2>2
<1> QED BY <1>1, <1>2, <1>7, <1>8

\* The remainder of the next number.
LEMMA ModNext ==
    ASSUME NEW n \in Nat \ {0}, NEW a \in Int
    PROVE  (a + 1) % n = IF a % n = n - 1 THEN 0 ELSE (a % n) + 1
<1>1. PICK q \in Int, r \in 0 .. n - 1 : a = n * q + r /\ r = a % n BY ModIs
<1>2. CASE r = n - 1
    <2>1. PICK p \in Int : p = q + 1 OBVIOUS
    <2>2. n * p = n * q + n BY <2>1
    <2>3. a + 1 = n * p + 0 /\ 0 \in 0 .. n - 1
        <3>1. n * q \in Int OBVIOUS
        <3> QED BY <1>1, <1>2, <2>2, <3>1
    <2>4. (n * p + 0) % n = 0 BY <2>3, QuotientUnique
    <2> QED BY <1>1, <1>2, <2>3, <2>4
<1>3. CASE r # n - 1
    <2>1. r + 1 \in 0 .. n - 1 BY <1>3
    <2>2. a + 1 = n * q + (r + 1)
        <3>1. n * q \in Int OBVIOUS
        <3> QED BY <1>1, <3>1
    <2>3. (n * q + (r + 1)) % n = r + 1 BY <2>1, QuotientUnique
    <2> QED BY <1>1, <1>3, <2>2, <2>3
<1> QED BY <1>2, <1>3

\* The calls before the next that is sampled.
Until(v) == (-v) % every

LEMMA UntilIs ==
    ASSUME every \in Nat \ {0}, NEW v \in Int
    PROVE  /\ Until(v) \in 0 .. every - 1
           /\ v % every = 0 <=> Until(v) = 0
           /\ Until(v + 1) = IF Until(v) = 0 THEN every - 1 ELSE Until(v) - 1
<1>1. PICK n \in Nat \ {0} : n = every OBVIOUS
<1>2. PICK q \in Int, r \in 0 .. n - 1 : v = n * q + r /\ r = v % n BY ModIs
<1>3. PICK m \in Int : m = n * q OBVIOUS
<1>4. /\ r = 0 => (-v) % n = 0
      /\ r # 0 => (-v) % n = n - r
    <2>1. CASE r = 0
        <3>1. PICK p \in Int : p = -q OBVIOUS
        <3>2. n * p = -m BY <1>3, <3>1
        <3>3. -v = n * p + 0 /\ 0 \in 0 .. n - 1 BY <1>2, <1>3, <2>1, <3>2
        <3>4. (n * p + 0) % n = 0 BY <3>3, QuotientUnique
        <3> QED BY <2>1, <3>3, <3>4
    <2>2. CASE r # 0
        <3>1. PICK p \in Int : p = -q - 1 OBVIOUS
        <3>2. n * p = -m - n BY <1>3, <3>1
        <3>3. -v = n * p + (n - r) /\ n - r \in 0 .. n - 1 BY <1>2, <1>3, <2>2, <3>2
        <3>5. PICK s \in 0 .. n - 1 : s = n - r BY <3>3
        <3>4. (n * p + s) % n = s BY QuotientUnique
        <3> QED BY <2>2, <3>3, <3>4, <3>5
    <2> QED BY <2>1, <2>2
<1>5. (-v) % n \in 0 .. n - 1 /\ (r = 0 <=> (-v) % n = 0) BY <1>4
<1>6. (-(v + 1)) % n = IF (-v) % n = 0 THEN n - 1 ELSE ((-v) % n) - 1
    <2>1. PICK b \in Int : b = -(v + 1) OBVIOUS
    <2>2. b + 1 = -v BY <2>1
    <2>3. PICK s \in 0 .. n - 1 : s = b % n
        <3>1. b % n \in 0 .. n - 1 BY ModIs
        <3> QED BY <3>1
    <2>4. (-v) % n = IF s = n - 1 THEN 0 ELSE s + 1 BY <2>2, <2>3, ModNext
    <2> QED BY <2>1, <2>3, <2>4
<1> QED BY <1>1, <1>2, <1>5, <1>6 DEF Until

Half == 2 ^ (CntWidth - 1)
Full == 2 ^ CntWidth

LEMMA HalfIs == Half \in Nat \ {0} /\ Full = 2 * Half /\ Full \in Nat \ {0}
<1>1. PICK h \in Nat \ {0} : h = 2 ^ (CntWidth - 1) /\ 2 ^ CntWidth = 2 * h BY SamplingAssumption
<1> QED BY <1>1 DEF Half, Full

\* The sampler: a call is sampled at zero, so only where the counter has
\* wrapped and not come to zero again can the calls since then and until the
\* next sum up to more than n - 1.
SamplerInv ==
    /\ every \in Nat \ {0} /\ numTried \in -Half .. Half - 1 /\ calls \in Nat /\ gap \in Nat
    /\ gap + Until(numTried) <= 2 * every - 2
    /\ numTried > 0 => gap + Until(numTried) <= every - 1
    /\ calls < Half => numTried = calls
    /\ calls <= Half => gap <= every - 1
    /\ calls = 0 => gap = 0

\* A timer with counter c that has wrapped w times: every wrap adds to what it
\* has recorded what is missing to a whole n, less than n reports.
Recorded(n, c, r, k, w) ==
    /\ k = Full * w + c /\ c \in 0 .. Full - 1
    /\ n * r + (c % n) - k \in 0 .. w * (n - 1)

TimersInv ==
    /\ every \in Nat \ {0}
    /\ cnt \in [Outcome -> Nat] /\ reported \in [Outcome -> Nat] /\ recorded \in [Outcome -> Nat]
    /\ \A o \in Outcome : \E w \in Nat : Recorded(every, cnt[o], recorded[o], reported[o], w)

SamplingInv == SamplerInv /\ TimersInv

LEMMA SamplingInitInv == SamplingInit => SamplingInv
<1> SUFFICES ASSUME SamplingInit PROVE SamplingInv
    OBVIOUS
<1>1. every \in Nat \ {0} BY SamplingAssumption DEF SamplingInit
<1>2. SamplerInv
    <2>1. Until(0) = 0
        <3>1. 0 % every = 0
            <4>1. PICK n \in Nat \ {0} : n = every BY <1>1
            <4>2. n * 0 + 0 = 0 /\ 0 \in 0 .. n - 1 OBVIOUS
            <4>3. (n * 0 + 0) % n = 0 BY <4>2, QuotientUnique
            <4> QED BY <4>1, <4>2, <4>3
        <3> QED BY <1>1, <3>1, UntilIs
    <2> QED BY <1>1, <2>1, HalfIs DEF SamplerInv, SamplingInit
<1>3. TimersInv
    <2>1. \A o \in Outcome : cnt[o] = 0 /\ reported[o] = 0 /\ recorded[o] = 0 BY DEF SamplingInit
    <2>2. Recorded(every, 0, 0, 0, 0)
        <3>1. PICK n \in Nat \ {0}, z \in Nat \ {0} : n = every /\ z = Full BY <1>1, HalfIs
        <3>2. 0 % n = 0
            <4>2. n * 0 + 0 = 0 /\ 0 \in 0 .. n - 1 OBVIOUS
            <4>3. (n * 0 + 0) % n = 0 BY <4>2, QuotientUnique
            <4> QED BY <4>2, <4>3
        <3>3. z * 0 = 0 /\ n * 0 = 0 /\ 0 * (n - 1) = 0 /\ 0 \in 0 .. z - 1 OBVIOUS
        <3> QED BY <3>1, <3>2, <3>3 DEF Recorded
    <2>3. \A o \in Outcome : \E w \in Nat : Recorded(every, cnt[o], recorded[o], reported[o], w)
        <3>1. 0 \in Nat OBVIOUS
        <3> QED BY <2>1, <2>2, <3>1
    <2> QED BY <1>1, <2>3 DEF TimersInv, SamplingInit
<1> QED BY <1>2, <1>3 DEF SamplingInv

\* Where the next value of the signed counter is.
LEMMA SignedNext ==
    ASSUME NEW v \in -Half .. Half - 1
    PROVE  Signed((v + 1) % Full) = IF v = Half - 1 THEN -Half ELSE v + 1
<1>1. PICK h \in Nat \ {0}, z \in Nat \ {0} : h = Half /\ z = Full /\ z = 2 * h BY HalfIs
<1>2. \A a : Signed(a) = IF a >= h THEN a - z ELSE a BY <1>1 DEF Signed, Half, Full
<1>3. CASE v + 1 >= 0
    <2>1. v + 1 \in 0 .. z - 1 /\ z * 0 + (v + 1) = v + 1 BY <1>1, <1>3
    <2>2. PICK r \in 0 .. z - 1 : r = v + 1 BY <2>1
    <2>3. (z * 0 + r) % z = r BY QuotientUnique
    <2>4. (v + 1) % z = v + 1 BY <2>1, <2>2, <2>3
    <2>5. Signed((v + 1) % Full) = IF v + 1 >= h THEN v + 1 - z ELSE v + 1 BY <1>1, <1>2, <2>4
    <2> QED BY <1>1, <2>5
<1>4. CASE v + 1 < 0
    <2>1. v + 1 + z \in 0 .. z - 1 /\ z * (-1) + (v + 1 + z) = v + 1 /\ v + 1 + z >= h BY <1>1, <1>4
    <2>2. PICK r \in 0 .. z - 1 : r = v + 1 + z BY <2>1
    <2>3. (z * (-1) + r) % z = r BY QuotientUnique
    <2>4. (v + 1) % z = r BY <2>1, <2>2, <2>3
    <2>5. Signed((v + 1) % Full) = r - z BY <1>1, <1>2, <2>1, <2>2, <2>4
    <2> QED BY <1>1, <1>4, <2>2, <2>5
<1> QED BY <1>3, <1>4

LEMMA SampleInv == ASSUME SamplerInv, Sample PROVE SamplerInv'
<1>0. PICK v : v = numTried OBVIOUS
<1>1. PICK h \in Nat \ {0}, n \in Nat \ {0} : h = Half /\ n = every /\ h = Half'
    BY HalfIs DEF SamplerInv, Half
<1>2. v \in -h .. h - 1 /\ calls \in Nat /\ gap \in Nat BY <1>0, <1>1 DEF SamplerInv
<1>3. every' = every /\ calls' = calls + 1 /\ gap' = (IF v % every = 0 THEN 0 ELSE gap + 1)
    BY <1>0 DEF Sample
<1>4. numTried' = IF v = h - 1 THEN -h ELSE v + 1
    BY <1>0, <1>1, <1>2, SignedNext DEF Sample, Full
<1>5. PICK u \in 0 .. n - 1 : u = Until(v) BY <1>1, <1>2, UntilIs
<1>6. (v % every = 0 <=> u = 0) /\ Until(v + 1) = (IF u = 0 THEN n - 1 ELSE u - 1)
    BY <1>1, <1>2, <1>5, UntilIs
<1>7. /\ gap + u <= 2 * n - 2
      /\ v > 0 => gap + u <= n - 1
      /\ calls < h => v = calls
      /\ calls <= h => gap <= n - 1
      /\ calls = 0 => gap = 0
    BY <1>0, <1>1, <1>5 DEF SamplerInv
<1>8. PICK g \in Nat : g = gap' /\ g = IF u = 0 THEN 0 ELSE gap + 1
    <2>1. gap' = IF u = 0 THEN 0 ELSE gap + 1 BY <1>3, <1>6
    <2> QED BY <1>2, <2>1
<1>9. PICK w, x : w = numTried' /\ x = Until(w) OBVIOUS
<1>10. w \in -h .. h - 1 BY <1>2, <1>4, <1>9
<1>11. x \in 0 .. n - 1 BY <1>1, <1>10, <1>9, UntilIs
<1>12. x = Until(numTried)' BY <1>3, <1>9 DEF Until
\* Before the wrap the counter is positive or zero, and has been sampled.
<1>13. CASE v = h - 1
    <2>1. w = -h BY <1>4, <1>9, <1>13
    <2>2. g <= n - 1
        <3>1. CASE v > 0
            <4>1. CASE u = 0 BY <1>8, <4>1
            <4>2. CASE u # 0 BY <1>2, <1>5, <1>7, <1>8, <3>1, <4>2
            <4> QED BY <4>1, <4>2
        <3>2. CASE v = 0
            <4>1. u = 0
                <5>1. 0 % n = 0
                    <6>1. n * 0 + 0 = 0 /\ 0 \in 0 .. n - 1 OBVIOUS
                    <6>2. (n * 0 + 0) % n = 0 BY <6>1, QuotientUnique
                    <6> QED BY <6>1, <6>2
                <5> QED BY <1>1, <1>6, <3>2, <5>1
            <4> QED BY <1>8, <4>1
        <3> QED BY <1>13, <3>1, <3>2
    <2>3. g + x <= 2 * n - 2 BY <1>11, <2>2
    <2>4. calls + 1 < h => FALSE
        BY <1>2, <1>7, <1>13
    <2>5. w <= 0 BY <2>1
    <2> QED BY <1>1, <1>2, <1>3, <1>8, <1>9, <1>10, <1>12, <2>2, <2>3, <2>4, <2>5 DEF SamplerInv
<1>14. CASE v # h - 1
    <2>1. w = v + 1 BY <1>4, <1>9, <1>14
    <2>2. x = IF u = 0 THEN n - 1 ELSE u - 1 BY <1>6, <1>9, <2>1
    <2>3. g + x <= 2 * n - 2
        <3>1. CASE u = 0 BY <1>8, <2>2, <3>1
        <3>2. CASE u # 0 BY <1>2, <1>5, <1>7, <1>8, <2>2, <3>2
        <3> QED BY <3>1, <3>2
    <2>4. w > 0 => g + x <= n - 1
        <3>1. CASE u = 0 BY <1>8, <2>2, <3>1
        <3>2. CASE v > 0
            <4>1. CASE u # 0 BY <1>2, <1>5, <1>7, <1>8, <2>2, <3>2, <4>1
            <4> QED BY <3>1, <4>1
        <3>3. CASE v = 0
            <4>1. 0 % n = 0
                <5>1. n * 0 + 0 = 0 /\ 0 \in 0 .. n - 1 OBVIOUS
                <5>2. (n * 0 + 0) % n = 0 BY <5>1, QuotientUnique
                <5> QED BY <5>1, <5>2
            <4>2. u = 0 BY <1>1, <1>6, <3>3, <4>1
            <4> QED BY <3>1, <4>2
        <3>4. CASE v < 0 BY <1>2, <2>1, <3>4
        <3> QED BY <1>2, <3>2, <3>3, <3>4
    <2>5. calls + 1 < h => w = calls + 1 BY <1>2, <1>7, <2>1
    <2>6. calls + 1 <= h => g <= n - 1
        <3>1. CASE calls + 1 <= h
            <4>1. v = calls BY <1>2, <1>7, <3>1
            <4>2. w > 0 BY <1>2, <2>1, <4>1
            <4> QED BY <1>11, <2>4, <4>2
        <3> QED BY <3>1
    <2> QED BY <1>1, <1>2, <1>3, <1>8, <1>9, <1>10, <1>12, <2>3, <2>4, <2>5, <2>6 DEF SamplerInv
<1> QED BY <1>13, <1>14

\* The rest of a report: a counter that does not wrap moves the remainder by
\* one, or completes n reports, which are recorded.
LEMMA RecordedNext ==
    ASSUME NEW n \in Nat \ {0}, NEW c \in Nat, NEW r \in Nat, NEW k \in Nat, NEW w \in Nat,
           Recorded(n, c, r, k, w), c # Full - 1
    PROVE  /\ (c + 1) % Full = c + 1
           /\ Recorded(n, c + 1, IF (c + 1) % n = 0 THEN r + 1 ELSE r, k + 1, w)
<1>1. PICK z \in Nat \ {0} : z = Full BY HalfIs
<1>2. c + 1 \in 0 .. z - 1 BY <1>1 DEF Recorded
<1>3. (c + 1) % z = c + 1
    <2>1. PICK d \in 0 .. z - 1 : d = c + 1 BY <1>2
    <2>0. 0 \in Int OBVIOUS
    <2>2. (z * 0 + d) % z = d BY <2>0, QuotientUnique, ZenonT(40)
    <2>3. z * 0 + d = d OBVIOUS
    <2> QED BY <2>1, <2>2, <2>3
<1>4. PICK m \in 0 .. n - 1 : m = c % n BY ModIs
<1>5. (c + 1) % n = IF m = n - 1 THEN 0 ELSE m + 1
    BY <1>4, ModNext
<1>6. PICK x \in Int, y \in Int, b \in Int : x = n * r /\ y = z * w /\ b = w * (n - 1) OBVIOUS
<1>7. k = y + c /\ x + m - k \in 0 .. b BY <1>1, <1>4, <1>6 DEF Recorded
<1>8. k + 1 = y + (c + 1) BY <1>6, <1>7
<1>9. CASE m = n - 1
    <2>1. n * (r + 1) = x + n BY <1>6
    <2>2. (c + 1) % n = 0 BY <1>5, <1>9
    <2>3. n * (r + 1) + 0 - (k + 1) = x + m - k BY <1>6, <1>9, <2>1
    <2>4. n * (r + 1) + ((c + 1) % n) - (k + 1) \in 0 .. b BY <1>7, <2>2, <2>3
    <2>5. Recorded(n, c + 1, r + 1, k + 1, w) BY <1>1, <1>2, <1>6, <1>8, <2>4 DEF Recorded
    <2> QED BY <1>1, <1>3, <2>2, <2>5
<1>10. CASE m # n - 1
    <2>1. (c + 1) % n = m + 1 /\ m + 1 # 0 BY <1>5, <1>10
    <2>2. x + (m + 1) - (k + 1) = x + m - k BY <1>6
    <2>3. n * r + ((c + 1) % n) - (k + 1) \in 0 .. b BY <1>6, <1>7, <2>1, <2>2
    <2>4. Recorded(n, c + 1, r, k + 1, w) BY <1>1, <1>2, <1>6, <1>8, <2>3 DEF Recorded
    <2> QED BY <1>1, <1>3, <2>1, <2>4
<1> QED BY <1>9, <1>10

\* One that wraps is zero and is recorded, whatever its remainder was.
LEMMA RecordedWraps ==
    ASSUME NEW n \in Nat \ {0}, NEW c \in Nat, NEW r \in Nat, NEW k \in Nat, NEW w \in Nat,
           Recorded(n, c, r, k, w), c = Full - 1
    PROVE  (c + 1) % Full = 0 /\ 0 % n = 0 /\ Recorded(n, 0, r + 1, k + 1, w + 1)
<1>1. PICK z \in Nat \ {0} : z = Full BY HalfIs
<1>2. (c + 1) % z = 0
    <2>1. (z * 1 + 0) % z = 0 BY QuotientUnique
    <2>2. z * 1 + 0 = z /\ c + 1 = z BY <1>1
    <2> QED BY <2>1, <2>2
<1>3. 0 % n = 0
    <2>1. n * 0 + 0 = 0 /\ 0 \in 0 .. n - 1 OBVIOUS
    <2>2. (n * 0 + 0) % n = 0 BY <2>1, QuotientUnique
    <2> QED BY <2>1, <2>2
<1>4. PICK m \in 0 .. n - 1 : m = c % n BY ModIs
<1>6. PICK x \in Int, y \in Int, b \in Int : x = n * r /\ y = z * w /\ b = w * (n - 1) OBVIOUS
<1>7. k = y + c /\ x + m - k \in 0 .. b BY <1>1, <1>4, <1>6 DEF Recorded
<1>8. n * (r + 1) = x + n /\ z * (w + 1) = y + z /\ (w + 1) * (n - 1) = b + (n - 1) BY <1>6
<1>9. k + 1 = z * (w + 1) + 0 BY <1>1, <1>6, <1>7, <1>8
<1>10. (x + n) + 0 - (k + 1) = (x + m - k) + (n - 1 - m) BY <1>6
<1>11. n * (r + 1) + (0 % n) - (k + 1) \in 0 .. (w + 1) * (n - 1)
    BY <1>3, <1>6, <1>7, <1>8, <1>10
<1>12. 0 \in 0 .. z - 1 OBVIOUS
<1> QED BY <1>1, <1>2, <1>3, <1>9, <1>11, <1>12 DEF Recorded

LEMMA TimersReportInv == ASSUME TimersInv, NEW o \in Outcome, Report(o) PROVE TimersInv'
<1>1. PICK n \in Nat \ {0} : n = every /\ n = every' BY DEF TimersInv, Report
<1>2. PICK c \in Nat, r \in Nat, k \in Nat : c = cnt[o] /\ r = recorded[o] /\ k = reported[o]
    BY DEF TimersInv
<1>3. PICK w \in Nat : Recorded(n, c, r, k, w) BY <1>1, <1>2 DEF TimersInv
<1>4. PICK d : d = (c + 1) % Full OBVIOUS
<1>5. cnt' = [cnt EXCEPT ![o] = d] /\ reported' = [reported EXCEPT ![o] = k + 1]
    BY <1>2, <1>4 DEF Report, Full
<1>6. cnt'[o] = d BY <1>5 DEF TimersInv
<1>7. PICK e : e = IF d % n = 0 THEN r + 1 ELSE r OBVIOUS
<1>8. recorded' = [recorded EXCEPT ![o] = e]
    <2>1. CASE d % n = 0 BY <1>1, <1>2, <1>6, <1>7, <2>1 DEF Report
    <2>2. CASE d % n # 0
        <3>1. recorded' = recorded BY <1>1, <1>6, <2>2 DEF Report
        <3>2. e = recorded[o] BY <1>2, <1>7, <2>2
        <3> QED BY <3>1, <3>2 DEF TimersInv
    <2> QED BY <2>1, <2>2
<1>9. d \in Nat /\ e \in Nat /\ \E v \in Nat : Recorded(n, d, e, k + 1, v)
    <2>1. CASE c # Full - 1
        <3>1. d = c + 1 /\ Recorded(n, d, e, k + 1, w) BY <1>3, <1>4, <1>7, <2>1, RecordedNext
        <3> QED BY <1>7, <3>1
    <2>2. CASE c = Full - 1
        <3>1. d = 0 /\ e = r + 1 /\ Recorded(n, d, e, k + 1, w + 1)
            BY <1>3, <1>4, <1>7, <2>2, RecordedWraps
        <3> QED BY <3>1
    <2> QED BY <2>1, <2>2
<1>10. /\ cnt' \in [Outcome -> Nat] /\ reported' \in [Outcome -> Nat]
       /\ recorded' \in [Outcome -> Nat]
    BY <1>5, <1>8, <1>9 DEF TimersInv
<1>11. ASSUME NEW p \in Outcome
       PROVE  \E v \in Nat : Recorded(n, cnt'[p], recorded'[p], reported'[p], v)
    <2>1. CASE p = o
        <3>1. cnt'[p] = d /\ recorded'[p] = e /\ reported'[p] = k + 1
            BY <1>5, <1>8, <2>1 DEF TimersInv
        <3> QED BY <1>9, <3>1
    <2>2. CASE p # o
        <3>1. cnt'[p] = cnt[p] /\ recorded'[p] = recorded[p] /\ reported'[p] = reported[p]
            BY <1>5, <1>8, <2>2 DEF TimersInv
        <3> QED BY <1>1, <3>1 DEF TimersInv
    <2> QED BY <2>1, <2>2
<1> QED BY <1>1, <1>10, <1>11 DEF TimersInv

LEMMA SamplingNextInv ==
    ASSUME SamplingInv, [SamplingNext]_samplingVars
    PROVE  SamplingInv'
<1>1. ASSUME UNCHANGED <<every, numTried, calls, gap>> PROVE SamplerInv'
    BY <1>1 DEF SamplingInv, SamplerInv, Until, Half
<1>2. ASSUME UNCHANGED <<every, cnt, reported, recorded>> PROVE TimersInv'
    BY <1>2 DEF SamplingInv, TimersInv, Recorded, Full
<1>3. CASE Sample BY <1>2, <1>3, SampleInv DEF SamplingInv, Sample
<1>4. ASSUME NEW o \in Outcome, Report(o) PROVE SamplingInv'
    BY <1>1, <1>4, TimersReportInv DEF SamplingInv, Report
<1>5. CASE UNCHANGED samplingVars BY <1>1, <1>2, <1>5 DEF SamplingInv, samplingVars
<1> QED BY <1>3, <1>4, <1>5 DEF SamplingNext

\* What the timers have recorded is more than one for n reports by less than
\* w + 1.
LEMMA RecordedImplies ==
    ASSUME NEW n \in Nat \ {0}, NEW c \in Nat, NEW r \in Nat, NEW k \in Nat, NEW w \in Nat,
           Recorded(n, c, r, k, w)
    PROVE  r - k \div n \in 0 .. k \div Full
<1>1. PICK z \in Nat \ {0} : z = Full BY HalfIs
<1>2. k \div Full = w
    <2>1. k = z * w + c /\ c \in 0 .. z - 1 BY <1>1 DEF Recorded
    <2>2. PICK d \in 0 .. z - 1 : d = c BY <2>1
    <2>3. w \in Int OBVIOUS
    <2>4. (z * w + d) \div z = w BY <2>3, QuotientUnique
    <2> QED BY <1>1, <2>1, <2>2, <2>4
<1>3. PICK q \in Int, s \in 0 .. n - 1 : k = n * q + s /\ q = k \div n
    <2>1. k \in Int OBVIOUS
    <2>2. k \div n \in Int /\ k % n \in 0 .. n - 1 /\ k = n * (k \div n) + (k % n) BY <2>1, ModIs
    <2> QED BY <2>2
<1>4. PICK m \in 0 .. n - 1 : m = c % n BY ModIs
<1>5. PICK x \in Int, y \in Int, b \in Int : x = n * r /\ y = n * q /\ b = n * w OBVIOUS
<1>6. w * (n - 1) = b - w BY <1>5
<1>7. x + m - k >= 0 /\ x + m - k <= b - w BY <1>4, <1>5, <1>6 DEF Recorded
<1>8. PICK d \in Int : d = r - q BY <1>3
<1>9. n * d = x - y BY <1>5, <1>8
<1>10. n * d > -n BY <1>3, <1>4, <1>5, <1>7, <1>9
<1>11. n * (d - w) = x - y - b BY <1>5, <1>8
<1>12. n * (d - w) < n BY <1>3, <1>4, <1>5, <1>7, <1>11
<1>13. d >= 0 BY <1>10, SmallMultiple
<1>14. PICK f \in Int : f = d - w OBVIOUS
<1>15. f <= 0 BY <1>12, <1>14, SmallMultiple
<1> QED BY <1>2, <1>3, <1>8, <1>13, <1>14, <1>15

\* THEOREM. The sampler and the sampled timers of a MethodMetrics sample one
\* call in every n: whatever the width of their counters and whether or not n
\* divides the number of their values, a counter that wraps shortens or delays
\* one sample, and no further call is lost or counted twice.
THEOREM SamplesAreEven == SamplingSpec => []SampledEvenly
<1>1. SamplingInv => SampledEvenly
    <2> SUFFICES ASSUME SamplingInv PROVE SampledEvenly
        OBVIOUS
    <2>1. PICK n \in Nat \ {0} : n = every BY DEF SamplingInv, TimersInv
    <2>2. gap <= IF calls <= Half THEN every - 1 ELSE 2 * every - 2
        <3>1. PICK u \in 0 .. n - 1 : u = Until(numTried)
            <4>1. numTried \in Int BY HalfIs DEF SamplingInv, SamplerInv
            <4> QED BY <2>1, <4>1, UntilIs
        <3>2. gap \in Nat /\ gap + u <= 2 * n - 2 /\ (calls <= Half => gap <= n - 1)
            BY <2>1, <3>1 DEF SamplingInv, SamplerInv
        <3>3. gap <= 2 * n - 2 BY <3>1, <3>2
        <3> QED BY <2>1, <3>2, <3>3
    <2>3. ASSUME NEW o \in Outcome
          PROVE  recorded[o] - reported[o] \div every \in 0 .. reported[o] \div Full
        <3>1. PICK c \in Nat, r \in Nat, k \in Nat :
                c = cnt[o] /\ r = recorded[o] /\ k = reported[o]
            BY DEF SamplingInv, TimersInv
        <3>2. PICK w \in Nat : Recorded(n, c, r, k, w)
            BY <2>1, <3>1 DEF SamplingInv, TimersInv
        <3> QED BY <2>1, <3>1, <3>2, RecordedImplies
    <2> QED BY <2>2, <2>3 DEF SampledEvenly, Half, Full
<1> QED BY <1>1, SamplingInitInv, SamplingNextInv, PTL DEF SamplingSpec

=============================================================================
