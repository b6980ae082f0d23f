------------------------------ MODULE Checked ------------------------------
(***************************************************************************)
(* Reference-counted objects (checked/ref.go, checked/bytes.go) of a       *)
(* checked object pool (pool/checked_object.go), with the tracebacks of    *)
(* checked/debug.go.  One object is followed.  Its owner gets it from the  *)
(* pool, takes a reference for itself and one for every user that is free, *)
(* and finalizes it when all references are given back; owner and users    *)
(* read, write and release it concurrently.  A method is the sequence of   *)
(* its atomic steps: the counters and the finalizer are touched by atomic  *)
(* loads, adds and stores and by nothing larger.                           *)
(***************************************************************************)
EXTENDS Integers, Sequences, FiniteSets
SX == INSTANCE SequencesExt

CONSTANTS
    Owner, User,   \* the goroutines
    FinObj,        \* the checkedObjectFinalizers
    Traceback,     \* EnableTracebacks has been called
    PollsNumRef,   \* the owner finalizes when it reads NumRef() = 0; otherwise
                   \* when every user has returned from DecRef
    MaxRounds,     \* bound: how often the object is taken from the pool
    MaxOps         \* bound: reads and writes in a round

ASSUME CheckedAssumption ==
    /\ Owner \notin User /\ IsFiniteSet(User) /\ Traceback \in BOOLEAN /\ PollsNumRef \in BOOLEAN
    /\ MaxRounds \in Nat /\ MaxOps \in Nat

Goroutine == User \cup {Owner}

VARIABLES
    counts,     \* the ref, reads and writes of the RefCount
    finalizer,  \* its finalizer: a FinObj, wrapped in a debuggerRef or not
    bound,      \* the FinObjs whose value and p are set
    given,      \* the FinObj of the last Get
    pooled,     \* how often the object is in its pool
    holds,      \* goroutines that have a reference to give back
    code,       \* code[t]: the steps left of the methods t is in
    reg,        \* reg[t]: the count and the finalizer t has last seen
    rounds, ops,
    panics,     \* what panicRef and the runtime have reported
    overlapped  \* two writes have overlapped
checkedVars == <<counts, finalizer, bound, given, pooled, holds, code, reg, rounds, ops, panics, overlapped>>

CheckedInit ==
    /\ counts = [ref |-> 0, reads |-> 0, writes |-> 0]
    /\ given \in FinObj /\ finalizer = [obj |-> given, debugger |-> FALSE]
    /\ bound = {} /\ pooled = 1 /\ holds = {}
    /\ code = [t \in Goroutine |-> <<>>]
    /\ reg = [t \in Goroutine |-> [n |-> 0, fin |-> finalizer]]
    /\ rounds = 0 /\ ops = 0 /\ panics = {} /\ overlapped = FALSE

-----------------------------------------------------------------------------
(* The methods.                                                            *)

\* tracebackEvent: getDebuggerRef loads the finalizer, then stores it wrapped.
tracebackEvent == IF Traceback THEN <<"load", "store">> ELSE <<>>

\* n calls of a method, one after the other.
Times(n, method) == [i \in 1 .. n * Len(method) |-> method[((i - 1) % Len(method)) + 1]]

IncRef  == <<"ref+">> \o tracebackEvent
DecRef  == <<"ref-">> \o tracebackEvent \o <<"negative?">>
MoveRef == tracebackEvent
IncReads  == tracebackEvent \o <<"reads+", "read?">>
DecReads  == tracebackEvent \o <<"reads-", "freed?">>
IncWrites == tracebackEvent \o <<"writes+", "write?">>
DecWrites == tracebackEvent \o <<"writes-", "freed?">>
Finalize  == <<"NumRef">> \o tracebackEvent \o <<"zero?", "load", "finalize", "release">>

\* Bytes, Cap and Len; Resize, Append, AppendAll and Reset.
BytesRead  == IncReads \o <<"value">> \o DecReads
BytesWrite == IncWrites \o <<"value">> \o DecWrites

AddTo(step) ==
    CASE step = "ref+"    -> [counts EXCEPT !.ref = @ + 1]
      [] step = "ref-"    -> [counts EXCEPT !.ref = @ - 1]
      [] step = "reads+"  -> [counts EXCEPT !.reads = @ + 1]
      [] step = "reads-"  -> [counts EXCEPT !.reads = @ - 1]
      [] step = "writes+" -> [counts EXCEPT !.writes = @ + 1]
      [] step = "writes-" -> [counts EXCEPT !.writes = @ - 1]
AddSteps == {"ref+", "ref-", "reads+", "reads-", "writes+", "writes-"}
Counter(step) ==
    IF step \in {"ref+", "ref-"} THEN "ref" ELSE IF step \in {"reads+", "reads-"} THEN "reads" ELSE "writes"

\* Faulty variant: the first overlapping write is let through.
Reports_LateDoubleWrite(step, n, ref) ==
    CASE step = "negative?" -> IF n < 0 THEN {"negative ref count"} ELSE {}
      [] step = "zero?"     -> IF n # 0 THEN {"finalize before zero ref count"} ELSE {}
      [] step = "read?"     -> IF n > 0 /\ ref < 1 THEN {"read after free"} ELSE {}
      [] step = "freed?"    -> IF ref < 1 THEN {"finish after free"} ELSE {}
      [] step = "write?"    -> (IF n > 0 /\ ref < 1 THEN {"write after free"} ELSE {})
                               \cup (IF n > 2 THEN {"double write"} ELSE {})

\* What a check reports, of the count n its add returned and of ref as it is
\* when the check loads it.
Reports(step, n, ref) ==
    CASE step = "negative?" -> IF n < 0 THEN {"negative ref count"} ELSE {}
      [] step = "zero?"     -> IF n # 0 THEN {"finalize before zero ref count"} ELSE {}
      [] step = "read?"     -> IF n > 0 /\ ref < 1 THEN {"read after free"} ELSE {}
      [] step = "freed?"    -> IF ref < 1 THEN {"finish after free"} ELSE {}
      [] step = "write?"    -> (IF n > 0 /\ ref < 1 THEN {"write after free"} ELSE {})
                               \cup (IF n > 1 THEN {"double write"} ELSE {})

CheckSteps == {"negative?", "zero?", "read?", "freed?", "write?"}

-----------------------------------------------------------------------------
(* Steps.                                                                  *)

At(t, step) == code[t] # <<>> /\ Head(code[t]) = step
Advance(t) == code' = [code EXCEPT ![t] = Tail(@)]

\* t is between the add and the subtraction of a write.
Writing(t) == SX!Contains(code[t], "writes-") /\ ~SX!Contains(code[t], "writes+")

AddStep(t) ==
    \E step \in AddSteps :
        /\ At(t, step) /\ Advance(t)
        /\ counts' = AddTo(step)
        /\ reg' = [reg EXCEPT ![t].n = AddTo(step)[Counter(step)]]
        /\ overlapped' = (overlapped \/ (step = "writes+" /\ \E u \in Goroutine : Writing(u)))
        /\ UNCHANGED <<finalizer, bound, given, pooled, holds, rounds, ops, panics>>

\* NumRef, and the loads of the checks.  panicRef prints the traceback, for
\* which it calls getDebuggerRef, and calls a panicFn that returns.
CheckStep(t) ==
    /\ \/ /\ At(t, "NumRef") /\ Advance(t)
          /\ reg' = [reg EXCEPT ![t].n = counts.ref]
          /\ UNCHANGED panics
       \/ \E step \in CheckSteps : LET reports == Reports(step, reg[t].n, counts.ref) IN
             /\ At(t, step)
             /\ code' = [code EXCEPT ![t] = Times(Cardinality(reports), tracebackEvent) \o Tail(@)]
             /\ panics' = panics \cup reports
             /\ UNCHANGED reg
       \/ At(t, "value") /\ Advance(t) /\ UNCHANGED <<reg, panics>>
    /\ UNCHANGED <<counts, finalizer, bound, given, pooled, holds, rounds, ops, overlapped>>

Finalizer(t) ==
    /\ At(t, "load") /\ Advance(t)
    /\ reg' = [reg EXCEPT ![t].fin = finalizer]
    /\ UNCHANGED <<counts, finalizer, bound, given, pooled, holds, rounds, ops, panics, overlapped>>

\* Faulty variant: the debuggerRef is made without the finalizer it replaces.
getDebuggerRef_Drops(t) ==
    /\ At(t, "store") /\ Advance(t)
    /\ finalizer' = IF reg[t].fin.debugger THEN finalizer
                    ELSE [obj |-> "nil", debugger |-> TRUE]
    /\ UNCHANGED <<counts, bound, given, pooled, holds, reg, rounds, ops, panics, overlapped>>

\* What was loaded is wrapped, unless it is a debuggerRef already, and stored
\* whatever the finalizer is by now.
getDebuggerRef(t) ==
    /\ At(t, "store") /\ Advance(t)
    /\ finalizer' = IF reg[t].fin.debugger THEN finalizer ELSE [reg[t].fin EXCEPT !.debugger = TRUE]
    /\ UNCHANGED <<counts, bound, given, pooled, holds, reg, rounds, ops, panics, overlapped>>

\* checkedObjectFinalizer.Finalize, through a debuggerRef or not: the value
\* goes to its pool, then the finalizer is cleared and goes to its own.  With
\* p cleared the call dereferences nil.
FinalizerFinalize(t) ==
    LET f == reg[t].fin.obj IN
    /\ \/ /\ At(t, "finalize") /\ f \in bound /\ Advance(t)
          /\ pooled' = pooled + 1
          /\ UNCHANGED <<bound, panics>>
       \/ /\ At(t, "finalize") /\ f \notin bound
          /\ code' = [code EXCEPT ![t] = <<>>]
          /\ panics' = panics \cup {"nil pointer"}
          /\ UNCHANGED <<bound, pooled>>
       \/ /\ At(t, "release") /\ Advance(t)
          /\ bound' = bound \ {f}
          /\ UNCHANGED <<pooled, panics>>
    /\ UNCHANGED <<counts, finalizer, given, holds, reg, rounds, ops, overlapped>>

-----------------------------------------------------------------------------
(* The clients.                                                            *)

Returned(t) == code[t] = <<>>
Call(t, method) == Returned(t) /\ code' = [code EXCEPT ![t] = method]

\* checkedObjectPool.Get, and a reference for each goroutine that is to use
\* the object.
PoolGet ==
    LET users == {u \in User : Returned(u)} IN
    /\ pooled > 0 /\ holds = {} /\ rounds < MaxRounds
    /\ Call(Owner, Times(Cardinality(users) + 1, IncRef))
    /\ \E f \in FinObj \ bound :
        /\ bound' = bound \cup {f} /\ given' = f
        /\ finalizer' = [obj |-> f, debugger |-> FALSE]
    /\ pooled' = pooled - 1 /\ rounds' = rounds + 1 /\ ops' = 0
    /\ holds' = users \cup {Owner}
    /\ UNCHANGED <<counts, reg, panics, overlapped>>

\* A user has its reference when the owner has returned from IncRef.
Shared == Returned(Owner) \/ ~SX!Contains(code[Owner], "ref+")
UseRef(t) ==
    /\ t \in holds /\ Shared /\ ops < MaxOps
    /\ Call(t, BytesRead) \/ Call(t, BytesWrite) \/ (Traceback /\ Call(t, MoveRef))
    /\ ops' = ops + 1
    /\ UNCHANGED <<counts, finalizer, bound, given, pooled, holds, reg, rounds, panics, overlapped>>
ReleaseRef(t) ==
    /\ t \in holds /\ Shared /\ Call(t, DecRef)
    /\ holds' = holds \ {t}
    /\ UNCHANGED <<counts, finalizer, bound, given, pooled, reg, rounds, ops, panics, overlapped>>

\* All references are given back: the owner finalizes the object.
OwnerFinalizes ==
    /\ pooled = 0 /\ Owner \notin holds /\ "nil pointer" \notin panics
    /\ IF PollsNumRef THEN counts.ref = 0 ELSE holds = {} /\ \A u \in User : Returned(u)
    /\ Call(Owner, Finalize)
    /\ UNCHANGED <<counts, finalizer, bound, given, pooled, holds, reg, rounds, ops, panics, overlapped>>

CheckedNext ==
    \/ PoolGet \/ OwnerFinalizes
    \/ \E t \in Goroutine :
        \/ AddStep(t) \/ CheckStep(t) \/ Finalizer(t) \/ getDebuggerRef(t) \/ FinalizerFinalize(t)
        \/ UseRef(t) \/ ReleaseRef(t)

CheckedSpec == CheckedInit /\ [][CheckedNext]_checkedVars

-----------------------------------------------------------------------------
(* Properties.                                                             *)

\* Clients that hold a reference while they use the object are reported for
\* nothing but writes that overlap, however the loads and adds of the checks
\* interleave; and of two goroutines about to change the value together, at
\* least one has been reported.
ReportsExact ==
    /\ panics \subseteq IF overlapped THEN {"double write"} ELSE {}
    /\ \A t, u \in Goroutine :
        (t # u /\ At(t, "value") /\ At(u, "value") /\ Writing(t) /\ Writing(u))
            => "double write" \in panics

\* While the object is out of its pool its finalizer is the one its Get gave
\* it, wrapped or not, so that Finalize returns this object, once.
FinalizerKept ==
    /\ pooled \in {0, 1}
    /\ pooled = 0 => finalizer.obj = given

=============================================================================
