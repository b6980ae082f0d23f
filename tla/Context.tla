------------------------------- MODULE Context -------------------------------
(***************************************************************************)
(* The context package: ctx objects, the pool they are recycled through    *)
(* and the goroutines that are inside Close, BlockingClose and finalize.   *)
(*                                                                         *)
(* A critical section of the ctx lock is one step.  DependsOn is the one   *)
(* operation that keeps its lock while it takes another one, so it is two  *)
(* steps: dep[c] names the blocker of the call that holds c's lock.        *)
(* A nil slice of finalizeables is <<>>: the code never stores an empty    *)
(* slice that is not nil.  The pool of finalizeable slices only recycles   *)
(* memory that Put has cleared, so taking a slice from it is allocating.   *)
(***************************************************************************)
EXTENDS Integers, Sequences, FiniteSets, SequencesExt, Relation

CONSTANTS
    Ctx,         \* the ctx objects of the program
    Pooled,      \* those allocated by the pool of contexts (ctx.pool # nil)
    Res,         \* finalizers and closers that clients register
    Goroutine,   \* goroutines that close or finalize contexts
    NoCtx,       \* the nil Context
    PoolSize,    \* capacity of the channel of free contexts
    MaxWait,     \* bound on the DependsOn calls pending at a time
    Traced,      \* contexts whose clients set a Go context and start spans
    Sampled,     \* Go contexts may have spans and spans may be sampled
    Resets,      \* clients reset contexts that are not pooled
    LateDepends  \* clients may depend on contexts that are being closed

ASSUME ContextAssumption ==
    /\ Pooled \subseteq Ctx
    /\ NoCtx \notin Ctx
    /\ Ctx \cap Res = {}
    /\ IsFiniteSet(Ctx)
    /\ PoolSize \in Nat /\ PoolSize <= Cardinality(Pooled)
    /\ MaxWait \in Nat
    /\ Traced \subseteq Ctx
    /\ Sampled \in BOOLEAN /\ Resets \in BOOLEAN /\ LateDepends \in BOOLEAN

ASSUME GoroutineAssumption == IsFiniteSet(Goroutine)

VARIABLES
    \* @struct ctx
    done, wg, finalizeables, parent, goCtx, checkedAndNotSampled,
    dep,      \* dep[c] = b: inside c.DependsOn(b), c locked, wg already added
    \* the pool and the clients
    free,     \* the channel of free pooled contexts
    fresh,    \* objects not allocated yet
    owners,   \* owners[c]: client handles of c that have not been closed
    \* the goroutines in close or finalize
    pc, cur, mode, items, up,
    \* history
    registered,  \* resources a context has accepted
    runs         \* runs[x]: calls of x.Finalize or x.Close

ctxVars == <<done, wg, finalizeables, parent, goCtx, checkedAndNotSampled, dep>>
poolVars == <<free, fresh, owners>>
procVars == <<pc, cur, mode, items, up>>
history == <<registered, runs>>
vars == <<ctxVars, poolVars, procVars, history>>

\* The Go context of a ctx: none, one without a span, one with a span.
GoCtx == {"nil", "bare", "span"}

\* Where a goroutine is: entering Close on cur, about to lock it, between the
\* unlock and the capture of the finalizeables, in wg.Wait, calling the
\* finalizers, in Reset and Put of returnToPool, returning from Close of cur.
PC == {"idle", "enter", "mark", "capture", "wait", "run", "reset", "put", "returned"}

Locked(c) == dep[c] # NoCtx

Parents == [c, p \in Ctx |-> parent[c] = p]

\* The context that calls on c end up at: c without a parent, or what the
\* recursion through parentCtx reaches.  Empty when the recursion never ends.
Roots(c) ==
    IF parent[c] = NoCtx THEN {c}
    ELSE {r \in Ctx : parent[r] = NoCtx /\ TransitiveClosure(Parents, Ctx)[<<c, r>>]}

CtxTypeOK ==
    /\ done \in [Ctx -> BOOLEAN]
    /\ wg \in [Ctx -> Int]
    /\ finalizeables \in [Ctx -> Seq(Res \cup Ctx)]
    /\ parent \in [Ctx -> Ctx \cup {NoCtx}]
    /\ goCtx \in [Ctx -> GoCtx]
    /\ checkedAndNotSampled \in [Ctx -> BOOLEAN]
    /\ dep \in [Ctx -> Ctx \cup {NoCtx}]

PoolTypeOK ==
    /\ free \in Seq(Pooled)
    /\ fresh \subseteq Ctx
    /\ owners \in [Ctx -> Nat]

ProcTypeOK ==
    /\ pc \in [Goroutine -> PC]
    /\ cur \in [Goroutine -> Ctx \cup {NoCtx}]
    /\ \A g \in Goroutine :
        /\ pc[g] # "idle" => cur[g] \in Ctx
        /\ pc[g] = "put" => cur[g] \in Pooled
    /\ mode \in [Goroutine -> {"async", "block"}]
    /\ items \in [Goroutine -> Seq(Res \cup Ctx)]
    /\ up \in [Goroutine -> Seq(Ctx)]

HistoryTypeOK ==
    /\ registered \subseteq Res
    /\ runs \in [Res -> Nat]

TypeOK == CtxTypeOK /\ PoolTypeOK /\ ProcTypeOK /\ HistoryTypeOK

Init ==
    /\ done = [c \in Ctx |-> FALSE]
    /\ wg = [c \in Ctx |-> 0]
    /\ finalizeables = [c \in Ctx |-> <<>>]
    /\ parent = [c \in Ctx |-> NoCtx]
    /\ goCtx = [c \in Ctx |-> "nil"]
    /\ checkedAndNotSampled = [c \in Ctx |-> FALSE]
    /\ dep = [c \in Ctx |-> NoCtx]
    \* Init of the object pool fills its channel.
    /\ free \in {s \in [1 .. PoolSize -> Pooled] : \A i, j \in 1 .. PoolSize : s[i] = s[j] => i = j}
    /\ fresh = Ctx \ {free[i] : i \in 1 .. PoolSize}
    /\ owners = [c \in Ctx |-> 0]
    /\ pc = [g \in Goroutine |-> "idle"]
    /\ cur = [g \in Goroutine |-> NoCtx]
    /\ mode = [g \in Goroutine |-> "async"]
    /\ items = [g \in Goroutine |-> <<>>]
    /\ up = [g \in Goroutine |-> <<>>]
    /\ registered = {}
    /\ runs = [x \in Res |-> 0]

-----------------------------------------------------------------------------
(* Obtaining contexts.                                                     *)

\* Get of the pool: the oldest free context, or a new one when none is free.
Taken(c) ==
    /\ c \in Pooled
    /\ \/ /\ free # <<>> /\ c = Head(free)
          /\ free' = Tail(free) /\ UNCHANGED fresh
       \/ /\ free = <<>> /\ c \in fresh
          /\ fresh' = fresh \ {c} /\ UNCHANGED free
    /\ owners' = [owners EXCEPT ![c] = @ + 1]

\* A context that belongs to no pool.
Allocated(c) ==
    /\ c \in fresh \ Pooled
    /\ fresh' = fresh \ {c}
    /\ owners' = [owners EXCEPT ![c] = 1]
    /\ UNCHANGED free

NewContext(c) ==
    /\ Allocated(c)
    /\ UNCHANGED <<ctxVars, procVars, history>>

PoolGet(c) ==
    /\ Taken(c)
    /\ UNCHANGED <<ctxVars, procVars, history>>

\* A client sets the Go context of a context once in each use of it.
SetGoContext(c, v) ==
    /\ c \in Traced /\ owners[c] > 0 /\ goCtx[c] = "nil"
    /\ v = "span" => Sampled
    /\ goCtx' = [goCtx EXCEPT ![c] = v]
    /\ UNCHANGED <<done, wg, finalizeables, parent, checkedAndNotSampled, dep,
                   poolVars, procVars, history>>

\* newChildContext and the SetGoContext on its result: the child k of c comes
\* from c's pool if c has one and carries the Go context of the new span.
newChildContext(c, k) ==
    /\ k # c
    /\ IF c \in Pooled THEN Taken(k) ELSE Allocated(k)
    /\ ~Locked(k)
    /\ parent' = [parent EXCEPT ![k] = c]
    /\ goCtx' = [goCtx EXCEPT ![k] = "span"]
    /\ UNCHANGED <<done, wg, finalizeables, checkedAndNotSampled, dep>>

\* Without a span in the Go context the tracer decides: a sampled span gives
\* a child, any other marks the context.  With a span there is always a child.
StartTraceSpan(c) ==
    /\ c \in Traced /\ owners[c] > 0
    /\ goCtx[c] # "nil" /\ ~checkedAndNotSampled[c]
    /\ \/ Sampled /\ \E k \in Ctx : newChildContext(c, k)
       \/ /\ goCtx[c] = "bare"
          /\ checkedAndNotSampled' = [checkedAndNotSampled EXCEPT ![c] = TRUE]
          /\ UNCHANGED <<done, wg, finalizeables, parent, goCtx, dep, poolVars>>
    /\ UNCHANGED <<procVars, history>>

-----------------------------------------------------------------------------
(* Registering finalizers and dependencies.                                *)

\* Faulty variant: accepts a finalizer after the context is done.
Register_Done(r, x) == finalizeables' = [finalizeables EXCEPT ![r] = Append(@, x)]

\* registerFinalizeable on r: ignored once r is done.
Register(r, x) ==
    finalizeables' =
        IF done[r] THEN finalizeables
                   ELSE [finalizeables EXCEPT ![r] = Append(@, x)]

\* RegisterFinalizer and RegisterCloser.  A client registers x once.
RegisterFinalizer(c, x) ==
    /\ owners[c] > 0 /\ x \notin registered
    /\ \E r \in Roots(c) :
        /\ ~Locked(r)
        /\ Register(r, x)
        /\ registered' = IF done[r] THEN registered ELSE registered \cup {x}
    /\ UNCHANGED <<done, wg, parent, goCtx, checkedAndNotSampled, dep,
                   poolVars, procVars, runs>>

\* c waits for b to finalize it: c is an entry of b's slice, of the slice a
\* goroutine closing b is working through, or on its way into b's slice.
BlockedBy(c, b) ==
    \/ \E i \in DOMAIN finalizeables[b] : finalizeables[b][i] = c
    \/ dep[c] = b
    \/ \E g \in Goroutine : cur[g] = b /\ \E i \in DOMAIN items[g] : items[g][i] = c

WaitsFor == [c, b \in Ctx |-> BlockedBy(c, b)]

\* b is open and no Close of it is under way.
Open(b) ==
    /\ ~done[b]
    /\ \A g \in Goroutine : pc[g] \in {"enter", "mark"} => b \notin Roots(cur[g])

\* No goroutine waits or calls finalizers for an earlier life of c.
Finalized(c) == \A g \in Goroutine : pc[g] \in {"wait", "run"} => cur[g] # c

\* DependsOn takes c's lock and adds to its WaitGroup, unless c is done.  No
\* client makes two contexts wait for each other, nor adds to the WaitGroup of
\* a context it has reset while finalize may still be in its Wait (package
\* sync forbids it); a careful one depends on open contexts only.
DependsOn(c, b) ==
    /\ owners[c] > 0 /\ owners[b] > 0
    /\ MapThenSumSet(LAMBDA d : wg[d], Ctx) < MaxWait
    /\ \E r \in Roots(c) :
        /\ ~Locked(r) /\ ~done[r] /\ Finalized(r)
        /\ \A s \in Roots(b) : /\ LateDepends \/ Open(s)
                               /\ ~ReflexiveTransitiveClosure(WaitsFor, Ctx)[<<s, r>>]
        /\ wg' = [wg EXCEPT ![r] = @ + 1]
        /\ dep' = [dep EXCEPT ![r] = b]
    /\ UNCHANGED <<done, finalizeables, parent, goCtx, checkedAndNotSampled,
                   poolVars, procVars, history>>

\* Still under c's lock, c registers itself as a finalizer of the blocker.
DependsOnRegister(c) ==
    /\ Locked(c)
    /\ \E r \in Roots(dep[c]) : ~Locked(r) /\ Register(r, c)
    /\ dep' = [dep EXCEPT ![c] = NoCtx]
    /\ UNCHANGED <<done, wg, parent, goCtx, checkedAndNotSampled,
                   poolVars, procVars, history>>

-----------------------------------------------------------------------------
(* Closing.                                                                *)

\* A careful client does not close a blocker under a DependsOn call.
MayClose(c) == LateDepends \/ \A d \in Ctx : dep[d] # NoCtx => Roots(dep[d]) # Roots(c)

\* A client calls Close or BlockingClose.  The handle of a pooled context is
\* given up; a context that is not pooled may be closed again.
CloseCall(g, c, m) ==
    /\ pc[g] = "idle" /\ owners[c] > 0 /\ MayClose(c)
    /\ owners' = [owners EXCEPT ![c] = IF c \in Pooled THEN @ - 1 ELSE @]
    /\ pc' = [pc EXCEPT ![g] = "enter"]
    /\ cur' = [cur EXCEPT ![g] = c]
    /\ mode' = [mode EXCEPT ![g] = m]
    /\ UNCHANGED <<ctxVars, free, fresh, items, up, history>>

\* Close of a child closes the parent unless IsClosed, then returns the child.
Enter(g) ==
    /\ pc[g] = "enter"
    /\ IF parent[cur[g]] = NoCtx
       THEN pc' = [pc EXCEPT ![g] = "mark"] /\ UNCHANGED <<cur, up>>
       ELSE \E r \in Roots(cur[g]) :
            /\ ~Locked(r)
            /\ IF done[r]
               THEN pc' = [pc EXCEPT ![g] = "reset"] /\ UNCHANGED <<cur, up>>
               ELSE /\ up' = [up EXCEPT ![g] = Append(@, cur[g])]
                    /\ cur' = [cur EXCEPT ![g] = parent[cur[g]]]
                    /\ UNCHANGED pc
    /\ UNCHANGED <<ctxVars, poolVars, mode, items, history>>

\* close: only the first caller goes on.
Mark(g) ==
    /\ pc[g] = "mark" /\ ~Locked(cur[g])
    /\ pc' = [pc EXCEPT ![g] = IF done[cur[g]] THEN "returned" ELSE "capture"]
    /\ done' = [done EXCEPT ![cur[g]] = TRUE]
    /\ UNCHANGED <<wg, finalizeables, parent, goCtx, checkedAndNotSampled, dep,
                   poolVars, cur, mode, items, up, history>>

\* close goes on without the lock.  Nothing registered: return to the pool.
CaptureNone(g) ==
    /\ pc[g] = "capture" /\ finalizeables[cur[g]] = <<>>
    /\ pc' = [pc EXCEPT ![g] = "reset"]
    /\ UNCHANGED <<ctxVars, poolVars, cur, mode, items, up, history>>

\* Faulty variant: leaves the slice in the context.
Capture_NotCleared(g) ==
    /\ pc[g] = "capture" /\ finalizeables[cur[g]] # <<>>
    /\ pc' = [pc EXCEPT ![g] = "wait"]
    /\ items' = [items EXCEPT ![g] = finalizeables[cur[g]]]
    /\ UNCHANGED <<ctxVars, poolVars, cur, mode, up, history>>

\* Faulty variant: returns the context while a goroutine finalizes it.
Capture_ReturnsAtOnce(g) ==
    /\ pc[g] = "capture" /\ finalizeables[cur[g]] # <<>>
    /\ finalizeables' = [finalizeables EXCEPT ![cur[g]] = <<>>]
    /\ \E h \in Goroutine :
        /\ pc[h] = "idle"
        /\ pc' = [pc EXCEPT ![g] = "reset", ![h] = "wait"]
        /\ cur' = [cur EXCEPT ![h] = cur[g]]
        /\ mode' = [mode EXCEPT ![h] = mode[g]]
        /\ items' = [items EXCEPT ![h] = finalizeables[cur[g]]]
    /\ UNCHANGED <<done, wg, parent, goCtx, checkedAndNotSampled, dep,
                   poolVars, up, history>>

\* The slice is taken and finalize called: by g itself for BlockingClose or
\* when nothing is left to do in g, else in a new goroutine h.
Capture(g) ==
    /\ pc[g] = "capture" /\ finalizeables[cur[g]] # <<>>
    /\ finalizeables' = [finalizeables EXCEPT ![cur[g]] = <<>>]
    /\ \E h \in Goroutine :
        /\ h = g \/ pc[h] = "idle"
        /\ (h = g) <=> (mode[g] = "block" \/ up[g] = <<>>)
        /\ pc' = [pc EXCEPT ![g] = "returned", ![h] = "wait"]
        /\ cur' = [cur EXCEPT ![h] = cur[g]]
        /\ mode' = [mode EXCEPT ![h] = mode[g]]
        /\ items' = [items EXCEPT ![h] = finalizeables[cur[g]]]
    /\ UNCHANGED <<done, wg, parent, goCtx, checkedAndNotSampled, dep,
                   poolVars, up, history>>

\* Faulty variant: does not wait.
Wait_Skipped(g) ==
    /\ pc[g] = "wait"
    /\ pc' = [pc EXCEPT ![g] = "run"]
    /\ UNCHANGED <<ctxVars, poolVars, cur, mode, items, up, history>>

\* Faulty variant: the finalizers of all contexts wait under one lock.
Wait_OneAtATime(g) ==
    /\ pc[g] = "wait" /\ wg[cur[g]] = 0
    /\ \A h \in Goroutine \ {g} : pc[h] # "wait"
    /\ pc' = [pc EXCEPT ![g] = "run"]
    /\ UNCHANGED <<ctxVars, poolVars, cur, mode, items, up, history>>

\* wg.Wait returns.
Wait(g) ==
    /\ pc[g] = "wait" /\ wg[cur[g]] = 0
    /\ pc' = [pc EXCEPT ![g] = "run"]
    /\ UNCHANGED <<ctxVars, poolVars, cur, mode, items, up, history>>

\* The next finalizer is called: a client's resource, or Finalize of a
\* context that depends on this one.  putFinalizeables follows the last.
Run(g) ==
    /\ pc[g] = "run" /\ items[g] # <<>>
    /\ LET x == Head(items[g]) IN
        IF x \in Ctx
        THEN wg' = [wg EXCEPT ![x] = @ - 1] /\ UNCHANGED runs
        ELSE runs' = [runs EXCEPT ![x] = @ + 1] /\ UNCHANGED wg
    /\ items' = [items EXCEPT ![g] = Tail(@)]
    /\ pc' = [pc EXCEPT ![g] = IF Tail(items[g]) = <<>> THEN "reset" ELSE "run"]
    /\ UNCHANGED <<done, finalizeables, parent, goCtx, checkedAndNotSampled, dep,
                   poolVars, cur, mode, up, registered>>

\* Faulty variant: keeps the tracer's verdict on the last user's trace.
Reset_KeepsVerdict(c) ==
    \E r \in Roots(c) :
        /\ ~Locked(r)
        /\ done' = [done EXCEPT ![r] = FALSE]
        /\ finalizeables' = [finalizeables EXCEPT ![r] = <<>>]
        /\ goCtx' = [goCtx EXCEPT ![r] = "nil"]
        /\ UNCHANGED <<wg, parent, dep, checkedAndNotSampled>>

\* Reset of c reaches the root of c's chain of parents.
Reset(c) ==
    \E r \in Roots(c) :
        /\ ~Locked(r)
        /\ done' = [done EXCEPT ![r] = FALSE]
        /\ finalizeables' = [finalizeables EXCEPT ![r] = <<>>]
        /\ goCtx' = [goCtx EXCEPT ![r] = "nil"]
        /\ checkedAndNotSampled' = [checkedAndNotSampled EXCEPT ![r] = FALSE]
        /\ UNCHANGED <<wg, parent, dep>>

\* returnToPool: nothing for a context without a pool, else Reset and Put.
ReturnReset(g) ==
    /\ pc[g] = "reset"
    /\ IF cur[g] \in Pooled
       THEN Reset(cur[g]) /\ pc' = [pc EXCEPT ![g] = "put"]
       ELSE UNCHANGED ctxVars /\ pc' = [pc EXCEPT ![g] = "returned"]
    /\ UNCHANGED <<poolVars, cur, mode, items, up, history>>

\* Put drops the context when the channel is full.
ReturnPut(g) ==
    /\ pc[g] = "put"
    /\ free' = IF Len(free) < PoolSize THEN Append(free, cur[g]) ELSE free
    /\ pc' = [pc EXCEPT ![g] = "returned"]
    /\ UNCHANGED <<ctxVars, fresh, owners, cur, mode, items, up, history>>

\* Close of cur returns, to the Close of the child that called it if any.
Returned(g) ==
    /\ pc[g] = "returned"
    /\ IF up[g] = <<>>
       THEN /\ pc' = [pc EXCEPT ![g] = "idle"]
            /\ cur' = [cur EXCEPT ![g] = NoCtx]
            /\ mode' = [mode EXCEPT ![g] = "async"]
            /\ UNCHANGED up
       ELSE /\ pc' = [pc EXCEPT ![g] = "reset"]
            /\ cur' = [cur EXCEPT ![g] = Last(up[g])]
            /\ up' = [up EXCEPT ![g] = Front(@)]
            /\ UNCHANGED mode
    /\ UNCHANGED <<ctxVars, poolVars, items, history>>

\* A client resets a context that is not pooled, after Close of it returned.
\* The finalizers of the life that ended may still wait or run: finalize works
\* on the slice that close has captured.
ClientReset(c) ==
    /\ Resets /\ c \notin Pooled /\ owners[c] > 0 /\ parent[c] = NoCtx /\ done[c]
    /\ \A g \in Goroutine : pc[g] \in {"enter", "mark", "capture"} => c \notin Roots(cur[g])
    /\ Reset(c)
    /\ UNCHANGED <<poolVars, procVars, history>>

-----------------------------------------------------------------------------
Client(c) ==
    \/ NewContext(c) \/ PoolGet(c) \/ StartTraceSpan(c) \/ ClientReset(c)
    \/ \E v \in GoCtx \ {"nil"} : SetGoContext(c, v)
    \/ \E x \in Res : RegisterFinalizer(c, x)
    \/ \E b \in Ctx : DependsOn(c, b)
    \/ \E g \in Goroutine, m \in {"async", "block"} : CloseCall(g, c, m)

Step(g) ==
    \/ Enter(g) \/ Mark(g) \/ CaptureNone(g) \/ Capture(g) \/ Wait(g) \/ Run(g)
    \/ ReturnReset(g) \/ ReturnPut(g) \/ Returned(g)

Next ==
    \/ \E c \in Ctx : Client(c) \/ DependsOnRegister(c)
    \/ \E g \in Goroutine : Step(g)

Spec == Init /\ [][Next]_vars

\* The Go scheduler runs every goroutine that can run; clients may stop.
FairSpec ==
    /\ Spec
    /\ \A g \in Goroutine : WF_vars(Step(g))
    /\ \A c \in Ctx : WF_vars(DependsOnRegister(c))

-----------------------------------------------------------------------------
(* Properties.                                                             *)

\* Entries equal to x in a slice of finalizeables, and in the slices of S.
Entries(x, s) == {i \in DOMAIN s : s[i] = x}
Places(x, slices, S) == UNION {{a} \X Entries(x, slices[a]) : a \in S}

\* Entries equal to x that some context or goroutine still has to finalize.
Pending(x) ==
    Cardinality(Places(x, finalizeables, Ctx)) + Cardinality(Places(x, items, Goroutine))

\* A finalizer that RegisterFinalizer or RegisterCloser accepted is waiting
\* in exactly one place or has been called exactly once: close, the capture
\* of the slice and Reset neither lose it nor call it again.
FinalizedExactlyOnce ==
    \A x \in Res : Pending(x) + runs[x] = IF x \in registered THEN 1 ELSE 0

\* DependsOn: no finalizer of a context is called while a context it depends
\* on has not yet called Finalize on it.
FinalizersWaitForBlockers ==
    \A g \in Goroutine : pc[g] = "run" => \A b \in Ctx : ~BlockedBy(cur[g], b)

\* g is in Close of c, or finalizes c, or is returning it to the pool.
Closing(g, c) == cur[g] = c /\ pc[g] \notin {"idle", "returned"}

InPool(c) == \E i \in DOMAIN free : free[i] = c

\* A pooled context has one holder at a time: the channel of free contexts
\* (once), one client, or one goroutine that closes and returns it.
OneHolder ==
    \A c \in Pooled :
        /\ \A i, j \in DOMAIN free : free[i] = c /\ free[j] = c => i = j
        /\ \A g, h \in Goroutine : Closing(g, c) /\ Closing(h, c) => g = h
        /\ owners[c] <= 1
        /\ owners[c] = 1 => ~InPool(c) /\ \A g \in Goroutine : ~Closing(g, c)
        /\ InPool(c) => \A g \in Goroutine : ~Closing(g, c)

\* Reset and Put: what Get takes from the pool is open and has no finalizers,
\* no Go context and no verdict of the tracer from its last use.  Its WaitGroup
\* is not reset, and need not be zero: Close without finalizers does not wait.
\* But it counts exactly the calls of Finalize that contexts which the last
\* user depended on will still make, so that the next user waits for those and
\* for no call that never comes.
FreshFromPool ==
    \A i \in DOMAIN free :
        LET c == free[i] IN
        /\ ~done[c] /\ finalizeables[c] = <<>>
        /\ goCtx[c] = "nil" /\ ~checkedAndNotSampled[c]
        /\ wg[c] = Pending(c)

\* Get: a context from the pool has no parent (types.go: "Reset will reset the
\* context for reuse").
NoParentFromPool == \A i \in DOMAIN free : parent[free[i]] = NoCtx

\* The goroutine in finalize on a closed context does not wait for ever,
\* unless a context it depends on, directly or not, stays open.
NoFinalizerStranded ==
    \A g \in Goroutine :
        []<>(\/ pc[g] # "wait"
             \/ \E b \in Ctx : /\ TransitiveClosure(WaitsFor, Ctx)[<<cur[g], b>>]
                             /\ ~done[b])

=============================================================================
