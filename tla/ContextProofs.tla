---------------------------- MODULE ContextProofs ----------------------------
(***************************************************************************)
(* Theorems about Context for any number of contexts, resources and        *)
(* goroutines and any size of the pool.                                    *)
(*                                                                         *)
(* That a pooled context has one holder and comes clean out of the pool is *)
(* proved while no span is sampled: a child closes its parent for it, and a *)
(* pooled child keeps its parent (see NoParentFromPool).  What is said of  *)
(* finalizers holds for families of contexts, too, if they are not pooled. *)
(***************************************************************************)
EXTENDS Context, SequenceTheorems, FiniteSetTheorems, FunctionTheorems, TLAPS

LEMMA RootsInCtx == ASSUME NEW c \in Ctx PROVE Roots(c) \subseteq Ctx
BY DEF Roots

-----------------------------------------------------------------------------
(* Type correctness.                                                       *)

LEMMA InitTypeOK == Init => TypeOK
<1> SUFFICES ASSUME Init PROVE TypeOK
    OBVIOUS
<1> USE ContextAssumption DEF Init
<1>1. free \in Seq(Pooled)
    <2>1. free \in [1 .. PoolSize -> Pooled] BY Zenon
    <2>2. PoolSize \in Nat OBVIOUS
    <2>3. \E n \in Nat : free \in [1 .. n -> Pooled] BY <2>1, <2>2, Zenon
    <2>4. free \in UNION {[1 .. n -> Pooled] : n \in Nat} BY <2>3, Zenon
    <2> QED BY <2>4, SeqDef, Zenon
<1>2. /\ done \in [Ctx -> BOOLEAN] /\ checkedAndNotSampled \in [Ctx -> BOOLEAN]
      /\ parent \in [Ctx -> Ctx \cup {NoCtx}] /\ dep \in [Ctx -> Ctx \cup {NoCtx}]
      /\ fresh \subseteq Ctx /\ registered \subseteq Res
      /\ cur \in [Goroutine -> Ctx \cup {NoCtx}]
    BY Zenon
<1>3. /\ goCtx \in [Ctx -> GoCtx] /\ pc \in [Goroutine -> PC]
      /\ mode \in [Goroutine -> {"async", "block"}]
      /\ \A g \in Goroutine : pc[g] = "idle"
    BY DEF GoCtx, PC
<1>4. wg \in [Ctx -> Int] /\ owners \in [Ctx -> Nat] /\ runs \in [Res -> Nat]
    OBVIOUS
<1>5. /\ finalizeables \in [Ctx -> Seq(Res \cup Ctx)]
      /\ items \in [Goroutine -> Seq(Res \cup Ctx)] /\ up \in [Goroutine -> Seq(Ctx)]
    OBVIOUS
<1>6. \A g \in Goroutine : pc[g] # "idle" => cur[g] \in Ctx
    BY <1>3
<1>7. \A g \in Goroutine : pc[g] = "put" => cur[g] \in Pooled
    BY <1>3
<1> QED BY <1>1, <1>2, <1>3, <1>4, <1>5, <1>6, <1>7
    DEF TypeOK, CtxTypeOK, PoolTypeOK, ProcTypeOK, HistoryTypeOK

\* Parts of the state that an action leaves alone keep their types.
LEMMA UnchangedTypeOK ==
    /\ CtxTypeOK /\ UNCHANGED ctxVars => CtxTypeOK'
    /\ PoolTypeOK /\ UNCHANGED poolVars => PoolTypeOK'
    /\ ProcTypeOK /\ UNCHANGED procVars => ProcTypeOK'
    /\ HistoryTypeOK /\ UNCHANGED history => HistoryTypeOK'
<1>1. CtxTypeOK /\ UNCHANGED ctxVars => CtxTypeOK' BY DEF CtxTypeOK, ctxVars
<1>2. PoolTypeOK /\ UNCHANGED poolVars => PoolTypeOK' BY DEF PoolTypeOK, poolVars
<1>3. ProcTypeOK /\ UNCHANGED procVars => ProcTypeOK' BY DEF ProcTypeOK, procVars
<1>4. HistoryTypeOK /\ UNCHANGED history => HistoryTypeOK' BY DEF HistoryTypeOK, history
<1> QED BY <1>1, <1>2, <1>3, <1>4

LEMMA ObtainTypeOK ==
    ASSUME PoolTypeOK, NEW c \in Ctx, Taken(c) \/ Allocated(c)
    PROVE  PoolTypeOK'
<1>1. owners' \in [Ctx -> Nat] BY DEF PoolTypeOK, Taken, Allocated
<1>2. fresh' \subseteq Ctx BY DEF PoolTypeOK, Taken, Allocated
<1>3. free # <<>> => Tail(free) \in Seq(Pooled)
    BY HeadTailProperties DEF PoolTypeOK
<1>4. free' \in Seq(Pooled) BY <1>3 DEF PoolTypeOK, Taken, Allocated
<1> QED BY <1>1, <1>2, <1>4 DEF PoolTypeOK

LEMMA RegisterTypeOK ==
    ASSUME CtxTypeOK, NEW r \in Ctx, NEW x \in Res \cup Ctx, Register(r, x)
    PROVE  finalizeables' \in [Ctx -> Seq(Res \cup Ctx)]
BY DEF CtxTypeOK, Register

LEMMA ResetTypeOK == ASSUME CtxTypeOK, NEW c \in Ctx, Reset(c) PROVE CtxTypeOK'
<1> PICK r \in Ctx :
        /\ done' = [done EXCEPT ![r] = FALSE]
        /\ finalizeables' = [finalizeables EXCEPT ![r] = <<>>]
        /\ goCtx' = [goCtx EXCEPT ![r] = "nil"]
        /\ checkedAndNotSampled' = [checkedAndNotSampled EXCEPT ![r] = FALSE]
        /\ UNCHANGED <<wg, parent, dep>>
    BY RootsInCtx, Zenon DEF Reset
<1>1. finalizeables' \in [Ctx -> Seq(Res \cup Ctx)] BY DEF CtxTypeOK
<1> QED BY <1>1 DEF CtxTypeOK, GoCtx

LEMMA ClientTypeOK == ASSUME TypeOK, NEW c \in Ctx, Client(c) PROVE TypeOK'
<1> USE ContextAssumption DEF TypeOK
<1>1. CASE NewContext(c)
    BY <1>1, ObtainTypeOK, UnchangedTypeOK DEF NewContext
<1>2. CASE PoolGet(c)
    BY <1>2, ObtainTypeOK, UnchangedTypeOK DEF PoolGet
<1>3. CASE StartTraceSpan(c)
    <2>1. ASSUME NEW k \in Ctx, newChildContext(c, k) PROVE CtxTypeOK' /\ PoolTypeOK'
        <3>1. CtxTypeOK' BY <2>1 DEF newChildContext, CtxTypeOK, GoCtx
        <3>2. PoolTypeOK' BY <2>1, ObtainTypeOK DEF newChildContext
        <3> QED BY <3>1, <3>2
    <2>2. ASSUME checkedAndNotSampled' = [checkedAndNotSampled EXCEPT ![c] = TRUE],
                 UNCHANGED <<done, wg, finalizeables, parent, goCtx, dep, poolVars>>
          PROVE  CtxTypeOK' /\ PoolTypeOK'
        BY <2>2, UnchangedTypeOK DEF CtxTypeOK
    <2> QED BY <1>3, <2>1, <2>2, UnchangedTypeOK DEF StartTraceSpan
<1>4. CASE ClientReset(c)
    BY <1>4, ResetTypeOK, UnchangedTypeOK DEF ClientReset
<1>5. ASSUME NEW v \in GoCtx \ {"nil"}, SetGoContext(c, v) PROVE TypeOK'
    <2>1. CtxTypeOK' BY <1>5 DEF SetGoContext, CtxTypeOK
    <2> QED BY <1>5, <2>1, UnchangedTypeOK DEF SetGoContext
<1>6. ASSUME NEW x \in Res, RegisterFinalizer(c, x) PROVE TypeOK'
    <2>1. finalizeables' \in [Ctx -> Seq(Res \cup Ctx)]
        BY <1>6, RootsInCtx, RegisterTypeOK DEF RegisterFinalizer
    <2>2. CtxTypeOK' BY <1>6, <2>1 DEF RegisterFinalizer, CtxTypeOK
    <2>3. HistoryTypeOK' BY <1>6 DEF RegisterFinalizer, HistoryTypeOK
    <2> QED BY <1>6, <2>2, <2>3, UnchangedTypeOK DEF RegisterFinalizer
<1>7. ASSUME NEW b \in Ctx, DependsOn(c, b) PROVE TypeOK'
    <2>1. PICK r \in Ctx : wg' = [wg EXCEPT ![r] = @ + 1] /\ dep' = [dep EXCEPT ![r] = b]
        BY <1>7, RootsInCtx DEF DependsOn
    <2>2. UNCHANGED <<done, finalizeables, parent, goCtx, checkedAndNotSampled,
                      poolVars, procVars, history>>
        BY <1>7 DEF DependsOn
    <2>3. CtxTypeOK' BY <2>1, <2>2 DEF CtxTypeOK
    <2> QED BY <2>2, <2>3, UnchangedTypeOK
<1>8. ASSUME NEW g \in Goroutine, NEW m \in {"async", "block"}, CloseCall(g, c, m)
      PROVE  TypeOK'
    <2>1. PoolTypeOK' BY <1>8 DEF CloseCall, PoolTypeOK
    <2>2. ProcTypeOK' BY <1>8 DEF CloseCall, ProcTypeOK, PC
    <2> QED BY <1>8, <2>1, <2>2, UnchangedTypeOK DEF CloseCall
<1> QED BY <1>1, <1>2, <1>3, <1>4, <1>5, <1>6, <1>7, <1>8 DEF Client

LEMMA StepTypeOK == ASSUME TypeOK, NEW g \in Goroutine, Step(g) PROVE TypeOK'
<1> USE ContextAssumption DEF TypeOK
<1>1. CASE Enter(g)
    <2>1. ProcTypeOK'
        <3>1. cur[g] \in Ctx BY <1>1 DEF Enter, ProcTypeOK
        <3>2. parent[cur[g]] # NoCtx => parent[cur[g]] \in Ctx BY <3>1 DEF CtxTypeOK
        <3>3. up' \in [Goroutine -> Seq(Ctx)]
            <4>1. Append(up[g], cur[g]) \in Seq(Ctx) BY <3>1 DEF ProcTypeOK
            <4>2. up' = up \/ up' = [up EXCEPT ![g] = Append(@, cur[g])] BY <1>1 DEF Enter
            <4> QED BY <4>1, <4>2 DEF ProcTypeOK
        <3>4. /\ pc' \in [Goroutine -> PC] /\ cur' \in [Goroutine -> Ctx \cup {NoCtx}]
              /\ \A h \in Goroutine : pc'[h] # "idle" => cur'[h] \in Ctx
              /\ \A h \in Goroutine : pc'[h] = "put" => cur'[h] \in Pooled
            BY <1>1, <3>1, <3>2 DEF Enter, ProcTypeOK, PC
        <3> QED BY <1>1, <3>3, <3>4 DEF Enter, ProcTypeOK
    <2> QED BY <1>1, <2>1, UnchangedTypeOK DEF Enter
<1>2. CASE Mark(g)
    <2>1. CtxTypeOK' BY <1>2 DEF Mark, CtxTypeOK
    <2>2. ProcTypeOK' BY <1>2 DEF Mark, ProcTypeOK, PC
    <2> QED BY <1>2, <2>1, <2>2, UnchangedTypeOK DEF Mark
<1>3. CASE CaptureNone(g)
    <2>1. ProcTypeOK' BY <1>3 DEF CaptureNone, ProcTypeOK, PC
    <2> QED BY <1>3, <2>1, UnchangedTypeOK DEF CaptureNone
<1>4. CASE Capture(g)
    <2>1. cur[g] \in Ctx BY <1>4 DEF Capture, ProcTypeOK
    <2>2. finalizeables' \in [Ctx -> Seq(Res \cup Ctx)] BY <1>4, <2>1 DEF Capture, CtxTypeOK
    <2>3. CtxTypeOK' BY <1>4, <2>2 DEF Capture, CtxTypeOK
    <2>4. ProcTypeOK'
        <3>1. PICK h \in Goroutine :
                /\ pc' = [pc EXCEPT ![g] = "returned", ![h] = "wait"]
                /\ cur' = [cur EXCEPT ![h] = cur[g]]
                /\ mode' = [mode EXCEPT ![h] = mode[g]]
                /\ items' = [items EXCEPT ![h] = finalizeables[cur[g]]]
            BY <1>4 DEF Capture
        <3>2. items' \in [Goroutine -> Seq(Res \cup Ctx)]
            BY <2>1, <3>1 DEF ProcTypeOK, CtxTypeOK
        <3>3. mode' \in [Goroutine -> {"async", "block"}] BY <3>1 DEF ProcTypeOK
        <3>4. /\ pc' \in [Goroutine -> PC] /\ cur' \in [Goroutine -> Ctx \cup {NoCtx}]
              /\ \A k \in Goroutine : pc'[k] # "idle" => cur'[k] \in Ctx
              /\ \A k \in Goroutine : pc'[k] = "put" => cur'[k] \in Pooled
            BY <1>4, <2>1, <3>1 DEF Capture, ProcTypeOK, PC
        <3> QED BY <1>4, <3>2, <3>3, <3>4 DEF Capture, ProcTypeOK
    <2> QED BY <1>4, <2>3, <2>4, UnchangedTypeOK DEF Capture
<1>5. CASE Wait(g)
    <2>1. ProcTypeOK' BY <1>5 DEF Wait, ProcTypeOK, PC
    <2> QED BY <1>5, <2>1, UnchangedTypeOK DEF Wait
<1>6. CASE Run(g)
    <2> DEFINE x == Head(items[g])
    <2>1. x \in Res \cup Ctx BY <1>6 DEF Run, ProcTypeOK
    <2>2. CtxTypeOK' BY <1>6, <2>1 DEF Run, CtxTypeOK
    <2>3. HistoryTypeOK' BY <1>6, <2>1 DEF Run, HistoryTypeOK
    <2>4. items' \in [Goroutine -> Seq(Res \cup Ctx)] BY <1>6 DEF Run, ProcTypeOK
    <2>5. ProcTypeOK' BY <1>6, <2>4 DEF Run, ProcTypeOK, PC
    <2> QED BY <1>6, <2>2, <2>3, <2>5, UnchangedTypeOK DEF Run
<1>7. CASE ReturnReset(g)
    <2>1. cur[g] \in Ctx BY <1>7 DEF ReturnReset, ProcTypeOK
    <2>2. CtxTypeOK' BY <1>7, <2>1, ResetTypeOK, UnchangedTypeOK DEF ReturnReset
    <2>3. ProcTypeOK' BY <1>7 DEF ReturnReset, ProcTypeOK, PC
    <2> QED BY <1>7, <2>2, <2>3, UnchangedTypeOK DEF ReturnReset
<1>8. CASE ReturnPut(g)
    <2>1. cur[g] \in Pooled BY <1>8 DEF ReturnPut, ProcTypeOK
    <2>2. PoolTypeOK' BY <1>8, <2>1 DEF ReturnPut, PoolTypeOK
    <2>3. ProcTypeOK' BY <1>8 DEF ReturnPut, ProcTypeOK, PC
    <2> QED BY <1>8, <2>2, <2>3, UnchangedTypeOK DEF ReturnPut
<1>9. CASE Returned(g)
    <2>1. ASSUME up[g] # <<>>
          PROVE  Last(up[g]) \in Ctx /\ Front(up[g]) \in Seq(Ctx)
        BY <2>1 DEF ProcTypeOK, Last, Front
    <2>2. ProcTypeOK'
        <3>1. CASE up[g] = <<>>
            <4>1. /\ pc' = [pc EXCEPT ![g] = "idle"] /\ cur' = [cur EXCEPT ![g] = NoCtx]
                  /\ mode' = [mode EXCEPT ![g] = "async"] /\ UNCHANGED <<up, items>>
                BY <1>9, <3>1 DEF Returned
            <4> QED BY <4>1 DEF ProcTypeOK, PC
        <3>2. CASE up[g] # <<>>
            <4>1. PICK l \in Ctx, f \in Seq(Ctx) : l = Last(up[g]) /\ f = Front(up[g]) BY <2>1, <3>2
            <4>2. /\ pc' = [pc EXCEPT ![g] = "reset"] /\ cur' = [cur EXCEPT ![g] = l]
                  /\ up' = [up EXCEPT ![g] = f] /\ UNCHANGED <<mode, items>>
                BY <1>9, <3>2, <4>1 DEF Returned
            <4> QED BY <4>1, <4>2 DEF ProcTypeOK, PC
        <3> QED BY <3>1, <3>2
    <2> QED BY <1>9, <2>2, UnchangedTypeOK DEF Returned
<1> QED BY <1>1, <1>2, <1>3, <1>4, <1>5, <1>6, <1>7, <1>8, <1>9 DEF Step

LEMMA NextTypeOK == TypeOK /\ [Next]_vars => TypeOK'
<1> SUFFICES ASSUME TypeOK, [Next]_vars PROVE TypeOK'
    OBVIOUS
<1>1. ASSUME NEW c \in Ctx, DependsOnRegister(c) PROVE TypeOK'
    <2>1. dep[c] \in Ctx BY <1>1 DEF DependsOnRegister, Locked, TypeOK, CtxTypeOK
    <2>2. finalizeables' \in [Ctx -> Seq(Res \cup Ctx)]
        BY <1>1, <2>1, RootsInCtx, RegisterTypeOK DEF DependsOnRegister, TypeOK
    <2>3. CtxTypeOK' BY <1>1, <2>2 DEF DependsOnRegister, TypeOK, CtxTypeOK
    <2> QED BY <1>1, <2>3, UnchangedTypeOK DEF DependsOnRegister, TypeOK
<1>2. CASE UNCHANGED vars
    BY <1>2, UnchangedTypeOK DEF TypeOK, vars
<1> QED BY <1>1, <1>2, ClientTypeOK, StepTypeOK DEF Next

\* Every operation of the context package, of its pool and of the goroutines
\* inside Close keeps the types: no step works on a nil context, and what is
\* returned to the pool belongs to it.
THEOREM TypeCorrect == Spec => []TypeOK
BY InitTypeOK, NextTypeOK, PTL DEF Spec

-----------------------------------------------------------------------------
(* Pooled contexts, while no span is sampled.                              *)

\* No context has a parent, so a call on a context stays at it and no Close
\* is nested in another.
NoParents ==
    /\ \A c \in Ctx : parent[c] = NoCtx
    /\ \A g \in Goroutine : up[g] = <<>>

\* A context that the pool has not allocated has no holder.
FreshUnheld ==
    \A c \in fresh : owners[c] = 0 /\ ~InPool(c) /\ \A g \in Goroutine : ~Closing(g, c)

\* A careful client keeps the blocker of a DependsOn call, and keeps it open.
BlockerOpen ==
    \A c \in Ctx : Locked(c) =>
        /\ owners[dep[c]] > 0 /\ ~done[dep[c]]
        /\ \A g \in Goroutine : cur[g] = dep[c] => pc[g] \notin {"enter", "mark"}

HolderInv == TypeOK /\ NoParents /\ OneHolder /\ FreshUnheld

\* Reset has been applied to c, and no DependsOn of c is under way.
Clean(c) ==
    /\ ~done[c] /\ finalizeables[c] = <<>> /\ goCtx[c] = "nil" /\ ~checkedAndNotSampled[c]
    /\ ~Locked(c)

\* c is in the channel, or between its Reset and its Put.
Returning(c) == InPool(c) \/ \E g \in Goroutine : pc[g] = "put" /\ cur[g] = c

ReturningClean == \A c \in Pooled : Returning(c) => Clean(c)

PoolInv == HolderInv /\ BlockerOpen /\ ReturningClean

LEMMA RootIsSelf == ASSUME NoParents, NEW c \in Ctx PROVE Roots(c) = {c}
BY DEF NoParents, Roots

\* The Reset of a context on its way to the pool stays at it, and leaves no
\* context done or unclean that was not.
LEMMA ReturnResetStep ==
    ASSUME TypeOK, NoParents, NEW g \in Goroutine, ReturnReset(g)
    PROVE  \A c \in Ctx : (done'[c] => done[c]) /\ (Clean(c) => Clean(c)')
<1> USE DEF TypeOK, CtxTypeOK, ProcTypeOK
<1>1. CASE cur[g] \notin Pooled
    <2>1. UNCHANGED ctxVars BY <1>1 DEF ReturnReset
    <2> QED BY <2>1 DEF ctxVars, Clean, Locked
<1>2. CASE cur[g] \in Pooled
    <2>1. PICK r \in Ctx : r = cur[g] /\ Roots(r) = {r} BY RootIsSelf DEF ReturnReset
    <2>2. /\ done' = [done EXCEPT ![r] = FALSE] /\ finalizeables' = [finalizeables EXCEPT ![r] = <<>>]
          /\ goCtx' = [goCtx EXCEPT ![r] = "nil"]
          /\ checkedAndNotSampled' = [checkedAndNotSampled EXCEPT ![r] = FALSE] /\ dep' = dep
        BY <1>2, <2>1, Zenon DEF ReturnReset, Reset
    <2> QED BY <2>1, <2>2 DEF Clean, Locked
<1> QED BY <1>1, <1>2

LEMMA HolderInit == Init => NoParents /\ OneHolder /\ FreshUnheld
<1> SUFFICES ASSUME Init PROVE NoParents /\ OneHolder /\ FreshUnheld
    OBVIOUS
<1>1. NoParents BY DEF Init, NoParents
<1>2. \A g \in Goroutine : pc[g] = "idle" BY DEF Init
<1>3. \A c \in Ctx : owners[c] = 0 BY DEF Init
<1>4. /\ DOMAIN free = 1 .. PoolSize
      /\ \A i, j \in DOMAIN free : free[i] = free[j] => i = j
      /\ fresh = Ctx \ {free[i] : i \in DOMAIN free}
    BY DEF Init
<1>5. OneHolder BY <1>2, <1>3, <1>4, ContextAssumption DEF OneHolder, Closing
<1>6. FreshUnheld BY <1>2, <1>3, <1>4 DEF FreshUnheld, Closing, InPool
<1> QED BY <1>1, <1>5, <1>6

\* Steps that leave the pool and the clients alone and add no holder.
LEMMA HoldersShrink ==
    ASSUME PoolTypeOK, OneHolder, FreshUnheld, UNCHANGED poolVars,
           \A g \in Goroutine, c \in Ctx : Closing(g, c)' => Closing(g, c)
    PROVE  OneHolder' /\ FreshUnheld'
<1>1. OneHolder' BY ContextAssumption DEF OneHolder, InPool, poolVars
<1>2. FreshUnheld' BY DEF PoolTypeOK, FreshUnheld, InPool, poolVars
<1> QED BY <1>1, <1>2

\* Get and NewContext hand out a context that nobody holds.
LEMMA ObtainHolder ==
    ASSUME TypeOK, OneHolder, FreshUnheld, NEW c \in Ctx,
           Taken(c) \/ Allocated(c), UNCHANGED procVars
    PROVE  OneHolder' /\ FreshUnheld'
<1> USE ContextAssumption DEF TypeOK, PoolTypeOK
<1>1. \A g \in Goroutine, d \in Ctx : Closing(g, d)' <=> Closing(g, d)
    BY DEF Closing, procVars
<1>2. CASE Allocated(c)
    <2>1. OneHolder' BY <1>1, <1>2 DEF Allocated, OneHolder, InPool
    <2>2. FreshUnheld' BY <1>1, <1>2 DEF Allocated, FreshUnheld, InPool
    <2> QED BY <2>1, <2>2
<1>3. CASE Taken(c) /\ free = <<>>
    <2>1. OneHolder' BY <1>1, <1>3 DEF Taken, OneHolder, FreshUnheld, InPool
    <2>2. FreshUnheld' BY <1>1, <1>3 DEF Taken, FreshUnheld, InPool
    <2> QED BY <2>1, <2>2
<1>4. CASE Taken(c) /\ free # <<>>
    <2>1. /\ c = free[1] /\ 1 \in DOMAIN free
          /\ \A i \in DOMAIN free' : i + 1 \in DOMAIN free /\ free'[i] = free[i + 1]
          /\ fresh' = fresh /\ owners' = [owners EXCEPT ![c] = @ + 1]
          /\ DOMAIN free \subseteq Int /\ DOMAIN free' \subseteq Nat \ {0}
        <3>1. /\ Len(free) \in Nat \ {0} /\ Len(Tail(free)) = Len(free) - 1
              /\ \A i \in 1 .. Len(Tail(free)) : Tail(free)[i] = free[i + 1]
              /\ Tail(free) \in Seq(Pooled)
            BY <1>4, HeadTailProperties, EmptySeq
        <3>2. DOMAIN free = 1 .. Len(free) /\ DOMAIN Tail(free) = 1 .. Len(free) - 1
            BY <3>1, LenProperties
        <3>3. free' = Tail(free) /\ c = Head(free) BY <1>4 DEF Taken
        <3>4. c = free[1] BY <3>1, <3>3
        <3>5. fresh' = fresh /\ owners' = [owners EXCEPT ![c] = @ + 1] BY <1>4 DEF Taken
        <3>6. /\ 1 \in DOMAIN free /\ DOMAIN free \subseteq Int
              /\ DOMAIN Tail(free) \subseteq Nat \ {0}
              /\ \A i \in DOMAIN Tail(free) : i + 1 \in DOMAIN free
            BY <3>1, <3>2
        <3>7. \A i \in DOMAIN Tail(free) : Tail(free)[i] = free[i + 1]
            BY <3>1, <3>2
        <3> QED BY <3>3, <3>4, <3>5, <3>6, <3>7
    <2>2. \A d \in Ctx : InPool(d)' => InPool(d) BY <2>1 DEF InPool
    <2>3. ~InPool(c)'
        <3>1. \A i \in DOMAIN free' : free'[i] # c
            BY <1>4, <2>1 DEF OneHolder, Taken
        <3> QED BY <3>1 DEF InPool
    <2>4. InPool(c) /\ owners[c] = 0 /\ \A g \in Goroutine : ~Closing(g, c)
        BY <1>4, <2>1 DEF InPool, OneHolder, Taken
    <2>5. ASSUME NEW d \in Pooled PROVE
            /\ \A i, j \in DOMAIN free' : free'[i] = d /\ free'[j] = d => i = j
            /\ owners'[d] <= 1
            /\ owners'[d] = 1 => ~InPool(d)' /\ \A g \in Goroutine : ~Closing(g, d)'
            /\ InPool(d)' => \A g \in Goroutine : ~Closing(g, d)'
        <3>1. \A i, j \in DOMAIN free' : free'[i] = d /\ free'[j] = d => i = j
            BY <2>1 DEF OneHolder
        <3>2. owners'[d] = IF d = c THEN 1 ELSE owners[d] BY <2>1, <2>4
        <3> QED BY <1>1, <2>2, <2>3, <2>4, <3>1, <3>2 DEF OneHolder
    <2>6. OneHolder' BY <1>1, <2>5 DEF OneHolder
    <2>7. FreshUnheld' BY <1>1, <2>1, <2>2, <2>4 DEF FreshUnheld
    <2> QED BY <2>6, <2>7
<1> QED BY <1>2, <1>3, <1>4

\* Close takes a pooled context over from its client.
LEMMA CloseCallHolder ==
    ASSUME TypeOK, OneHolder, FreshUnheld,
           NEW g \in Goroutine, NEW c \in Ctx, NEW m, CloseCall(g, c, m)
    PROVE  OneHolder' /\ FreshUnheld'
<1> USE ContextAssumption DEF TypeOK, PoolTypeOK, ProcTypeOK
<1>1. /\ free' = free /\ fresh' = fresh /\ owners[c] > 0 /\ ~Closing(g, c)
      /\ \A d \in Ctx : owners'[d] = IF d = c /\ c \in Pooled THEN owners[d] - 1 ELSE owners[d]
    BY DEF CloseCall, Closing
<1>2. \A h \in Goroutine, d \in Ctx :
        Closing(h, d)' <=> IF h = g THEN d = c ELSE Closing(h, d)
    BY DEF CloseCall, Closing
<1>3. OneHolder' BY <1>1, <1>2, SMTT(40) DEF OneHolder, InPool
<1>4. FreshUnheld' BY <1>1, <1>2 DEF FreshUnheld, InPool
<1> QED BY <1>3, <1>4

\* Put hands the context over from the closing goroutine to the channel.
LEMMA ReturnPutHolder ==
    ASSUME TypeOK, OneHolder, FreshUnheld, NEW g \in Goroutine, ReturnPut(g)
    PROVE  OneHolder' /\ FreshUnheld'
<1> USE ContextAssumption DEF TypeOK, PoolTypeOK, ProcTypeOK
<1> DEFINE c == cur[g]
<1>1. c \in Pooled /\ Closing(g, c) BY DEF ReturnPut, Closing
<1>2. \A h \in Goroutine, d \in Ctx : Closing(h, d)' <=> h # g /\ Closing(h, d)
    BY DEF ReturnPut, Closing
<1>3. owners' = owners /\ fresh' = fresh BY DEF ReturnPut
<1>4. owners[c] = 0 /\ ~InPool(c) /\ c \notin fresh
    BY <1>1 DEF OneHolder, FreshUnheld
<1>5. CASE free' = free
    <2>1. OneHolder' BY <1>2, <1>3, <1>5 DEF OneHolder, InPool
    <2>2. FreshUnheld' BY <1>2, <1>3, <1>5 DEF FreshUnheld, InPool
    <2> QED BY <2>1, <2>2
<1>6. CASE free' = Append(free, c)
    <2>1. /\ DOMAIN free' = DOMAIN free \cup {Len(free) + 1}
          /\ \A i \in DOMAIN free : free'[i] = free[i] /\ i # Len(free) + 1
          /\ free'[Len(free) + 1] = c
        <3> PICK f \in Seq(Pooled) : f = free OBVIOUS
        <3> PICK d \in Pooled : d = c BY <1>1
        <3> HIDE DEF c, TypeOK, PoolTypeOK, ProcTypeOK
        <3>1. free' = Append(f, d) /\ Len(f) \in Nat BY <1>6
        <3> QED BY <3>1
    <2>2. \A d \in Ctx : InPool(d)' <=> InPool(d) \/ d = c BY <2>1 DEF InPool
    <2>3. ASSUME NEW d \in Pooled, NEW i \in DOMAIN free', NEW j \in DOMAIN free',
                 free'[i] = d, free'[j] = d
          PROVE  i = j
        <3>1. CASE d = c BY <1>4, <2>1, <2>3, <3>1 DEF InPool
        <3>2. CASE d # c BY <2>1, <2>3, <3>2 DEF OneHolder
        <3> QED BY <3>1, <3>2
    <2>4. OneHolder' BY <1>1, <1>2, <1>3, <1>4, <2>2, <2>3 DEF OneHolder
    <2>5. FreshUnheld' BY <1>2, <1>3, <1>4, <2>2 DEF FreshUnheld
    <2> QED BY <2>4, <2>5
<1> QED BY <1>5, <1>6 DEF ReturnPut

\* Without sampled spans, what clients trace with changes only what they trace.
LEMMA TracedStep ==
    ASSUME ~Sampled, TypeOK, NEW c \in Ctx, StartTraceSpan(c) \/ \E v \in GoCtx \ {"nil"} : SetGoContext(c, v)
    PROVE  /\ owners[c] > 0
           /\ UNCHANGED <<done, wg, finalizeables, parent, dep, poolVars, procVars, history>>
           /\ \A d \in Ctx : d # c => /\ goCtx'[d] = goCtx[d]
                                      /\ checkedAndNotSampled'[d] = checkedAndNotSampled[d]
<1>1. ASSUME NEW v, SetGoContext(c, v)
      PROVE  /\ owners[c] > 0 /\ goCtx' = [goCtx EXCEPT ![c] = v]
             /\ UNCHANGED <<done, wg, finalizeables, parent, checkedAndNotSampled, dep,
                            poolVars, procVars, history>>
    BY <1>1 DEF SetGoContext
<1>2. ASSUME StartTraceSpan(c)
      PROVE  /\ owners[c] > 0 /\ checkedAndNotSampled' = [checkedAndNotSampled EXCEPT ![c] = TRUE]
             /\ UNCHANGED <<done, wg, finalizeables, parent, goCtx, dep,
                            poolVars, procVars, history>>
    BY <1>2 DEF StartTraceSpan
<1> HIDE DEF poolVars, procVars, history
<1>3. CASE StartTraceSpan(c) BY <1>2, <1>3 DEF TypeOK, CtxTypeOK
<1>4. CASE \E v \in GoCtx \ {"nil"} : SetGoContext(c, v)
    BY <1>1, <1>4 DEF TypeOK, CtxTypeOK
<1> QED BY <1>3, <1>4

\* No step creates a parent or a nested Close.
LEMMA NoParentsStep == ASSUME ~Sampled, TypeOK, NoParents, [Next]_vars PROVE NoParents'
<1> USE ContextAssumption DEF NoParents
<1>1. \A c \in Ctx : Reset(c) => parent' = parent
    BY DEF Reset
<1>2. ASSUME NEW c \in Ctx, Client(c) PROVE NoParents'
    <2>1. CASE ClientReset(c) BY <2>1, <1>1 DEF ClientReset, procVars
    <2>2. CASE StartTraceSpan(c) \/ \E v \in GoCtx \ {"nil"} : SetGoContext(c, v)
        BY <2>2, TracedStep DEF procVars
    <2>3. CASE ~ClientReset(c) /\ ~StartTraceSpan(c) /\ ~\E v \in GoCtx \ {"nil"} : SetGoContext(c, v)
        BY <1>2, <2>3 DEF Client, NewContext, PoolGet,
           RegisterFinalizer, DependsOn, CloseCall, ctxVars, procVars
    <2> QED BY <2>1, <2>2, <2>3
<1>3. ASSUME NEW c \in Ctx, DependsOnRegister(c) PROVE NoParents'
    BY <1>3 DEF DependsOnRegister, procVars
<1>4. ASSUME NEW g \in Goroutine, Step(g) PROVE NoParents'
    <2>1. CASE Enter(g)
        <3>1. parent[cur[g]] = NoCtx BY <2>1 DEF Enter, TypeOK, ProcTypeOK
        <3> QED BY <2>1, <3>1 DEF Enter, ctxVars
    <2>2. CASE ReturnReset(g)
        <3>1. cur[g] \in Ctx BY <2>2 DEF ReturnReset, TypeOK, ProcTypeOK
        <3> QED BY <2>2, <3>1, <1>1 DEF ReturnReset, ctxVars
    <2>3. CASE Returned(g) BY <2>3 DEF Returned, ctxVars
    <2>4. CASE ~Enter(g) /\ ~ReturnReset(g) /\ ~Returned(g)
        BY <1>4, <2>4 DEF Step, Mark, CaptureNone, Capture, Wait, Run, ReturnPut, ctxVars
    <2> QED BY <2>1, <2>2, <2>3, <2>4
<1>5. CASE UNCHANGED vars BY <1>5 DEF vars, ctxVars, procVars
<1> QED BY <1>2, <1>3, <1>4, <1>5 DEF Next

LEMMA HolderStep ==
    ASSUME ~Sampled, HolderInv, [Next]_vars PROVE OneHolder' /\ FreshUnheld'
<1> USE DEF HolderInv
<1>1. ASSUME UNCHANGED <<poolVars, procVars>> PROVE OneHolder' /\ FreshUnheld'
    <2>1. \A g \in Goroutine, c \in Ctx : Closing(g, c)' => Closing(g, c)
        BY <1>1 DEF Closing, procVars
    <2> QED BY <1>1, <2>1, HoldersShrink DEF TypeOK
<1>2. ASSUME NEW c \in Ctx, Client(c) PROVE OneHolder' /\ FreshUnheld'
    <2>1. CASE NewContext(c) BY <2>1, ObtainHolder DEF NewContext
    <2>2. CASE PoolGet(c) BY <2>2, ObtainHolder DEF PoolGet
    <2>3. ASSUME NEW g \in Goroutine, NEW m \in {"async", "block"}, CloseCall(g, c, m)
          PROVE  OneHolder' /\ FreshUnheld'
        BY <2>3, CloseCallHolder
    <2>4. CASE ClientReset(c) \/ \E x \in Res : RegisterFinalizer(c, x)
        BY <2>4, <1>1 DEF ClientReset, RegisterFinalizer
    <2>5. CASE \E b \in Ctx : DependsOn(c, b)
        BY <2>5, <1>1 DEF DependsOn
    <2>6. CASE StartTraceSpan(c) \/ \E v \in GoCtx \ {"nil"} : SetGoContext(c, v)
        BY <2>6, <1>1, TracedStep
    <2> QED BY <1>2, <2>1, <2>2, <2>3, <2>4, <2>5, <2>6 DEF Client
<1>3. ASSUME NEW c \in Ctx, DependsOnRegister(c) PROVE OneHolder' /\ FreshUnheld'
    BY <1>1, <1>3 DEF DependsOnRegister
<1>4. ASSUME NEW g \in Goroutine, Step(g) PROVE OneHolder' /\ FreshUnheld'
    <2>1. CASE ReturnPut(g) BY <2>1, ReturnPutHolder
    <2>2. CASE ~ReturnPut(g)
        <3>1. UNCHANGED poolVars
            BY <1>4, <2>2 DEF Step, Enter, Mark, CaptureNone, Capture, Wait, Run, ReturnReset, Returned
        <3>2. ASSUME NEW h \in Goroutine, NEW c \in Ctx, Closing(h, c)' PROVE Closing(h, c)
            <4> USE <3>2 DEF Closing, TypeOK, ProcTypeOK
            <4>1. CASE Enter(g)
                <5>1. parent[cur[g]] = NoCtx BY <4>1 DEF Enter, NoParents
                <5> QED BY <4>1, <5>1 DEF Enter
            <4>2. CASE Capture(g)
                <5>1. /\ cur' = [cur EXCEPT ![g] = cur[g]] /\ pc[g] = "capture"
                      /\ pc' = [pc EXCEPT ![g] = "returned", ![g] = "wait"]
                    BY <4>2 DEF Capture, NoParents
                <5> QED BY <5>1
            <4>3. CASE Returned(g) BY <4>3 DEF Returned, NoParents
            <4>4. CASE Mark(g) \/ CaptureNone(g) \/ Wait(g)
                BY <4>4 DEF Mark, CaptureNone, Wait
            <4>5. CASE Run(g) \/ ReturnReset(g) BY <4>5 DEF Run, ReturnReset
            <4> QED BY <1>4, <2>2, <4>1, <4>2, <4>3, <4>4, <4>5 DEF Step
        <3> QED BY <3>1, <3>2, HoldersShrink DEF TypeOK
    <2> QED BY <2>1, <2>2
<1>5. CASE UNCHANGED vars BY <1>1, <1>5 DEF vars
<1> QED BY <1>2, <1>3, <1>4, <1>5 DEF Next

\* A pooled context has one holder at a time, the channel of free contexts,
\* a client or a goroutine in Close, whatever the number of contexts, the
\* size of the pool and the interleaving, as long as no span is sampled.
THEOREM PooledContextHasOneHolder == ~Sampled /\ Spec => []OneHolder
<1> SUFFICES ASSUME ~Sampled PROVE Spec => []OneHolder
    OBVIOUS
<1>1. Init => HolderInv BY InitTypeOK, HolderInit DEF HolderInv
<1>2. HolderInv /\ [Next]_vars => HolderInv'
    BY NextTypeOK, NoParentsStep, HolderStep DEF HolderInv
<1>3. HolderInv => OneHolder BY DEF HolderInv
<1> QED BY <1>1, <1>2, <1>3, PTL DEF Spec

\* The only ways to become ready for the pool are Reset and having been so.
LEMMA ReturningStep ==
    ASSUME ~Sampled, HolderInv, [Next]_vars, NEW c \in Pooled, Returning(c)'
    PROVE  \/ Returning(c)
           \/ \E g \in Goroutine : ReturnReset(g) /\ cur[g] = c
<1> USE ContextAssumption DEF HolderInv, TypeOK, PoolTypeOK, ProcTypeOK
<1>1. ASSUME UNCHANGED procVars, free' = free PROVE Returning(c)
    BY <1>1 DEF Returning, InPool, procVars
<1>2. ASSUME NEW d \in Ctx, Client(d) PROVE Returning(c)
    <2>1. CASE PoolGet(d)
        <3>1. \A i \in DOMAIN free' : \E j \in DOMAIN free : free'[i] = free[j]
            <4>1. CASE free # <<>>
                <5>1. free' = Tail(free) BY <2>1, <4>1 DEF PoolGet, Taken
                <5>2. /\ Tail(free) \in Seq(Pooled) /\ Len(Tail(free)) = Len(free) - 1
                      /\ \A i \in 1 .. Len(Tail(free)) : Tail(free)[i] = free[i + 1]
                    BY <4>1, HeadTailProperties
                <5>3. \A i \in 1 .. Len(free) - 1 : i + 1 \in 1 .. Len(free)
                    BY LenProperties
                <5>4. DOMAIN free = 1 .. Len(free) /\ DOMAIN Tail(free) = 1 .. Len(free) - 1
                    BY <5>2, LenProperties
                <5> QED BY <5>1, <5>2, <5>3, <5>4
            <4>2. CASE free = <<>> BY <2>1, <4>2 DEF PoolGet, Taken
            <4> QED BY <4>1, <4>2
        <3> QED BY <2>1, <3>1 DEF PoolGet, Returning, InPool, procVars
    <2>2. ASSUME NEW g \in Goroutine, NEW m \in {"async", "block"}, CloseCall(g, d, m)
          PROVE  Returning(c)
        BY <2>2 DEF CloseCall, Returning, InPool
    <2>3. CASE NewContext(d) \/ ClientReset(d) \/ \E x \in Res : RegisterFinalizer(d, x)
        BY <2>3, <1>1 DEF NewContext, Allocated, ClientReset, RegisterFinalizer, poolVars
    <2>4. CASE \E b \in Ctx : DependsOn(d, b)
        BY <2>4, <1>1 DEF DependsOn, poolVars
    <2>5. CASE StartTraceSpan(d) \/ \E v \in GoCtx \ {"nil"} : SetGoContext(d, v)
        BY <2>5, <1>1, TracedStep DEF poolVars
    <2> QED BY <1>2, <2>1, <2>2, <2>3, <2>4, <2>5 DEF Client
<1>3. ASSUME NEW d \in Ctx, DependsOnRegister(d) PROVE Returning(c)
    BY <1>1, <1>3 DEF DependsOnRegister, poolVars
<1>4. ASSUME NEW g \in Goroutine, Step(g)
      PROVE  Returning(c) \/ (ReturnReset(g) /\ cur[g] = c)
    <2>1. CASE ReturnPut(g)
        <3>1. \A i \in DOMAIN free' : free'[i] = cur[g] \/ \E j \in DOMAIN free : free'[i] = free[j]
            BY <2>1 DEF ReturnPut
        <3> QED BY <2>1, <3>1 DEF ReturnPut, Returning, InPool
    <2>2. CASE ReturnReset(g)
        BY <2>2 DEF ReturnReset, Returning, InPool, poolVars
    <2>3. CASE Enter(g) \/ Mark(g) \/ CaptureNone(g) \/ Wait(g)
        BY <2>3 DEF Enter, NoParents, Mark, CaptureNone, Wait, Returning, InPool, poolVars
    <2>4. CASE Capture(g) BY <2>4 DEF Capture, NoParents, Returning, InPool, poolVars
    <2>5. CASE Run(g) BY <2>5 DEF Run, Returning, InPool, poolVars
    <2>6. CASE Returned(g) BY <2>6 DEF Returned, NoParents, Returning, InPool, poolVars
    <2> QED BY <1>4, <2>1, <2>2, <2>3, <2>4, <2>5, <2>6 DEF Step
<1>5. CASE UNCHANGED vars BY <1>1, <1>5 DEF vars, poolVars
<1> QED BY <1>2, <1>3, <1>4, <1>5 DEF Next

\* The blocker of a DependsOn call stays held and open during the call.
LEMMA BlockerOpenStep ==
    ASSUME ~Sampled, ~LateDepends, HolderInv, BlockerOpen, [Next]_vars
    PROVE  BlockerOpen'
<1> USE ContextAssumption DEF HolderInv, TypeOK, CtxTypeOK, PoolTypeOK, ProcTypeOK, Locked
<1>0. owners' \in [Ctx -> Nat] BY NextTypeOK
<1>1. ASSUME dep' = dep, \A d \in Ctx : owners'[d] >= owners[d],
             \A d \in Ctx : done'[d] => done[d], pc' = pc, cur' = cur
      PROVE  BlockerOpen'
    BY <1>0, <1>1 DEF BlockerOpen
<1>2. ASSUME NEW c \in Ctx, Client(c) PROVE BlockerOpen'
    <2>1. CASE NewContext(c)
        BY <2>1, <1>1 DEF NewContext, Allocated, FreshUnheld, ctxVars, procVars
    <2>2. CASE PoolGet(c)
        BY <2>2, <1>1 DEF PoolGet, Taken, ctxVars, procVars
    <2>3. ASSUME NEW g \in Goroutine, NEW m, CloseCall(g, c, m) PROVE BlockerOpen'
        <3>1. \A d \in Ctx : Locked(d) => dep[d] # c
            BY <2>3, RootIsSelf DEF CloseCall, MayClose
        <3>2. /\ dep' = dep /\ done' = done /\ cur' = [cur EXCEPT ![g] = c]
              /\ pc' = [pc EXCEPT ![g] = "enter"] /\ \A d \in Ctx : d # c => owners'[d] = owners[d]
            BY <2>3 DEF CloseCall, ctxVars
        <3> QED BY <3>1, <3>2 DEF BlockerOpen
    <2>4. CASE ClientReset(c)
        <3>1. \A d \in Ctx : done'[d] => done[d] BY <2>4, RootIsSelf DEF ClientReset, Reset
        <3> QED BY <2>4, <3>1, <1>1 DEF ClientReset, Reset, poolVars, procVars
    <2>5. CASE \E x \in Res : RegisterFinalizer(c, x)
        BY <2>5, <1>1 DEF RegisterFinalizer, poolVars, procVars
    <2>6. ASSUME NEW b \in Ctx, DependsOn(c, b) PROVE BlockerOpen'
        <3>1. /\ dep' = [dep EXCEPT ![c] = b] /\ owners[b] > 0 /\ Open(b)
              /\ UNCHANGED <<done, owners, pc, cur>>
            <4>1. owners[b] > 0 /\ UNCHANGED <<done, poolVars, procVars>> BY <2>6 DEF DependsOn
            <4>2. Roots(c) = {c} /\ Roots(b) = {b} BY RootIsSelf
            <4>3. dep' = [dep EXCEPT ![c] = b] BY <2>6, <4>2 DEF DependsOn
            <4>4. Open(b)
                <5>1. \A r \in Roots(b) : Open(r) BY <2>6 DEF DependsOn
                <5> QED BY <4>2, <5>1
            <4> QED BY <4>1, <4>3, <4>4 DEF poolVars, procVars
        <3>2. ~done[b] /\ \A g \in Goroutine : cur[g] = b => pc[g] \notin {"enter", "mark"}
            BY <3>1, RootIsSelf DEF Open
        <3> QED BY <3>1, <3>2 DEF BlockerOpen
    <2>7. CASE StartTraceSpan(c) \/ \E v \in GoCtx \ {"nil"} : SetGoContext(c, v)
        BY <2>7, <1>1, TracedStep DEF poolVars, procVars
    <2> QED BY <1>2, <2>1, <2>2, <2>3, <2>4, <2>5, <2>6, <2>7 DEF Client
<1>3. ASSUME NEW c \in Ctx, DependsOnRegister(c) PROVE BlockerOpen'
    BY <1>3 DEF DependsOnRegister, poolVars, procVars, BlockerOpen
<1>4. ASSUME NEW g \in Goroutine, Step(g) PROVE BlockerOpen'
    <2>1. dep' = dep /\ owners' = owners
        BY <1>4 DEF Step, Enter, Mark, CaptureNone, Capture, Wait, Run, ReturnReset, Reset,
           ReturnPut, Returned, ctxVars, poolVars
    <2>2. \A c \in Ctx : done'[c] => done[c] \/ (pc[g] = "mark" /\ cur[g] = c)
        <3>1. CASE ReturnReset(g)
            BY <3>1, ReturnResetStep
        <3>2. CASE ~ReturnReset(g)
            BY <1>4, <3>2 DEF Step, Enter, Mark, CaptureNone, Capture, Wait, Run,
               ReturnPut, Returned, ctxVars
        <3> QED BY <3>1, <3>2
    <2>3. \A h \in Goroutine : pc'[h] \in {"enter", "mark"} =>
              pc[h] \in {"enter", "mark"} /\ cur'[h] = cur[h]
        <3>1. CASE Enter(g) BY <3>1 DEF Enter, NoParents
        <3>2. CASE Returned(g) BY <3>2 DEF Returned, NoParents
        <3>3. CASE Capture(g) BY <3>3 DEF Capture
        <3>4. CASE ~Enter(g) /\ ~Returned(g) /\ ~Capture(g)
            BY <1>4, <3>4 DEF Step, Mark, CaptureNone, Wait, Run, ReturnReset, ReturnPut
        <3> QED BY <3>1, <3>2, <3>3, <3>4
    <2>4. \A c \in Ctx : Locked(c) => dep[c] \in Ctx OBVIOUS
    <2> QED BY <2>1, <2>2, <2>3, <2>4 DEF BlockerOpen
<1>5. CASE UNCHANGED vars BY <1>5, <1>1 DEF vars, ctxVars, poolVars, procVars
<1> QED BY <1>2, <1>3, <1>4, <1>5 DEF Next

\* Nothing dirties a context that is ready for the pool: clients and blocked
\* contexts reach only contexts that a client holds, Close only its own.
LEMMA StaysClean ==
    ASSUME ~Sampled, ~LateDepends, PoolInv, [Next]_vars,
           NEW c \in Pooled, Returning(c)
    PROVE  Clean(c)'
<1> USE ContextAssumption DEF PoolInv, HolderInv, TypeOK, CtxTypeOK, PoolTypeOK, ProcTypeOK, Clean, Locked
<1>0. Clean(c) BY DEF ReturningClean
<1>1. owners[c] = 0 /\ \A g \in Goroutine : Closing(g, c) => pc[g] = "put"
    <2>1. owners[c] \in Nat /\ c \in Ctx OBVIOUS
    <2>2. CASE InPool(c) BY <2>1, <2>2 DEF OneHolder
    <2>3. ASSUME NEW g \in Goroutine, pc[g] = "put", cur[g] = c
          PROVE  owners[c] = 0 /\ \A h \in Goroutine : Closing(h, c) => pc[h] = "put"
        <3>1. Closing(g, c) BY <2>3 DEF Closing
        <3>2. owners[c] <= 1 /\ owners[c] # 1 BY <3>1, Zenon DEF OneHolder
        <3>3. \A h \in Goroutine : Closing(h, c) => h = g BY <3>1, Zenon DEF OneHolder
        <3>4. owners[c] = 0
            <4>1. PICK n : n = owners[c] OBVIOUS
            <4>2. n \in Nat /\ n <= 1 /\ n # 1 BY <2>1, <3>2, <4>1, Zenon
            <4> HIDE DEF PoolInv, HolderInv, TypeOK, CtxTypeOK, PoolTypeOK, ProcTypeOK, Clean, Locked
            <4>3. n = 0 BY <4>2
            <4> QED BY <4>1, <4>3, Zenon
        <3>5. \A h \in Goroutine : Closing(h, c) => pc[h] = "put" BY <2>3, <3>3, Zenon
        <3> QED BY <3>4, <3>5, Zenon
    <2> QED BY <2>2, <2>3 DEF Returning
<1>2. ASSUME NEW d \in Ctx, Client(d) PROVE Clean(c)'
    <2>1. CASE ClientReset(d) BY <1>0, <2>1, RootIsSelf DEF ClientReset, Reset
    <2>2. ASSUME NEW x \in Res, RegisterFinalizer(d, x) PROVE Clean(c)'
        BY <1>0, <2>2, <1>1, RootIsSelf DEF RegisterFinalizer, Register
    <2>3. CASE StartTraceSpan(d) \/ \E v \in GoCtx \ {"nil"} : SetGoContext(d, v)
        <3>1. d # c
            <4>1. owners[d] > 0 BY <2>3, TracedStep
            <4>2. ~(0 > 0) OBVIOUS
            <4> QED BY <1>1, <4>1, <4>2, Zenon
        <3>2. UNCHANGED <<done, finalizeables, dep>> BY <2>3, TracedStep
        <3>3. goCtx'[c] = goCtx[c] /\ checkedAndNotSampled'[c] = checkedAndNotSampled[c]
            <4>1. TypeOK OBVIOUS
            <4> HIDE DEF PoolInv, TypeOK, CtxTypeOK, PoolTypeOK, ProcTypeOK, Clean
            <4> QED BY <2>3, <3>1, <4>1, TracedStep, Zenon
        <3> QED BY <1>0, <3>2, <3>3
    <2>4. ASSUME NEW b \in Ctx, DependsOn(d, b) PROVE Clean(c)'
        <3>1. d # c /\ dep' = [dep EXCEPT ![d] = b]
            <4>1. owners[d] > 0 BY <2>4 DEF DependsOn
            <4>2. Roots(d) = {d} BY RootIsSelf
            <4>3. dep' = [dep EXCEPT ![d] = b] BY <2>4, <4>2 DEF DependsOn
            <4> QED BY <1>1, <4>1, <4>3
        <3> QED BY <1>0, <2>4, <3>1 DEF DependsOn
    <2>5. CASE NewContext(d) \/ PoolGet(d)
        BY <1>0, <2>5 DEF NewContext, PoolGet, ctxVars
    <2>6. ASSUME NEW g \in Goroutine, NEW m, CloseCall(g, d, m) PROVE Clean(c)'
        BY <1>0, <2>6 DEF CloseCall, ctxVars
    <2> QED BY <1>2, <2>1, <2>2, <2>3, <2>4, <2>5, <2>6 DEF Client
<1>3. ASSUME NEW d \in Ctx, DependsOnRegister(d) PROVE Clean(c)'
    <2>1. dep[d] \in Ctx /\ owners[dep[d]] > 0
        BY <1>3 DEF DependsOnRegister, BlockerOpen
    <2> QED BY <1>0, <1>1, <1>3, <2>1, RootIsSelf DEF DependsOnRegister, Register
<1>4. ASSUME NEW g \in Goroutine, Step(g) PROVE Clean(c)'
    <2>1. CASE Mark(g)
        <3>1. cur[g] # c BY <1>1, <2>1 DEF Mark, Closing
        <3> QED BY <1>0, <2>1, <3>1 DEF Mark
    <2>2. CASE Capture(g) BY <1>0, <2>2 DEF Capture
    <2>3. CASE ReturnReset(g)
        <3>1. Clean(c) => Clean(c)' BY <2>3, ReturnResetStep
        <3> QED BY <1>0, <3>1
    <2>4. CASE ~Mark(g) /\ ~Capture(g) /\ ~ReturnReset(g)
        <3>1. UNCHANGED <<done, finalizeables, goCtx, checkedAndNotSampled, dep>>
            BY <1>4, <2>4 DEF Step, Enter, CaptureNone, Wait, Run, ReturnPut, Returned, ctxVars
        <3> QED BY <1>0, <3>1
    <2> QED BY <1>4, <2>1, <2>2, <2>3, <2>4 DEF Step
<1>5. CASE UNCHANGED vars BY <1>0, <1>5 DEF vars, ctxVars
<1> QED BY <1>2, <1>3, <1>4, <1>5 DEF Next

LEMMA PoolStep == ASSUME ~Sampled, ~LateDepends, PoolInv, [Next]_vars PROVE PoolInv'
<1>1. HolderInv'
    BY NextTypeOK, NoParentsStep, HolderStep DEF HolderInv, PoolInv
<1>2. BlockerOpen' BY BlockerOpenStep DEF PoolInv
<1>3. ASSUME NEW c \in Pooled, Returning(c)' PROVE Clean(c)'
    <2>1. CASE Returning(c) BY <2>1, StaysClean
    <2>2. ASSUME NEW g \in Goroutine, ReturnReset(g), cur[g] = c PROVE Clean(c)'
        BY <2>2, RootIsSelf, ContextAssumption
           DEF ReturnReset, Reset, Clean, Locked, PoolInv, HolderInv, TypeOK, CtxTypeOK
    <2> QED BY <1>3, <2>1, <2>2, ReturningStep DEF PoolInv
<1>4. ReturningClean' BY <1>3 DEF ReturningClean
<1> QED BY <1>1, <1>2, <1>4 DEF PoolInv

-----------------------------------------------------------------------------
(* Counting the entries of slices.                                         *)

LEMMA EntriesFinite ==
    ASSUME NEW T, NEW s \in Seq(T), NEW x
    PROVE  /\ IsFiniteSet(Entries(x, s)) /\ Cardinality(Entries(x, s)) \in Nat
           /\ Entries(x, s) \subseteq 1 .. Len(s)
<1>1. Entries(x, s) \in SUBSET (1 .. Len(s)) BY DEF Entries
<1>2. IsFiniteSet(1 .. Len(s)) BY FS_Interval
<1> QED BY <1>1, <1>2, FS_Subset, FS_CardinalityType

LEMMA EntriesEmpty == ASSUME NEW x PROVE Entries(x, <<>>) = {} /\ Cardinality(Entries(x, <<>>)) = 0
<1>1. Entries(x, <<>>) = {} BY DEF Entries
<1> QED BY <1>1, FS_EmptySet

LEMMA EntriesAppend ==
    ASSUME NEW T, NEW s \in Seq(T), NEW y \in T, NEW x
    PROVE  Cardinality(Entries(x, Append(s, y)))
               = Cardinality(Entries(x, s)) + (IF x = y THEN 1 ELSE 0)
<1> DEFINE n == Len(s) + 1
<1>1. n \notin Entries(x, s) BY EntriesFinite
<1>2. IsFiniteSet(Entries(x, s)) /\ Cardinality(Entries(x, s)) \in Nat BY EntriesFinite
<1>3. /\ DOMAIN Append(s, y) = 1 .. n /\ DOMAIN s = 1 .. Len(s) /\ Append(s, y)[n] = y
      /\ \A i \in 1 .. Len(s) : Append(s, y)[i] = s[i]
      /\ 1 .. n = 1 .. Len(s) \cup {n}
    OBVIOUS
<1> HIDE DEF n
<1>4. CASE x = y
    <2>1. Entries(x, Append(s, y)) = Entries(x, s) \cup {n} BY <1>3, <1>4 DEF Entries
    <2> QED BY <1>1, <1>2, <1>4, <2>1, FS_AddElement
<1>5. CASE x # y
    <2>1. Entries(x, Append(s, y)) = Entries(x, s) BY <1>3, <1>5 DEF Entries
    <2> QED BY <1>2, <1>5, <2>1
<1> QED BY <1>4, <1>5

LEMMA EntriesTail ==
    ASSUME NEW T, NEW s \in Seq(T), s # <<>>, NEW x
    PROVE  Cardinality(Entries(x, Tail(s)))
               = Cardinality(Entries(x, s)) - (IF x = Head(s) THEN 1 ELSE 0)
<1> DEFINE E == Entries(x, s)  F == Entries(x, Tail(s))  f == [i \in F |-> i + 1]
<1>1. IsFiniteSet(E) /\ Cardinality(E) \in Nat /\ E \subseteq 1 .. Len(s) BY EntriesFinite
<1>2. Tail(s) \in Seq(T) BY HeadTailProperties
<1>3. IsFiniteSet(F) /\ Cardinality(F) \in Nat /\ F \subseteq 1 .. Len(Tail(s)) BY <1>2, EntriesFinite
<1>4. /\ Len(s) \in Nat /\ Len(Tail(s)) = Len(s) - 1 /\ DOMAIN s = 1 .. Len(s)
      /\ DOMAIN Tail(s) = 1 .. Len(s) - 1 /\ Head(s) = s[1] /\ Len(s) >= 1
      /\ \A i \in 1 .. Len(s) - 1 : Tail(s)[i] = s[i + 1]
    BY HeadTailProperties
<1>5. \A i \in F : i + 1 \in E \ {1} BY <1>4 DEF Entries
<1>6. \A j \in E \ {1} : j - 1 \in F
    <2> SUFFICES ASSUME NEW j \in E \ {1} PROVE j - 1 \in F
        OBVIOUS
    <2>1. j \in 1 .. Len(s) /\ s[j] = x BY <1>4 DEF Entries
    <2>2. j - 1 \in 1 .. Len(s) - 1 /\ (j - 1) + 1 = j BY <1>4, <2>1
    <2>3. Tail(s)[j - 1] = x BY <1>4, <2>1, <2>2
    <2> QED BY <1>4, <2>2, <2>3 DEF Entries
<1>7. 1 \in E <=> x = Head(s) BY <1>4 DEF Entries
<1>8. F \subseteq Int /\ E \subseteq Int BY <1>1, <1>3
<1> HIDE DEF E, F
<1>9. ExistsBijection(F, E \ {1})
    <2>1. f \in [F -> E \ {1}] BY <1>5
    <2>2. \A i, j \in F : f[i] = f[j] => i = j BY <1>8
    <2>3. \A j \in E \ {1} : \E i \in F : f[i] = j
        <3> SUFFICES ASSUME NEW j \in E \ {1} PROVE \E i \in F : f[i] = j
            OBVIOUS
        <3>1. j - 1 \in F /\ f[j - 1] = j BY <1>6, <1>8
        <3> QED BY <3>1
    <2> HIDE DEF f
    <2>4. f \in Bijection(F, E \ {1})
        BY <2>1, <2>2, <2>3, Zenon DEF Bijection, Injection, IsInjective, Surjection
    <2> QED BY <2>4 DEF ExistsBijection
<1>10. Cardinality(E \ {1}) = Cardinality(F) BY <1>3, <1>9, FS_Bijection
<1>11. Cardinality(E \ {1}) = IF 1 \in E THEN Cardinality(E) - 1 ELSE Cardinality(E)
    BY <1>1, FS_RemoveElement
<1>12. Cardinality(F) = Cardinality(E) - (IF x = Head(s) THEN 1 ELSE 0)
    BY <1>1, <1>7, <1>10, <1>11
<1> QED BY <1>12 DEF E, F

\* slices holds a slice of finalizeables for each element of S.
SlicesIn(slices, S) == \A a \in S : slices[a] \in Seq(Res \cup Ctx)

\* A step that replaced slices by new has touched only that of a.
SameBut(a, slices, new, S) == \A b \in S : b # a => new[b] = slices[b]

LEMMA PlacesFinite ==
    ASSUME NEW S, IsFiniteSet(S), NEW slices, SlicesIn(slices, S), NEW x
    PROVE  IsFiniteSet(Places(x, slices, S)) /\ Cardinality(Places(x, slices, S)) \in Nat
<1> DEFINE P(a) == {a} \X Entries(x, slices[a])
           f == [a \in S |-> P(a)]
           I == {P(a) : a \in S}
<1>1. f \in Surjection(S, I) BY DEF Surjection
<1>2. IsFiniteSet(I) BY <1>1, FS_Surjection
<1>3. \A a \in S : IsFiniteSet(P(a)) BY EntriesFinite, FS_Singleton, FS_Product DEF SlicesIn
<1>4. \A A \in I : IsFiniteSet(A) BY <1>3
<1>5. IsFiniteSet(UNION I) BY <1>2, <1>4, FS_UNION
<1> QED BY <1>5, FS_CardinalityType DEF Places

\* A slice of S that is replaced by another changes the number of places by
\* the difference of the two.
LEMMA PlacesUpdate ==
    ASSUME NEW S, IsFiniteSet(S), NEW x, NEW slices, SlicesIn(slices, S), NEW new, SlicesIn(new, S),
           NEW a \in S, SameBut(a, slices, new, S)
    PROVE  Cardinality(Places(x, new, S))
               = Cardinality(Places(x, slices, S)) - Cardinality(Entries(x, slices[a]))
                                                   + Cardinality(Entries(x, new[a]))
<1> DEFINE t == new[a]
           old == {a} \X Entries(x, slices[a])
           put == {a} \X Entries(x, t)
           rest == Places(x, slices, S \ {a})
<1>1. /\ t \in Seq(Res \cup Ctx) /\ slices[a] \in Seq(Res \cup Ctx)
      /\ SlicesIn(slices, S \ {a}) /\ \A b \in S \ {a} : new[b] = slices[b]
    BY DEF SlicesIn, SameBut
<1>2. Places(x, slices, S) = old \cup rest BY DEF Places
<1>3. Places(x, new, S) = put \cup rest
    <2>1. \A b \in S \ {a} : {b} \X Entries(x, new[b]) = {b} \X Entries(x, slices[b]) BY <1>1
    <2> QED BY <2>1 DEF Places
<1>4. old \cap rest = {} /\ put \cap rest = {} BY DEF Places
<1>5. IsFiniteSet(S \ {a}) BY FS_Difference
<1>6. IsFiniteSet(rest) /\ Cardinality(rest) \in Nat BY <1>1, <1>5, PlacesFinite
<1>7. ASSUME NEW s \in Seq(Res \cup Ctx)
      PROVE  LET A == {a} \X Entries(x, s)
             IN  IsFiniteSet(A) /\ Cardinality(A) = Cardinality(Entries(x, s)) /\ Cardinality(A) \in Nat
    <2>1. IsFiniteSet({a}) /\ Cardinality({a}) = 1 BY FS_Singleton
    <2>2. IsFiniteSet(Entries(x, s)) /\ Cardinality(Entries(x, s)) \in Nat BY EntriesFinite
    <2>3. /\ IsFiniteSet({a} \X Entries(x, s))
          /\ Cardinality({a} \X Entries(x, s)) = Cardinality({a}) * Cardinality(Entries(x, s))
        BY <2>1, <2>2, FS_Product
    <2> QED BY <2>1, <2>2, <2>3
<1>8. IsFiniteSet(old) /\ Cardinality(old) = Cardinality(Entries(x, slices[a])) /\ Cardinality(old) \in Nat
    BY <1>1, <1>7
<1>9. IsFiniteSet(put) /\ Cardinality(put) = Cardinality(Entries(x, t)) /\ Cardinality(put) \in Nat
    BY <1>1, <1>7
<1> HIDE DEF t, old, put, rest
<1>10. Cardinality(old \cup rest) = Cardinality(old) + Cardinality(rest) - Cardinality(old \cap rest)
    BY <1>6, <1>8, FS_Union
<1>11. Cardinality(put \cup rest) = Cardinality(put) + Cardinality(rest) - Cardinality(put \cap rest)
    BY <1>6, <1>9, FS_Union
<1>12. Cardinality(old \cap rest) = 0 /\ Cardinality(put \cap rest) = 0 BY <1>4, FS_EmptySet
<1>13. /\ Cardinality(Places(x, slices, S)) = Cardinality(old) + Cardinality(rest)
       /\ Cardinality(Places(x, new, S)) = Cardinality(put) + Cardinality(rest)
    <2>1. \A m, n \in Nat : m + n - 0 = m + n OBVIOUS
    <2> QED BY <1>2, <1>3, <1>6, <1>8, <1>9, <1>10, <1>11, <1>12, <2>1, ZenonT(60)
<1>14. Cardinality(Places(x, new, S))
           = Cardinality(Places(x, slices, S)) - Cardinality(Entries(x, slices[a]))
                                               + Cardinality(Entries(x, t))
    BY <1>6, <1>8, <1>9, <1>13
<1> QED BY <1>14 DEF t

LEMMA NoPlaces ==
    ASSUME NEW S, IsFiniteSet(S), NEW slices, SlicesIn(slices, S), NEW x
    PROVE  Cardinality(Places(x, slices, S)) = 0
               <=> \A a \in S : \A i \in DOMAIN slices[a] : slices[a][i] # x
<1>1. IsFiniteSet(Places(x, slices, S)) BY PlacesFinite
<1>2. Places(x, slices, S) = {} <=> \A a \in S : Entries(x, slices[a]) = {}
    <2>1. ASSUME Places(x, slices, S) = {}, NEW a \in S PROVE Entries(x, slices[a]) = {}
        <3>1. \A i \in Entries(x, slices[a]) : <<a, i>> \in Places(x, slices, S) BY DEF Places
        <3> QED BY <2>1, <3>1
    <2>2. ASSUME \A a \in S : Entries(x, slices[a]) = {} PROVE Places(x, slices, S) = {}
        <3>1. \A a \in S : {a} \X Entries(x, slices[a]) = {} BY <2>2
        <3> QED BY <3>1 DEF Places
    <2> QED BY <2>1, <2>2
<1>3. \A a \in S : Entries(x, slices[a]) = {} <=> \A i \in DOMAIN slices[a] : slices[a][i] # x
    BY DEF Entries
<1> QED BY <1>1, <1>2, <1>3, FS_EmptySet

-----------------------------------------------------------------------------
(* Finalizers, when no child context is pooled.                            *)

\* Without pooled contexts children may delegate to parents; with them, no
\* span is sampled.
NoPooledChildren == ~Sampled \/ Pooled = {}

\* A goroutine that is about to capture works on a done context; a pooled one
\* stays done up to its Reset.
MarkedDone ==
    \A g \in Goroutine :
        \/ pc[g] = "capture"
        \/ pc[g] \in {"wait", "run", "reset"} /\ cur[g] \in Pooled
        => done[cur[g]]

\* What a done context still has, the goroutine that marked it will capture.
LeftToCapture ==
    \A c \in Ctx : done[c] /\ finalizeables[c] # <<>> =>
        \E g \in Goroutine : cur[g] = c /\ pc[g] = "capture"

\* Only goroutines in finalize have a slice.
ItemsInFinalize == \A g \in Goroutine : items[g] # <<>> => pc[g] \in {"wait", "run"}

\* No DependsOn call is under way on a done context.
DoneUnlocked == \A c \in Ctx : Locked(c) => ~done[c]

\* Nor on one that is being finalized, although it may have been reset.
FinalizedUnlocked ==
    \A g \in Goroutine : pc[g] \in {"wait", "run"} => ~Locked(cur[g])

\* What the WaitGroup of c counts beside the blockers that will finalize it.
Owed(c) == wg[c] - Pending(c) - (IF Locked(c) THEN 1 ELSE 0)

\* The WaitGroup of a context counts at least the blockers it waits for.
WaitsCounted == \A c \in Ctx : Owed(c) >= 0

\* It counts exactly those.
WaitsExact == \A c \in Ctx : Owed(c) = 0

\* A step changes what is owed only by depending on a context that is done.
OwedKept ==
    \A c \in Ctx :
        \/ Owed(c)' = Owed(c)
        \/ /\ Owed(c)' = Owed(c) + 1
           /\ Locked(c) /\ \E r \in Roots(dep[c]) : done[r]

\* A context whose finalizers run is in no slice.
RunsUnblocked == \A g \in Goroutine : pc[g] = "run" => Pending(cur[g]) = 0

CloseInv ==
    /\ TypeOK /\ (Pooled # {} => HolderInv)
    /\ MarkedDone /\ LeftToCapture /\ ItemsInFinalize /\ DoneUnlocked /\ FinalizedUnlocked

FinalizerInv == CloseInv /\ WaitsCounted /\ RunsUnblocked /\ FinalizedExactlyOnce

LEMMA PendingType == ASSUME TypeOK, NEW x PROVE Pending(x) \in Nat
<1>1. SlicesIn(finalizeables, Ctx) /\ SlicesIn(items, Goroutine)
    BY DEF SlicesIn, TypeOK, CtxTypeOK, ProcTypeOK
<1>2. Cardinality(Places(x, finalizeables, Ctx)) \in Nat BY <1>1, PlacesFinite, ContextAssumption
<1>3. Cardinality(Places(x, items, Goroutine)) \in Nat BY <1>1, PlacesFinite, GoroutineAssumption
<1> QED BY <1>2, <1>3 DEF Pending

LEMMA OwedType == ASSUME TypeOK, NEW c \in Ctx PROVE Owed(c) \in Int
BY PendingType DEF Owed, TypeOK, CtxTypeOK

LEMMA NothingPending ==
    ASSUME TypeOK, NEW x
    PROVE  Pending(x) = 0 <=> /\ \A c \in Ctx : \A i \in DOMAIN finalizeables[c] : finalizeables[c][i] # x
                              /\ \A g \in Goroutine : \A i \in DOMAIN items[g] : items[g][i] # x
<1>1. SlicesIn(finalizeables, Ctx) /\ SlicesIn(items, Goroutine)
    BY DEF SlicesIn, TypeOK, CtxTypeOK, ProcTypeOK
<1> DEFINE m == Cardinality(Places(x, finalizeables, Ctx))
           n == Cardinality(Places(x, items, Goroutine))
<1>2. m \in Nat BY <1>1, PlacesFinite, ContextAssumption
<1>3. n \in Nat BY <1>1, PlacesFinite, GoroutineAssumption
<1>4. m = 0 <=> \A c \in Ctx : \A i \in DOMAIN finalizeables[c] : finalizeables[c][i] # x
    BY <1>1, NoPlaces, ContextAssumption
<1>5. n = 0 <=> \A g \in Goroutine : \A i \in DOMAIN items[g] : items[g][i] # x
    BY <1>1, NoPlaces, GoroutineAssumption
<1> HIDE DEF m, n
<1>6. m + n = 0 <=> m = 0 /\ n = 0 BY <1>2, <1>3
<1> QED BY <1>4, <1>5, <1>6 DEF Pending, m, n

LEMMA PendingSame ==
    ASSUME finalizeables' = finalizeables, items' = items, NEW x
    PROVE  Pending(x)' = Pending(x)
BY DEF Pending, Places, Entries

\* registerFinalizeable adds one entry, unless the context is done.
LEMMA PendingRegister ==
    ASSUME TypeOK, NEW r \in Ctx, NEW y \in Res \cup Ctx, Register(r, y), items' = items, NEW x
    PROVE  Pending(x)' = Pending(x) + (IF x = y /\ ~done[r] THEN 1 ELSE 0)
<1> DEFINE m == Cardinality(Places(x, finalizeables, Ctx))
           n == Cardinality(Places(x, items, Goroutine))
           e == Cardinality(Entries(x, finalizeables[r]))
<1>1. /\ finalizeables \in [Ctx -> Seq(Res \cup Ctx)] /\ finalizeables[r] \in Seq(Res \cup Ctx)
      /\ SlicesIn(finalizeables, Ctx) /\ SlicesIn(items, Goroutine)
    BY DEF SlicesIn, TypeOK, CtxTypeOK, ProcTypeOK
<1>2. m \in Nat BY <1>1, PlacesFinite, ContextAssumption
<1>3. n \in Nat BY <1>1, PlacesFinite, GoroutineAssumption
<1>4. e \in Nat BY <1>1, EntriesFinite
<1>5. n' = n BY DEF Places, Entries
<1>6. CASE done[r]
    <2>1. finalizeables' = finalizeables BY <1>6 DEF Register
    <2> QED BY <1>6, <2>1, PendingSame, PendingType
<1>7. CASE ~done[r]
    <2>1. finalizeables' = [finalizeables EXCEPT ![r] = Append(finalizeables[r], y)]
        BY <1>1, <1>7 DEF Register
    <2>2. Append(finalizeables[r], y) \in Seq(Res \cup Ctx) BY <1>1
    <2>3. Cardinality(Places(x, finalizeables', Ctx)) = m - e + Cardinality(Entries(x, Append(finalizeables[r], y)))
        <3>1. IsFiniteSet(Ctx) BY ContextAssumption
        <3>2. SlicesIn(finalizeables, Ctx) BY <1>1
        <3>3. SlicesIn(finalizeables', Ctx) /\ SameBut(r, finalizeables, finalizeables', Ctx)
            BY <1>1, <2>1, <2>2 DEF SlicesIn, SameBut
        <3>4. finalizeables'[r] = Append(finalizeables[r], y) BY <1>1, <2>1, <2>2
        <3>5. Cardinality(Places(x, finalizeables', Ctx)) = m - e + Cardinality(Entries(x, finalizeables'[r]))
            BY <3>1, <3>2, <3>3, PlacesUpdate
        <3> QED BY <3>4, <3>5
    <2>4. Cardinality(Entries(x, Append(finalizeables[r], y))) = e + (IF x = y THEN 1 ELSE 0)
        BY <1>1, EntriesAppend
    <2>5. Pending(x)' = Cardinality(Places(x, finalizeables', Ctx)) + n' /\ Pending(x) = m + n BY DEF Pending
    <2> HIDE DEF m, n, e
    <2> QED BY <1>2, <1>3, <1>4, <1>5, <1>7, <2>3, <2>4, <2>5
<1> QED BY <1>6, <1>7

\* The capture moves the entries of the context to the goroutine.
LEMMA PendingCapture ==
    ASSUME TypeOK, NEW c \in Ctx, NEW h \in Goroutine, NEW x
    PROVE  /\ items[h] = <<>> /\ items' = [items EXCEPT ![h] = finalizeables[c]]
           /\ finalizeables' = [finalizeables EXCEPT ![c] = <<>>]
           => Pending(x)' = Pending(x)
<1>0. SUFFICES ASSUME items[h] = <<>>, items' = [items EXCEPT ![h] = finalizeables[c]],
                      finalizeables' = [finalizeables EXCEPT ![c] = <<>>]
               PROVE  Pending(x)' = Pending(x)
    OBVIOUS
<1> DEFINE m == Cardinality(Places(x, finalizeables, Ctx))
           n == Cardinality(Places(x, items, Goroutine))
           e == Cardinality(Entries(x, finalizeables[c]))
<1>1. /\ finalizeables \in [Ctx -> Seq(Res \cup Ctx)] /\ finalizeables[c] \in Seq(Res \cup Ctx)
      /\ items \in [Goroutine -> Seq(Res \cup Ctx)] /\ <<>> \in Seq(Res \cup Ctx)
    BY DEF TypeOK, CtxTypeOK, ProcTypeOK
<1>2. IsFiniteSet(Ctx) /\ IsFiniteSet(Goroutine) BY ContextAssumption, GoroutineAssumption
<1>3. SlicesIn(finalizeables, Ctx) /\ SlicesIn(items, Goroutine) BY <1>1 DEF SlicesIn
<1>4. m \in Nat /\ n \in Nat BY <1>2, <1>3, PlacesFinite
<1>5. e \in Nat BY <1>1, EntriesFinite
<1>6. Cardinality(Places(x, finalizeables', Ctx)) = m - e
    <2>1. SlicesIn(finalizeables', Ctx) /\ SameBut(c, finalizeables, finalizeables', Ctx)
        BY <1>0, <1>1 DEF SlicesIn, SameBut
    <2>2. finalizeables'[c] = <<>> BY <1>0, <1>1
    <2>3. Cardinality(Places(x, finalizeables', Ctx)) = m - e + Cardinality(Entries(x, finalizeables'[c]))
        BY <1>2, <1>3, <2>1, PlacesUpdate
    <2> HIDE DEF m, e
    <2> QED BY <1>4, <1>5, <2>2, <2>3, EntriesEmpty
<1>7. Cardinality(Places(x, items', Goroutine)) = n + e
    <2>1. SlicesIn(items', Goroutine) /\ SameBut(h, items, items', Goroutine)
        BY <1>0, <1>1 DEF SlicesIn, SameBut
    <2>2. items'[h] = finalizeables[c] BY <1>0, <1>1
    <2>3. Cardinality(Places(x, items', Goroutine))
              = n - Cardinality(Entries(x, items[h])) + Cardinality(Entries(x, items'[h]))
        BY <1>2, <1>3, <2>1, PlacesUpdate
    <2>4. Cardinality(Entries(x, items[h])) = 0 BY <1>0, EntriesEmpty
    <2>5. Cardinality(Entries(x, items'[h])) = e BY <2>2
    <2> HIDE DEF n, e
    <2> QED BY <1>4, <1>5, <2>3, <2>4, <2>5
<1>8. /\ Pending(x)' = Cardinality(Places(x, finalizeables', Ctx)) + Cardinality(Places(x, items', Goroutine))
      /\ Pending(x) = m + n
    BY DEF Pending
<1> HIDE DEF m, n, e
<1> QED BY <1>4, <1>5, <1>6, <1>7, <1>8

\* Calling a finalizer removes one entry of it.
LEMMA PendingRun ==
    ASSUME TypeOK, NEW g \in Goroutine, NEW x
    PROVE  /\ items[g] # <<>> /\ items' = [items EXCEPT ![g] = Tail(@)]
           /\ finalizeables' = finalizeables
           => Pending(x)' = Pending(x) - (IF x = Head(items[g]) THEN 1 ELSE 0)
<1>0. SUFFICES ASSUME items[g] # <<>>, items' = [items EXCEPT ![g] = Tail(@)],
                      finalizeables' = finalizeables
               PROVE  Pending(x)' = Pending(x) - (IF x = Head(items[g]) THEN 1 ELSE 0)
    OBVIOUS
<1> DEFINE m == Cardinality(Places(x, finalizeables, Ctx))
           n == Cardinality(Places(x, items, Goroutine))
           e == Cardinality(Entries(x, items[g]))
<1>1. /\ finalizeables \in [Ctx -> Seq(Res \cup Ctx)]
      /\ items \in [Goroutine -> Seq(Res \cup Ctx)] /\ items[g] \in Seq(Res \cup Ctx)
      /\ Tail(items[g]) \in Seq(Res \cup Ctx)
    BY <1>0 DEF TypeOK, CtxTypeOK, ProcTypeOK
<1>2. IsFiniteSet(Ctx) /\ IsFiniteSet(Goroutine) BY ContextAssumption, GoroutineAssumption
<1>3. SlicesIn(finalizeables, Ctx) /\ SlicesIn(items, Goroutine) BY <1>1 DEF SlicesIn
<1>4. m \in Nat /\ n \in Nat BY <1>2, <1>3, PlacesFinite
<1>5. e \in Nat BY <1>1, EntriesFinite
<1>6. Cardinality(Places(x, items', Goroutine)) = n - (IF x = Head(items[g]) THEN 1 ELSE 0)
    <2>1. SlicesIn(items', Goroutine) /\ SameBut(g, items, items', Goroutine)
        BY <1>0, <1>1 DEF SlicesIn, SameBut
    <2>2. items'[g] = Tail(items[g]) BY <1>0, <1>1
    <2>3. Cardinality(Places(x, items', Goroutine)) = n - e + Cardinality(Entries(x, items'[g]))
        BY <1>2, <1>3, <2>1, PlacesUpdate
    <2>4. Cardinality(Entries(x, Tail(items[g]))) = e - (IF x = Head(items[g]) THEN 1 ELSE 0)
        BY <1>0, <1>1, EntriesTail
    <2> HIDE DEF n, e
    <2> QED BY <1>4, <1>5, <2>2, <2>3, <2>4
<1>7. /\ Pending(x)' = Cardinality(Places(x, finalizeables', Ctx)) + Cardinality(Places(x, items', Goroutine))
      /\ Pending(x) = m + n
    BY DEF Pending
<1>8. Cardinality(Places(x, finalizeables', Ctx)) = m BY <1>0
<1> HIDE DEF m, n, e
<1> QED BY <1>4, <1>6, <1>7, <1>8

\* Resetting a context loses no finalizer: the goroutine that marked it done
\* has taken them.
LEMMA ResetKeepsFinalizers ==
    ASSUME CloseInv, NEW c \in Ctx, Reset(c), done[c], parent[c] = NoCtx,
           \A g \in Goroutine : cur[g] = c => pc[g] # "capture"
    PROVE  /\ finalizeables' = finalizeables /\ dep' = dep /\ wg' = wg
           /\ \A d \in Ctx : done'[d] <=> done[d] /\ d # c
<1> USE DEF CloseInv, TypeOK, CtxTypeOK
<1>1. finalizeables[c] = <<>> BY DEF LeftToCapture
<1>2. Roots(c) = {c} BY DEF Roots
<1>3. /\ finalizeables' = [finalizeables EXCEPT ![c] = <<>>]
      /\ done' = [done EXCEPT ![c] = FALSE] /\ dep' = dep /\ wg' = wg
    BY <1>2 DEF Reset
<1> QED BY <1>1, <1>3

\* Returning a context to the pool: nobody else is inside Close of it.
LEMMA ReturnResetAlone ==
    ASSUME CloseInv, NEW g \in Goroutine, ReturnReset(g), cur[g] \in Pooled
    PROVE  /\ Reset(cur[g]) /\ cur[g] \in Ctx /\ done[cur[g]] /\ parent[cur[g]] = NoCtx
           /\ \A h \in Goroutine : cur[h] = cur[g] /\ h # g => pc[h] \in {"idle", "returned"}
<1>0. HolderInv BY DEF CloseInv
<1> USE DEF CloseInv, TypeOK, ProcTypeOK
<1>1. pc[g] = "reset" /\ cur[g] \in Ctx /\ Reset(cur[g]) BY DEF ReturnReset
<1>2. done[cur[g]] /\ parent[cur[g]] = NoCtx BY <1>0, <1>1 DEF MarkedDone, HolderInv, NoParents
<1>3. Closing(g, cur[g]) BY <1>1 DEF Closing
<1>4. \A h \in Goroutine : Closing(h, cur[g]) => h = g BY <1>0, <1>3 DEF HolderInv, OneHolder
<1> QED BY <1>1, <1>2, <1>4 DEF Closing

\* Steps that leave what matters of the contexts and of Close alone.
LEMMA QuietClose ==
    ASSUME CloseInv, UNCHANGED <<done, finalizeables, dep, items>>,
           \A h \in Goroutine :
               \/ pc'[h] = pc[h] /\ cur'[h] = cur[h]
               \/ /\ pc[h] \notin {"capture", "wait", "run"}
                  /\ pc'[h] \notin {"capture", "wait", "run"} /\ (pc'[h] = "reset" => Pooled = {})
               \/ /\ pc[h] = "capture" /\ finalizeables[cur[h]] = <<>>
                  /\ pc'[h] = "reset" /\ cur'[h] = cur[h]
    PROVE  MarkedDone' /\ LeftToCapture' /\ ItemsInFinalize' /\ DoneUnlocked' /\ FinalizedUnlocked'
<1> USE DEF CloseInv
<1>1. MarkedDone' BY DEF MarkedDone
<1>2. LeftToCapture' BY DEF LeftToCapture
<1>3. ItemsInFinalize' BY DEF ItemsInFinalize
<1>4. DoneUnlocked' BY DEF DoneUnlocked, Locked
<1>5. FinalizedUnlocked' BY DEF FinalizedUnlocked, Locked
<1> QED BY <1>1, <1>2, <1>3, <1>4, <1>5

\* A span starts, or a Go context is set.
LEMMA SpanStep ==
    ASSUME NEW c, StartTraceSpan(c) \/ \E v \in GoCtx \ {"nil"} : SetGoContext(c, v)
    PROVE  UNCHANGED <<done, wg, finalizeables, dep, procVars, history>>
BY DEF StartTraceSpan, newChildContext, SetGoContext

LEMMA CloseStep ==
    ASSUME NoPooledChildren, CloseInv, [Next]_vars
    PROVE  MarkedDone' /\ LeftToCapture' /\ ItemsInFinalize' /\ DoneUnlocked' /\ FinalizedUnlocked'
<1> DEFINE Goal == MarkedDone' /\ LeftToCapture' /\ ItemsInFinalize' /\ DoneUnlocked' /\ FinalizedUnlocked'
<1> USE ContextAssumption DEF CloseInv, TypeOK, CtxTypeOK, ProcTypeOK, Locked
<1>1. ASSUME UNCHANGED <<done, finalizeables, dep, procVars>> PROVE Goal
    BY <1>1, QuietClose DEF procVars
<1>2. ASSUME NEW r \in Ctx, NEW x, Register(r, x), UNCHANGED <<done, procVars>>,
             \A c \in Ctx : Locked(c)' => Locked(c)
      PROVE  Goal
    <2>1. /\ done' = done /\ pc' = pc /\ cur' = cur /\ items' = items
          /\ \A c \in Ctx : done[c] => finalizeables'[c] = finalizeables[c]
        BY <1>2 DEF Register, procVars
    <2>2. MarkedDone' BY <2>1 DEF MarkedDone
    <2>3. LeftToCapture' BY <2>1 DEF LeftToCapture
    <2>4. ItemsInFinalize' BY <2>1 DEF ItemsInFinalize
    <2>5. DoneUnlocked' BY <1>2, <2>1 DEF DoneUnlocked
    <2>6. FinalizedUnlocked' BY <1>2, <2>1 DEF FinalizedUnlocked
    <2> QED BY <2>2, <2>3, <2>4, <2>5, <2>6
<1>3. ASSUME NEW c \in Ctx, Client(c) PROVE Goal
    <2>1. CASE NewContext(c) \/ PoolGet(c) BY <1>1, <2>1 DEF NewContext, PoolGet, ctxVars
    <2>2. CASE ClientReset(c)
        <3>1. /\ Reset(c) /\ done[c] /\ c \notin Pooled /\ parent[c] = NoCtx
              /\ pc' = pc /\ cur' = cur /\ items' = items
              /\ \A g \in Goroutine : cur[g] = c => pc[g] # "capture"
            BY <2>2 DEF ClientReset, procVars, Roots
        <3>2. /\ finalizeables' = finalizeables /\ dep' = dep
              /\ \A d \in Ctx : done'[d] <=> done[d] /\ d # c
            BY <3>1, ResetKeepsFinalizers
        <3>3. MarkedDone' BY <3>1, <3>2 DEF MarkedDone
        <3>4. LeftToCapture' BY <3>1, <3>2 DEF LeftToCapture
        <3>5. ItemsInFinalize' BY <3>1 DEF ItemsInFinalize
        <3>6. DoneUnlocked' BY <3>2 DEF DoneUnlocked
        <3>7. FinalizedUnlocked' BY <3>1, <3>2 DEF FinalizedUnlocked
        <3> QED BY <3>3, <3>4, <3>5, <3>6, <3>7
    <2>3. ASSUME NEW x \in Res, RegisterFinalizer(c, x) PROVE Goal
        <3>1. PICK r \in Ctx : Register(r, x) BY <2>3, RootsInCtx DEF RegisterFinalizer
        <3>2. UNCHANGED <<done, dep, procVars>> BY <2>3 DEF RegisterFinalizer
        <3> QED BY <1>2, <3>1, <3>2
    <2>4. ASSUME NEW b \in Ctx, DependsOn(c, b) PROVE Goal
        <3>1. PICK r \in Ctx : ~done[r] /\ Finalized(r) /\ dep' = [dep EXCEPT ![r] = b]
            BY <2>4, RootsInCtx DEF DependsOn
        <3>2. UNCHANGED <<done, finalizeables, procVars>> BY <2>4 DEF DependsOn
        <3>3. pc' = pc /\ cur' = cur /\ items' = items BY <3>2 DEF procVars
        <3>4. MarkedDone' BY <3>2, <3>3 DEF MarkedDone
        <3>5. LeftToCapture' BY <3>2, <3>3 DEF LeftToCapture
        <3>6. ItemsInFinalize' BY <3>3 DEF ItemsInFinalize
        <3>7. DoneUnlocked' BY <3>1, <3>2 DEF DoneUnlocked
        <3>8. FinalizedUnlocked' BY <3>1, <3>3 DEF Finalized, FinalizedUnlocked
        <3> QED BY <3>4, <3>5, <3>6, <3>7, <3>8
    <2>5. ASSUME NEW g \in Goroutine, NEW m, CloseCall(g, c, m) PROVE Goal
        BY <2>5, QuietClose DEF CloseCall, ctxVars
    <2>6. CASE StartTraceSpan(c) \/ \E v \in GoCtx \ {"nil"} : SetGoContext(c, v)
        BY <1>1, <2>6, SpanStep
    <2> QED BY <1>3, <2>1, <2>2, <2>3, <2>4, <2>5, <2>6 DEF Client
<1>4. ASSUME NEW c \in Ctx, DependsOnRegister(c) PROVE Goal
    <2>1. PICK r \in Roots(dep[c]) : ~Locked(r) /\ Register(r, c) BY <1>4 DEF DependsOnRegister
    <2>2. dep[c] \in Ctx /\ dep' = [dep EXCEPT ![c] = NoCtx] /\ UNCHANGED <<done, procVars>>
        BY <1>4 DEF DependsOnRegister
    <2>3. r \in Ctx BY <2>2, RootsInCtx
    <2> QED BY <1>2, <2>1, <2>2, <2>3
<1>5. ASSUME NEW g \in Goroutine, Step(g) PROVE Goal
    <2>1. CASE Enter(g)
        <3>1. /\ pc[g] = "enter" /\ pc'[g] \in {"enter", "mark", "reset"}
              /\ \A h \in Goroutine \ {g} : pc'[h] = pc[h] /\ cur'[h] = cur[h]
              /\ UNCHANGED <<done, finalizeables, dep, items>>
            BY <2>1 DEF Enter, ctxVars
        <3>2. pc'[g] = "reset" => Pooled = {}
            BY <2>1 DEF Enter, HolderInv, NoParents
        <3> QED BY <3>1, <3>2, QuietClose
    <2>2. CASE Mark(g)
        <3>1. cur[g] \in Ctx /\ pc[g] = "mark" BY <2>2 DEF Mark
        <3>2. CASE done[cur[g]]
            <4>1. done' = done /\ pc' = [pc EXCEPT ![g] = "returned"] BY <2>2, <3>1, <3>2 DEF Mark
            <4> QED BY <2>2, <3>1, <4>1, QuietClose DEF Mark
        <3>3. CASE ~done[cur[g]]
            <4>1. /\ cur' = cur /\ items' = items /\ finalizeables' = finalizeables /\ dep' = dep
                  /\ pc'[g] = "capture" /\ \A h \in Goroutine : h # g => pc'[h] = pc[h]
                  /\ done'[cur[g]] /\ \A d \in Ctx : d # cur[g] => done'[d] = done[d]
                  /\ ~Locked(cur[g])
                BY <2>2, <3>1, <3>3 DEF Mark
            <4>2. MarkedDone'
                <5> SUFFICES ASSUME NEW h \in Goroutine,
                                    \/ pc'[h] = "capture"
                                    \/ pc'[h] \in {"wait", "run", "reset"} /\ cur[h] \in Pooled
                             PROVE  done'[cur[h]]
                    BY <4>1 DEF MarkedDone
                <5>1. CASE cur[h] = cur[g] BY <4>1, <5>1
                <5>2. CASE cur[h] # cur[g] BY <4>1, <5>2 DEF MarkedDone
                <5> QED BY <5>1, <5>2
            <4>3. LeftToCapture'
                <5> SUFFICES ASSUME NEW d \in Ctx, done'[d], finalizeables[d] # <<>>
                             PROVE  \E h \in Goroutine : cur[h] = d /\ pc'[h] = "capture"
                    BY <4>1 DEF LeftToCapture
                <5>1. CASE d = cur[g] BY <4>1, <5>1
                <5>2. CASE d # cur[g]
                    <6>1. done[d] BY <4>1, <5>2
                    <6>2. PICK h \in Goroutine : cur[h] = d /\ pc[h] = "capture"
                        BY <6>1 DEF LeftToCapture
                    <6>3. pc'[h] = "capture" BY <4>1, <5>2, <6>2
                    <6> QED BY <6>2, <6>3
                <5> QED BY <5>1, <5>2
            <4>4. ItemsInFinalize' BY <3>1, <4>1 DEF ItemsInFinalize
            <4>5. DoneUnlocked' BY <4>1 DEF DoneUnlocked
            <4>6. FinalizedUnlocked' BY <3>1, <4>1 DEF FinalizedUnlocked
            <4> QED BY <4>2, <4>3, <4>4, <4>5, <4>6
        <3> QED BY <3>2, <3>3
    <2>3. CASE CaptureNone(g) BY <2>3, QuietClose DEF CaptureNone, ctxVars
    <2>4. CASE Capture(g)
        <3>1. cur[g] \in Ctx /\ pc[g] = "capture" /\ done[cur[g]] BY <2>4 DEF Capture, MarkedDone
        <3>2. PICK h \in Goroutine :
                /\ h = g \/ pc[h] = "idle"
                /\ pc' = [pc EXCEPT ![g] = "returned", ![h] = "wait"]
                /\ cur' = [cur EXCEPT ![h] = cur[g]] /\ done' = done /\ dep' = dep
                /\ items' = [items EXCEPT ![h] = finalizeables[cur[g]]]
                /\ finalizeables' = [finalizeables EXCEPT ![cur[g]] = <<>>]
            BY <2>4 DEF Capture
        <3>3. MarkedDone' BY <3>1, <3>2 DEF MarkedDone
        <3>4. LeftToCapture'
            <4>0. done' = done BY <3>2
            <4> SUFFICES ASSUME NEW d \in Ctx, done[d], finalizeables'[d] # <<>>
                         PROVE  \E k \in Goroutine : cur'[k] = d /\ pc'[k] = "capture"
                BY <4>0 DEF LeftToCapture
            <4>1. d # cur[g] /\ finalizeables[d] # <<>> BY <3>1, <3>2
            <4>2. PICK k \in Goroutine : cur[k] = d /\ pc[k] = "capture" BY <4>1 DEF LeftToCapture
            <4>3. k # g /\ k # h BY <3>1, <3>2, <4>1, <4>2
            <4>4. cur'[k] = d /\ pc'[k] = "capture" BY <3>2, <4>2, <4>3
            <4> QED BY <4>4
        <3>5. ItemsInFinalize' BY <3>1, <3>2 DEF ItemsInFinalize
        <3>6. DoneUnlocked' BY <3>2 DEF DoneUnlocked
        <3>7. FinalizedUnlocked' BY <3>1, <3>2 DEF FinalizedUnlocked, DoneUnlocked
        <3> QED BY <3>3, <3>4, <3>5, <3>6, <3>7
    <2>5. CASE Wait(g)
        <3>1. /\ pc[g] = "wait" /\ pc' = [pc EXCEPT ![g] = "run"] /\ cur' = cur /\ items' = items
              /\ done' = done /\ dep' = dep /\ finalizeables' = finalizeables
            BY <2>5 DEF Wait, ctxVars
        <3>2. MarkedDone' BY <3>1 DEF MarkedDone
        <3>3. LeftToCapture' BY <3>1 DEF LeftToCapture
        <3>4. ItemsInFinalize' BY <3>1 DEF ItemsInFinalize
        <3>5. DoneUnlocked' BY <3>1 DEF DoneUnlocked
        <3>6. FinalizedUnlocked' BY <3>1 DEF FinalizedUnlocked
        <3> QED BY <3>2, <3>3, <3>4, <3>5, <3>6
    <2>6. CASE Run(g)
        <3>1. /\ pc[g] = "run" /\ cur' = cur /\ items' = [items EXCEPT ![g] = Tail(items[g])]
              /\ pc' = [pc EXCEPT ![g] = IF Tail(items[g]) = <<>> THEN "reset" ELSE "run"]
              /\ done' = done /\ dep' = dep /\ finalizeables' = finalizeables
            BY <2>6 DEF Run
        <3>2. MarkedDone' BY <3>1 DEF MarkedDone
        <3>3. LeftToCapture' BY <3>1 DEF LeftToCapture
        <3>4. ItemsInFinalize' BY <3>1 DEF ItemsInFinalize
        <3>5. DoneUnlocked' BY <3>1 DEF DoneUnlocked
        <3>6. FinalizedUnlocked' BY <3>1 DEF FinalizedUnlocked
        <3> QED BY <3>2, <3>3, <3>4, <3>5, <3>6
    <2>7. CASE ReturnReset(g) /\ cur[g] \notin Pooled
        BY <2>7, QuietClose DEF ReturnReset, ctxVars
    <2>8. CASE ReturnReset(g) /\ cur[g] \in Pooled
        <3>1. /\ Reset(cur[g]) /\ cur[g] \in Ctx /\ done[cur[g]] /\ parent[cur[g]] = NoCtx
              /\ \A h \in Goroutine : cur[h] = cur[g] /\ h # g => pc[h] \in {"idle", "returned"}
            BY <2>8, ReturnResetAlone
        <3>2. pc[g] = "reset" /\ pc' = [pc EXCEPT ![g] = "put"] /\ cur' = cur /\ items' = items
            BY <2>8 DEF ReturnReset
        <3>3. /\ finalizeables' = finalizeables /\ dep' = dep
              /\ \A d \in Ctx : done'[d] <=> done[d] /\ d # cur[g]
            BY <3>1, <3>2, ResetKeepsFinalizers
        <3>4. MarkedDone' BY <3>1, <3>2, <3>3 DEF MarkedDone
        <3>5. LeftToCapture' BY <3>1, <3>2, <3>3 DEF LeftToCapture
        <3>6. ItemsInFinalize' BY <3>2 DEF ItemsInFinalize
        <3>7. DoneUnlocked' BY <3>3 DEF DoneUnlocked
        <3>8. FinalizedUnlocked' BY <3>2, <3>3 DEF FinalizedUnlocked
        <3> QED BY <3>4, <3>5, <3>6, <3>7, <3>8
    <2>9. CASE ReturnPut(g) BY <2>9, QuietClose DEF ReturnPut, ctxVars
    <2>10. CASE Returned(g)
        <3>1. /\ pc[g] = "returned" /\ pc'[g] \in {"idle", "reset"}
              /\ \A h \in Goroutine \ {g} : pc'[h] = pc[h] /\ cur'[h] = cur[h]
              /\ UNCHANGED <<done, finalizeables, dep, items>>
            BY <2>10 DEF Returned, ctxVars
        <3>2. pc'[g] = "reset" => Pooled = {}
            BY <2>10 DEF Returned, HolderInv, NoParents
        <3> QED BY <3>1, <3>2, QuietClose
    <2> QED BY <1>5, <2>1, <2>2, <2>3, <2>4, <2>5, <2>6, <2>7, <2>8, <2>9, <2>10 DEF Step
<1>6. CASE UNCHANGED vars BY <1>1, <1>6 DEF vars, ctxVars
<1> QED BY <1>3, <1>4, <1>5, <1>6 DEF Next

\* The number of places a finalizer waits in changes where it is registered,
\* captured and called; the WaitGroups count along.
LEMMA FinalizerStep ==
    ASSUME NoPooledChildren, FinalizerInv, [Next]_vars
    PROVE  OwedKept /\ RunsUnblocked' /\ FinalizedExactlyOnce'
<1> DEFINE Goal == OwedKept /\ RunsUnblocked' /\ FinalizedExactlyOnce'
<1> USE ContextAssumption DEF FinalizerInv, CloseInv, TypeOK, CtxTypeOK, ProcTypeOK,
        HistoryTypeOK, Locked
<1>0. \A x : Pending(x) \in Nat BY PendingType
<1>1. ASSUME UNCHANGED <<finalizeables, items, wg, dep, registered, runs>>,
             \A g \in Goroutine : pc'[g] = "run" => pc[g] = "run" /\ cur'[g] = cur[g]
      PROVE  Goal
    <2>1. \A x : Pending(x)' = Pending(x) BY <1>1, PendingSame
    <2>2. OwedKept BY <1>1, <2>1 DEF OwedKept, Owed
    <2>3. RunsUnblocked' BY <1>1, <2>1 DEF RunsUnblocked
    <2>4. FinalizedExactlyOnce' BY <1>1, <2>1 DEF FinalizedExactlyOnce
    <2> QED BY <2>2, <2>3, <2>4
<1>2. ASSUME NEW c \in Ctx, Client(c) PROVE Goal
    <2>1. CASE NewContext(c) \/ PoolGet(c)
        BY <1>1, <2>1 DEF NewContext, PoolGet, ctxVars, procVars, history
    <2>2. CASE ClientReset(c)
        <3>1. /\ Reset(c) /\ done[c] /\ parent[c] = NoCtx /\ UNCHANGED <<procVars, history>>
              /\ \A g \in Goroutine : cur[g] = c => pc[g] # "capture"
            BY <2>2 DEF ClientReset, Roots
        <3>2. finalizeables' = finalizeables /\ dep' = dep /\ wg' = wg
            BY <3>1, ResetKeepsFinalizers
        <3> QED BY <1>1, <3>1, <3>2 DEF procVars, history
    <2>3. ASSUME NEW x \in Res, RegisterFinalizer(c, x) PROVE Goal
        <3>1. PICK r \in Ctx : /\ Register(r, x)
                               /\ registered' = IF done[r] THEN registered ELSE registered \cup {x}
            BY <2>3, RootsInCtx DEF RegisterFinalizer
        <3>2. x \notin registered /\ UNCHANGED <<wg, dep, pc, cur, items, runs>>
            BY <2>3 DEF RegisterFinalizer, procVars
        <3>3. \A y : Pending(y)' = Pending(y) + (IF y = x /\ ~done[r] THEN 1 ELSE 0)
            BY <3>1, <3>2, PendingRegister
        <3>4. \A d \in Ctx : Pending(d)' = Pending(d)
            <4>1. \A d \in Ctx : d # x OBVIOUS
            <4>2. \A d : d # x => Pending(d)' = Pending(d) + 0 BY <3>3, Zenon
            <4>3. \A n \in Nat : n + 0 = n OBVIOUS
            <4> QED BY <1>0, <4>1, <4>2, <4>3, Zenon
        <3>5. OwedKept BY <3>2, <3>4 DEF OwedKept, Owed
        <3>6. RunsUnblocked' BY <3>2, <3>4 DEF RunsUnblocked
        <3>7. FinalizedExactlyOnce'
            <4> SUFFICES ASSUME NEW y \in Res
                         PROVE  (Pending(y) + runs[y])' = IF y \in registered' THEN 1 ELSE 0
                BY DEF FinalizedExactlyOnce
            <4>1. /\ Pending(y) + runs[y] = IF y \in registered THEN 1 ELSE 0
                  /\ Pending(y) \in Nat /\ runs[y] \in Nat /\ runs' = runs
                BY <1>0, <3>2 DEF FinalizedExactlyOnce
            <4>2. CASE y = x /\ ~done[r] BY <3>1, <3>2, <3>3, <4>1, <4>2
            <4>3. CASE ~(y = x /\ ~done[r])
                <5>1. Pending(y)' = Pending(y) BY <3>3, <4>1, <4>3
                <5>2. y \in registered' <=> y \in registered BY <3>1, <3>2, <4>3
                <5> QED BY <4>1, <5>1, <5>2
            <4> QED BY <4>2, <4>3
        <3> QED BY <3>5, <3>6, <3>7
    <2>4. ASSUME NEW b \in Ctx, DependsOn(c, b) PROVE Goal
        <3>1. PICK r \in Ctx : /\ dep[r] = NoCtx /\ wg' = [wg EXCEPT ![r] = @ + 1]
                               /\ dep' = [dep EXCEPT ![r] = b]
            BY <2>4, RootsInCtx DEF DependsOn
        <3>2. UNCHANGED <<finalizeables, pc, cur, items, registered, runs>>
            BY <2>4 DEF DependsOn, procVars, history
        <3>3. \A y : Pending(y)' = Pending(y) BY <3>2, PendingSame
        <3>4. OwedKept
            <4> SUFFICES ASSUME NEW d \in Ctx PROVE Owed(d)' = Owed(d)
                BY DEF OwedKept
            <4>1. Pending(d)' = Pending(d) /\ Pending(d) \in Nat BY <1>0, <3>3
            <4>2. CASE d = r
                <5>1. wg'[d] = wg[d] + 1 /\ wg[d] \in Int BY <3>1, <4>2
                <5>2. dep[d] = NoCtx /\ dep'[d] # NoCtx BY <3>1, <4>2
                <5> QED BY <4>1, <5>1, <5>2 DEF Owed
            <4>3. CASE d # r
                <5>1. wg'[d] = wg[d] /\ dep'[d] = dep[d] BY <3>1, <4>3
                <5> QED BY <4>1, <5>1 DEF Owed
            <4> QED BY <4>2, <4>3
        <3>5. RunsUnblocked' BY <3>2, <3>3 DEF RunsUnblocked
        <3>6. FinalizedExactlyOnce' BY <3>2, <3>3 DEF FinalizedExactlyOnce
        <3> QED BY <3>4, <3>5, <3>6
    <2>5. ASSUME NEW g \in Goroutine, NEW m, CloseCall(g, c, m) PROVE Goal
        BY <1>1, <2>5 DEF CloseCall, ctxVars, history
    <2>6. CASE StartTraceSpan(c) \/ \E v \in GoCtx \ {"nil"} : SetGoContext(c, v)
        BY <1>1, <2>6, SpanStep DEF procVars, history
    <2> QED BY <1>2, <2>1, <2>2, <2>3, <2>4, <2>5, <2>6 DEF Client
<1>3. ASSUME NEW c \in Ctx, DependsOnRegister(c) PROVE Goal
    <2>1. PICK r \in Roots(dep[c]) : Register(r, c) BY <1>3 DEF DependsOnRegister
    <2>2. /\ dep[c] \in Ctx /\ dep' = [dep EXCEPT ![c] = NoCtx]
          /\ UNCHANGED <<wg, pc, cur, items, registered, runs>>
        BY <1>3 DEF DependsOnRegister, procVars, history
    <2>3. r \in Ctx BY <2>2, RootsInCtx
    <2>4. \A y : Pending(y)' = Pending(y) + (IF y = c /\ ~done[r] THEN 1 ELSE 0)
        BY <2>1, <2>2, <2>3, PendingRegister
    <2>5. OwedKept
        <3> SUFFICES ASSUME NEW d \in Ctx
                     PROVE  Owed(d)' = Owed(d) \/ (Owed(d)' = Owed(d) + 1 /\ d = c /\ done[r])
            BY <1>3, <2>1, Zenon DEF OwedKept, DependsOnRegister
        <3>1. wg'[d] = wg[d] /\ wg[d] \in Int /\ Pending(d) \in Nat BY <1>0, <2>2
        <3>2. CASE d = c /\ done[r]
            <4>1. Pending(d)' = Pending(d) BY <1>0, <2>4, <3>2
            <4>2. Locked(d) /\ ~Locked(d)' BY <1>3, <2>2, <3>2 DEF DependsOnRegister
            <4>3. Owed(d) = wg[d] - Pending(d) - 1 /\ Owed(d)' = wg[d] - Pending(d) - 0
                BY <3>1, <4>1, <4>2, Zenon DEF Owed
            <4> QED BY <3>1, <3>2, <4>3
        <3>3. CASE d = c /\ ~done[r]
            <4>1. Pending(d)' = Pending(d) + 1 BY <1>0, <2>4, <3>3
            <4>2. Locked(d) /\ ~Locked(d)' BY <1>3, <2>2, <3>3 DEF DependsOnRegister
            <4>3. Owed(d) = wg[d] - Pending(d) - 1 /\ Owed(d)' = wg[d] - (Pending(d) + 1) - 0
                BY <3>1, <4>1, <4>2, Zenon DEF Owed
            <4> QED BY <3>1, <4>3
        <3>4. CASE d # c
            <4>1. Pending(d)' = Pending(d) BY <1>0, <2>4, <3>4
            <4>2. dep'[d] = dep[d] BY <2>2, <3>4
            <4> QED BY <3>1, <4>1, <4>2 DEF Owed
        <3> QED BY <3>2, <3>3, <3>4
    <2>6. RunsUnblocked'
        <3>1. \A g \in Goroutine : pc[g] = "run" => cur[g] # c
            BY <2>2 DEF FinalizedUnlocked
        <3> QED BY <1>0, <2>2, <2>4, <3>1 DEF RunsUnblocked
    <2>7. FinalizedExactlyOnce'
        <3>1. \A x \in Res : x # c OBVIOUS
        <3>2. \A x : x # c => Pending(x)' = Pending(x) + 0 BY <2>4, Zenon
        <3>3. \A n \in Nat : n + 0 = n OBVIOUS
        <3>4. \A x \in Res : Pending(x)' = Pending(x) BY <1>0, <3>1, <3>2, <3>3, Zenon
        <3> QED BY <2>2, <3>4 DEF FinalizedExactlyOnce
    <2> QED BY <2>5, <2>6, <2>7
<1>4. ASSUME NEW g \in Goroutine, Step(g) PROVE Goal
    <2>1. CASE Enter(g)
        BY <1>1, <2>1 DEF Enter, ctxVars, history
    <2>2. CASE Mark(g) BY <1>1, <2>2 DEF Mark, history
    <2>3. CASE CaptureNone(g) BY <1>1, <2>3 DEF CaptureNone, ctxVars, history
    <2>4. CASE Capture(g)
        <3>1. cur[g] \in Ctx /\ pc[g] = "capture" BY <2>4 DEF Capture
        <3>2. PICK h \in Goroutine :
                /\ h = g \/ pc[h] = "idle"
                /\ pc' = [pc EXCEPT ![g] = "returned", ![h] = "wait"]
                /\ cur' = [cur EXCEPT ![h] = cur[g]]
                /\ UNCHANGED <<wg, dep, registered, runs>>
                /\ items' = [items EXCEPT ![h] = finalizeables[cur[g]]]
                /\ finalizeables' = [finalizeables EXCEPT ![cur[g]] = <<>>]
            BY <2>4 DEF Capture, history
        <3>3. items[h] = <<>> BY <3>1, <3>2 DEF ItemsInFinalize
        <3>4. \A y : Pending(y)' = Pending(y) BY <3>1, <3>2, <3>3, PendingCapture
        <3>5. OwedKept BY <3>2, <3>4 DEF OwedKept, Owed
        <3>6. RunsUnblocked'
            <4>1. \A k \in Goroutine : pc'[k] = "run" => pc[k] = "run" /\ cur'[k] = cur[k] BY <3>2
            <4>2. \A k \in Goroutine : pc'[k] = "run" => Pending(cur[k])' = 0
                BY <3>4, <4>1 DEF RunsUnblocked
            <4> QED BY <4>1, <4>2 DEF RunsUnblocked
        <3>7. FinalizedExactlyOnce' BY <3>2, <3>4 DEF FinalizedExactlyOnce
        <3> QED BY <3>5, <3>6, <3>7
    <2>5. CASE Wait(g)
        <3>1. cur[g] \in Ctx /\ wg[cur[g]] = 0 /\ pc' = [pc EXCEPT ![g] = "run"] /\ cur' = cur
            BY <2>5 DEF Wait
        <3>2. UNCHANGED <<finalizeables, items, wg, dep, registered, runs>>
            BY <2>5 DEF Wait, ctxVars, history
        <3>3. \A y : Pending(y)' = Pending(y) BY <3>2, PendingSame
        <3>4. Pending(cur[g]) = 0
            <4>1. PICK c \in Ctx : c = cur[g] BY <3>1
            <4>2. wg[c] >= Pending(c)
                <5>1. Owed(c) >= 0 /\ wg[c] \in Int /\ Pending(c) \in Nat BY <1>0 DEF WaitsCounted
                <5>2. PICK l \in {0, 1} : l = IF Locked(c) THEN 1 ELSE 0 OBVIOUS
                <5>3. Owed(c) = wg[c] - Pending(c) - l BY <5>2, Zenon DEF Owed
                <5> QED BY <5>1, <5>3
            <4>3. Pending(c) \in Nat /\ wg[c] = 0 BY <1>0, <3>1, <4>1
            <4>4. Pending(c) = 0 BY <4>2, <4>3
            <4> QED BY <4>1, <4>4
        <3>5. OwedKept BY <3>2, <3>3 DEF OwedKept, Owed
        <3>6. RunsUnblocked' BY <3>1, <3>3, <3>4 DEF RunsUnblocked
        <3>7. FinalizedExactlyOnce' BY <3>2, <3>3 DEF FinalizedExactlyOnce
        <3> QED BY <3>5, <3>6, <3>7
    <2>6. CASE Run(g)
        <3>0. PICK x : x = Head(items[g]) OBVIOUS
        <3>1. /\ pc[g] = "run" /\ items[g] # <<>> /\ cur' = cur /\ x \in Res \cup Ctx
              /\ items' = [items EXCEPT ![g] = Tail(@)]
              /\ UNCHANGED <<finalizeables, dep, registered>>
              /\ \A h \in Goroutine : pc'[h] = "run" => pc[h] = "run"
            BY <2>6, <3>0 DEF Run
        <3>2. \A y : Pending(y)' = Pending(y) - (IF y = x THEN 1 ELSE 0)
            BY <3>0, <3>1, PendingRun
        <3>3. Pending(x) # 0
            <4>1. 1 \in DOMAIN items[g] /\ items[g][1] = x BY <3>0, <3>1
            <4> QED BY <4>1, NothingPending
        <3>4. IF x \in Ctx THEN wg' = [wg EXCEPT ![x] = @ - 1] /\ runs' = runs
                           ELSE runs' = [runs EXCEPT ![x] = @ + 1] /\ wg' = wg
            BY <2>6, <3>0 DEF Run
        <3>5. Pending(x) \in Nat /\ Pending(x)' = Pending(x) - 1 /\ \A y : y # x => Pending(y)' = Pending(y)
            <4>1. Pending(x)' = Pending(x) - 1 BY <3>2, Zenon
            <4>2. \A y : y # x => Pending(y)' = Pending(y) - 0 BY <3>2, Zenon
            <4>3. \A n \in Nat : n - 0 = n OBVIOUS
            <4> QED BY <1>0, <4>1, <4>2, <4>3, Zenon
        <3>6. OwedKept
            <4> SUFFICES ASSUME NEW d \in Ctx PROVE Owed(d)' = Owed(d)
                BY DEF OwedKept
            <4>1. dep'[d] = dep[d] /\ wg[d] \in Int /\ Pending(d) \in Nat BY <1>0, <3>1
            <4>2. CASE d = x
                <5>1. wg'[d] = wg[d] - 1 /\ Pending(d)' = Pending(d) - 1
                    BY <3>4, <3>5, <4>2
                <5> QED BY <4>1, <5>1 DEF Owed
            <4>3. CASE d # x
                <5>1. wg'[d] = wg[d] /\ Pending(d)' = Pending(d) BY <3>4, <3>5, <4>3
                <5> QED BY <4>1, <5>1 DEF Owed
            <4> QED BY <4>2, <4>3
        <3>7. RunsUnblocked'
            <4> SUFFICES ASSUME NEW h \in Goroutine, pc[h] = "run" PROVE Pending(cur[h])' = 0
                BY <3>1 DEF RunsUnblocked
            <4>1. Pending(cur[h]) = 0 BY DEF RunsUnblocked
            <4>2. PICK c : c = cur[h] OBVIOUS
            <4>3. Pending(c)' = 0 BY <3>3, <3>5, <4>1, <4>2
            <4>4. c = cur'[h] BY <3>1, <4>2
            <4> QED BY <4>3, <4>4
        <3>8. FinalizedExactlyOnce'
            <4> SUFFICES ASSUME NEW y \in Res
                         PROVE  Pending(y)' + runs'[y] = IF y \in registered THEN 1 ELSE 0
                BY <3>1 DEF FinalizedExactlyOnce
            <4>1. Pending(y) + runs[y] = IF y \in registered THEN 1 ELSE 0 BY DEF FinalizedExactlyOnce
            <4>2. CASE y = x
                <5>1. runs'[y] = runs[y] + 1 /\ Pending(y)' = Pending(y) - 1
                    BY <3>4, <3>5, <4>2
                <5>2. runs[y] \in Nat /\ Pending(y) \in Nat BY <1>0
                <5> QED BY <4>1, <5>1, <5>2
            <4>3. CASE y # x
                <5>1. runs'[y] = runs[y] /\ Pending(y)' = Pending(y) BY <3>4, <3>5, <4>3
                <5> QED BY <4>1, <5>1
            <4> QED BY <4>2, <4>3
        <3> QED BY <3>6, <3>7, <3>8
    <2>7. CASE ReturnReset(g) /\ cur[g] \notin Pooled
        BY <1>1, <2>7 DEF ReturnReset, ctxVars, history
    <2>8. CASE ReturnReset(g) /\ cur[g] \in Pooled
        <3>1. /\ Reset(cur[g]) /\ cur[g] \in Ctx /\ done[cur[g]] /\ parent[cur[g]] = NoCtx
              /\ \A h \in Goroutine : cur[h] = cur[g] /\ h # g => pc[h] \in {"idle", "returned"}
            BY <2>8, ReturnResetAlone
        <3>2. /\ pc[g] = "reset" /\ pc' = [pc EXCEPT ![g] = "put"] /\ cur' = cur
              /\ UNCHANGED <<items, registered, runs>>
            BY <2>8 DEF ReturnReset, history
        <3>3. finalizeables' = finalizeables /\ dep' = dep /\ wg' = wg
            BY <3>1, <3>2, ResetKeepsFinalizers
        <3> QED BY <1>1, <3>2, <3>3
    <2>9. CASE ReturnPut(g) BY <1>1, <2>9 DEF ReturnPut, ctxVars, history
    <2>10. CASE Returned(g) BY <1>1, <2>10 DEF Returned, ctxVars, history
    <2> QED BY <1>4, <2>1, <2>2, <2>3, <2>4, <2>5, <2>6, <2>7, <2>8, <2>9, <2>10 DEF Step
<1>5. CASE UNCHANGED vars BY <1>1, <1>5 DEF vars, ctxVars, procVars, history
<1> QED BY <1>2, <1>3, <1>4, <1>5 DEF Next

LEMMA FinalizerInit == Init => FinalizerInv
<1> SUFFICES ASSUME Init PROVE FinalizerInv
    OBVIOUS
<1>1. TypeOK /\ HolderInv BY InitTypeOK, HolderInit DEF HolderInv
<1>2. /\ \A c \in Ctx : ~done[c] /\ finalizeables[c] = <<>> /\ wg[c] = 0 /\ dep[c] = NoCtx
      /\ \A g \in Goroutine : pc[g] = "idle" /\ items[g] = <<>>
      /\ registered = {} /\ \A x \in Res : runs[x] = 0
    BY DEF Init
<1>3. \A x : Pending(x) = 0
    <2> SUFFICES ASSUME NEW x PROVE Pending(x) = 0
        OBVIOUS
    <2>1. /\ \A c \in Ctx : DOMAIN finalizeables[c] = {}
          /\ \A g \in Goroutine : DOMAIN items[g] = {}
        BY <1>2
    <2> QED BY <1>1, <2>1, NothingPending
<1>4. MarkedDone /\ LeftToCapture /\ ItemsInFinalize /\ DoneUnlocked /\ FinalizedUnlocked
    BY <1>2 DEF MarkedDone, LeftToCapture, ItemsInFinalize, DoneUnlocked, FinalizedUnlocked
<1>5. WaitsCounted BY <1>2, <1>3 DEF WaitsCounted, Owed, Locked
<1>6. RunsUnblocked BY <1>3 DEF RunsUnblocked
<1>7. FinalizedExactlyOnce BY <1>2, <1>3 DEF FinalizedExactlyOnce
<1> QED BY <1>1, <1>4, <1>5, <1>6, <1>7 DEF FinalizerInv, CloseInv

LEMMA FinalizerNext == ASSUME NoPooledChildren, FinalizerInv, [Next]_vars PROVE FinalizerInv'
<1>0. TypeOK' BY NextTypeOK DEF FinalizerInv, CloseInv
<1>1. Pooled # {} => HolderInv'
    BY <1>0, NoParentsStep, HolderStep DEF NoPooledChildren, FinalizerInv, CloseInv, HolderInv
<1>2. MarkedDone' /\ LeftToCapture' /\ ItemsInFinalize' /\ DoneUnlocked' /\ FinalizedUnlocked'
    BY CloseStep DEF FinalizerInv
<1>3. OwedKept /\ RunsUnblocked' /\ FinalizedExactlyOnce' BY FinalizerStep
<1>4. WaitsCounted' BY <1>3, OwedType DEF FinalizerInv, CloseInv, WaitsCounted, OwedKept
<1> QED BY <1>0, <1>1, <1>2, <1>3, <1>4 DEF FinalizerInv, CloseInv

\* close, the capture of the slice, finalize and Reset neither lose a finalizer
\* that was accepted nor call it twice, with any number of contexts, closing
\* goroutines and registered finalizers, careful clients or not, and with
\* families of child contexts, whichever of them is closed, unless they are
\* pooled.
THEOREM FinalizersCalledOnce == NoPooledChildren /\ Spec => []FinalizedExactlyOnce
<1> SUFFICES ASSUME NoPooledChildren PROVE Spec => []FinalizedExactlyOnce
    OBVIOUS
<1>1. FinalizerInv /\ [Next]_vars => FinalizerInv' BY FinalizerNext
<1>2. FinalizerInv => FinalizedExactlyOnce BY DEF FinalizerInv
<1> QED BY FinalizerInit, <1>1, <1>2, PTL DEF Spec

\* finalize calls no finalizer of a context while a context it depends on has
\* it in a slice or a DependsOn call is about to put it there: the WaitGroup
\* counts at least the entries and the call.
THEOREM FinalizersWait == NoPooledChildren /\ Spec => []FinalizersWaitForBlockers
<1> SUFFICES ASSUME NoPooledChildren PROVE Spec => []FinalizersWaitForBlockers
    OBVIOUS
<1>1. FinalizerInv /\ [Next]_vars => FinalizerInv' BY FinalizerNext
<1>2. ASSUME FinalizerInv PROVE FinalizersWaitForBlockers
    <2> USE <1>2, ContextAssumption DEF FinalizerInv, CloseInv
    <2> SUFFICES ASSUME NEW g \in Goroutine, pc[g] = "run", NEW b \in Ctx
                 PROVE  ~BlockedBy(cur[g], b)
        BY DEF FinalizersWaitForBlockers
    <2>1. PICK c \in Ctx : c = cur[g] BY DEF TypeOK, ProcTypeOK
    <2>2. /\ \A d \in Ctx : \A i \in DOMAIN finalizeables[d] : finalizeables[d][i] # c
          /\ \A h \in Goroutine : \A i \in DOMAIN items[h] : items[h][i] # c
        BY <2>1, NothingPending DEF RunsUnblocked
    <2>3. dep[c] # b
        <3>1. ~Locked(c) BY <2>1 DEF FinalizedUnlocked
        <3> QED BY <3>1 DEF Locked
    <2> QED BY <2>1, <2>2, <2>3 DEF BlockedBy
<1> QED BY FinalizerInit, <1>1, <1>2, PTL DEF Spec

-----------------------------------------------------------------------------
(* What the pool of contexts hands out, while no span is sampled.          *)

\* Clients that close no blocker under a DependsOn call leave no WaitGroup
\* waiting for a call that never comes.
LEMMA WaitsExactStep ==
    ASSUME ~Sampled, ~LateDepends, PoolInv, FinalizerInv, WaitsExact, [Next]_vars
    PROVE  WaitsExact'
<1>1. OwedKept BY FinalizerStep DEF NoPooledChildren
<1>2. ASSUME NEW c \in Ctx, Locked(c), NEW r \in Roots(dep[c]) PROVE ~done[r]
    <2>1. dep[c] \in Ctx /\ NoParents
        BY <1>2 DEF PoolInv, HolderInv, TypeOK, CtxTypeOK, Locked
    <2>2. r = dep[c] BY <2>1, RootIsSelf
    <2> QED BY <1>2, <2>2 DEF PoolInv, BlockerOpen
<1> QED BY <1>1, <1>2 DEF WaitsExact, OwedKept

LEMMA CleanFromPool == ASSUME PoolInv, WaitsExact PROVE FreshFromPool
<1> USE ContextAssumption DEF PoolInv, HolderInv, TypeOK, PoolTypeOK
<1> SUFFICES ASSUME NEW i \in DOMAIN free
             PROVE  /\ ~done[free[i]] /\ finalizeables[free[i]] = <<>>
                    /\ goCtx[free[i]] = "nil" /\ ~checkedAndNotSampled[free[i]]
                    /\ wg[free[i]] = Pending(free[i])
    BY DEF FreshFromPool
<1>1. PICK c \in Pooled : c = free[i] BY ElementOfSeq, LenProperties
<1>2. InPool(c) BY <1>1 DEF InPool
<1>3. Clean(c) BY <1>2 DEF ReturningClean, Returning
<1>4. wg[c] \in Int /\ Pending(c) \in Nat /\ Owed(c) = 0
    BY PendingType DEF CtxTypeOK, WaitsExact
<1>5. wg[c] = Pending(c) BY <1>3, <1>4 DEF Owed, Clean
<1> QED BY <1>1, <1>3, <1>5 DEF Clean

\* A context taken from the pool is open and has no finalizers, no Go context
\* and no verdict of the tracer, although clients set and get those, while no
\* span is sampled and nobody closes a blocker under a DependsOn call: what
\* Reset cleans stays clean up to the Get.  And its WaitGroup, which Reset
\* leaves alone, counts exactly the calls of Finalize that are still to come.
THEOREM PoolHandsOutCleanContexts ==
    ~Sampled /\ ~LateDepends /\ Spec => []FreshFromPool
<1> SUFFICES ASSUME ~Sampled, ~LateDepends PROVE Spec => []FreshFromPool
    OBVIOUS
<1> DEFINE IInv == PoolInv /\ FinalizerInv /\ WaitsExact
<1>1. Init => IInv
    <2> SUFFICES ASSUME Init PROVE IInv
        OBVIOUS
    <2>1. HolderInv BY InitTypeOK, HolderInit DEF HolderInv
    <2>2. BlockerOpen BY ContextAssumption DEF Init, BlockerOpen, Locked
    <2>3. \A c \in Ctx : Clean(c) BY DEF Init, Clean, Locked
    <2>4. PoolInv BY <2>1, <2>2, <2>3, ContextAssumption DEF PoolInv, ReturningClean
    <2>5. FinalizerInv BY FinalizerInit
    <2>6. WaitsExact
        <3> SUFFICES ASSUME NEW c \in Ctx PROVE Owed(c) = 0
            BY DEF WaitsExact
        <3>1. wg[c] = 0 /\ ~Locked(c) BY DEF Init, Locked
        <3>2. Pending(c) = 0
            <4>1. TypeOK BY InitTypeOK
            <4>2. /\ \A d \in Ctx : DOMAIN finalizeables[d] = {}
                  /\ \A g \in Goroutine : DOMAIN items[g] = {}
                BY DEF Init
            <4> QED BY <4>1, <4>2, NothingPending
        <3>3. Owed(c) = 0 - 0 - 0 BY <3>1, <3>2, Zenon DEF Owed
        <3> QED BY <3>3
    <2> QED BY <2>4, <2>5, <2>6
<1>2. IInv /\ [Next]_vars => IInv'
    BY PoolStep, FinalizerNext, WaitsExactStep DEF NoPooledChildren
<1>3. IInv => FreshFromPool BY CleanFromPool
<1> QED BY <1>1, <1>2, <1>3, PTL DEF Spec

=============================================================================
