------------------------------- MODULE MCPools -------------------------------
(***************************************************************************)
(* The pools, side by side: of objects, of goroutines, of slices, of       *)
(* checked objects, and the pool that looks for leaks.  They share         *)
(* nothing, so that a behaviour exercises one of them, picked at the       *)
(* start; the others stay in one initial state.                            *)
(***************************************************************************)
EXTENDS ObjectPool, WorkerPool, PooledWorkerPool, SlicePools, LeakcheckPool, Checked, TLC

VARIABLE pool

MCElem == {<<1, 1>>, <<1, 2>>, <<2, 1>>}
MCSizes == <<1, 3>>

poolsVars == <<pool, objectPoolVars, workerPoolVars, vars, slicePoolsVars, leakcheckVars, checkedVars>>

PoolsInit ==
    /\ pool \in {"ObjectPool", "WorkerPool", "PooledWorkerPool", "SlicePools", "LeakcheckPool", "Checked"}
    /\ ObjectPoolInit /\ WorkerPoolInit /\ InitPool /\ LeakcheckInit
    /\ SlicePoolsInit /\ (pool # "SlicePools" => poolKind = "bytes")
    /\ CheckedInit /\ (pool # "Checked" => given = CHOOSE f \in FinObj : TRUE)

\* Only pool p takes steps.
Only(p) ==
    /\ pool = p /\ UNCHANGED pool
    /\ p # "ObjectPool" => UNCHANGED objectPoolVars
    /\ p # "WorkerPool" => UNCHANGED workerPoolVars
    /\ p # "PooledWorkerPool" => UNCHANGED vars
    /\ p # "SlicePools" => UNCHANGED slicePoolsVars
    /\ p # "LeakcheckPool" => UNCHANGED leakcheckVars
    /\ p # "Checked" => UNCHANGED checkedVars

PoolsNext ==
    \/ Only("ObjectPool") /\ ObjectPoolNext
    \/ Only("WorkerPool") /\ WorkerPoolNext
    \/ Only("PooledWorkerPool") /\ Next
    \/ Only("SlicePools") /\ SlicePoolsNext
    \/ Only("LeakcheckPool") /\ LeakcheckNext
    \/ Only("Checked") /\ CheckedNext

\* Init goes on, the refilling goroutine and the Get calls under way too, work
\* functions return, and calls and goroutines that can go on do.
PoolsSpec ==
    /\ PoolsInit /\ [][PoolsNext]_poolsVars
    /\ WF_poolsVars(Only("ObjectPool") /\ ~panicked /\ InitStep)
    /\ WF_poolsVars(Only("ObjectPool") /\ ~panicked /\ FillStep)
    /\ \A c \in Client : WF_poolsVars(Only("ObjectPool") /\ ~panicked /\ GetCheck(c))
    /\ \A f \in Work : WF_poolsVars(Only("PooledWorkerPool") /\ GoStep(f))
    /\ \A w \in Worker : WF_poolsVars(Only("PooledWorkerPool") /\ WorkerStep(w))

=============================================================================
