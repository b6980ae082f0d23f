--------------------------- MODULE PooledWorkerPool ---------------------------
(***************************************************************************)
(* sync/pooled_worker_pool.go: goroutines that take work from the buffered *)
(* channels of the pool's shards, kill themselves at random, and are       *)
(* joined by temporary ones when a channel is full.  Clients call Go once  *)
(* Init has returned.                                                      *)
(***************************************************************************)
EXTENDS Integers, Sequences, FiniteSets, FiniteSetsExt, SequencesExt

CONSTANTS
    Work,            \* pieces of work, each given to Go once
    Worker,          \* goroutines, reused after they have ended
    NoWork,
    Size, NumShards, \* the size of the pool and the option NumShards
    GrowOnDemand     \* the option

ASSUME PooledWorkerPoolAssumption ==
    /\ IsFiniteSet(Work) /\ IsFiniteSet(Worker) /\ NoWork \notin Work
    /\ Size \in Nat \ {0} /\ NumShards \in Nat \ {0}
    /\ Cardinality(Worker) >= Size   \* goroutines can always be started
    /\ GrowOnDemand \in BOOLEAN

\* NewPooledWorkerPool: no more shards than workers, and a channel per shard
\* with room for the shard's part of the size.
numShards == Min({Size, NumShards})
Shard == 0 .. numShards - 1
Cap == Size \div numShards

VARIABLES
    workChs,     \* workChs[s]: the channel of the shard s
    numRoutinesAtomic,
    inited,      \* Init has returned
    go,          \* go[f]: where the work f is
    workChIdx,   \* workChIdx[f]: the shard Go has picked for f
    worker       \* worker[w]: the state of the goroutine w

vars == <<workChs, numRoutinesAtomic, inited, go, workChIdx, worker>>

\* A goroutine: "starting", at its "initial" work, in the "range" loop over the
\* channel of its shard, "busy" with work from there, "returned" from it to
\* throw the dice, "leaving" when they say so, "ended".  permanent: it spawns
\* its replacement before it leaves.
Ended == [at |-> "ended", shard |-> 0, permanent |-> FALSE, work |-> NoWork]

InitPool ==
    /\ workChs = [s \in Shard |-> <<>>]
    /\ numRoutinesAtomic = 0
    /\ inited = FALSE
    /\ go = [f \in Work |-> "new"]
    /\ workChIdx = [f \in Work |-> 0]
    /\ worker = [w \in Worker |-> Ended]

-----------------------------------------------------------------------------
Starting(s, f, p) == [at |-> "starting", shard |-> s, permanent |-> p, work |-> f]

\* A goroutine that has ended stands for the next one; it does not matter which.
Spare == {w \in Worker : worker[w] = Ended}
NextWorker == CHOOSE w \in Spare : TRUE

spawnWorker(s, f, p) ==
    /\ Spare # {}
    /\ worker' = [worker EXCEPT ![NextWorker] = Starting(s, f, p)]

\* Init spawns as many workers for a shard as its channel has room.
Init ==
    /\ ~inited /\ inited' = TRUE
    /\ LET team == CHOOSE t \in [Shard -> SUBSET Worker] :
                        /\ \A s \in Shard : Cardinality(t[s]) = Cap
                        /\ \A r, s \in Shard : r # s => t[r] \cap t[s] = {}
       IN  worker' = [w \in Worker |->
                        IF \E s \in Shard : w \in team[s]
                        THEN Starting(CHOOSE s \in Shard : w \in team[s], NoWork, TRUE)
                        ELSE Ended]
    /\ UNCHANGED <<workChs, numRoutinesAtomic, go, workChIdx>>

\* Go picks a shard by the clock.
GoCall(f, s) ==
    /\ inited /\ go[f] = "new"
    /\ go' = [go EXCEPT ![f] = "calling"]
    /\ workChIdx' = [workChIdx EXCEPT ![f] = s]
    /\ UNCHANGED <<workChs, numRoutinesAtomic, inited, worker>>

\* The work goes into the channel, ...
GoSend(f) ==
    /\ go[f] = "calling" /\ Len(workChs[workChIdx[f]]) < Cap
    /\ workChs' = [workChs EXCEPT ![workChIdx[f]] = Append(@, f)]
    /\ go' = [go EXCEPT ![f] = "accepted"]
    /\ UNCHANGED <<numRoutinesAtomic, inited, workChIdx, worker>>

\* ... or, with GrowOnDemand, to a temporary worker when the channel is full.
GoGrow(f) ==
    /\ go[f] = "calling" /\ Len(workChs[workChIdx[f]]) >= Cap /\ GrowOnDemand
    /\ spawnWorker(workChIdx[f], f, FALSE)
    /\ go' = [go EXCEPT ![f] = "accepted"]
    /\ UNCHANGED <<workChs, numRoutinesAtomic, inited, workChIdx>>

\* The goroutine counts itself and begins its initial work if it has any.
WorkerStart(w) ==
    /\ worker[w].at = "starting"
    /\ numRoutinesAtomic' = numRoutinesAtomic + 1
    /\ worker' = [worker EXCEPT ![w].at = IF worker[w].work = NoWork THEN "range" ELSE "initial"]
    /\ UNCHANGED <<workChs, inited, go, workChIdx>>

\* Faulty variant: every worker takes from the first channel.
WorkerTake_FirstShard(w) ==
    /\ worker[w].at = "range" /\ workChs[0] # <<>>
    /\ worker' = [worker EXCEPT ![w].at = "busy", ![w].work = Head(workChs[0])]
    /\ workChs' = [workChs EXCEPT ![0] = Tail(@)]
    /\ UNCHANGED <<numRoutinesAtomic, inited, go, workChIdx>>

\* f := <-workCh
WorkerTake(w) ==
    /\ worker[w].at = "range" /\ workChs[worker[w].shard] # <<>>
    /\ worker' = [worker EXCEPT ![w].at = "busy", ![w].work = Head(workChs[worker[w].shard])]
    /\ workChs' = [workChs EXCEPT ![worker[w].shard] = Tail(@)]
    /\ UNCHANGED <<numRoutinesAtomic, inited, go, workChIdx>>

\* The work returns.  The dice are thrown after work from the channel only.
WorkReturn(w) ==
    /\ worker[w].at \in {"initial", "busy"}
    /\ go' = [go EXCEPT ![worker[w].work] = "done"]
    /\ worker' = [worker EXCEPT ![w].at = IF @ = "initial" THEN "range" ELSE "returned",
                                ![w].work = NoWork]
    /\ UNCHANGED <<workChs, numRoutinesAtomic, inited, workChIdx>>

WorkerStays(w) ==
    /\ worker[w].at = "returned"
    /\ worker' = [worker EXCEPT ![w].at = "range"]
    /\ UNCHANGED <<workChs, numRoutinesAtomic, inited, go, workChIdx>>

\* Faulty variant: the replacement is a temporary worker.
WorkerKilled_Temporary(w) ==
    /\ worker[w].at = "returned"
    /\ IF worker[w].permanent
       THEN /\ Spare # {}
            /\ worker' = [worker EXCEPT ![w].at = "leaving",
                            ![NextWorker] = Starting(worker[w].shard, NoWork, FALSE)]
       ELSE worker' = [worker EXCEPT ![w].at = "leaving"]
    /\ UNCHANGED <<workChs, numRoutinesAtomic, inited, go, workChIdx>>

\* The dice say the worker is to be killed: a permanent one spawns another.
WorkerKilled(w) ==
    /\ worker[w].at = "returned"
    /\ IF worker[w].permanent
       THEN /\ Spare # {}
            /\ worker' = [worker EXCEPT ![w].at = "leaving",
                            ![NextWorker] = Starting(worker[w].shard, NoWork, TRUE)]
       ELSE worker' = [worker EXCEPT ![w].at = "leaving"]
    /\ UNCHANGED <<workChs, numRoutinesAtomic, inited, go, workChIdx>>

WorkerEnd(w) ==
    /\ worker[w].at = "leaving"
    /\ numRoutinesAtomic' = numRoutinesAtomic - 1
    /\ worker' = [worker EXCEPT ![w] = Ended]
    /\ UNCHANGED <<workChs, inited, go, workChIdx>>

-----------------------------------------------------------------------------
GoStep(f) == GoSend(f) \/ GoGrow(f)

WorkerStep(w) ==
    \/ WorkerStart(w) \/ WorkerTake(w) \/ WorkReturn(w)
    \/ WorkerStays(w) \/ WorkerKilled(w) \/ WorkerEnd(w)

Next ==
    \/ Init
    \/ \E f \in Work : GoStep(f) \/ \E s \in Shard : GoCall(f, s)
    \/ \E w \in Worker : WorkerStep(w)

Spec == InitPool /\ [][Next]_vars

-----------------------------------------------------------------------------
(* Properties.                                                             *)

\* Random kills do not shrink the pool: each shard keeps as many permanent
\* workers as Init gave it, replacements that have not started included.
ShardsStaffed ==
    inited => \A s \in Shard :
        Cardinality({w \in Worker : /\ worker[w].permanent /\ worker[w].shard = s
                                    /\ worker[w].at # "leaving"}) = Cap

\* All work given to Go gets done, if the work before it returns.
AllWorkDone == \A f \in Work : go[f] # "new" ~> go[f] = "done"

=============================================================================
