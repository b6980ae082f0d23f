------------------------------ MODULE WorkerPool ------------------------------
(***************************************************************************)
(* sync/worker_pool.go: a channel of tokens bounds the goroutines that do  *)
(* work.  A caller of Go waits for a token, one of GoIfAvailable does not  *)
(* wait and one of GoWithTimeout waits for a time.                         *)
(***************************************************************************)
EXTENDS Integers, FiniteSets

CONSTANTS
    Task,   \* pieces of work, each given to the pool in one call
    Tokens  \* capacity of the channel of tokens

ASSUME WorkerPoolAssumption == IsFiniteSet(Task) /\ Tokens \in Nat

VARIABLES
    workCh,    \* tokens in the channel
    filled,    \* tokens Init has sent
    call,      \* the call a piece of work was given with
    at         \* where it is

workerPoolVars == <<workCh, filled, call, at>>

Calls == {"none", "Go", "GoIfAvailable", "GoWithTimeout"}

\* at: "waiting": the caller is in its select or receive.  "refused": the call
\* returned false.  "worked": work() has returned, the token is not back yet.

WorkerPoolInit ==
    /\ workCh = 0 /\ filled = 0
    /\ call = [w \in Task |-> "none"]
    /\ at = [w \in Task |-> "new"]

\* One round of the loop of Init.
InitSend ==
    /\ filled < Tokens
    /\ workCh' = workCh + 1 /\ filled' = filled + 1
    /\ UNCHANGED <<call, at>>

\* A caller calls m with the work w.
Submit(w, m) ==
    /\ at[w] = "new" /\ m # "none"
    /\ call' = [call EXCEPT ![w] = m]
    /\ at' = [at EXCEPT ![w] = "waiting"]
    /\ UNCHANGED <<workCh, filled>>

\* Faulty variant: GoIfAvailable and GoWithTimeout run the work without a token.
Begin_NoToken(w) ==
    /\ at[w] = "waiting" /\ (workCh > 0 \/ call[w] # "Go")
    /\ workCh' = IF workCh > 0 THEN workCh - 1 ELSE workCh
    /\ at' = [at EXCEPT ![w] = "running"]
    /\ UNCHANGED <<filled, call>>

\* A token is received and the goroutine for w starts.
Begin(w) ==
    /\ at[w] = "waiting" /\ workCh > 0
    /\ workCh' = workCh - 1
    /\ at' = [at EXCEPT ![w] = "running"]
    /\ UNCHANGED <<filled, call>>

\* The default of GoIfAvailable, or the timeout of GoWithTimeout: with a token
\* there as well the select may take either case.
Refuse(w) ==
    /\ at[w] = "waiting"
    /\ \/ call[w] = "GoIfAvailable" /\ workCh = 0
       \/ call[w] = "GoWithTimeout"
    /\ at' = [at EXCEPT ![w] = "refused"]
    /\ UNCHANGED <<workCh, filled, call>>

\* work() returns.
Execute(w) ==
    /\ at[w] = "running"
    /\ at' = [at EXCEPT ![w] = "worked"]
    /\ UNCHANGED <<workCh, filled, call>>

\* The token goes back; the send would block on a full channel.
Return(w) ==
    /\ at[w] = "worked" /\ workCh < Tokens
    /\ workCh' = workCh + 1
    /\ at' = [at EXCEPT ![w] = "done"]
    /\ UNCHANGED <<filled, call>>

WorkerPoolNext ==
    \/ InitSend
    \/ \E w \in Task : \/ \E m \in Calls : Submit(w, m)
                       \/ Begin(w) \/ Refuse(w) \/ Execute(w) \/ Return(w)

WorkerPoolSpec == WorkerPoolInit /\ [][WorkerPoolNext]_workerPoolVars

-----------------------------------------------------------------------------
(* Properties.                                                             *)

Busy == {w \in Task : at[w] \in {"running", "worked"}}

\* Tokens are neither lost nor made: those in the channel and those of the
\* goroutines at work are the ones Init has sent, so that never more than
\* Tokens pieces of work run at a time and returning a token never blocks.
TokensConserved == workCh + Cardinality(Busy) = filled

=============================================================================
