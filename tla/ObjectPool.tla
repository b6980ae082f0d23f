------------------------------ MODULE ObjectPool ------------------------------
(***************************************************************************)
(* pool/object.go: a channel of free objects, an allocator for when it is  *)
(* empty, and a goroutine that refills it between two watermarks.          *)
(*                                                                         *)
(* Init is several steps, because nothing keeps other goroutines out of    *)
(* the pool once its first step has set initialized.  Get is two steps:    *)
(* taking an object, and the look at the length of the channel.  Clients   *)
(* put only objects they have got, once, so no Put comes before Init.  The *)
(* gauges, which nothing reads, are left out.                              *)
(***************************************************************************)
EXTENDS Integers, Sequences, FiniteSets, SequencesExt

CONSTANTS
    Obj,         \* objects the allocator can make
    Client,      \* goroutines that use the pool
    NoObj,
    MaxHeld,     \* bound on the objects a client has at a time
    PoolSize, refillLowWatermark, refillHighWatermark

ASSUME ObjectPoolAssumption ==
    /\ NoObj \notin Obj
    /\ PoolSize \in Nat /\ refillLowWatermark \in 0 .. PoolSize /\ refillHighWatermark \in 0 .. PoolSize
    /\ MaxHeld \in Nat

VARIABLES
    \* @struct objectPool
    values, alloc, filling, initialized,
    init, toFill,  \* the Init call, and the sends its loop has still to do
    filler, made,  \* the goroutine of tryFill, and the object it has made
    client,        \* where the Get of a client is
    held,          \* the objects a client has
    fresh,         \* the objects not made yet, or dropped and collected
    panicked       \* the nil allocator has been called

poolVars == <<values, alloc, filling, initialized>>
objectPoolVars == <<poolVars, init, toFill, filler, made, client, held, fresh, panicked>>

\* NewObjectPool.
ObjectPoolInit ==
    /\ values = <<>> /\ alloc = FALSE /\ filling = FALSE /\ initialized = FALSE
    /\ init = "idle" /\ toFill = 0
    /\ filler = "off" /\ made = NoObj
    /\ client = [c \in Client |-> "idle"]
    /\ held = [c \in Client |-> {}]
    /\ fresh = Obj
    /\ panicked = FALSE

-----------------------------------------------------------------------------
(* Init.  A second call only reports errPoolAlreadyInitialized.            *)

InitBegin ==
    /\ ~initialized
    /\ initialized' = TRUE /\ init' = "alloc"
    /\ UNCHANGED <<values, alloc, filling, toFill, filler, made, client, held, fresh, panicked>>

InitAlloc ==
    /\ init = "alloc"
    /\ alloc' = TRUE /\ init' = "fill" /\ toFill' = PoolSize
    /\ UNCHANGED <<values, filling, initialized, filler, made, client, held, fresh, panicked>>

\* One round of the loop: the send blocks while the channel is full.
InitFill ==
    /\ init = "fill" /\ toFill > 0 /\ Len(values) < PoolSize
    /\ \E o \in fresh : values' = Append(values, o) /\ fresh' = fresh \ {o}
    /\ toFill' = toFill - 1
    /\ UNCHANGED <<alloc, filling, initialized, init, filler, made, client, held, panicked>>

InitReturn ==
    /\ init = "fill" /\ toFill = 0
    /\ init' = "returned"
    /\ UNCHANGED <<poolVars, toFill, filler, made, client, held, fresh, panicked>>

-----------------------------------------------------------------------------
(* Get, Put and tryFill.                                                   *)

\* Faulty variant: the object is handed out and stays in the channel.
Get_Stays(c) ==
    /\ client[c] = "idle" /\ Cardinality(held[c]) < MaxHeld /\ values # <<>>
    /\ held' = [held EXCEPT ![c] = @ \cup {Head(values)}]
    /\ client' = [client EXCEPT ![c] = "check"]
    /\ UNCHANGED <<poolVars, init, toFill, filler, made, fresh, panicked>>

\* Get takes a free object, or makes one when there is none.  Before Init it
\* reports errPoolGetBeforeInitialized, and then calls the allocator as well;
\* a Get right after InitBegin meets the same nil allocator, and no report.
Get(c) ==
    /\ client[c] = "idle" /\ Cardinality(held[c]) < MaxHeld
    /\ \/ /\ values # <<>>
          /\ held' = [held EXCEPT ![c] = @ \cup {Head(values)}]
          /\ values' = Tail(values)
          /\ UNCHANGED <<fresh, panicked>>
       \/ /\ values = <<>> /\ alloc
          /\ \E o \in fresh : held' = [held EXCEPT ![c] = @ \cup {o}] /\ fresh' = fresh \ {o}
          /\ UNCHANGED <<values, panicked>>
       \/ /\ values = <<>> /\ ~alloc
          /\ panicked' = TRUE
          /\ UNCHANGED <<values, held, fresh>>
    /\ client' = [client EXCEPT ![c] = "check"]
    /\ UNCHANGED <<alloc, filling, initialized, init, toFill, filler, made>>

\* The rest of Get: tryFill starts the goroutine unless there is one.
GetCheck(c) ==
    /\ client[c] = "check"
    /\ client' = [client EXCEPT ![c] = "idle"]
    /\ IF refillLowWatermark > 0 /\ Len(values) <= refillLowWatermark /\ ~filling
       THEN filling' = TRUE /\ filler' = "check"
       ELSE UNCHANGED <<filling, filler>>
    /\ UNCHANGED <<values, alloc, initialized, init, toFill, made, held, fresh, panicked>>

\* Put drops the object when the channel is full.
Put(c, o) ==
    /\ client[c] = "idle" /\ o \in held[c] /\ initialized
    /\ held' = [held EXCEPT ![c] = @ \ {o}]
    /\ IF Len(values) < PoolSize
       THEN values' = Append(values, o) /\ UNCHANGED fresh
       ELSE fresh' = fresh \cup {o} /\ UNCHANGED values
    /\ UNCHANGED <<alloc, filling, initialized, init, toFill, filler, made, client, panicked>>

\* Faulty variant: the goroutine stops at the low watermark.
FillCheck_Low ==
    /\ filler = "check"
    /\ \/ /\ Len(values) < refillLowWatermark
          /\ \E o \in fresh : made' = o /\ fresh' = fresh \ {o}
          /\ filler' = "send"
       \/ /\ Len(values) >= refillLowWatermark
          /\ filler' = "exit" /\ UNCHANGED <<made, fresh>>
    /\ UNCHANGED <<poolVars, init, toFill, client, held, panicked>>

\* The goroutine of tryFill: the select makes the object before it looks for
\* room in the channel.
FillCheck ==
    /\ filler = "check"
    /\ \/ /\ Len(values) < refillHighWatermark
          /\ \E o \in fresh : made' = o /\ fresh' = fresh \ {o}
          /\ filler' = "send"
       \/ /\ Len(values) >= refillHighWatermark
          /\ filler' = "exit" /\ UNCHANGED <<made, fresh>>
    /\ UNCHANGED <<poolVars, init, toFill, client, held, panicked>>

FillSend ==
    /\ filler = "send"
    /\ IF Len(values) < PoolSize
       THEN values' = Append(values, made) /\ filler' = "check" /\ UNCHANGED fresh
       ELSE fresh' = fresh \cup {made} /\ filler' = "exit" /\ UNCHANGED values
    /\ made' = NoObj
    /\ UNCHANGED <<alloc, filling, initialized, init, toFill, client, held, panicked>>

FillExit ==
    /\ filler = "exit"
    /\ filling' = FALSE /\ filler' = "off"
    /\ UNCHANGED <<values, alloc, initialized, init, toFill, made, client, held, fresh, panicked>>

-----------------------------------------------------------------------------
InitStep == InitAlloc \/ InitFill \/ InitReturn
FillStep == FillCheck \/ FillSend \/ FillExit

ObjectPoolNext ==
    /\ ~panicked
    /\ \/ InitBegin \/ InitStep \/ FillStep
       \/ \E c \in Client : Get(c) \/ GetCheck(c) \/ \E o \in Obj : Put(c, o)

ObjectPoolSpec == ObjectPoolInit /\ [][ObjectPoolNext]_objectPoolVars

-----------------------------------------------------------------------------
(* Properties.                                                             *)

\* Every object has one place: the channel of free objects (once), one
\* client, the refilling goroutine, or none.  Two clients never share one.
OneOwner ==
    \A o \in Obj :
        /\ \A i, j \in DOMAIN values : values[i] = o /\ values[j] = o => i = j
        /\ \A c, d \in Client : o \in held[c] /\ o \in held[d] => c = d
        /\ (\E c \in Client : o \in held[c]) => ~Contains(values, o)
        /\ o = made => ~Contains(values, o) /\ \A c \in Client : o \notin held[c]
        /\ o \in fresh => o # made /\ ~Contains(values, o) /\ \A c \in Client : o \notin held[c]

\* A refill that has begun gets the pool to the high watermark, unless the
\* program panics: clients take objects out meanwhile, but each of them holds
\* at most MaxHeld.
RefillReachesHigh == filler = "check" ~> panicked \/ Len(values) >= refillHighWatermark

=============================================================================
