----------------------------- MODULE PoolProofs -----------------------------
(***************************************************************************)
(* Theorems about the pools of goroutines, of objects and of checked       *)
(* objects, for any number of tasks, tokens, clients, users and objects    *)
(* and any watermarks.                                                     *)
(***************************************************************************)
EXTENDS ObjectPool, WorkerPool, PooledWorkerPool, Checked,
        FiniteSetTheorems, FunctionTheorems, SequenceTheorems, TLAPS

-----------------------------------------------------------------------------
(* WorkerPool.                                                             *)

WorkAt == {"new", "waiting", "running", "worked", "refused", "done"}

\* workCh is a channel: it never has fewer tokens than none, and Init sends no
\* more than it has room for.
WorkerPoolTypeOK ==
    /\ workCh \in Nat /\ filled \in 0 .. Tokens
    /\ at \in [Task -> WorkAt]

WorkerPoolInv == WorkerPoolTypeOK /\ TokensConserved

LEMMA BusyFinite == IsFiniteSet(Busy) /\ Cardinality(Busy) \in Nat
<1>1. Busy \in SUBSET Task BY DEF Busy
<1> QED BY <1>1, FS_Subset, FS_CardinalityType, WorkerPoolAssumption

LEMMA WorkerPoolInitInv == WorkerPoolInit => WorkerPoolInv
<1> SUFFICES ASSUME WorkerPoolInit PROVE WorkerPoolInv
    OBVIOUS
<1>1. WorkerPoolTypeOK
    BY WorkerPoolAssumption DEF WorkerPoolInit, WorkerPoolTypeOK, WorkAt
<1>2. Busy = {} BY DEF WorkerPoolInit, Busy
<1> QED BY <1>1, <1>2, FS_EmptySet DEF WorkerPoolInit, WorkerPoolInv, TokensConserved

LEMMA WorkerPoolStep == WorkerPoolInv /\ [WorkerPoolNext]_workerPoolVars => WorkerPoolInv'
<1> SUFFICES ASSUME WorkerPoolInv, [WorkerPoolNext]_workerPoolVars PROVE WorkerPoolInv'
    OBVIOUS
<1> USE WorkerPoolAssumption
    DEF WorkerPoolInv, WorkerPoolTypeOK, WorkAt, TokensConserved
<1>1. CASE InitSend
    <2>1. Busy' = Busy BY <1>1 DEF InitSend, Busy
    <2> QED BY <1>1, <2>1, BusyFinite DEF InitSend
<1>2. ASSUME NEW w \in Task, NEW m \in Calls, Submit(w, m) PROVE WorkerPoolInv'
    <2>1. Busy' = Busy BY <1>2 DEF Submit, Busy
    <2> QED BY <1>2, <2>1 DEF Submit
<1>3. ASSUME NEW w \in Task, Begin(w) PROVE WorkerPoolInv'
    <2>1. w \notin Busy /\ Busy' = Busy \cup {w} BY <1>3 DEF Begin, Busy
    <2>2. Cardinality(Busy') = Cardinality(Busy) + 1 BY <2>1, BusyFinite, FS_AddElement
    <2> QED BY <1>3, <2>2, BusyFinite DEF Begin
<1>4. ASSUME NEW w \in Task, Refuse(w) PROVE WorkerPoolInv'
    <2>1. Busy' = Busy BY <1>4 DEF Refuse, Busy
    <2> QED BY <1>4, <2>1 DEF Refuse
<1>5. ASSUME NEW w \in Task, Execute(w) PROVE WorkerPoolInv'
    <2>1. Busy' = Busy BY <1>5 DEF Execute, Busy
    <2> QED BY <1>5, <2>1 DEF Execute
<1>6. ASSUME NEW w \in Task, Return(w) PROVE WorkerPoolInv'
    <2>1. w \in Busy /\ Busy' = Busy \ {w} BY <1>6 DEF Return, Busy
    <2>2. Cardinality(Busy') = Cardinality(Busy) - 1 BY <2>1, BusyFinite, FS_RemoveElement
    <2> QED BY <1>6, <2>2, BusyFinite DEF Return
<1>7. CASE UNCHANGED workerPoolVars
    <2>1. Busy' = Busy BY <1>7 DEF workerPoolVars, Busy
    <2> QED BY <1>7, <2>1 DEF workerPoolVars
<1> QED BY <1>1, <1>2, <1>3, <1>4, <1>5, <1>6, <1>7 DEF WorkerPoolNext

THEOREM WorkerPoolInvariant == WorkerPoolSpec => []WorkerPoolInv
BY WorkerPoolInitInv, WorkerPoolStep, PTL DEF WorkerPoolSpec

\* Go, GoIfAvailable and GoWithTimeout neither lose nor make a token: those in
\* the channel and those of the work under way are the ones Init has sent.
THEOREM TokensAreConserved == WorkerPoolSpec => []TokensConserved
<1>1. WorkerPoolInv => TokensConserved BY DEF WorkerPoolInv
<1> QED BY <1>1, WorkerPoolInvariant, PTL

\* What the tokens are for: never more than Tokens pieces of work run at a
\* time, and the goroutine that gives its token back finds room for it.
WorkBounded ==
    /\ Cardinality(Busy) <= Tokens
    /\ \A w \in Task : at[w] = "worked" => workCh < Tokens

THEOREM WorkIsBounded == WorkerPoolSpec => []WorkBounded
<1>1. WorkerPoolInv => WorkBounded
    <2> SUFFICES ASSUME WorkerPoolInv PROVE WorkBounded
        OBVIOUS
    <2> USE WorkerPoolAssumption DEF WorkerPoolInv, WorkerPoolTypeOK, TokensConserved
    <2>1. Cardinality(Busy) <= Tokens BY BusyFinite
    <2>2. ASSUME NEW w \in Task, at[w] = "worked" PROVE workCh < Tokens
        <3>1. Busy # {} BY <2>2 DEF Busy
        <3>2. Cardinality(Busy) # 0 BY <3>1, BusyFinite, FS_EmptySet
        <3> QED BY <3>2, BusyFinite
    <2> QED BY <2>1, <2>2 DEF WorkBounded
<1> QED BY <1>1, WorkerPoolInvariant, PTL

-----------------------------------------------------------------------------
(* ObjectPool.                                                             *)

\* No two places of a sequence hold the same.
Distinct(s) == \A i, j \in DOMAIN s : s[i] = s[j] => i = j

\* Sending x into a channel that does not have it.
LEMMA AppendDistinct ==
    ASSUME NEW S, NEW s \in Seq(S), NEW x \in S, Distinct(s), ~Contains(s, x)
    PROVE  /\ Distinct(Append(s, x))
           /\ \A y : Contains(Append(s, x), y) <=> Contains(s, y) \/ y = x
<1>1. /\ Append(s, x) \in Seq(S) /\ Len(Append(s, x)) = Len(s) + 1
      /\ \A i \in 1 .. Len(s) : Append(s, x)[i] = s[i]
      /\ Append(s, x)[Len(s) + 1] = x
    BY AppendProperties
<1>2. DOMAIN s = 1 .. Len(s) /\ DOMAIN Append(s, x) = 1 .. Len(s) + 1 /\ Len(s) \in Nat
    BY <1>1, LenProperties
<1> QED BY <1>1, <1>2 DEF Distinct, Contains

\* Receiving from it.
LEMMA TailDistinct ==
    ASSUME NEW S, NEW s \in Seq(S), s # <<>>, Distinct(s)
    PROVE  /\ Distinct(Tail(s)) /\ Contains(s, Head(s))
           /\ \A y : Contains(Tail(s), y) <=> Contains(s, y) /\ y # Head(s)
<1>1. /\ Tail(s) \in Seq(S) /\ Len(Tail(s)) = Len(s) - 1 /\ Head(s) = s[1]
      /\ \A i \in 1 .. Len(Tail(s)) : Tail(s)[i] = s[i + 1]
    BY HeadTailProperties
<1>2. DOMAIN s = 1 .. Len(s) /\ DOMAIN Tail(s) = 1 .. Len(s) - 1 /\ Len(s) \in Nat \ {0}
    BY <1>1, LenProperties, EmptySeq
<1>3. Distinct(Tail(s)) BY <1>1, <1>2 DEF Distinct
<1>4. Contains(s, Head(s)) BY <1>1, <1>2 DEF Contains
<1>5. ASSUME NEW y, Contains(Tail(s), y) PROVE Contains(s, y) /\ y # Head(s)
    <2>1. PICK i \in 1 .. Len(s) - 1 : Tail(s)[i] = y BY <1>1, <1>5 DEF Contains
    <2>2. i + 1 \in 1 .. Len(s) /\ s[i + 1] = y BY <1>1, <1>2, <2>1
    <2> QED BY <1>1, <1>2, <2>2 DEF Contains, Distinct
<1>6. ASSUME NEW y, Contains(s, y), y # Head(s) PROVE Contains(Tail(s), y)
    <2>1. PICK i \in 1 .. Len(s) : s[i] = y BY <1>6 DEF Contains
    <2>2. i # 1 BY <1>1, <1>6, <2>1
    <2>3. i - 1 \in 1 .. Len(s) - 1 /\ (i - 1) + 1 = i BY <1>2, <2>1, <2>2
    <2>4. Tail(s)[i - 1] = y BY <1>1, <2>1, <2>3
    <2> QED BY <1>1, <2>3, <2>4 DEF Contains
<1> QED BY <1>3, <1>4, <1>5, <1>6

\* made is the object that the refilling goroutine has in hand, and filling
\* is set as long as there is such a goroutine.
ObjectPoolTypeOK ==
    /\ values \in Seq(Obj) /\ Len(values) <= PoolSize
    /\ held \in [Client -> SUBSET Obj] /\ fresh \in SUBSET Obj
    /\ client \in [Client -> {"idle", "check"}]
    /\ toFill \in Nat
    /\ filler \in {"off", "check", "send", "exit"}
    /\ made \in IF filler = "send" THEN Obj ELSE {NoObj}
    /\ filling = (filler # "off")

\* OneOwner in terms of the four places an object can be in.
Owned(v, h, m, f) ==
    /\ Distinct(v)
    /\ \A o \in Obj :
        /\ \A c, d \in Client : o \in h[c] /\ o \in h[d] => c = d
        /\ (\E c \in Client : o \in h[c]) => ~Contains(v, o)
        /\ o = m => ~Contains(v, o) /\ \A c \in Client : o \notin h[c]
        /\ o \in f => o # m /\ ~Contains(v, o) /\ \A c \in Client : o \notin h[c]

LEMMA OwnedIsOneOwner ==
    ASSUME ObjectPoolTypeOK PROVE OneOwner <=> Owned(values, held, made, fresh)
<1>1. \A i \in DOMAIN values : values[i] \in Obj
    BY ElementOfSeq, LenProperties DEF ObjectPoolTypeOK
<1> QED BY <1>1, Zenon DEF OneOwner, Owned, Distinct

ObjectPoolInv == ObjectPoolTypeOK /\ Owned(values, held, made, fresh)

LEMMA ObjectPoolInitInv == ObjectPoolInit => ObjectPoolInv
<1> SUFFICES ASSUME ObjectPoolInit PROVE ObjectPoolInv
    OBVIOUS
<1> USE ObjectPoolAssumption DEF ObjectPoolInit
<1>1. values \in Seq(Obj) /\ Len(values) = 0 BY EmptySeq
<1>2. ObjectPoolTypeOK
    <2>1. filling = (filler # "off") OBVIOUS
    <2>2. held \in [Client -> SUBSET Obj] /\ client \in [Client -> {"idle", "check"}] OBVIOUS
    <2> QED BY <1>1, <2>1, <2>2 DEF ObjectPoolTypeOK
<1>3. Distinct(values) /\ \A o : ~Contains(values, o) BY DEF Distinct, Contains
<1>4. \A o \in Obj : o # made /\ \A c \in Client : o \notin held[c] OBVIOUS
<1>5. Owned(values, held, made, fresh) BY <1>3, <1>4, Zenon DEF Owned
<1> QED BY <1>2, <1>5 DEF ObjectPoolInv

\* An object that is in no client's hand and not in the channel can be sent.
LEMMA SendOwned ==
    ASSUME ObjectPoolTypeOK, Len(values) < PoolSize,
           NEW o \in Obj, ~Contains(values, o), Distinct(values)
    PROVE  /\ Append(values, o) \in Seq(Obj) /\ Len(Append(values, o)) <= PoolSize
           /\ Distinct(Append(values, o))
           /\ \A y : Contains(Append(values, o), y) <=> Contains(values, y) \/ y = o
<1>1. values \in Seq(Obj) BY DEF ObjectPoolTypeOK
<1>2. /\ Append(values, o) \in Seq(Obj)
      /\ Len(Append(values, o)) = Len(values) + 1 /\ Len(values) \in Nat
    BY <1>1, AppendProperties, LenProperties
<1> QED BY <1>1, <1>2, AppendDistinct, ObjectPoolAssumption

LEMMA InitFillInv == ASSUME ObjectPoolInv, InitFill PROVE ObjectPoolInv'
<1> USE ObjectPoolAssumption DEF ObjectPoolInv
<1>1. PICK o \in fresh : values' = Append(values, o) /\ fresh' = fresh \ {o}
    BY DEF InitFill
<1>2. o \in Obj /\ o # made /\ ~Contains(values, o) /\ \A c \in Client : o \notin held[c]
    BY <1>1 DEF ObjectPoolTypeOK, Owned
<1>3. /\ values' \in Seq(Obj) /\ Len(values') <= PoolSize /\ Distinct(values')
      /\ \A y : Contains(values', y) <=> Contains(values, y) \/ y = o
    BY <1>1, <1>2, SendOwned DEF InitFill, Owned
<1>4. ObjectPoolTypeOK' BY <1>1, <1>3 DEF InitFill, ObjectPoolTypeOK
<1>5. held' = held /\ made' = made BY DEF InitFill
<1>6. Owned(values', held', made', fresh')
    BY <1>1, <1>2, <1>3, <1>5, Zenon DEF Owned
<1> QED BY <1>4, <1>6

LEMMA GetInv == ASSUME ObjectPoolInv, NEW c \in Client, Get(c) PROVE ObjectPoolInv'
<1> USE ObjectPoolAssumption DEF ObjectPoolInv
<1>0. client' = [client EXCEPT ![c] = "check"] /\ UNCHANGED <<filling, toFill, filler, made>>
    BY DEF Get
<1>1. ASSUME values # <<>>, values' = Tail(values), fresh' = fresh,
             held' = [held EXCEPT ![c] = @ \cup {Head(values)}]
      PROVE  ObjectPoolInv'
    <2> DEFINE o == Head(values)
    <2>1. /\ o \in Obj /\ values' \in Seq(Obj) /\ Len(values') <= PoolSize
        BY <1>1, HeadTailProperties, LenProperties DEF ObjectPoolTypeOK
    <2>2. /\ Distinct(values') /\ Contains(values, o)
          /\ \A y : Contains(values', y) <=> Contains(values, y) /\ y # o
        BY <1>1, TailDistinct DEF ObjectPoolTypeOK, Owned
    <2>3. ObjectPoolTypeOK' BY <1>0, <1>1, <2>1 DEF ObjectPoolTypeOK
    <2>4. \A d \in Client : \A x : x \in held'[d] <=> x \in held[d] \/ (d = c /\ x = o)
        BY <1>1 DEF ObjectPoolTypeOK
    <2> HIDE DEF o
    <2>5. Owned(values', held', made', fresh')
        BY <1>0, <1>1, <2>1, <2>2, <2>4 DEF Owned
    <2> QED BY <2>3, <2>5
<1>2. ASSUME NEW o \in fresh, held' = [held EXCEPT ![c] = @ \cup {o}],
             fresh' = fresh \ {o}, values' = values
      PROVE  ObjectPoolInv'
    <2>1. o \in Obj /\ o # made /\ ~Contains(values, o) /\ \A d \in Client : o \notin held[d]
        BY DEF ObjectPoolTypeOK, Owned
    <2>2. ObjectPoolTypeOK' BY <1>0, <1>2, <2>1 DEF ObjectPoolTypeOK
    <2>3. \A d \in Client : \A x : x \in held'[d] <=> x \in held[d] \/ (d = c /\ x = o)
        BY <1>2 DEF ObjectPoolTypeOK
    <2>4. Owned(values', held', made', fresh')
        BY <1>0, <1>2, <2>1, <2>3 DEF Owned
    <2> QED BY <2>2, <2>4
<1>3. ASSUME UNCHANGED <<values, held, fresh>> PROVE ObjectPoolInv'
    BY <1>0, <1>3 DEF ObjectPoolTypeOK
<1> QED BY <1>1, <1>2, <1>3 DEF Get

LEMMA PutInv ==
    ASSUME ObjectPoolInv, NEW c \in Client, NEW o \in Obj, Put(c, o) PROVE ObjectPoolInv'
<1> USE ObjectPoolAssumption DEF ObjectPoolInv
<1>1. /\ o \in held[c] /\ held' = [held EXCEPT ![c] = @ \ {o}]
      /\ UNCHANGED <<filling, toFill, filler, made, client>>
    BY DEF Put
<1>2. o # made /\ ~Contains(values, o) /\ \A d \in Client : o \in held[d] => d = c
    BY <1>1 DEF Owned
<1>3. \A d \in Client : \A x : x \in held'[d] <=> x \in held[d] /\ (d = c => x # o)
    BY <1>1 DEF ObjectPoolTypeOK
<1>4. CASE Len(values) < PoolSize
    <2>1. values' = Append(values, o) /\ fresh' = fresh BY <1>4 DEF Put
    <2>2. /\ values' \in Seq(Obj) /\ Len(values') <= PoolSize /\ Distinct(values')
          /\ \A y : Contains(values', y) <=> Contains(values, y) \/ y = o
        BY <1>2, <1>4, <2>1, SendOwned DEF Owned
    <2>3. ObjectPoolTypeOK' BY <1>1, <2>1, <2>2 DEF ObjectPoolTypeOK
    <2>4. o \notin fresh BY <1>1 DEF Owned
    <2>5. Owned(values', held', made', fresh')
        BY <1>1, <1>2, <1>3, <2>1, <2>2, <2>4 DEF Owned
    <2> QED BY <2>3, <2>5
<1>5. CASE ~(Len(values) < PoolSize)
    <2>1. values' = values /\ fresh' = fresh \cup {o} BY <1>5 DEF Put
    <2>2. ObjectPoolTypeOK' BY <1>1, <2>1 DEF ObjectPoolTypeOK
    <2>3. Owned(values', held', made', fresh')
        BY <1>1, <1>2, <1>3, <2>1 DEF Owned
    <2> QED BY <2>2, <2>3
<1> QED BY <1>4, <1>5

LEMMA FillInv == ASSUME ObjectPoolInv, FillStep PROVE ObjectPoolInv'
<1> USE ObjectPoolAssumption DEF ObjectPoolInv
<1>1. CASE FillCheck
    <2>1. ASSUME NEW o \in fresh, made' = o, fresh' = fresh \ {o}, filler' = "send"
          PROVE  ObjectPoolInv'
        <3>1. o \in Obj /\ ~Contains(values, o) /\ \A d \in Client : o \notin held[d]
            BY DEF ObjectPoolTypeOK, Owned
        <3>2. ObjectPoolTypeOK' BY <1>1, <2>1, <3>1 DEF FillCheck, poolVars, ObjectPoolTypeOK
        <3>3. values' = values /\ held' = held BY <1>1 DEF FillCheck, poolVars
        <3>4. Owned(values', held', made', fresh')
            BY <2>1, <3>1, <3>3, Zenon DEF Owned
        <3> QED BY <3>2, <3>4
    <2>2. CASE filler' = "exit" /\ UNCHANGED <<made, fresh>>
        BY <1>1, <2>2 DEF FillCheck, poolVars, ObjectPoolTypeOK
    <2> QED BY <1>1, <2>1, <2>2 DEF FillCheck
<1>2. CASE FillSend
    <2>1. /\ made \in Obj /\ made \notin fresh /\ ~Contains(values, made)
          /\ \A d \in Client : made \notin held[d]
        BY <1>2 DEF FillSend, ObjectPoolTypeOK, Owned
    <2>2. held' = held /\ made' = NoObj BY <1>2 DEF FillSend
    <2>3. CASE Len(values) < PoolSize
        <3>1. values' = Append(values, made) /\ fresh' = fresh BY <1>2, <2>3 DEF FillSend
        <3>2. /\ values' \in Seq(Obj) /\ Len(values') <= PoolSize /\ Distinct(values')
              /\ \A y : Contains(values', y) <=> Contains(values, y) \/ y = made
            BY <2>1, <2>3, <3>1, SendOwned DEF Owned
        <3>3. ObjectPoolTypeOK' BY <1>2, <2>3, <3>1, <3>2 DEF FillSend, ObjectPoolTypeOK
        <3>4. Owned(values', held', made', fresh')
            BY <2>1, <2>2, <3>1, <3>2 DEF Owned
        <3> QED BY <3>3, <3>4
    <2>4. CASE ~(Len(values) < PoolSize)
        <3>1. values' = values /\ fresh' = fresh \cup {made} BY <1>2, <2>4 DEF FillSend
        <3>2. ObjectPoolTypeOK' BY <1>2, <2>1, <2>4, <3>1 DEF FillSend, ObjectPoolTypeOK
        <3>3. Owned(values', held', made', fresh')
            BY <2>1, <2>2, <3>1 DEF Owned
        <3> QED BY <3>2, <3>3
    <2> QED BY <2>3, <2>4
<1>3. CASE FillExit
    BY <1>3 DEF FillExit, ObjectPoolTypeOK
<1> QED BY <1>1, <1>2, <1>3 DEF FillStep

LEMMA ObjectPoolStep == ObjectPoolInv /\ [ObjectPoolNext]_objectPoolVars => ObjectPoolInv'
<1> SUFFICES ASSUME ObjectPoolInv, [ObjectPoolNext]_objectPoolVars PROVE ObjectPoolInv'
    OBVIOUS
<1>1. CASE InitBegin \/ InitAlloc \/ InitReturn
    BY <1>1, ObjectPoolAssumption
       DEF InitBegin, InitAlloc, InitReturn, poolVars, ObjectPoolInv, ObjectPoolTypeOK
<1>2. CASE InitFill BY <1>2, InitFillInv
<1>3. CASE FillStep BY <1>3, FillInv
<1>4. ASSUME NEW c \in Client, Get(c) PROVE ObjectPoolInv' BY <1>4, GetInv
<1>5. ASSUME NEW c \in Client, GetCheck(c) PROVE ObjectPoolInv'
    BY <1>5, ObjectPoolAssumption DEF GetCheck, ObjectPoolInv, ObjectPoolTypeOK
<1>6. ASSUME NEW c \in Client, NEW o \in Obj, Put(c, o) PROVE ObjectPoolInv' BY <1>6, PutInv
<1>7. CASE UNCHANGED objectPoolVars
    BY <1>7 DEF objectPoolVars, poolVars, ObjectPoolInv, ObjectPoolTypeOK
<1> QED BY <1>1, <1>2, <1>3, <1>4, <1>5, <1>6, <1>7 DEF ObjectPoolNext, InitStep

\* Every object of the pool is in one place: in the channel once, with one
\* client, in the hand of the refilling goroutine or with nobody, whatever the
\* interleaving of Init, Get, Put and the refill.
THEOREM ObjectsHaveOneOwner == ObjectPoolSpec => []OneOwner
<1>1. ObjectPoolInv => OneOwner BY OwnedIsOneOwner DEF ObjectPoolInv
<1> QED BY <1>1, ObjectPoolInitInv, ObjectPoolStep, PTL DEF ObjectPoolSpec

-----------------------------------------------------------------------------
(* PooledWorkerPool.                                                       *)

LEMMA ShardsProperties ==
    /\ numShards \in Nat \ {0} /\ Cap \in Nat /\ numShards * Cap <= Size
    /\ 0 \in Shard /\ Shard \subseteq Nat
    /\ \A s \in Shard : s + 1 <= numShards
<1>1. numShards \in {Size, NumShards}
    <2>1. \E x \in {Size, NumShards} : \A y \in {Size, NumShards} : x =< y
        BY PooledWorkerPoolAssumption
    <2> QED BY <2>1 DEF numShards, Min
<1>2. numShards \in Nat \ {0} BY <1>1, PooledWorkerPoolAssumption
<1>3. ASSUME NEW n \in Nat \ {0} PROVE Size \div n \in Nat /\ n * (Size \div n) <= Size
    BY PooledWorkerPoolAssumption
<1>4. Cap \in Nat /\ numShards * Cap <= Size BY <1>2, <1>3 DEF Cap
<1> QED BY <1>2, <1>4 DEF Shard

LEMMA TimesMonotone ==
    ASSUME NEW a \in Nat, NEW b \in Nat, NEW c \in Nat, a <= b
    PROVE  a * c <= b * c /\ a * c \in Nat /\ (a + 1) * c = a * c + c
OBVIOUS

\* Of Size goroutines Init can form a team of Cap for each shard.
LEMMA TeamsExist ==
    \E t \in [Shard -> SUBSET Worker] :
        /\ \A s \in Shard : Cardinality(t[s]) = Cap
        /\ \A r, s \in Shard : r # s => t[r] \cap t[s] = {}
<1> DEFINE n == Cardinality(Worker)
<1>1. n \in Nat /\ n >= Size /\ ExistsBijection(1 .. n, Worker)
    BY PooledWorkerPoolAssumption, FS_CardinalityType
<1>2. PICK f : f \in Bijection(1 .. n, Worker) BY <1>1 DEF ExistsBijection
<1>3. /\ f \in [1 .. n -> Worker]
      /\ \A i, j \in 1 .. n : f[i] = f[j] => i = j
    BY <1>2, Fun_BijectionProperties DEF Bijection, Injection, IsInjective
<1> DEFINE places(s) == s * Cap + 1 .. (s + 1) * Cap
           t == [s \in Shard |-> {f[i] : i \in places(s)}]
<1>4. ASSUME NEW s \in Shard PROVE places(s) \subseteq 1 .. n /\ Cardinality(places(s)) = Cap
    <2>1. s \in Nat /\ s + 1 \in Nat /\ s + 1 <= numShards BY ShardsProperties
    <2>2. /\ (s + 1) * Cap <= numShards * Cap /\ s * Cap \in Nat
          /\ (s + 1) * Cap = s * Cap + Cap
        BY <2>1, ShardsProperties, TimesMonotone
    <2>3. (s + 1) * Cap <= n
        BY <1>1, <2>2, ShardsProperties, PooledWorkerPoolAssumption
    <2>4. places(s) = s * Cap + 1 .. s * Cap + Cap BY <2>2
    <2>5. Cardinality(s * Cap + 1 .. s * Cap + Cap) = Cap
        <3> DEFINE a == s * Cap
        <3>1. a \in Nat /\ Cap \in Nat BY <2>2, ShardsProperties
        <3> HIDE DEF a
        <3>2. Cardinality(a + 1 .. a + Cap) =
                IF a + 1 > a + Cap THEN 0 ELSE (a + Cap) - (a + 1) + 1
            BY <3>1, FS_Interval
        <3>3. Cardinality(a + 1 .. a + Cap) = Cap BY <3>1, <3>2
        <3> QED BY <3>3 DEF a
    <2>6. places(s) \subseteq 1 .. n
        <3>1. s * Cap \in Nat /\ s * Cap + Cap <= n /\ Cap \in Nat BY <2>2, <2>3, ShardsProperties
        <3>2. \A i \in s * Cap + 1 .. s * Cap + Cap : i \in 1 .. n BY <1>1, <3>1
        <3> QED BY <2>4, <3>2
    <2> QED BY <2>4, <2>5, <2>6
<1>5. ASSUME NEW r \in Shard, NEW s \in Shard, r # s PROVE places(r) \cap places(s) = {}
    <2>1. ASSUME NEW p \in Shard, NEW q \in Shard, p < q PROVE places(p) \cap places(q) = {}
        <3>1. p + 1 \in Nat /\ q \in Nat /\ p + 1 <= q BY <2>1, ShardsProperties
        <3>2. (p + 1) * Cap <= q * Cap /\ (p + 1) * Cap \in Nat /\ q * Cap \in Nat
            BY <3>1, ShardsProperties, TimesMonotone
        <3> QED BY <3>2
    <2>2. r < s \/ s < r BY <1>5, ShardsProperties
    <2>3. CASE r < s BY <2>1, <2>3
    <2>4. CASE s < r
        <3>1. places(s) \cap places(r) = {} BY <2>1, <2>4
        <3> QED BY <3>1
    <2> QED BY <2>2, <2>3, <2>4
<1> HIDE DEF places, n
<1>6. t \in [Shard -> SUBSET Worker] BY <1>3, <1>4
<1>7. ASSUME NEW s \in Shard PROVE Cardinality(t[s]) = Cap
    <2> DEFINE g == [i \in places(s) |-> f[i]]
    <2>1. t[s] = {f[i] : i \in places(s)} OBVIOUS
    <2>2. g \in [places(s) -> t[s]] /\ \A i, j \in places(s) : g[i] = g[j] => i = j
        BY <1>3, <1>4, <2>1
    <2>3. \A y \in t[s] : \E i \in places(s) : g[i] = y BY <2>1
    <2>4. g \in Bijection(places(s), t[s])
        BY <2>2, <2>3, Zenon DEF Bijection, Injection, IsInjective, Surjection
    <2>5. IsFiniteSet(places(s))
        BY <1>1, <1>4, FS_Interval, FS_Subset
    <2>6. ExistsBijection(places(s), t[s]) BY <2>4 DEF ExistsBijection
    <2> QED BY <1>4, <2>5, <2>6, FS_Bijection
<1>8. ASSUME NEW r \in Shard, NEW s \in Shard, r # s PROVE t[r] \cap t[s] = {}
    BY <1>3, <1>4, <1>5, <1>8
<1> QED BY <1>6, <1>7, <1>8

WorkerState ==
    [at : {"starting", "initial", "range", "busy", "returned", "leaving", "ended"},
     shard : Shard, permanent : BOOLEAN, work : Work \cup {NoWork}]

PooledTypeOK ==
    /\ worker \in [Worker -> WorkerState]
    /\ workChs \in [Shard -> Seq(Work)]
    /\ workChIdx \in [Work -> Shard]

\* The permanent workers of the shard s.
Permanent(s) ==
    {w \in Worker : worker[w].permanent /\ worker[w].shard = s /\ worker[w].at # "leaving"}

PooledInv == PooledTypeOK /\ ShardsStaffed

LEMMA PermanentFinite ==
    ASSUME NEW s \in Shard PROVE IsFiniteSet(Permanent(s)) /\ Cardinality(Permanent(s)) \in Nat
<1>1. Permanent(s) \in SUBSET Worker BY DEF Permanent
<1> QED BY <1>1, FS_Subset, FS_CardinalityType, PooledWorkerPoolAssumption

\* A step that changes no team keeps the shards staffed.
LEMMA SameTeams ==
    ASSUME ShardsStaffed, inited' = inited, \A s \in Shard : Permanent(s)' = Permanent(s)
    PROVE  ShardsStaffed'
BY DEF ShardsStaffed, Permanent

LEMMA EndedTyped == Ended \in WorkerState
BY ShardsProperties DEF Ended, WorkerState

\* spawnWorker starts a goroutine that was in no team.
LEMMA SpawnNext ==
    ASSUME PooledTypeOK, Spare # {}
    PROVE  NextWorker \in Worker /\ worker[NextWorker] = Ended
BY DEF Spare, NextWorker

LEMMA PooledInitInv == InitPool => PooledInv
<1> SUFFICES ASSUME InitPool PROVE PooledInv
    OBVIOUS
<1>1. PooledTypeOK
    BY EndedTyped, ShardsProperties DEF InitPool, PooledTypeOK
<1> QED BY <1>1 DEF PooledInv, ShardsStaffed, InitPool

LEMMA InitTeams == ASSUME PooledTypeOK, Init PROVE PooledTypeOK' /\ ShardsStaffed'
<1> DEFINE Team(t) == /\ \A s \in Shard : Cardinality(t[s]) = Cap
                      /\ \A r, s \in Shard : r # s => t[r] \cap t[s] = {}
           team == CHOOSE t \in [Shard -> SUBSET Worker] : Team(t)
<1>1. team \in [Shard -> SUBSET Worker] /\ Team(team) BY TeamsExist
<1>2. worker' = [w \in Worker |-> IF \E s \in Shard : w \in team[s]
                        THEN Starting(CHOOSE s \in Shard : w \in team[s], NoWork, TRUE)
                        ELSE Ended]
    BY DEF Init
<1> HIDE DEF team
<1>3. ASSUME NEW w \in Worker, NEW s \in Shard, w \in team[s]
      PROVE  worker'[w] = Starting(s, NoWork, TRUE)
    <2>1. \A r \in Shard : w \in team[r] => r = s BY <1>1, <1>3
    <2>2. (CHOOSE r \in Shard : w \in team[r]) = s BY <1>3, <2>1
    <2> QED BY <1>2, <1>3, <2>2
<1>4. ASSUME NEW w \in Worker, ~\E s \in Shard : w \in team[s] PROVE worker'[w] = Ended
    BY <1>2, <1>4
<1>5. worker' \in [Worker -> WorkerState]
    <2>1. \A s \in Shard : Starting(s, NoWork, TRUE) \in WorkerState
        BY DEF Starting, WorkerState
    <2>2. \A w \in Worker : worker'[w] \in WorkerState BY <1>3, <1>4, <2>1, EndedTyped
    <2> QED BY <1>2, <2>2
<1>6. PooledTypeOK' BY <1>5 DEF Init, PooledTypeOK
<1>7. ASSUME NEW s \in Shard PROVE Permanent(s)' = team[s]
    <2>1. ASSUME NEW w \in Worker
          PROVE  w \in team[s] <=> worker'[w].permanent /\ worker'[w].shard = s /\ worker'[w].at # "leaving"
        <3>1. CASE w \in team[s]
            <4>1. worker'[w] = Starting(s, NoWork, TRUE) BY <1>3, <3>1
            <4> QED BY <3>1, <4>1 DEF Starting
        <3>2. ASSUME NEW r \in Shard, w \in team[r], w \notin team[s]
              PROVE  worker'[w].shard # s
            <4>1. worker'[w] = Starting(r, NoWork, TRUE) BY <1>3, <3>2
            <4> QED BY <3>2, <4>1 DEF Starting
        <3>3. CASE ~\E r \in Shard : w \in team[r] BY <1>4, <3>3 DEF Ended
        <3> QED BY <3>1, <3>2, <3>3
    <2>2. team[s] \subseteq Worker BY <1>1
    <2> QED BY <2>1, <2>2 DEF Permanent
<1>8. ShardsStaffed' BY <1>1, <1>7 DEF ShardsStaffed, Permanent
<1> QED BY <1>6, <1>8

\* A worker that changes its place without leaving, its shard and its kind
\* stays in its team.
LEMMA MovingKeepsTeams ==
    ASSUME NEW w \in Worker, PooledTypeOK,
           \A v \in Worker : v # w => worker'[v] = worker[v],
           worker'[w].permanent = worker[w].permanent, worker'[w].shard = worker[w].shard,
           worker[w].at # "leaving", worker'[w].at # "leaving",
           NEW s \in Shard
    PROVE  Permanent(s)' = Permanent(s)
BY Zenon DEF Permanent

\* A worker that is not permanent counts for no shard, before and after a step.
LEMMA TemporaryKeepsTeams ==
    ASSUME NEW w \in Worker, PooledTypeOK,
           \A v \in Worker : v # w => worker'[v] = worker[v],
           ~worker[w].permanent \/ worker[w].at = "leaving",
           ~worker'[w].permanent \/ worker'[w].at = "leaving",
           NEW s \in Shard
    PROVE  Permanent(s)' = Permanent(s)
BY Zenon DEF Permanent

LEMMA GoInv ==
    ASSUME PooledInv, NEW f \in Work, GoStep(f) \/ \E s \in Shard : GoCall(f, s)
    PROVE  PooledInv'
<1> USE DEF PooledInv
<1>1. CASE \E s \in Shard : GoCall(f, s)
    <2>1. PooledTypeOK' BY <1>1 DEF GoCall, PooledTypeOK
    <2>2. inited' = inited /\ worker' = worker BY <1>1 DEF GoCall
    <2> QED BY <2>1, <2>2 DEF ShardsStaffed
<1>2. CASE GoSend(f)
    <2>1. PooledTypeOK' BY <1>2 DEF GoSend, PooledTypeOK
    <2>2. inited' = inited /\ worker' = worker BY <1>2 DEF GoSend
    <2> QED BY <2>1, <2>2 DEF ShardsStaffed
<1>3. CASE GoGrow(f)
    <2> DEFINE n == NextWorker
    <2>1. n \in Worker /\ worker[n] = Ended
        BY <1>3, SpawnNext DEF GoGrow, spawnWorker
    <2>2. worker' = [worker EXCEPT ![n] = Starting(workChIdx[f], f, FALSE)]
        BY <1>3 DEF GoGrow, spawnWorker
    <2> HIDE DEF n
    <2>3. Starting(workChIdx[f], f, FALSE) \in WorkerState
        BY DEF PooledTypeOK, Starting, WorkerState
    <2>4. PooledTypeOK' BY <1>3, <2>1, <2>2, <2>3 DEF GoGrow, PooledTypeOK
    <2>5. worker'[n] = Starting(workChIdx[f], f, FALSE) /\ \A v \in Worker : v # n => worker'[v] = worker[v]
        BY <2>1, <2>2 DEF PooledTypeOK
    <2>6. ~worker[n].permanent /\ ~worker'[n].permanent BY <2>1, <2>5 DEF Ended, Starting
    <2>7. \A s \in Shard : Permanent(s)' = Permanent(s)
        BY <2>1, <2>5, <2>6, TemporaryKeepsTeams
    <2>8. inited' = inited BY <1>3 DEF GoGrow
    <2> QED BY <2>4, <2>7, <2>8, SameTeams
<1> QED BY <1>1, <1>2, <1>3 DEF GoStep

\* A permanent worker that leaves has put its replacement in its place.
LEMMA ReplacedInv ==
    ASSUME PooledInv, NEW w \in Worker, WorkerKilled(w), worker[w].permanent
    PROVE  PooledInv'
<1> USE DEF PooledInv
<1>1. worker[w] \in WorkerState /\ worker[w].shard \in Shard BY DEF PooledTypeOK, WorkerState
<1>2. PICK sh \in Shard : worker[w].shard = sh BY <1>1
<1>3. PICK n : n = NextWorker OBVIOUS
<1>4. n \in Worker /\ worker[n] = Ended /\ worker[w].at = "returned"
    BY <1>3, SpawnNext DEF WorkerKilled
<1>5. worker' = [worker EXCEPT ![w].at = "leaving", ![n] = Starting(sh, NoWork, TRUE)]
    BY <1>2, <1>3 DEF WorkerKilled
<1>6. n # w BY <1>4 DEF Ended
<1>7. /\ worker'[w] = [worker[w] EXCEPT !.at = "leaving"]
      /\ worker'[n] = Starting(sh, NoWork, TRUE)
      /\ \A v \in Worker : v # w /\ v # n => worker'[v] = worker[v]
    BY <1>4, <1>5, <1>6 DEF PooledTypeOK
<1>8. PooledTypeOK'
    <2>1. Starting(sh, NoWork, TRUE) \in WorkerState BY <1>1 DEF Starting, WorkerState
    <2>2. [worker[w] EXCEPT !.at = "leaving"] \in WorkerState BY <1>1 DEF WorkerState
    <2>3. worker' \in [Worker -> WorkerState]
        BY <1>4, <1>5, <1>6, <2>1, <2>2 DEF PooledTypeOK
    <2> QED BY <2>3 DEF WorkerKilled, PooledTypeOK
<1>9. /\ worker'[w].at = "leaving" /\ ~worker[n].permanent
      /\ worker'[n].permanent /\ worker'[n].shard = sh /\ worker'[n].at # "leaving"
    BY <1>4, <1>1, <1>7 DEF Starting, Ended, WorkerState
<1>10. Permanent(sh)' = (Permanent(sh) \ {w}) \cup {n} /\ w \in Permanent(sh) /\ n \notin Permanent(sh)
    <2>1. w \in Permanent(sh) BY <1>4, <1>2 DEF Permanent
    <2>2. n \notin Permanent(sh) BY <1>9 DEF Permanent
    <2>3. w \notin Permanent(sh)' BY <1>9 DEF Permanent
    <2>4. n \in Permanent(sh)' BY <1>4, <1>9 DEF Permanent
    <2>5. \A v \in Worker : v # w /\ v # n => (v \in Permanent(sh)' <=> v \in Permanent(sh))
        BY <1>7 DEF Permanent
    <2>6. Permanent(sh) \subseteq Worker /\ Permanent(sh)' \subseteq Worker BY DEF Permanent
    <2> QED BY <1>4, <2>1, <2>2, <2>3, <2>4, <2>5, <2>6
<1>11. ASSUME NEW s \in Shard, s # sh PROVE Permanent(s)' = Permanent(s)
    <2>1. w \notin Permanent(s) BY <1>11, <1>2 DEF Permanent
    <2>2. n \notin Permanent(s) BY <1>9 DEF Permanent
    <2>3. w \notin Permanent(s)' BY <1>9 DEF Permanent
    <2>4. n \notin Permanent(s)' BY <1>9, <1>11 DEF Permanent
    <2>5. \A v \in Worker : v # w /\ v # n => (v \in Permanent(s)' <=> v \in Permanent(s))
        BY <1>7 DEF Permanent
    <2>6. Permanent(s) \subseteq Worker /\ Permanent(s)' \subseteq Worker BY DEF Permanent
    <2> QED BY <2>1, <2>2, <2>3, <2>4, <2>5, <2>6
<1>12. Cardinality(Permanent(sh)') = Cardinality(Permanent(sh))
    <2> DEFINE rest == Permanent(sh) \ {w}
    <2>1. IsFiniteSet(Permanent(sh)) /\ Cardinality(Permanent(sh)) \in Nat
        BY <1>1, PermanentFinite
    <2>2. IsFiniteSet(rest) /\ Cardinality(rest) = Cardinality(Permanent(sh)) - 1
        BY <1>10, <2>1, FS_RemoveElement
    <2>3. n \notin rest /\ Cardinality(rest \cup {n}) = Cardinality(rest) + 1
        BY <1>10, <2>2, FS_AddElement
    <2> QED BY <1>10, <2>1, <2>2, <2>3
<1>13. \A s \in Shard : Cardinality(Permanent(s)') = Cardinality(Permanent(s))
    BY <1>11, <1>12
<1>14. inited' = inited BY DEF WorkerKilled
<1>15. ShardsStaffed' BY <1>13, <1>14 DEF ShardsStaffed, Permanent
<1> QED BY <1>8, <1>15

LEMMA WorkerInv == ASSUME PooledInv, NEW w \in Worker, WorkerStep(w) PROVE PooledInv'
<1> USE DEF PooledInv
<1>1. worker[w] \in WorkerState BY DEF PooledTypeOK
<1>2. CASE WorkerStart(w) \/ WorkReturn(w) \/ WorkerStays(w)
    <2>1. PooledTypeOK'
        <3>1. CASE WorkerStart(w) BY <1>1, <3>1 DEF WorkerStart, PooledTypeOK, WorkerState
        <3>2. CASE WorkReturn(w) BY <1>1, <3>2 DEF WorkReturn, PooledTypeOK, WorkerState
        <3>3. CASE WorkerStays(w) BY <1>1, <3>3 DEF WorkerStays, PooledTypeOK, WorkerState
        <3> QED BY <1>2, <3>1, <3>2, <3>3
    <2>2. /\ \A v \in Worker : v # w => worker'[v] = worker[v]
          /\ worker'[w].permanent = worker[w].permanent /\ worker'[w].shard = worker[w].shard
          /\ worker[w].at # "leaving" /\ worker'[w].at # "leaving"
        BY <1>1, <1>2 DEF WorkerStart, WorkReturn, WorkerStays, PooledTypeOK, WorkerState
    <2>3. inited' = inited BY <1>2 DEF WorkerStart, WorkReturn, WorkerStays
    <2>4. \A s \in Shard : Permanent(s)' = Permanent(s) BY <2>2, MovingKeepsTeams
    <2> QED BY <2>1, <2>3, <2>4, SameTeams
<1>3. CASE WorkerTake(w)
    <2> DEFINE c == workChs[worker[w].shard]
    <2>1. c \in Seq(Work) /\ c # <<>> BY <1>1, <1>3 DEF WorkerTake, PooledTypeOK, WorkerState
    <2>2. Head(c) \in Work /\ Tail(c) \in Seq(Work) BY <2>1
    <2>3. worker' = [worker EXCEPT ![w].at = "busy", ![w].work = Head(c)] /\ worker[w].at = "range"
        BY <1>3 DEF WorkerTake
    <2>4. workChs' = [workChs EXCEPT ![worker[w].shard] = Tail(c)]
        BY <1>3 DEF WorkerTake, PooledTypeOK
    <2> HIDE DEF c
    <2>5. worker' \in [Worker -> WorkerState] BY <1>1, <2>2, <2>3 DEF PooledTypeOK, WorkerState
    <2>6. PooledTypeOK' BY <1>1, <1>3, <2>2, <2>4, <2>5 DEF WorkerTake, PooledTypeOK, WorkerState
    <2>7. /\ \A v \in Worker : v # w => worker'[v] = worker[v]
          /\ worker'[w].permanent = worker[w].permanent /\ worker'[w].shard = worker[w].shard
          /\ worker[w].at # "leaving" /\ worker'[w].at # "leaving"
        BY <1>1, <2>3 DEF PooledTypeOK, WorkerState
    <2>8. inited' = inited BY <1>3 DEF WorkerTake
    <2>9. \A s \in Shard : Permanent(s)' = Permanent(s) BY <2>7, MovingKeepsTeams
    <2> QED BY <2>6, <2>8, <2>9, SameTeams
<1>4. CASE WorkerKilled(w) /\ worker[w].permanent BY <1>4, ReplacedInv
<1>5. CASE (WorkerKilled(w) /\ ~worker[w].permanent) \/ WorkerEnd(w)
    <2>1. PooledTypeOK'
        <3>1. CASE WorkerKilled(w) /\ ~worker[w].permanent
            <4>1. /\ worker' = [worker EXCEPT ![w].at = "leaving"]
                  /\ workChs' = workChs /\ workChIdx' = workChIdx
                BY <3>1, Zenon DEF WorkerKilled
            <4> QED BY <1>1, <4>1 DEF PooledTypeOK, WorkerState
        <3>2. CASE WorkerEnd(w) BY <3>2, EndedTyped DEF WorkerEnd, PooledTypeOK
        <3> QED BY <1>5, <3>1, <3>2
    <2>2. \A v \in Worker : v # w => worker'[v] = worker[v]
        BY <1>1, <1>5 DEF WorkerKilled, WorkerEnd, PooledTypeOK
    <2>3. ~worker[w].permanent \/ worker[w].at = "leaving" BY <1>5 DEF WorkerEnd
    <2>4. ~worker'[w].permanent \/ worker'[w].at = "leaving"
        <3>1. CASE WorkerKilled(w) /\ ~worker[w].permanent
            <4>1. worker'[w] = [worker[w] EXCEPT !.at = "leaving"]
                BY <3>1 DEF WorkerKilled, PooledTypeOK
            <4> QED BY <1>1, <4>1 DEF WorkerState
        <3>2. CASE WorkerEnd(w)
            <4>1. worker'[w] = Ended BY <3>2 DEF WorkerEnd, PooledTypeOK
            <4> QED BY <4>1 DEF Ended
        <3> QED BY <1>5, <3>1, <3>2
    <2>5. inited' = inited BY <1>5 DEF WorkerKilled, WorkerEnd
    <2>6. \A s \in Shard : Permanent(s)' = Permanent(s)
        BY <2>2, <2>3, <2>4, TemporaryKeepsTeams
    <2> QED BY <2>1, <2>5, <2>6, SameTeams
<1> QED BY <1>2, <1>3, <1>4, <1>5 DEF WorkerStep

\* Whatever the dice say, and however the goroutines are interleaved, a shard
\* keeps the number of permanent workers Init gave it.
THEOREM ShardsStayStaffed == Spec => []ShardsStaffed
<1>1. PooledInv /\ [Next]_vars => PooledInv'
    <2> SUFFICES ASSUME PooledInv, [Next]_vars PROVE PooledInv'
        OBVIOUS
    <2>1. CASE Init BY <2>1, InitTeams DEF PooledInv
    <2>2. CASE UNCHANGED vars BY <2>2 DEF vars, PooledInv, PooledTypeOK, ShardsStaffed
    <2> QED BY <2>1, <2>2, GoInv, WorkerInv DEF Next
<1>2. PooledInv => ShardsStaffed BY DEF PooledInv
<1> QED BY <1>1, <1>2, PooledInitInv, PTL DEF Spec

-----------------------------------------------------------------------------
(* Checked: the texts of the methods.                                      *)

CodeStep == {"ref+", "ref-", "reads+", "reads-", "writes+", "writes-", "NumRef", "load", "store",
             "negative?", "zero?", "read?", "freed?", "write?", "value", "finalize", "release"}

\* c is a followed by b.
Joins(a, b, c) ==
    /\ Len(c) = Len(a) + Len(b)
    /\ \A i \in 1 .. Len(a) : c[i] = a[i]
    /\ \A i \in 1 .. Len(b) : c[Len(a) + i] = b[i]

LEMMA Joined ==
    ASSUME NEW a \in Seq(CodeStep), NEW b \in Seq(CodeStep), NEW c \in Seq(CodeStep), Joins(a, b, c)
    PROVE  a \o b = c
<1>1. /\ a \o b \in Seq(CodeStep) /\ Len(a \o b) = Len(a) + Len(b)
      /\ \A i \in 1 .. Len(a) + Len(b) :
            (a \o b)[i] = IF i <= Len(a) THEN a[i] ELSE b[i - Len(a)]
    BY ConcatProperties
<1>2. PICK m \in Nat, n \in Nat : m = Len(a) /\ n = Len(b) BY LenProperties
<1>3. ASSUME NEW i \in 1 .. Len(c) PROVE (a \o b)[i] = c[i]
    <2>1. i \in 1 .. m + n BY <1>2, <1>3 DEF Joins
    <2>2. CASE i <= m BY <1>1, <1>2, <2>1, <2>2 DEF Joins
    <2>3. CASE i > m
        <3>1. PICK j \in 1 .. n : i = m + j
            <4>1. i - m \in 1 .. n /\ i = m + (i - m) BY <2>1, <2>3
            <4> QED BY <4>1
        <3>2. (a \o b)[i] = b[i - m] BY <1>1, <1>2, <2>1, <2>3
        <3>3. i - m = j BY <3>1
        <3> QED BY <1>2, <3>1, <3>2, <3>3 DEF Joins
    <2> QED BY <1>2, <2>1, <2>2, <2>3
<1> QED BY <1>1, <1>3, SeqEqual DEF Joins

\* With EnableTracebacks, ...
LEMMA TextsTraced ==
    ASSUME Traceback
    PROVE  /\ IncRef = <<"ref+", "load", "store">>
           /\ DecRef = <<"ref-", "load", "store", "negative?">>
           /\ MoveRef = <<"load", "store">>
           /\ BytesRead = <<"load", "store", "reads+", "read?", "value", "load", "store", "reads-", "freed?">>
           /\ BytesWrite = <<"load", "store", "writes+", "write?", "value", "load", "store", "writes-", "freed?">>
           /\ Finalize = <<"NumRef", "load", "store", "zero?", "load", "finalize", "release">>
<1>1. <<"ref+">> \o <<"load", "store">>
       = <<"ref+", "load", "store">>
    <2> DEFINE a == <<"ref+">>  b == <<"load", "store">>
               c == <<"ref+", "load", "store">>
    <2>1. a \in Seq(CodeStep) /\ b \in Seq(CodeStep) /\ c \in Seq(CodeStep) BY DEF CodeStep
    <2>2. Joins(a, b, c) BY DEF Joins
    <2> QED BY <2>1, <2>2, Joined, Zenon
<1>2. <<"ref-">> \o <<"load", "store">>
       = <<"ref-", "load", "store">>
    <2> DEFINE a == <<"ref-">>  b == <<"load", "store">>
               c == <<"ref-", "load", "store">>
    <2>1. a \in Seq(CodeStep) /\ b \in Seq(CodeStep) /\ c \in Seq(CodeStep) BY DEF CodeStep
    <2>2. Joins(a, b, c) BY DEF Joins
    <2> QED BY <2>1, <2>2, Joined, Zenon
<1>3. <<"ref-", "load", "store">> \o <<"negative?">>
       = <<"ref-", "load", "store", "negative?">>
    <2> DEFINE a == <<"ref-", "load", "store">>  b == <<"negative?">>
               c == <<"ref-", "load", "store", "negative?">>
    <2>1. a \in Seq(CodeStep) /\ b \in Seq(CodeStep) /\ c \in Seq(CodeStep) BY DEF CodeStep
    <2>2. Joins(a, b, c) BY DEF Joins
    <2> QED BY <2>1, <2>2, Joined, Zenon
<1>4. <<"load", "store">> \o <<"reads+", "read?">>
       = <<"load", "store", "reads+", "read?">>
    <2> DEFINE a == <<"load", "store">>  b == <<"reads+", "read?">>
               c == <<"load", "store", "reads+", "read?">>
    <2>1. a \in Seq(CodeStep) /\ b \in Seq(CodeStep) /\ c \in Seq(CodeStep) BY DEF CodeStep
    <2>2. Joins(a, b, c) BY DEF Joins
    <2> QED BY <2>1, <2>2, Joined, Zenon
<1>5. <<"load", "store">> \o <<"reads-", "freed?">>
       = <<"load", "store", "reads-", "freed?">>
    <2> DEFINE a == <<"load", "store">>  b == <<"reads-", "freed?">>
               c == <<"load", "store", "reads-", "freed?">>
    <2>1. a \in Seq(CodeStep) /\ b \in Seq(CodeStep) /\ c \in Seq(CodeStep) BY DEF CodeStep
    <2>2. Joins(a, b, c) BY DEF Joins
    <2> QED BY <2>1, <2>2, Joined, Zenon
<1>6. <<"load", "store">> \o <<"writes+", "write?">>
       = <<"load", "store", "writes+", "write?">>
    <2> DEFINE a == <<"load", "store">>  b == <<"writes+", "write?">>
               c == <<"load", "store", "writes+", "write?">>
    <2>1. a \in Seq(CodeStep) /\ b \in Seq(CodeStep) /\ c \in Seq(CodeStep) BY DEF CodeStep
    <2>2. Joins(a, b, c) BY DEF Joins
    <2> QED BY <2>1, <2>2, Joined, Zenon
<1>7. <<"load", "store">> \o <<"writes-", "freed?">>
       = <<"load", "store", "writes-", "freed?">>
    <2> DEFINE a == <<"load", "store">>  b == <<"writes-", "freed?">>
               c == <<"load", "store", "writes-", "freed?">>
    <2>1. a \in Seq(CodeStep) /\ b \in Seq(CodeStep) /\ c \in Seq(CodeStep) BY DEF CodeStep
    <2>2. Joins(a, b, c) BY DEF Joins
    <2> QED BY <2>1, <2>2, Joined, Zenon
<1>8. <<"load", "store", "reads+", "read?">> \o <<"value">>
       = <<"load", "store", "reads+", "read?", "value">>
    <2> DEFINE a == <<"load", "store", "reads+", "read?">>  b == <<"value">>
               c == <<"load", "store", "reads+", "read?", "value">>
    <2>1. a \in Seq(CodeStep) /\ b \in Seq(CodeStep) /\ c \in Seq(CodeStep) BY DEF CodeStep
    <2>2. Joins(a, b, c) BY DEF Joins
    <2> QED BY <2>1, <2>2, Joined, Zenon
<1>9. <<"load", "store", "reads+", "read?", "value">> \o <<"load", "store", "reads-", "freed?">>
       = <<"load", "store", "reads+", "read?", "value", "load", "store", "reads-", "freed?">>
    <2> DEFINE a == <<"load", "store", "reads+", "read?", "value">>  b == <<"load", "store", "reads-", "freed?">>
               c == <<"load", "store", "reads+", "read?", "value", "load", "store", "reads-", "freed?">>
    <2>1. a \in Seq(CodeStep) /\ b \in Seq(CodeStep) /\ c \in Seq(CodeStep) BY DEF CodeStep
    <2>2. Joins(a, b, c) BY DEF Joins
    <2> QED BY <2>1, <2>2, Joined, Zenon
<1>10. <<"load", "store", "writes+", "write?">> \o <<"value">>
       = <<"load", "store", "writes+", "write?", "value">>
    <2> DEFINE a == <<"load", "store", "writes+", "write?">>  b == <<"value">>
               c == <<"load", "store", "writes+", "write?", "value">>
    <2>1. a \in Seq(CodeStep) /\ b \in Seq(CodeStep) /\ c \in Seq(CodeStep) BY DEF CodeStep
    <2>2. Joins(a, b, c) BY DEF Joins
    <2> QED BY <2>1, <2>2, Joined, Zenon
<1>11. <<"load", "store", "writes+", "write?", "value">> \o <<"load", "store", "writes-", "freed?">>
       = <<"load", "store", "writes+", "write?", "value", "load", "store", "writes-", "freed?">>
    <2> DEFINE a == <<"load", "store", "writes+", "write?", "value">>  b == <<"load", "store", "writes-", "freed?">>
               c == <<"load", "store", "writes+", "write?", "value", "load", "store", "writes-", "freed?">>
    <2>1. a \in Seq(CodeStep) /\ b \in Seq(CodeStep) /\ c \in Seq(CodeStep) BY DEF CodeStep
    <2>2. Joins(a, b, c) BY DEF Joins
    <2> QED BY <2>1, <2>2, Joined, Zenon
<1>12. <<"NumRef">> \o <<"load", "store">>
       = <<"NumRef", "load", "store">>
    <2> DEFINE a == <<"NumRef">>  b == <<"load", "store">>
               c == <<"NumRef", "load", "store">>
    <2>1. a \in Seq(CodeStep) /\ b \in Seq(CodeStep) /\ c \in Seq(CodeStep) BY DEF CodeStep
    <2>2. Joins(a, b, c) BY DEF Joins
    <2> QED BY <2>1, <2>2, Joined, Zenon
<1>13. <<"NumRef", "load", "store">> \o <<"zero?", "load", "finalize", "release">>
       = <<"NumRef", "load", "store", "zero?", "load", "finalize", "release">>
    <2> DEFINE a == <<"NumRef", "load", "store">>  b == <<"zero?", "load", "finalize", "release">>
               c == <<"NumRef", "load", "store", "zero?", "load", "finalize", "release">>
    <2>1. a \in Seq(CodeStep) /\ b \in Seq(CodeStep) /\ c \in Seq(CodeStep) BY DEF CodeStep
    <2>2. Joins(a, b, c) BY DEF Joins
    <2> QED BY <2>1, <2>2, Joined, Zenon
<1> QED BY <1>1, <1>2, <1>3, <1>4, <1>5, <1>6, <1>7, <1>8, <1>9, <1>10, <1>11, <1>12, <1>13, Zenon
    DEF tracebackEvent, IncRef, DecRef, MoveRef, IncReads, DecReads, IncWrites, DecWrites, Finalize,
        BytesRead, BytesWrite

\* ... and without.
LEMMA TextsPlain ==
    ASSUME ~Traceback
    PROVE  /\ IncRef = <<"ref+">>
           /\ DecRef = <<"ref-", "negative?">>
           /\ MoveRef = <<>>
           /\ BytesRead = <<"reads+", "read?", "value", "reads-", "freed?">>
           /\ BytesWrite = <<"writes+", "write?", "value", "writes-", "freed?">>
           /\ Finalize = <<"NumRef", "zero?", "load", "finalize", "release">>
<1>1. <<"ref+">> \o <<>>
       = <<"ref+">>
    <2> DEFINE a == <<"ref+">>  b == <<>>
               c == <<"ref+">>
    <2>1. a \in Seq(CodeStep) /\ b \in Seq(CodeStep) /\ c \in Seq(CodeStep) BY DEF CodeStep
    <2>2. Joins(a, b, c) BY DEF Joins
    <2> QED BY <2>1, <2>2, Joined, Zenon
<1>2. <<"ref-">> \o <<>>
       = <<"ref-">>
    <2> DEFINE a == <<"ref-">>  b == <<>>
               c == <<"ref-">>
    <2>1. a \in Seq(CodeStep) /\ b \in Seq(CodeStep) /\ c \in Seq(CodeStep) BY DEF CodeStep
    <2>2. Joins(a, b, c) BY DEF Joins
    <2> QED BY <2>1, <2>2, Joined, Zenon
<1>3. <<"ref-">> \o <<"negative?">>
       = <<"ref-", "negative?">>
    <2> DEFINE a == <<"ref-">>  b == <<"negative?">>
               c == <<"ref-", "negative?">>
    <2>1. a \in Seq(CodeStep) /\ b \in Seq(CodeStep) /\ c \in Seq(CodeStep) BY DEF CodeStep
    <2>2. Joins(a, b, c) BY DEF Joins
    <2> QED BY <2>1, <2>2, Joined, Zenon
<1>4. <<>> \o <<"reads+", "read?">>
       = <<"reads+", "read?">>
    <2> DEFINE a == <<>>  b == <<"reads+", "read?">>
               c == <<"reads+", "read?">>
    <2>1. a \in Seq(CodeStep) /\ b \in Seq(CodeStep) /\ c \in Seq(CodeStep) BY DEF CodeStep
    <2>2. Joins(a, b, c) BY DEF Joins
    <2> QED BY <2>1, <2>2, Joined, Zenon
<1>5. <<>> \o <<"reads-", "freed?">>
       = <<"reads-", "freed?">>
    <2> DEFINE a == <<>>  b == <<"reads-", "freed?">>
               c == <<"reads-", "freed?">>
    <2>1. a \in Seq(CodeStep) /\ b \in Seq(CodeStep) /\ c \in Seq(CodeStep) BY DEF CodeStep
    <2>2. Joins(a, b, c) BY DEF Joins
    <2> QED BY <2>1, <2>2, Joined, Zenon
<1>6. <<>> \o <<"writes+", "write?">>
       = <<"writes+", "write?">>
    <2> DEFINE a == <<>>  b == <<"writes+", "write?">>
               c == <<"writes+", "write?">>
    <2>1. a \in Seq(CodeStep) /\ b \in Seq(CodeStep) /\ c \in Seq(CodeStep) BY DEF CodeStep
    <2>2. Joins(a, b, c) BY DEF Joins
    <2> QED BY <2>1, <2>2, Joined, Zenon
<1>7. <<>> \o <<"writes-", "freed?">>
       = <<"writes-", "freed?">>
    <2> DEFINE a == <<>>  b == <<"writes-", "freed?">>
               c == <<"writes-", "freed?">>
    <2>1. a \in Seq(CodeStep) /\ b \in Seq(CodeStep) /\ c \in Seq(CodeStep) BY DEF CodeStep
    <2>2. Joins(a, b, c) BY DEF Joins
    <2> QED BY <2>1, <2>2, Joined, Zenon
<1>8. <<"reads+", "read?">> \o <<"value">>
       = <<"reads+", "read?", "value">>
    <2> DEFINE a == <<"reads+", "read?">>  b == <<"value">>
               c == <<"reads+", "read?", "value">>
    <2>1. a \in Seq(CodeStep) /\ b \in Seq(CodeStep) /\ c \in Seq(CodeStep) BY DEF CodeStep
    <2>2. Joins(a, b, c) BY DEF Joins
    <2> QED BY <2>1, <2>2, Joined, Zenon
<1>9. <<"reads+", "read?", "value">> \o <<"reads-", "freed?">>
       = <<"reads+", "read?", "value", "reads-", "freed?">>
    <2> DEFINE a == <<"reads+", "read?", "value">>  b == <<"reads-", "freed?">>
               c == <<"reads+", "read?", "value", "reads-", "freed?">>
    <2>1. a \in Seq(CodeStep) /\ b \in Seq(CodeStep) /\ c \in Seq(CodeStep) BY DEF CodeStep
    <2>2. Joins(a, b, c) BY DEF Joins
    <2> QED BY <2>1, <2>2, Joined, Zenon
<1>10. <<"writes+", "write?">> \o <<"value">>
       = <<"writes+", "write?", "value">>
    <2> DEFINE a == <<"writes+", "write?">>  b == <<"value">>
               c == <<"writes+", "write?", "value">>
    <2>1. a \in Seq(CodeStep) /\ b \in Seq(CodeStep) /\ c \in Seq(CodeStep) BY DEF CodeStep
    <2>2. Joins(a, b, c) BY DEF Joins
    <2> QED BY <2>1, <2>2, Joined, Zenon
<1>11. <<"writes+", "write?", "value">> \o <<"writes-", "freed?">>
       = <<"writes+", "write?", "value", "writes-", "freed?">>
    <2> DEFINE a == <<"writes+", "write?", "value">>  b == <<"writes-", "freed?">>
               c == <<"writes+", "write?", "value", "writes-", "freed?">>
    <2>1. a \in Seq(CodeStep) /\ b \in Seq(CodeStep) /\ c \in Seq(CodeStep) BY DEF CodeStep
    <2>2. Joins(a, b, c) BY DEF Joins
    <2> QED BY <2>1, <2>2, Joined, Zenon
<1>12. <<"NumRef">> \o <<>>
       = <<"NumRef">>
    <2> DEFINE a == <<"NumRef">>  b == <<>>
               c == <<"NumRef">>
    <2>1. a \in Seq(CodeStep) /\ b \in Seq(CodeStep) /\ c \in Seq(CodeStep) BY DEF CodeStep
    <2>2. Joins(a, b, c) BY DEF Joins
    <2> QED BY <2>1, <2>2, Joined, Zenon
<1>13. <<"NumRef">> \o <<"zero?", "load", "finalize", "release">>
       = <<"NumRef", "zero?", "load", "finalize", "release">>
    <2> DEFINE a == <<"NumRef">>  b == <<"zero?", "load", "finalize", "release">>
               c == <<"NumRef", "zero?", "load", "finalize", "release">>
    <2>1. a \in Seq(CodeStep) /\ b \in Seq(CodeStep) /\ c \in Seq(CodeStep) BY DEF CodeStep
    <2>2. Joins(a, b, c) BY DEF Joins
    <2> QED BY <2>1, <2>2, Joined, Zenon
<1> QED BY <1>1, <1>2, <1>3, <1>4, <1>5, <1>6, <1>7, <1>8, <1>9, <1>10, <1>11, <1>12, <1>13, Zenon
    DEF tracebackEvent, IncRef, DecRef, MoveRef, IncReads, DecReads, IncWrites, DecWrites, Finalize,
        BytesRead, BytesWrite

-----------------------------------------------------------------------------
(* Checked: what is left of a method.                                      *)

Has(s, e) == \E i \in 1 .. Len(s) : s[i] = e
First(s, e) == s # <<>> /\ Head(s) = e

\* The steps of one that uses the object, and the ones of a user.
UseSteps == {"reads+", "read?", "value", "reads-", "writes+", "write?", "writes-", "freed?"}
UserSteps == UseSteps \cup {"load", "store", "ref-", "negative?"}

\* What the text of every method has, and what is left of it keeps: which steps
\* come once, which come first, what stands before or after what.
TextOrder(s) ==
    \A i, j \in 1 .. Len(s) : i < j =>
        /\ s[j] \notin {"ref-", "NumRef"}
        /\ s[i] = s[j] => s[i] \in {"load", "store", "ref+"}
        /\ s[j] = "negative?" => s[i] \in {"ref-", "load", "store"}
        /\ s[j] = "zero?" => s[i] \in {"NumRef", "load", "store"}
        /\ s[i] = "finalize" => s[j] = "release"
        /\ s[i] = "writes-" => s[j] # "writes+"
        /\ s[i] # "release"
        /\ s[j] = "ref+" => s[i] \in {"ref+", "load", "store"}
TextNext(s) ==
    \A i \in 1 .. Len(s) - 1 :
        /\ s[i + 1] \in {"store", "finalize"} => s[i] = "load"
        /\ s[i + 1] = "write?" <=> s[i] = "writes+"
TextLater(s) ==
    \A i \in 1 .. Len(s) :
        /\ s[i] = "writes+" => \E j \in i + 1 .. Len(s) : s[j] = "writes-"
        /\ s[i] \in {"NumRef", "zero?"} => \E j \in i + 1 .. Len(s) : s[j] = "finalize"
Text(s) == TextOrder(s) /\ TextNext(s) /\ TextLater(s)

LEMMA TailIs ==
    ASSUME NEW s \in Seq(CodeStep), s # <<>>
    PROVE  /\ Tail(s) \in Seq(CodeStep) /\ Head(s) = s[1] /\ Head(s) \in CodeStep
           /\ Len(s) \in Nat /\ Len(s) >= 1 /\ Len(Tail(s)) = Len(s) - 1
           /\ \A i \in 1 .. Len(s) - 1 : Tail(s)[i] = s[i + 1]
<1>1. Len(s) \in Nat /\ Len(s) >= 1 /\ s[1] \in CodeStep
    <2>1. Len(s) \in Nat /\ Len(s) # 0 BY LenProperties, EmptySeq
    <2>2. \A i \in 1 .. Len(s) : s[i] \in CodeStep BY ElementOfSeq
    <2> QED BY <2>1, <2>2
<1> QED BY <1>1, HeadTailProperties

LEMMA HasIs ==
    ASSUME NEW s \in Seq(CodeStep)
    PROVE  /\ s = <<>> => \A e : ~Has(s, e) /\ ~First(s, e)
           /\ \A e : First(s, e) => Has(s, e) /\ e \in CodeStep
           /\ \A e : Has(s, e) => e \in CodeStep
           /\ \A e, d : First(s, e) /\ First(s, d) => e = d
           /\ s # <<>> => \E e \in CodeStep : First(s, e)
<1>1. s = <<>> => \A e : ~Has(s, e) /\ ~First(s, e) BY EmptySeq DEF Has, First
<1>2. ASSUME s # <<>> PROVE Has(s, Head(s)) /\ First(s, Head(s)) /\ Head(s) \in CodeStep
    BY <1>2, TailIs DEF Has, First
<1>3. \A e : Has(s, e) => e \in CodeStep BY ElementOfSeq DEF Has
<1> QED BY <1>1, <1>2, <1>3, Zenon DEF First

\* What a step leaves of a text.
LEMMA HasTail ==
    ASSUME NEW s \in Seq(CodeStep), NEW e, NEW d, First(s, e)
    PROVE  /\ Has(Tail(s), d) => Has(s, d)
           /\ Has(s, d) => d = e \/ Has(Tail(s), d)
<1> DEFINE t == Tail(s)
<1>1. PICK n \in Nat : n = Len(s) /\ n >= 1 /\ Len(t) = n - 1 BY TailIs DEF First
<1>2. s[1] = e /\ \A i \in 1 .. n - 1 : t[i] = s[i + 1] BY <1>1, TailIs DEF First
<1> HIDE DEF t
<1>3. ASSUME Has(t, d) PROVE Has(s, d)
    <2>1. PICK i \in 1 .. n - 1 : t[i] = d BY <1>1, <1>3 DEF Has
    <2>2. i + 1 \in 1 .. n /\ s[i + 1] = d BY <1>2, <2>1
    <2> QED BY <1>1, <2>2 DEF Has
<1>4. ASSUME Has(s, d), d # e PROVE Has(t, d)
    <2>1. PICK i \in 1 .. n : s[i] = d BY <1>1, <1>4 DEF Has
    <2>2. i # 1 BY <1>2, <1>4, <2>1
    <2>3. i - 1 \in 1 .. n - 1 /\ (i - 1) + 1 = i BY <2>1, <2>2
    <2>4. t[i - 1] = d BY <1>2, <2>1, <2>3
    <2> QED BY <1>1, <2>3, <2>4 DEF Has
<1> QED BY <1>3, <1>4 DEF t

LEMMA TextTail ==
    ASSUME NEW s \in Seq(CodeStep), NEW e, First(s, e), Text(s)
    PROVE  Text(Tail(s))
<1> DEFINE t == Tail(s)
<1>1. PICK n \in Nat : n = Len(s) /\ n >= 1 /\ Len(t) = n - 1 BY TailIs DEF First
<1>2. \A i \in 1 .. n - 1 : t[i] = s[i + 1] BY <1>1, TailIs DEF First
<1> HIDE DEF t
<1>3. TextOrder(t)
    <2> SUFFICES ASSUME NEW i \in 1 .. n - 1, NEW j \in 1 .. n - 1, i < j
                 PROVE  /\ t[j] \notin {"ref-", "NumRef"}
                        /\ t[i] = t[j] => t[i] \in {"load", "store", "ref+"}
                        /\ t[j] = "negative?" => t[i] \in {"ref-", "load", "store"}
                        /\ t[j] = "zero?" => t[i] \in {"NumRef", "load", "store"}
                        /\ t[i] = "finalize" => t[j] = "release"
                        /\ t[i] = "writes-" => t[j] # "writes+"
                        /\ t[i] # "release"
                        /\ t[j] = "ref+" => t[i] \in {"ref+", "load", "store"}
        BY <1>1 DEF TextOrder
    <2>1. i + 1 \in 1 .. n /\ j + 1 \in 1 .. n /\ i + 1 < j + 1 OBVIOUS
    <2>2. t[i] = s[i + 1] /\ t[j] = s[j + 1] BY <1>2
    <2> QED BY <1>1, <2>1, <2>2 DEF Text, TextOrder
<1>4. TextNext(t)
    <2> SUFFICES ASSUME NEW i \in 1 .. n - 1 - 1
                 PROVE  /\ t[i + 1] \in {"store", "finalize"} => t[i] = "load"
                        /\ t[i + 1] = "write?" <=> t[i] = "writes+"
        BY <1>1 DEF TextNext
    <2>1. i + 1 \in 1 .. n - 1 /\ i \in 1 .. n - 1 OBVIOUS
    <2>2. t[i] = s[i + 1] /\ t[i + 1] = s[(i + 1) + 1] BY <1>2, <2>1
    <2> QED BY <1>1, <2>1, <2>2 DEF Text, TextNext
<1>5. TextLater(t)
    <2>1. ASSUME NEW i \in 1 .. n - 1, NEW b, \E j \in (i + 1) + 1 .. n : s[j] = b
          PROVE  \E j \in i + 1 .. n - 1 : t[j] = b
        <3>1. PICK j \in (i + 1) + 1 .. n : s[j] = b BY <2>1
        <3>2. j - 1 \in i + 1 .. n - 1 /\ j - 1 \in 1 .. n - 1 /\ (j - 1) + 1 = j BY <3>1
        <3>3. t[j - 1] = b BY <1>2, <3>1, <3>2
        <3> QED BY <3>2, <3>3
    <2>2. ASSUME NEW i \in 1 .. n - 1
          PROVE  /\ t[i] = "writes+" => \E j \in i + 1 .. n - 1 : t[j] = "writes-"
                 /\ t[i] \in {"NumRef", "zero?"} => \E j \in i + 1 .. n - 1 : t[j] = "finalize"
        <3>1. i + 1 \in 1 .. n /\ s[i + 1] = t[i] BY <1>2
        <3>2. /\ s[i + 1] = "writes+" => \E j \in (i + 1) + 1 .. n : s[j] = "writes-"
              /\ s[i + 1] \in {"NumRef", "zero?"} => \E j \in (i + 1) + 1 .. n : s[j] = "finalize"
            BY <1>1, <3>1 DEF Text, TextLater
        <3> QED BY <2>1, <3>1, <3>2, Zenon
    <2> QED BY <1>1, <2>2 DEF TextLater
<1> QED BY <1>3, <1>4, <1>5 DEF Text, t

\* What a text says of its first step.
LEMMA TextFirst ==
    ASSUME NEW s \in Seq(CodeStep), NEW e, First(s, e), Text(s)
    PROVE  /\ e \notin {"load", "store", "ref+"} => ~Has(Tail(s), e)
           /\ ~Has(Tail(s), "ref-") /\ ~Has(Tail(s), "NumRef")
           /\ Has(Tail(s), "negative?") => e \in {"ref-", "load", "store"}
           /\ Has(Tail(s), "zero?") => e \in {"NumRef", "load", "store"}
           /\ e = "finalize" => \A d : Has(Tail(s), d) => d = "release"
           /\ e = "writes+" => Has(Tail(s), "writes-") /\ First(Tail(s), "write?")
           /\ e = "writes-" => ~Has(Tail(s), "writes+")
           /\ e = "release" => \A d : ~Has(Tail(s), d)
           /\ Has(Tail(s), "ref+") => e \in {"ref+", "load", "store"}
           /\ e \in {"NumRef", "zero?"} => Has(Tail(s), "finalize")
           /\ First(Tail(s), "store") \/ First(Tail(s), "finalize") => e = "load"
           /\ First(Tail(s), "write?") => e = "writes+"
<1> DEFINE t == Tail(s)
<1>1. PICK n \in Nat : n = Len(s) /\ n >= 1 /\ Len(t) = n - 1 BY TailIs DEF First
<1>2. s[1] = e /\ t \in Seq(CodeStep) /\ \A i \in 1 .. n - 1 : t[i] = s[i + 1]
    BY <1>1, TailIs DEF First
<1>3. \A d : First(t, d) => n - 1 >= 1 /\ t[1] = d
    <2>1. ASSUME t # <<>> PROVE n - 1 >= 1 /\ Head(t) = t[1] BY <1>1, <1>2, <2>1, TailIs
    <2> QED BY <2>1, Zenon DEF First
<1> HIDE DEF t
<1>4. ASSUME NEW d, Has(t, d)
      PROVE  /\ d \notin {"ref-", "NumRef"}
             /\ e = d => e \in {"load", "store", "ref+"}
             /\ d = "negative?" => e \in {"ref-", "load", "store"}
             /\ d = "zero?" => e \in {"NumRef", "load", "store"}
             /\ e = "finalize" => d = "release"
             /\ e = "writes-" => d # "writes+"
             /\ e # "release"
             /\ d = "ref+" => e \in {"ref+", "load", "store"}
    <2>1. PICK i \in 1 .. n - 1 : t[i] = d BY <1>1, <1>4 DEF Has
    <2>2. i + 1 \in 1 .. n /\ 1 \in 1 .. n /\ 1 < i + 1 /\ s[i + 1] = d BY <1>1, <1>2, <2>1
    <2> QED BY <1>1, <1>2, <2>2 DEF Text, TextOrder
<1>5. ASSUME NEW d, \E j \in 1 + 1 .. n : s[j] = d PROVE Has(t, d)
    <2>1. PICK j \in 2 .. n : s[j] = d BY <1>5
    <2>2. j - 1 \in 1 .. n - 1 /\ (j - 1) + 1 = j BY <2>1
    <2>3. t[j - 1] = d BY <1>2, <2>1, <2>2
    <2> QED BY <1>1, <2>2, <2>3 DEF Has
<1>6. /\ e = "writes+" => Has(t, "writes-")
      /\ e \in {"NumRef", "zero?"} => Has(t, "finalize")
    <2>1. 1 \in 1 .. n BY <1>1
    <2> QED BY <1>1, <1>2, <1>5, <2>1 DEF Text, TextLater
<1>7. ASSUME NEW d, First(t, d)
      PROVE  /\ d \in {"store", "finalize"} => e = "load"
             /\ d = "write?" => e = "writes+"
    <2>1. 1 \in 1 .. n - 1 /\ s[1 + 1] = d BY <1>2, <1>3, <1>7
    <2> QED BY <1>1, <1>2, <2>1 DEF Text, TextNext
<1>8. ASSUME e = "writes+" PROVE First(t, "write?")
    <2>1. n - 1 >= 1 /\ t # <<>>
        <3>1. PICK i \in 1 .. n - 1 : t[i] = "writes-" BY <1>1, <1>6, <1>8 DEF Has
        <3> QED BY <1>1, <3>1, EmptySeq
    <2>2. 1 \in 1 .. n - 1 /\ t[1] = s[1 + 1] BY <1>2, <2>1
    <2>3. s[1 + 1] = "write?" BY <1>1, <1>2, <1>8, <2>2 DEF Text, TextNext
    <2>4. Head(t) = t[1] BY <1>2, <2>1, TailIs
    <2> QED BY <2>1, <2>2, <2>3, <2>4 DEF First
<1> QED BY <1>4, <1>6, <1>7, <1>8, Zenon DEF t

\* The methods as they are called.
LEMMA UseText ==
    ASSUME NEW s, (s = MoveRef /\ Traceback) \/ s = BytesRead \/ s = BytesWrite
    PROVE  /\ s \in Seq(CodeStep) /\ Text(s)
           /\ \A e : Has(s, e) => e \in UseSteps \cup {"load", "store"}
           /\ \A e : First(s, e) => e \in {"load", "reads+", "writes+"}
           /\ Has(s, "writes-") => Has(s, "writes+")
<1>1. CASE Traceback
    <2>1. CASE s = MoveRef
        <3>1. s = <<"load", "store">> BY <1>1, <2>1, TextsTraced
        <3> HIDE <2>1
        <3> QED BY <3>1 DEF CodeStep, UseSteps, Text, TextOrder, TextNext, TextLater, Has, First
    <2>2. CASE s = BytesRead
        <3>1. s = <<"load", "store", "reads+", "read?", "value", "load", "store", "reads-", "freed?">>
            BY <1>1, <2>2, TextsTraced
        <3> HIDE <2>2
        <3> QED BY <3>1 DEF CodeStep, UseSteps, Text, TextOrder, TextNext, TextLater, Has, First
    <2>3. CASE s = BytesWrite
        <3>1. s = <<"load", "store", "writes+", "write?", "value", "load", "store", "writes-", "freed?">>
            BY <1>1, <2>3, TextsTraced
        <3> HIDE <2>3
        <3> QED BY <3>1 DEF CodeStep, UseSteps, Text, TextOrder, TextNext, TextLater, Has, First
    <2> QED BY <2>1, <2>2, <2>3
<1>2. CASE ~Traceback
    <2>1. CASE s = BytesRead
        <3>1. s = <<"reads+", "read?", "value", "reads-", "freed?">> BY <1>2, <2>1, TextsPlain
        <3> HIDE <2>1
        <3> QED BY <3>1 DEF CodeStep, UseSteps, Text, TextOrder, TextNext, TextLater, Has, First
    <2>2. CASE s = BytesWrite
        <3>1. s = <<"writes+", "write?", "value", "writes-", "freed?">> BY <1>2, <2>2, TextsPlain
        <3> HIDE <2>2
        <3> QED BY <3>1 DEF CodeStep, UseSteps, Text, TextOrder, TextNext, TextLater, Has, First
    <2> QED BY <1>2, <2>1, <2>2
<1> QED BY <1>1, <1>2

LEMMA DecRefText ==
    /\ DecRef \in Seq(CodeStep) /\ Text(DecRef) /\ First(DecRef, "ref-")
    /\ \A e : Has(DecRef, e) => e \in {"ref-", "load", "store", "negative?"}
<1>1. CASE Traceback
    <2>1. DecRef = <<"ref-", "load", "store", "negative?">> BY <1>1, TextsTraced
    <2> QED BY <2>1 DEF CodeStep, Text, TextOrder, TextNext, TextLater, Has, First
<1>2. CASE ~Traceback
    <2>1. DecRef = <<"ref-", "negative?">> BY <1>2, TextsPlain
    <2> QED BY <2>1 DEF CodeStep, Text, TextOrder, TextNext, TextLater, Has, First
<1> QED BY <1>1, <1>2

LEMMA FinalizeText ==
    /\ Finalize \in Seq(CodeStep) /\ Text(Finalize)
    /\ First(Finalize, "NumRef") /\ Has(Finalize, "finalize")
    /\ \A e : Has(Finalize, e) => e \in {"NumRef", "load", "store", "zero?", "finalize", "release"}
<1>1. CASE Traceback
    <2>1. Finalize = <<"NumRef", "load", "store", "zero?", "load", "finalize", "release">>
        BY <1>1, TextsTraced
    <2> QED BY <2>1 DEF CodeStep, Text, TextOrder, TextNext, TextLater, Has, First
<1>2. CASE ~Traceback
    <2>1. Finalize = <<"NumRef", "zero?", "load", "finalize", "release">> BY <1>2, TextsPlain
    <2> QED BY <2>1 DEF CodeStep, Text, TextOrder, TextNext, TextLater, Has, First
<1> QED BY <1>1, <1>2

\* n references are still to be taken: n times IncRef is left, after the rest of
\* one under way.
IncRefSteps == IF Traceback THEN 3 ELSE 1
Left(s, n) ==
    \/ n = 0 /\ ~Has(s, "ref+")
    \/ /\ Len(s) \in IncRefSteps * n .. IncRefSteps * n + IncRefSteps - 1
       /\ \A i \in 1 .. Len(s) : s[i] = "ref+" <=> (Len(s) - i) % IncRefSteps = IncRefSteps - 1

LEMMA TimesText ==
    ASSUME NEW n \in Nat, NEW s, s = Times(n, IncRef)
    PROVE  /\ s \in Seq(CodeStep) /\ Text(s) /\ Left(s, n)
           /\ \A e : Has(s, e) => e \in {"ref+", "load", "store"}
           /\ \A e : First(s, e) => e = "ref+"
<1>1. CASE Traceback
    <2>1. IncRef = <<"ref+", "load", "store">> BY <1>1, TextsTraced
    <2>2. s = [i \in 1 .. n * 3 |-> <<"ref+", "load", "store">>[((i - 1) % 3) + 1]]
        BY <2>1 DEF Times
    <2>3. \A i \in 1 .. n * 3 : s[i] = IF (i - 1) % 3 = 0 THEN "ref+"
                                       ELSE IF (i - 1) % 3 = 1 THEN "load" ELSE "store"
        BY <2>2
    <2>4. s \in Seq(CodeStep) /\ Len(s) = 3 * n
        <3>1. \A i \in 1 .. n * 3 : s[i] \in CodeStep BY <2>3 DEF CodeStep
        <3>2. s \in [1 .. n * 3 -> CodeStep] BY <2>2, <3>1
        <3>3. n * 3 \in Nat OBVIOUS
        <3> QED BY <3>2, <3>3, LenProperties, IsASeq
    <2> HIDE <2>2
    <2>5. TextOrder(s) BY <2>3, <2>4 DEF TextOrder
    <2>6. TextNext(s) BY <2>3, <2>4 DEF TextNext
    <2>7. TextLater(s) BY <2>3, <2>4 DEF TextLater
    <2>8. Left(s, n) BY <1>1, <2>3, <2>4 DEF Left, IncRefSteps
    <2>9. \A e : Has(s, e) => e \in {"ref+", "load", "store"} BY <2>3, <2>4 DEF Has
    <2>10. \A e : First(s, e) => e = "ref+"
        <3>1. ASSUME s # <<>> PROVE Head(s) = "ref+" BY <2>3, <2>4, <3>1, TailIs
        <3> QED BY <3>1 DEF First
    <2> QED BY <2>4, <2>5, <2>6, <2>7, <2>8, <2>9, <2>10 DEF Text
<1>2. CASE ~Traceback
    <2>1. IncRef = <<"ref+">> BY <1>2, TextsPlain
    <2>2. s = [i \in 1 .. n |-> <<"ref+">>[((i - 1) % 1) + 1]]
        <3>1. Len(<<"ref+">>) = 1 /\ n * 1 = n OBVIOUS
        <3> QED BY <2>1, <3>1 DEF Times
    <2>3. \A i \in 1 .. n : s[i] = "ref+" BY <2>2
    <2>4. s \in Seq(CodeStep) /\ Len(s) = n
        <3>1. \A i \in 1 .. n : s[i] \in CodeStep BY <2>3 DEF CodeStep
        <3>2. s \in [1 .. n -> CodeStep] BY <2>2, <3>1
        <3> QED BY <3>2, LenProperties, IsASeq
    <2> HIDE <2>2
    <2>5. TextOrder(s) BY <2>3, <2>4 DEF TextOrder
    <2>6. TextNext(s) BY <2>3, <2>4 DEF TextNext
    <2>7. TextLater(s) BY <2>3, <2>4 DEF TextLater
    <2>8. Left(s, n) BY <1>2, <2>3, <2>4 DEF Left, IncRefSteps
    <2>9. \A e : Has(s, e) => e \in {"ref+", "load", "store"} BY <2>3, <2>4 DEF Has
    <2>10. \A e : First(s, e) => e = "ref+"
        <3>1. ASSUME s # <<>> PROVE Head(s) = "ref+" BY <2>3, <2>4, <3>1, TailIs
        <3> QED BY <3>1 DEF First
    <2> QED BY <2>4, <2>5, <2>6, <2>7, <2>8, <2>9, <2>10 DEF Text
<1> QED BY <1>1, <1>2

\* The tracebacks that n reports of a check print.
LEMMA TraceIs ==
    ASSUME NEW n \in Nat, NEW p, p = Times(n, tracebackEvent)
    PROVE  /\ p \in Seq(CodeStep) /\ Len(p) % 2 = 0
           /\ \A i \in 1 .. Len(p) : p[i] = IF i % 2 = 1 THEN "load" ELSE "store"
<1>1. CASE Traceback
    <2>1. tracebackEvent = <<"load", "store">> BY <1>1 DEF tracebackEvent
    <2>2. p = [i \in 1 .. n * 2 |-> <<"load", "store">>[((i - 1) % 2) + 1]] BY <2>1 DEF Times
    <2>3. \A i \in 1 .. n * 2 : p[i] = IF i % 2 = 1 THEN "load" ELSE "store" BY <2>2
    <2>4. p \in [1 .. n * 2 -> CodeStep]
        <3>1. \A i \in 1 .. n * 2 : p[i] \in CodeStep BY <2>3 DEF CodeStep
        <3> QED BY <2>2, <3>1
    <2>5. n * 2 \in Nat /\ (n * 2) % 2 = 0 OBVIOUS
    <2>6. p \in Seq(CodeStep) /\ Len(p) = n * 2 BY <2>4, <2>5, LenProperties, IsASeq
    <2> QED BY <2>3, <2>5, <2>6
<1>2. CASE ~Traceback
    <2>1. tracebackEvent = <<>> /\ Len(<<>>) = 0 /\ n * 0 = 0 BY <1>2 DEF tracebackEvent
    <2>2. p = [i \in 1 .. 0 |-> <<>>[((i - 1) % 0) + 1]] BY <2>1 DEF Times
    <2>3. p \in [1 .. 0 -> CodeStep] BY <2>2
    <2>4. p \in Seq(CodeStep) /\ Len(p) = 0 BY <2>3, LenProperties, IsASeq
    <2> QED BY <2>4
<1> QED BY <1>1, <1>2

\* In front of what is left of a method they make a text again.
LEMMA TraceText ==
    ASSUME NEW t \in Seq(CodeStep), Text(t), ~Has(t, "ref-"), ~Has(t, "NumRef"),
           ~First(t, "store"), ~First(t, "finalize"), ~First(t, "write?"),
           NEW n \in Nat, NEW p, p = Times(n, tracebackEvent), NEW r, r = p \o t
    PROVE  /\ r \in Seq(CodeStep) /\ Text(r)
           /\ \A d : d \notin {"load", "store"} => (Has(r, d) <=> Has(t, d))
           /\ \A d : First(r, d) => d = "load" \/ First(t, d)
<1>1. PICK m \in Nat : /\ m = Len(p) /\ m % 2 = 0 /\ p \in Seq(CodeStep)
                       /\ \A i \in 1 .. m : p[i] = IF i % 2 = 1 THEN "load" ELSE "store"
    <2>1. p \in Seq(CodeStep) /\ Len(p) \in Nat BY TraceIs, LenProperties
    <2> QED BY <2>1, TraceIs
<1>2. PICK z \in Nat : z = Len(t) BY LenProperties
<1>3. r \in Seq(CodeStep) /\ Len(r) = m + z
      /\ \A i \in 1 .. m + z : r[i] = IF i <= m THEN p[i] ELSE t[i - m]
    <2>1. p \in Seq(CodeStep) /\ Len(p) = m /\ Len(t) = z BY <1>1, <1>2
    <2>2. /\ p \o t \in Seq(CodeStep) /\ Len(p \o t) = Len(p) + Len(t)
          /\ \A i \in 1 .. Len(p) + Len(t) : (p \o t)[i] = IF i <= Len(p) THEN p[i] ELSE t[i - Len(p)]
        BY <2>1, ConcatProperties, Zenon
    <2> QED BY <2>1, <2>2, Zenon
<1>4. \A i \in 1 .. m : r[i] = IF i % 2 = 1 THEN "load" ELSE "store"
    BY <1>1, <1>2, <1>3
<1>5. \A i \in m + 1 .. m + z : i - m \in 1 .. z /\ r[i] = t[i - m]
    <2> SUFFICES ASSUME NEW i \in m + 1 .. m + z PROVE i - m \in 1 .. z /\ r[i] = t[i - m]
        OBVIOUS
    <2>1. i \in 1 .. m + z /\ ~(i <= m) /\ i - m \in 1 .. z OBVIOUS
    <2> QED BY <1>3, <2>1
<1>16. Len(r) = m + z BY <1>3
<1>6. \A i \in 1 .. z : m + i \in m + 1 .. m + z /\ m + i \in 1 .. m + z /\ r[m + i] = t[i]
    <2>1. ASSUME NEW i \in 1 .. z
          PROVE  m + i \in m + 1 .. m + z /\ m + i \in 1 .. m + z /\ (m + i) - m = i
        OBVIOUS
    <2> QED BY <1>5, <2>1
<1>7. \A i \in 1 .. m + z : i \in 1 .. m \/ i \in m + 1 .. m + z OBVIOUS
<1>8. \A i \in 1 .. m : r[i] \in {"load", "store"} BY <1>4
<1>9. \A i \in 1 .. z : t[i] \notin {"ref-", "NumRef"} BY <1>2 DEF Has
<1>10. TextOrder(r)
    <2> SUFFICES ASSUME NEW i \in 1 .. m + z, NEW j \in 1 .. m + z, i < j
                 PROVE  /\ r[j] \notin {"ref-", "NumRef"}
                        /\ r[i] = r[j] => r[i] \in {"load", "store", "ref+"}
                        /\ r[j] = "negative?" => r[i] \in {"ref-", "load", "store"}
                        /\ r[j] = "zero?" => r[i] \in {"NumRef", "load", "store"}
                        /\ r[i] = "finalize" => r[j] = "release"
                        /\ r[i] = "writes-" => r[j] # "writes+"
                        /\ r[i] # "release"
                        /\ r[j] = "ref+" => r[i] \in {"ref+", "load", "store"}
        BY <1>3 DEF TextOrder
    <2>1. r[j] \notin {"ref-", "NumRef"} BY <1>5, <1>7, <1>8, <1>9
    <2>2. CASE i \in 1 .. m BY <1>8, <2>1, <2>2
    <2>3. CASE i \in m + 1 .. m + z
        <3>1. i - m \in 1 .. z /\ j - m \in 1 .. z /\ i - m < j - m BY <2>3
        <3>2. j \in m + 1 .. m + z BY <2>3
        <3>3. r[i] = t[i - m] /\ r[j] = t[j - m] BY <1>5, <2>3, <3>2
        <3> QED BY <1>2, <3>1, <3>3 DEF Text, TextOrder
    <2> QED BY <1>7, <2>2, <2>3
<1>11. z >= 1 => t[1] \notin {"store", "finalize", "write?"}
    <2>1. ASSUME z >= 1 PROVE t # <<>> /\ Head(t) = t[1]
        <3>1. t # <<>> BY <1>2, <2>1, EmptySeq
        <3> QED BY <3>1, TailIs
    <2> QED BY <2>1 DEF First
<1>17. ASSUME NEW i \in 1 .. m + z - 1
       PROVE  /\ r[i + 1] \in {"store", "finalize"} => r[i] = "load"
              /\ r[i + 1] = "write?" <=> r[i] = "writes+"
    <2>4. i \in Int /\ i >= 1 /\ i <= m + z - 1 OBVIOUS
    <2>1. CASE i + 1 <= m
        <3>1. i \in 1 .. m /\ i + 1 \in 1 .. m BY <2>1, <2>4
        <3>2. (i + 1) % 2 = 1 <=> i % 2 # 1 BY <2>4
        <3>3. r[i] = (IF i % 2 = 1 THEN "load" ELSE "store")
              /\ r[i + 1] = (IF (i + 1) % 2 = 1 THEN "load" ELSE "store")
            BY <1>4, <3>1
        <3> QED BY <3>2, <3>3
    <2>2. CASE i = m
        <3>1. i \in 1 .. m /\ z >= 1 /\ 1 \in 1 .. z /\ m + 1 = i + 1 BY <2>2, <2>4
        <3>2. r[i + 1] = t[1] BY <1>6, <3>1
        <3> QED BY <1>8, <1>11, <3>1, <3>2
    <2>3. CASE i > m
        <3>1. /\ i - m \in 1 .. z - 1 /\ (i + 1) - m = (i - m) + 1
              /\ i \in m + 1 .. m + z /\ i + 1 \in m + 1 .. m + z
            BY <2>3, <2>4
        <3>2. r[i] = t[i - m] /\ r[i + 1] = t[(i - m) + 1] BY <1>5, <3>1
        <3> QED BY <1>2, <3>1, <3>2 DEF Text, TextNext
    <2>5. i + 1 <= m \/ i = m \/ i > m BY <2>4
    <2> QED BY <2>1, <2>2, <2>3, <2>5
<1>12. TextNext(r)
    <2>1. 1 .. Len(r) - 1 = 1 .. m + z - 1 BY <1>16
    <2> QED BY <1>17, <2>1, Zenon DEF TextNext
<1>13. TextLater(r)
    <2>1. ASSUME NEW i \in 1 .. z, NEW b, \E j \in i + 1 .. z : t[j] = b
          PROVE  \E j \in (m + i) + 1 .. m + z : r[j] = b
        <3>1. PICK j \in i + 1 .. z : t[j] = b BY <2>1
        <3>2. j \in 1 .. z /\ m + j \in (m + i) + 1 .. m + z BY <3>1
        <3>3. r[m + j] = b BY <1>6, <3>1, <3>2
        <3> QED BY <3>2, <3>3
    <2>2. ASSUME NEW i \in 1 .. m + z
          PROVE  /\ r[i] = "writes+" => \E j \in i + 1 .. m + z : r[j] = "writes-"
                 /\ r[i] \in {"NumRef", "zero?"} => \E j \in i + 1 .. m + z : r[j] = "finalize"
        <3>1. CASE i \in 1 .. m BY <1>8, <3>1
        <3>2. CASE i \in m + 1 .. m + z
            <4>1. PICK k \in Int : k = i - m OBVIOUS
            <4>2. k \in 1 .. z /\ r[i] = t[k] BY <1>5, <3>2, <4>1
            <4>3. m + k = i BY <4>1
            <4>4. /\ t[k] = "writes+" => \E j \in k + 1 .. z : t[j] = "writes-"
                  /\ t[k] \in {"NumRef", "zero?"} => \E j \in k + 1 .. z : t[j] = "finalize"
                BY <1>2, <4>2 DEF Text, TextLater
            <4>5. \A b : (\E j \in k + 1 .. z : t[j] = b) => \E j \in (m + k) + 1 .. m + z : r[j] = b
                BY <2>1, <4>2, Zenon
            <4>6. \A b : (\E j \in k + 1 .. z : t[j] = b) => \E j \in i + 1 .. m + z : r[j] = b
                BY <4>3, <4>5, Zenon
            <4> QED BY <4>2, <4>4, <4>6, Zenon
        <3> QED BY <1>7, <3>1, <3>2
    <2>3. ASSUME NEW i \in 1 .. Len(r)
          PROVE  /\ r[i] = "writes+" => \E j \in i + 1 .. Len(r) : r[j] = "writes-"
                 /\ r[i] \in {"NumRef", "zero?"} => \E j \in i + 1 .. Len(r) : r[j] = "finalize"
        <3>1. i \in 1 .. m + z /\ i + 1 .. Len(r) = i + 1 .. m + z BY <1>16
        <3> QED BY <2>2, <3>1, Zenon
    <2> QED BY <2>3, Zenon DEF TextLater
<1>14. ASSUME NEW d, d \notin {"load", "store"} PROVE Has(r, d) <=> Has(t, d)
    <2>1. ASSUME NEW i \in 1 .. m + z, r[i] = d PROVE Has(t, d)
        <3>1. i \in m + 1 .. m + z BY <1>7, <1>8, <1>14, <2>1
        <3> QED BY <1>2, <1>5, <2>1, <3>1 DEF Has
    <2>2. ASSUME NEW i \in 1 .. z, t[i] = d PROVE \E j \in 1 .. m + z : r[j] = d
        BY <1>6, <2>2
    <2> QED BY <1>2, <1>3, <2>1, <2>2 DEF Has
<1>15. ASSUME NEW d, First(r, d) PROVE d = "load" \/ First(t, d)
    <2>1. m + z >= 1 /\ r[1] = d BY <1>3, <1>15, TailIs DEF First
    <2>2. CASE m >= 1
        <3>1. 1 \in 1 .. m /\ 1 % 2 = 1 BY <1>1, <2>2
        <3>2. r[1] = "load" BY <1>4, <3>1
        <3> QED BY <2>1, <3>2
    <2>3. CASE m = 0
        <3>1. z >= 1 /\ 1 \in 1 .. z /\ m + 1 = 1 BY <1>2, <2>1, <2>3
        <3>2. t[1] = d BY <1>6, <2>1, <3>1
        <3>3. t # <<>> BY <1>2, <3>1, EmptySeq
        <3> QED BY <3>2, <3>3, TailIs DEF First
    <2>4. m >= 1 \/ m = 0 BY <1>1
    <2> QED BY <2>2, <2>3, <2>4
<1> QED BY <1>3, <1>10, <1>12, <1>13, <1>14, <1>15 DEF Text

\* What is left of the method s after its first step e: its tail, and after a
\* check the tracebacks of what was reported before it.
Traces(e) == IF e \in CheckSteps THEN {Times(n, tracebackEvent) : n \in Nat} ELSE {<<>>}
Follows(s, e, r) ==
    /\ r \in Seq(CodeStep) /\ Text(r)
    /\ e \notin CheckSteps => r = Tail(s)
    /\ e \in CheckSteps => ~Has(s, "ref+")
    /\ \A d : d \notin {"load", "store"} => (Has(r, d) <=> Has(Tail(s), d))
    /\ \A d : d \notin {"load", "store"} /\ Has(r, d) => Has(s, d)
    /\ \A d : d \notin {"load", "store"} /\ Has(s, d) => d = e \/ Has(r, d)
    /\ e \notin {"load", "store", "ref+"} => ~Has(r, e)
    /\ ~Has(r, "ref-") /\ ~Has(r, "NumRef")
    /\ Has(r, "negative?") => e \in {"ref-", "load", "store"}
    /\ Has(r, "zero?") => e \in {"NumRef", "load", "store"}
    /\ e = "finalize" => \A d : Has(r, d) => d = "release"
    /\ e = "writes+" => Has(r, "writes-") /\ First(r, "write?")
    /\ e = "writes-" => ~Has(r, "writes+")
    /\ e \in {"NumRef", "zero?"} => Has(r, "finalize")
    /\ First(r, "store") \/ First(r, "finalize") => e = "load"
    /\ First(r, "write?") => e = "writes+"

LEMMA FollowsIs ==
    ASSUME NEW s \in Seq(CodeStep), NEW e, First(s, e), Text(s), NEW p \in Traces(e), NEW r, r = p \o Tail(s)
    PROVE  Follows(s, e, r)
<1> DEFINE t == Tail(s)
<1>1. t \in Seq(CodeStep) BY TailIs DEF First
<1>2. Text(t) BY TextTail
<1>3. \A d : (Has(t, d) => Has(s, d)) /\ (Has(s, d) => d = e \/ Has(t, d)) BY HasTail
<1> HIDE DEF t
<1>4. CASE e \notin CheckSteps
    <2>1. r = t BY <1>1, <1>4 DEF Traces, t
    <2> QED BY <1>1, <1>2, <1>3, <1>4, <2>1, TextFirst, Zenon DEF Follows, t
<1>5. CASE e \in CheckSteps
    <2>1. PICK n \in Nat : p = Times(n, tracebackEvent) BY <1>5 DEF Traces
    <2>2. /\ e # "load" /\ e # "store" /\ e # "ref-" /\ e # "NumRef" /\ e # "finalize"
          /\ e # "writes+" /\ e # "writes-" /\ e # "ref+"
        BY <1>5 DEF CheckSteps
    <2>3. e \notin {"load", "store", "ref+"} /\ e \notin {"load", "store"} BY <2>2
    <2>4. /\ ~Has(t, e) /\ ~Has(t, "ref-") /\ ~Has(t, "NumRef")
          /\ ~Has(t, "negative?") /\ ~Has(t, "zero?") /\ ~Has(t, "ref+")
          /\ e = "zero?" => Has(t, "finalize")
          /\ ~First(t, "store") /\ ~First(t, "finalize") /\ ~First(t, "write?")
        BY <2>2, <2>3, TextFirst DEF t
    <2>5. /\ r \in Seq(CodeStep) /\ Text(r)
          /\ \A d : d \notin {"load", "store"} => (Has(r, d) <=> Has(t, d))
          /\ \A d : First(r, d) => d = "load" \/ First(t, d)
        BY <1>1, <1>2, <2>1, <2>4, TraceText DEF t
    <2>6. /\ ~Has(r, e) /\ ~Has(r, "ref-") /\ ~Has(r, "NumRef")
          /\ ~Has(r, "negative?") /\ ~Has(r, "zero?")
          /\ e = "zero?" => Has(r, "finalize")
        BY <2>3, <2>4, <2>5
    <2>7. ~First(r, "store") /\ ~First(r, "finalize") /\ ~First(r, "write?") BY <2>4, <2>5
    <2>8. ~Has(s, "ref+") BY <1>3, <2>2, <2>4
    <2>9. e \in {"NumRef", "zero?"} => e = "zero?" BY <2>2
    <2> QED BY <1>3, <1>5, <2>2, <2>5, <2>6, <2>7, <2>8, <2>9, Zenon DEF Follows, t
<1> QED BY <1>4, <1>5

LEMMA LeftIs ==
    ASSUME NEW s \in Seq(CodeStep), NEW n \in Nat, Left(s, n)
    PROVE  /\ ~Has(s, "ref+") => n = 0
           /\ First(s, "ref+") => n >= 1 /\ Left(Tail(s), n - 1)
           /\ s # <<>> /\ ~First(s, "ref+") => Left(Tail(s), n)
<1>1. PICK z \in {1, 3} : z = IncRefSteps BY DEF IncRefSteps
<1>2. PICK m \in Nat : m = Len(s) BY LenProperties
<1>3. CASE n = 0 /\ ~Has(s, "ref+")
    <2>1. ~First(s, "ref+") BY <1>3, HasIs
    <2>2. ASSUME s # <<>> PROVE ~Has(Tail(s), "ref+")
        <3>1. PICK e \in CodeStep : First(s, e) BY <2>2, HasIs
        <3> QED BY <1>3, <3>1, HasTail
    <2> QED BY <1>3, <2>1, <2>2 DEF Left
<1>4. CASE /\ m \in z * n .. z * n + z - 1
           /\ \A i \in 1 .. m : s[i] = "ref+" <=> (m - i) % z = z - 1
    <2>1. ASSUME n >= 1 PROVE Has(s, "ref+")
        <3>1. m - z + 1 \in 1 .. m /\ (m - (m - z + 1)) % z = z - 1 BY <1>4, <2>1
        <3>2. s[m - z + 1] = "ref+" BY <1>4, <3>1
        <3> QED BY <1>2, <3>1, <3>2 DEF Has
    <2>2. ASSUME s # <<>>
          PROVE  /\ First(s, "ref+") => n >= 1 /\ Left(Tail(s), n - 1)
                 /\ ~First(s, "ref+") => Left(Tail(s), n)
        <3> DEFINE t == Tail(s)
        <3>1. m >= 1 /\ Len(t) = m - 1 /\ (First(s, "ref+") <=> s[1] = "ref+")
            BY <1>2, <2>2, TailIs DEF First
        <3>2. \A i \in 1 .. m - 1 : t[i] = s[i + 1] BY <1>2, <2>2, TailIs
        <3> HIDE DEF t
        <3>3. \A i \in 1 .. m - 1 : t[i] = "ref+" <=> ((m - 1) - i) % z = z - 1
            <4> SUFFICES ASSUME NEW i \in 1 .. m - 1
                         PROVE  t[i] = "ref+" <=> ((m - 1) - i) % z = z - 1
                OBVIOUS
            <4>1. i + 1 \in 1 .. m /\ m - (i + 1) = (m - 1) - i OBVIOUS
            <4> QED BY <1>4, <3>2, <4>1
        <3>4. 1 \in 1 .. m BY <3>1
        <3>5. s[1] = "ref+" <=> (m - 1) % z = z - 1 BY <1>4, <3>4
        <3>6. CASE s[1] = "ref+"
            <4>1. n >= 1 /\ m - 1 \in z * (n - 1) .. z * (n - 1) + z - 1
                <5>1. CASE z = 1 BY <1>4, <3>1, <3>5, <3>6, <5>1
                <5>2. CASE z = 3 BY <1>4, <3>1, <3>5, <3>6, <5>2
                <5> QED BY <5>1, <5>2
            <4> QED BY <1>1, <3>1, <3>3, <3>6, <4>1 DEF Left, t
        <3>7. CASE s[1] # "ref+"
            <4>1. m - 1 \in z * n .. z * n + z - 1
                <5>1. CASE z = 1 BY <1>4, <3>1, <3>5, <3>7, <5>1
                <5>2. CASE z = 3 BY <1>4, <3>1, <3>5, <3>7, <5>2
                <5> QED BY <5>1, <5>2
            <4> QED BY <1>1, <3>1, <3>3, <3>7, <4>1 DEF Left, t
        <3> QED BY <3>6, <3>7
    <2> QED BY <2>1, <2>2 DEF First
<1> QED BY <1>1, <1>2, <1>3, <1>4 DEF Left

-----------------------------------------------------------------------------
(* Checked: the invariant.                                                 *)

Fin == [obj : FinObj, debugger : BOOLEAN]
CheckedTypeOK ==
    /\ counts \in [ref : Int, reads : Int, writes : Int]
    /\ given \in FinObj /\ finalizer \in Fin /\ pooled \in {0, 1}
    /\ holds \subseteq Goroutine /\ code \in [Goroutine -> Seq(CodeStep)]
    /\ reg \in [Goroutine -> [n : Int, fin : Fin]] /\ overlapped \in BOOLEAN

TextsInv ==
    /\ \A t \in Goroutine : Text(code[t])
    /\ \A u \in User : \A e : Has(code[u], e) => e \in UserSteps

\* The object is finalized, and is in its pool, when nobody has a reference and
\* nobody but the owner is in a method of it.
Quiet == holds = {} /\ \A u \in User : code[u] = <<>>
QuietInv ==
    /\ Has(code[Owner], "finalize") => pooled = 0 /\ Quiet
    /\ pooled = 1 => Quiet /\ \A e : Has(code[Owner], e) => e = "release"
    /\ Has(code[Owner], "release") => pooled = 1 \/ Has(code[Owner], "finalize")

ControlInv == CheckedTypeOK /\ TextsInv /\ QuietInv

\* What a goroutine has loaded, and will store or finalize, is the finalizer of
\* this Get.
FinInv ==
    pooled = 0 =>
        /\ finalizer.obj = given /\ given \in bound
        /\ \A t \in Goroutine :
            First(code[t], "store") \/ First(code[t], "finalize") => reg[t].fin.obj = given

\* The references: the ones held and the ones that are about to be given back.
Referrers == {t \in Goroutine : t \in holds \/ First(code[t], "ref-")}
RefCounted == \E n \in Nat : Left(code[Owner], n) /\ counts.ref + n = Cardinality(Referrers)
RefUsed(t) ==
    /\ \A e \in UseSteps : Has(code[t], e) => t \in holds /\ ~Has(code[Owner], "ref+")
    /\ First(code[t], "ref-") => t \notin holds /\ ~Has(code[Owner], "ref+")
    /\ Has(code[t], "negative?") => First(code[t], "ref-") \/ reg[t].n >= 0
    /\ Has(code[t], "zero?") => First(code[t], "NumRef") \/ reg[t].n = 0
RefsInv == RefCounted /\ \A t \in Goroutine : RefUsed(t)

\* The writes: of two that overlap, one has seen the other and has reported it
\* or is about to.
IsWriting(s) == Has(s, "writes-") /\ ~Has(s, "writes+")
Writers == {t \in Goroutine : IsWriting(code[t])}
Sees(t) == First(code[t], "write?") /\ reg[t].n > 1
WritesInv ==
    /\ counts.writes = Cardinality(Writers)
    /\ \A t \in Goroutine : Sees(t) => overlapped
    /\ \A t, u \in Writers : t # u => Sees(t) \/ Sees(u) \/ "double write" \in panics

PanicsInv == panics \subseteq IF overlapped THEN {"double write"} ELSE {}

CheckedInv == ~PollsNumRef /\ ControlInv /\ FinInv /\ RefsInv /\ WritesInv /\ PanicsInv

\* t takes the next step of its method; t calls one.
Moves(t, e) == First(code[t], e) /\ \E p \in Traces(e) : code' = [code EXCEPT ![t] = p \o Tail(@)]
Enters(t, s) == code[t] = <<>> /\ code' = [code EXCEPT ![t] = s]

LEMMA AtIs ==
    ASSUME CheckedTypeOK, NEW t \in Goroutine, NEW e, e \notin CheckSteps, At(t, e), Advance(t)
    PROVE  Moves(t, e)
<1>1. First(code[t], e) /\ code[t] \in Seq(CodeStep) BY DEF At, First, CheckedTypeOK
<1>2. Tail(code[t]) \in Seq(CodeStep) BY <1>1, TailIs DEF First
<1>3. <<>> \o Tail(code[t]) = Tail(code[t]) BY <1>2
<1>4. code' = [code EXCEPT ![t] = <<>> \o Tail(code[t])] BY <1>3 DEF Advance
<1>5. <<>> \in Traces(e) BY DEF Traces
<1> QED BY <1>1, <1>4, <1>5 DEF Moves

LEMMA MoveIs ==
    ASSUME CheckedTypeOK, TextsInv, NEW t \in Goroutine, NEW e, Moves(t, e)
    PROVE  /\ code' \in [Goroutine -> Seq(CodeStep)]
           /\ First(code[t], e) /\ Follows(code[t], e, code'[t])
           /\ \A u \in Goroutine : u # t => code'[u] = code[u]
           /\ e \in CodeStep /\ Has(code[t], e) /\ code[t] # <<>>
           /\ \A u \in Goroutine : \A d : d \notin {"load", "store"} /\ Has(code'[u], d) => Has(code[u], d)
           /\ \A u \in Goroutine : code[u] = <<>> => code'[u] = <<>>
           /\ TextsInv'
<1>1. code[t] \in Seq(CodeStep) /\ First(code[t], e) /\ Text(code[t]) BY DEF CheckedTypeOK, TextsInv, Moves
<1>2. e \in CodeStep /\ code[t] # <<>> /\ Has(code[t], e)
    BY <1>1, TailIs, HasIs DEF First
<1>3. PICK p \in Traces(e) : code' = [code EXCEPT ![t] = p \o Tail(code[t])] BY DEF Moves
<1>9. PICK r : r = p \o Tail(code[t]) OBVIOUS
<1>10. Follows(code[t], e, r) BY <1>1, <1>9, FollowsIs
<1>11. r \in Seq(CodeStep) /\ Text(r) BY <1>10 DEF Follows
<1>4. /\ code' \in [Goroutine -> Seq(CodeStep)]
      /\ code'[t] = r /\ \A u \in Goroutine : u # t => code'[u] = code[u]
    BY <1>3, <1>9, <1>11 DEF CheckedTypeOK
<1>5. \A u \in Goroutine : \A d : d \notin {"load", "store"} /\ Has(code'[u], d) => Has(code[u], d)
    BY <1>4, <1>10, Zenon DEF Follows
<1>6. \A u \in Goroutine : code[u] = <<>> => code'[u] = <<>> BY <1>2, <1>4, Zenon
<1>7. \A u \in Goroutine : Text(code'[u]) BY <1>4, <1>11, Zenon DEF TextsInv
<1>8. \A u \in User : \A d : Has(code'[u], d) => d \in UserSteps
    <2>1. "load" \in UserSteps /\ "store" \in UserSteps BY DEF UserSteps
    <2>2. \A d : d \in {"load", "store"} => d \in UserSteps BY <2>1
    <2> QED BY <1>5, <2>2, Zenon DEF TextsInv, Goroutine
<1> QED BY <1>1, <1>2, <1>4, <1>5, <1>6, <1>7, <1>8, <1>10, Zenon DEF TextsInv

LEMMA CallIs ==
    ASSUME CheckedTypeOK, TextsInv, NEW t \in Goroutine, NEW s \in Seq(CodeStep), Enters(t, s), Text(s),
           t \in User => \A e : Has(s, e) => e \in UserSteps
    PROVE  /\ code' \in [Goroutine -> Seq(CodeStep)]
           /\ code'[t] = s /\ \A u \in Goroutine : u # t => code'[u] = code[u]
           /\ \A e : ~Has(code[t], e) /\ ~First(code[t], e)
           /\ TextsInv'
<1>1. code[t] = <<>> /\ code' = [code EXCEPT ![t] = s] /\ code[t] \in Seq(CodeStep)
    BY DEF Enters, CheckedTypeOK
<1>2. /\ code' \in [Goroutine -> Seq(CodeStep)]
      /\ code'[t] = s /\ \A u \in Goroutine : u # t => code'[u] = code[u]
    BY <1>1 DEF CheckedTypeOK
<1>3. \A e : ~Has(code[t], e) /\ ~First(code[t], e) BY <1>1, HasIs
<1>4. \A u \in User : \A e : Has(code'[u], e) => e \in UserSteps
    BY <1>2, Zenon DEF TextsInv, Goroutine
<1>5. \A u \in Goroutine : Text(code'[u]) BY <1>2, Zenon DEF TextsInv
<1> QED BY <1>2, <1>3, <1>4, <1>5, Zenon DEF TextsInv

LEMMA OwnerIs == Owner \in Goroutine /\ User \subseteq Goroutine /\ Owner \notin User
    /\ \A t \in Goroutine : t # Owner => t \in User
BY CheckedAssumption DEF Goroutine

\* A step that is not the finalizer's keeps the control.
LEMMA QuietMove ==
    ASSUME ControlInv, NEW t \in Goroutine, NEW e, Moves(t, e), e # "finalize",
           pooled' = pooled, holds' = holds
    PROVE  QuietInv'
<1>1. \A u \in Goroutine : \A d : d \notin {"load", "store"} /\ Has(code'[u], d) => Has(code[u], d)
    BY MoveIs DEF ControlInv
<1>2. Quiet => Quiet' BY MoveIs, OwnerIs DEF ControlInv, Quiet
<1>3. Has(code[Owner], "finalize") => Has(code'[Owner], "finalize")
    <2>1. CASE t = Owner
        <3>1. Follows(code[t], e, code'[t]) BY MoveIs DEF ControlInv
        <3> QED BY <2>1, <3>1 DEF Follows
    <2>2. CASE t # Owner
        <3>1. code'[Owner] = code[Owner] BY <2>2, MoveIs, OwnerIs DEF ControlInv
        <3> QED BY <3>1
    <2> QED BY <2>1, <2>2
<1>4. QuietInv /\ Owner \in Goroutine BY OwnerIs DEF ControlInv
\* In its pool the object reports nothing.
<1>5. ASSUME pooled = 1, NEW d, Has(code'[Owner], d) PROVE d = "release"
    <2>1. \A c : Has(code[Owner], c) => c = "release" BY <1>4, <1>5 DEF QuietInv
    <2>2. CASE t = Owner
        <3>1. Follows(code[t], e, code'[t]) /\ Has(code[t], e) /\ First(code[t], e) /\ code[t] \in Seq(CodeStep)
            BY MoveIs DEF ControlInv, CheckedTypeOK
        <3>2. e = "release" /\ e \notin CheckSteps BY <2>1, <2>2, <3>1 DEF CheckSteps
        <3>3. code'[t] = Tail(code[t]) BY <3>1, <3>2 DEF Follows
        <3> QED BY <1>5, <2>1, <2>2, <3>1, <3>3, HasTail
    <2>3. CASE t # Owner
        <3>1. code'[Owner] = code[Owner] BY <1>4, <2>3, MoveIs DEF ControlInv
        <3> QED BY <1>5, <2>1, <3>1
    <2> QED BY <2>2, <2>3
<1>6. "finalize" \notin {"load", "store"} /\ "release" \notin {"load", "store"} OBVIOUS
<1> QED BY <1>1, <1>2, <1>3, <1>4, <1>5, <1>6, Zenon DEF QuietInv

LEMMA AddToIs ==
    ASSUME CheckedTypeOK, NEW e \in AddSteps
    PROVE  /\ AddTo(e) \in [ref : Int, reads : Int, writes : Int] /\ AddTo(e)[Counter(e)] \in Int
           /\ e = "ref+" => AddTo(e).ref = counts.ref + 1
           /\ e = "ref-" => AddTo(e).ref = counts.ref - 1 /\ AddTo(e)[Counter(e)] = counts.ref - 1
           /\ e \notin {"ref+", "ref-"} => AddTo(e).ref = counts.ref
           /\ e = "writes+" => /\ AddTo(e).writes = counts.writes + 1
                               /\ AddTo(e)[Counter(e)] = counts.writes + 1
           /\ e = "writes-" => AddTo(e).writes = counts.writes - 1
           /\ e \notin {"writes+", "writes-"} => AddTo(e).writes = counts.writes
<1>7. PICK a \in Int, b \in Int, c \in Int : counts = [ref |-> a, reads |-> b, writes |-> c]
    BY DEF CheckedTypeOK
<1> USE DEF AddTo, Counter
<1>1. CASE e = "ref+" BY <1>1, <1>7
<1>2. CASE e = "ref-" BY <1>2, <1>7
<1>3. CASE e = "reads+" BY <1>3, <1>7
<1>4. CASE e = "reads-" BY <1>4, <1>7
<1>5. CASE e = "writes+" BY <1>5, <1>7
<1>6. CASE e = "writes-" BY <1>6, <1>7
<1> QED BY <1>1, <1>2, <1>3, <1>4, <1>5, <1>6 DEF AddSteps

\* The steps, by what they do to what the invariant speaks of.
LEMMA AddStepIs ==
    ASSUME CheckedTypeOK, NEW t \in Goroutine, AddStep(t)
    PROVE  \E e \in AddSteps :
            /\ Moves(t, e) /\ counts' = AddTo(e)
            /\ reg' = [reg EXCEPT ![t] = [n |-> AddTo(e)[Counter(e)], fin |-> reg[t].fin]]
            /\ overlapped' = (overlapped \/ (e = "writes+" /\ \E u \in Goroutine : Writing(u)))
<1>1. PICK e \in AddSteps :
        /\ At(t, e) /\ Advance(t) /\ counts' = AddTo(e)
        /\ reg' = [reg EXCEPT ![t].n = AddTo(e)[Counter(e)]]
        /\ overlapped' = (overlapped \/ (e = "writes+" /\ \E u \in Goroutine : Writing(u)))
    BY DEF AddStep
<1>7. e \notin CheckSteps BY DEF AddSteps, CheckSteps
<1>2. Moves(t, e) BY <1>1, <1>7, AtIs
<1>3. PICK k : k = AddTo(e)[Counter(e)] OBVIOUS
<1>4. reg[t] \in [n : Int, fin : Fin] BY DEF CheckedTypeOK
<1>5. [reg[t] EXCEPT !.n = k] = [n |-> k, fin |-> reg[t].fin] BY <1>4
<1>6. reg' = [reg EXCEPT ![t] = [n |-> k, fin |-> reg[t].fin]] BY <1>1, <1>3, <1>5
<1> QED BY <1>1, <1>2, <1>3, <1>6

LEMMA ReportsFinite ==
    ASSUME NEW e \in CheckSteps, NEW n, NEW ref
    PROVE  Cardinality(Reports(e, n, ref)) \in Nat
<1>1. PICK r : r = Reports(e, n, ref) OBVIOUS
<1> DEFINE all == {"negative ref count", "finalize before zero ref count", "read after free",
                   "finish after free", "write after free", "double write"}
<1>2. r \subseteq all BY <1>1 DEF Reports, CheckSteps
<1>3. IsFiniteSet(all)
    <2>1. \A s, x : IsFiniteSet(s) => IsFiniteSet(s \cup {x}) BY FS_AddElement
    <2>2. IsFiniteSet({}) BY FS_EmptySet
    <2>3. IsFiniteSet((((((({} \cup {"negative ref count"}) \cup {"finalize before zero ref count"})
                        \cup {"read after free"}) \cup {"finish after free"}) \cup {"write after free"})
                        \cup {"double write"}))
        BY <2>1, <2>2, Zenon
    <2> QED BY <2>3
<1>4. IsFiniteSet(r) BY <1>2, <1>3, FS_Subset
<1> QED BY <1>1, <1>4, FS_CardinalityType

LEMMA CheckStepIs ==
    ASSUME CheckedTypeOK, NEW t \in Goroutine, CheckStep(t)
    PROVE  \/ /\ Moves(t, "NumRef") /\ panics' = panics
              /\ reg' = [reg EXCEPT ![t] = [n |-> counts.ref, fin |-> reg[t].fin]]
           \/ \E e \in CheckSteps :
                /\ Moves(t, e) /\ reg' = reg
                /\ panics' = panics \cup Reports(e, reg[t].n, counts.ref)
           \/ Moves(t, "value") /\ reg' = reg /\ panics' = panics
<1>1. reg[t] \in [n : Int, fin : Fin] BY DEF CheckedTypeOK
<1>2. [reg[t] EXCEPT !.n = counts.ref] = [n |-> counts.ref, fin |-> reg[t].fin] BY <1>1
<1>6. "NumRef" \notin CheckSteps /\ "value" \notin CheckSteps BY DEF CheckSteps
<1>3. CASE At(t, "NumRef") /\ Advance(t) /\ reg' = [reg EXCEPT ![t].n = counts.ref] /\ panics' = panics
    BY <1>2, <1>3, <1>6, AtIs
<1>4. ASSUME NEW e \in CheckSteps, NEW r, r = Reports(e, reg[t].n, counts.ref), At(t, e),
             code' = [code EXCEPT ![t] = Times(Cardinality(r), tracebackEvent) \o Tail(@)],
             panics' = panics \cup r, reg' = reg
      PROVE  Moves(t, e)
    <2>1. First(code[t], e) BY <1>4 DEF At, First
    <2>2. Cardinality(r) \in Nat BY <1>4, ReportsFinite
    <2>3. Times(Cardinality(r), tracebackEvent) \in Traces(e) BY <1>4, <2>2 DEF Traces
    <2> QED BY <1>4, <2>1, <2>3 DEF Moves
<1>5. CASE At(t, "value") /\ Advance(t) /\ reg' = reg /\ panics' = panics
    BY <1>5, <1>6, AtIs
<1>7. CASE \E e \in CheckSteps :
             /\ At(t, e)
             /\ code' = [code EXCEPT ![t] = Times(Cardinality(Reports(e, reg[t].n, counts.ref)), tracebackEvent) \o Tail(@)]
             /\ panics' = panics \cup Reports(e, reg[t].n, counts.ref)
             /\ reg' = reg
    BY <1>4, <1>7
<1> QED BY <1>3, <1>5, <1>7 DEF CheckStep

LEMMA LoadIs ==
    ASSUME CheckedTypeOK, NEW t \in Goroutine, Finalizer(t)
    PROVE  Moves(t, "load") /\ reg' = [reg EXCEPT ![t] = [n |-> reg[t].n, fin |-> finalizer]]
<1>1. reg[t] \in [n : Int, fin : Fin] BY DEF CheckedTypeOK
<1>2. [reg[t] EXCEPT !.fin = finalizer] = [n |-> reg[t].n, fin |-> finalizer] BY <1>1
<1>3. "load" \notin CheckSteps BY DEF CheckSteps
<1> QED BY <1>2, <1>3, AtIs DEF Finalizer

\* Every step of a method but the ones of its finalizer.
Inner(t) == AddStep(t) \/ CheckStep(t) \/ Finalizer(t) \/ getDebuggerRef(t)

LEMMA InnerIs ==
    ASSUME CheckedTypeOK, NEW t \in Goroutine, Inner(t)
    PROVE  /\ \E e : Moves(t, e) /\ e \notin {"finalize", "release"}
           /\ UNCHANGED <<bound, given, pooled, holds>>
<1>1. CASE AddStep(t)
    <2>1. PICK e \in AddSteps : Moves(t, e) BY <1>1, AddStepIs
    <2>2. e \notin {"finalize", "release"} BY DEF AddSteps
    <2> QED BY <1>1, <2>1, <2>2 DEF AddStep
<1>2. CASE CheckStep(t)
    <2>1. PICK e \in CheckSteps \cup {"NumRef", "value"} : Moves(t, e) BY <1>2, CheckStepIs
    <2>2. e \notin {"finalize", "release"} BY DEF CheckSteps
    <2> QED BY <1>2, <2>1, <2>2 DEF CheckStep
<1>5. "load" \notin CheckSteps /\ "store" \notin CheckSteps BY DEF CheckSteps
<1>3. CASE Finalizer(t) BY <1>3, <1>5, AtIs DEF Finalizer
<1>4. CASE getDebuggerRef(t) BY <1>4, <1>5, AtIs DEF getDebuggerRef
<1> QED BY <1>1, <1>2, <1>3, <1>4 DEF Inner

-----------------------------------------------------------------------------
(* Checked: the control and the finalizer.                                 *)

LEMMA CheckedInitInv == CheckedInit /\ ~PollsNumRef => CheckedInv
<1> SUFFICES ASSUME CheckedInit, ~PollsNumRef PROVE CheckedInv
    OBVIOUS
<1>1. \A t \in Goroutine : code[t] = <<>> BY DEF CheckedInit
<1>2. <<>> \in Seq(CodeStep) /\ Len(<<>>) = 0 OBVIOUS
<1>3. \A e : ~Has(<<>>, e) /\ ~First(<<>>, e) BY <1>2, HasIs
<1>4. Text(<<>>) BY <1>2 DEF Text, TextOrder, TextNext, TextLater
<1>5. CheckedTypeOK
    <2>1. given \in FinObj /\ finalizer = [obj |-> given, debugger |-> FALSE] BY DEF CheckedInit
    <2>2. finalizer \in Fin BY <2>1 DEF Fin
    <2>3. reg \in [Goroutine -> [n : Int, fin : Fin]] BY <2>2 DEF CheckedInit
    <2>4. code \in [Goroutine -> Seq(CodeStep)] BY <1>2 DEF CheckedInit
    <2>5. counts \in [ref : Int, reads : Int, writes : Int] BY DEF CheckedInit
    <2> QED BY <2>1, <2>2, <2>3, <2>4, <2>5 DEF CheckedInit, CheckedTypeOK
<1>6. TextsInv BY <1>1, <1>3, <1>4, OwnerIs, Zenon DEF TextsInv
<1>7. QuietInv
    <2>1. Quiet BY <1>1, OwnerIs DEF Quiet, CheckedInit
    <2>2. pooled = 1 BY DEF CheckedInit
    <2> QED BY <1>1, <1>3, <2>1, <2>2, OwnerIs, Zenon DEF QuietInv
<1>8. FinInv BY DEF CheckedInit, FinInv
<1>9. RefsInv
    <2>1. Referrers = {} BY <1>1, <1>3 DEF Referrers, CheckedInit
    <2>2. Left(code[Owner], 0) BY <1>1, <1>3, OwnerIs DEF Left
    <2>3. 0 \in Nat /\ counts.ref + 0 = Cardinality(Referrers)
        BY <2>1, FS_EmptySet DEF CheckedInit
    <2>4. \A t \in Goroutine : \A e : ~Has(code[t], e) /\ ~First(code[t], e) BY <1>1, <1>3, Zenon
    <2> QED BY <2>2, <2>3, <2>4, Zenon DEF RefsInv, RefCounted, RefUsed
<1>10. WritesInv
    <2>1. Writers = {} /\ \A t \in Goroutine : ~Sees(t)
        BY <1>1, <1>3 DEF Writers, IsWriting, Sees
    <2>2. counts.writes = Cardinality(Writers) BY <2>1, FS_EmptySet DEF CheckedInit
    <2> QED BY <2>1, <2>2 DEF WritesInv
<1>11. PanicsInv BY DEF CheckedInit, PanicsInv
<1> QED BY <1>5, <1>6, <1>7, <1>8, <1>9, <1>10, <1>11 DEF CheckedInv, ControlInv

\* What FinalizerFinalize does: it is the owner that is in Finalize, and its
\* finalizer is not cleared.
LEMMA FinalizeIs ==
    ASSUME ControlInv, FinInv, NEW t \in Goroutine, FinalizerFinalize(t)
    PROVE  /\ t = Owner /\ Quiet
           /\ \/ Moves(t, "finalize") /\ pooled = 0 /\ pooled' = 1
              \/ Moves(t, "release") /\ pooled = 1 /\ pooled' = 1
           /\ UNCHANGED <<holds, reg, panics>>
<1>1. PICK e \in {"finalize", "release"} : At(t, e) BY DEF FinalizerFinalize
<1>2. First(code[t], e) /\ code[t] \in Seq(CodeStep) /\ Text(code[t])
    BY <1>1 DEF At, First, ControlInv, CheckedTypeOK, TextsInv
<1>3. Has(code[t], e) BY <1>2, HasIs
<1>4. t = Owner
    <2>1. e \notin UserSteps BY DEF UserSteps, UseSteps
    <2> QED BY <1>3, <2>1, OwnerIs DEF ControlInv, TextsInv
<1>5. CASE e = "finalize"
    <2>1. pooled = 0 /\ Quiet BY <1>3, <1>4, <1>5 DEF ControlInv, QuietInv
    <2>2. reg[t].fin.obj \in bound BY <1>2, <1>5, <2>1 DEF FinInv
    <2>3. ~At(t, "release") BY <1>2, <1>5 DEF At, First
    <2>4. At(t, "finalize") /\ Advance(t) /\ pooled' = pooled + 1 /\ UNCHANGED <<holds, reg, panics>>
        BY <2>2, <2>3 DEF FinalizerFinalize
    <2>5. "finalize" \notin CheckSteps BY DEF CheckSteps
    <2> QED BY <1>4, <2>1, <2>4, <2>5, AtIs DEF ControlInv
<1>6. CASE e = "release"
    <2>1. ~Has(code[Owner], "finalize")
        <3>1. ~Has(Tail(code[t]), "finalize") BY <1>2, <1>6, TextFirst
        <3> QED BY <1>2, <1>4, <1>6, <3>1, HasTail
    <2>2. pooled = 1 /\ Quiet BY <1>3, <1>4, <1>6, <2>1 DEF ControlInv, QuietInv
    <2>3. ~At(t, "finalize") BY <1>2, <1>6 DEF At, First
    <2>4. At(t, "release") /\ Advance(t) /\ UNCHANGED <<pooled, holds, reg, panics>>
        BY <2>3 DEF FinalizerFinalize
    <2>5. "release" \notin CheckSteps BY DEF CheckSteps
    <2> QED BY <1>4, <2>2, <2>4, <2>5, AtIs DEF ControlInv
<1> QED BY <1>5, <1>6

\* What the clients do.
LEMMA PoolGetIs ==
    ASSUME ControlInv, PoolGet
    PROVE  \E n \in Nat :
            /\ n = Cardinality(Goroutine) /\ Enters(Owner, Times(n, IncRef))
            /\ Quiet /\ pooled = 1 /\ pooled' = 0 /\ holds' = Goroutine
<1>1. pooled = 1 /\ pooled' = 0 /\ Quiet
    BY DEF PoolGet, ControlInv, CheckedTypeOK, QuietInv
<1>2. {u \in User : Returned(u)} = User BY <1>1 DEF Quiet, Returned
<1>3. Cardinality(Goroutine) = Cardinality(User) + 1 /\ Cardinality(User) + 1 \in Nat
    <2>1. IsFiniteSet(User) /\ Owner \notin User BY CheckedAssumption
    <2> QED BY <2>1, FS_AddElement, FS_CardinalityType DEF Goroutine
<1>4. holds' = Goroutine /\ Call(Owner, Times(Cardinality(User) + 1, IncRef))
    BY <1>2 DEF PoolGet, Goroutine
<1> QED BY <1>1, <1>3, <1>4 DEF Call, Enters, Returned

LEMMA OwnerFinalizesIs ==
    ASSUME ~PollsNumRef, ControlInv, OwnerFinalizes
    PROVE  /\ Enters(Owner, Finalize) /\ Quiet /\ pooled = 0
           /\ UNCHANGED <<counts, finalizer, bound, given, pooled, holds, reg, panics, overlapped>>
BY DEF OwnerFinalizes, Quiet, Call, Enters, Returned

Useful(s) == (s = MoveRef /\ Traceback) \/ s = BytesRead \/ s = BytesWrite

LEMMA UseRefIs ==
    ASSUME ControlInv, NEW t \in Goroutine, UseRef(t)
    PROVE  /\ \E s : Useful(s) /\ Enters(t, s)
           /\ t \in holds /\ ~Has(code[Owner], "ref+") /\ pooled = 0
           /\ UNCHANGED <<counts, finalizer, bound, given, pooled, holds, reg, panics, overlapped>>
<1>1. t \in holds /\ Shared BY DEF UseRef
<1>2. ~Has(code[Owner], "ref+")
    <2>1. code[Owner] \in Seq(CodeStep) BY OwnerIs DEF ControlInv, CheckedTypeOK
    <2> QED BY <1>1, <2>1, HasIs DEF Shared, Returned, Has, SX!Contains
<1>3. pooled = 0 BY <1>1 DEF ControlInv, CheckedTypeOK, QuietInv, Quiet
<1>4. \E s : Useful(s) /\ Enters(t, s) BY DEF UseRef, Call, Returned, Enters, Useful
<1> QED BY <1>1, <1>2, <1>3, <1>4 DEF UseRef

LEMMA ReleaseRefIs ==
    ASSUME ControlInv, NEW t \in Goroutine, ReleaseRef(t)
    PROVE  /\ Enters(t, DecRef) /\ t \in holds /\ ~Has(code[Owner], "ref+") /\ pooled = 0
           /\ holds' = holds \ {t}
           /\ UNCHANGED <<counts, finalizer, bound, given, pooled, reg, panics, overlapped>>
<1>1. t \in holds /\ Shared BY DEF ReleaseRef
<1>2. ~Has(code[Owner], "ref+")
    <2>1. code[Owner] \in Seq(CodeStep) BY OwnerIs DEF ControlInv, CheckedTypeOK
    <2> QED BY <1>1, <2>1, HasIs DEF Shared, Returned, Has, SX!Contains
<1>3. pooled = 0 BY <1>1 DEF ControlInv, CheckedTypeOK, QuietInv, Quiet
<1> QED BY <1>1, <1>2, <1>3 DEF ReleaseRef, Call, Returned, Enters

LEMMA InnerControl ==
    ASSUME ControlInv, NEW t \in Goroutine, Inner(t)
    PROVE  ControlInv'
<1> USE DEF ControlInv
<1>1. PICK e : Moves(t, e) /\ e \notin {"finalize", "release"} BY InnerIs
<1>2. UNCHANGED <<bound, given, pooled, holds>> BY InnerIs
<1>3. code' \in [Goroutine -> Seq(CodeStep)] /\ TextsInv' BY <1>1, MoveIs
<1>4. QuietInv' BY <1>1, <1>2, QuietMove
<1>5. CheckedTypeOK'
    <2>1. CASE AddStep(t)
        <3>1. PICK d \in AddSteps :
                /\ counts' = AddTo(d)
                /\ reg' = [reg EXCEPT ![t] = [n |-> AddTo(d)[Counter(d)], fin |-> reg[t].fin]]
                /\ overlapped' \in BOOLEAN
            BY <2>1, AddStepIs
        <3>2. PICK k \in Int : k = AddTo(d)[Counter(d)] BY AddToIs
        <3>3. counts' \in [ref : Int, reads : Int, writes : Int] BY <3>1, AddToIs
        <3>4. reg' \in [Goroutine -> [n : Int, fin : Fin]] BY <3>1, <3>2 DEF CheckedTypeOK
        <3>5. finalizer' = finalizer BY <2>1 DEF AddStep
        <3> QED BY <1>2, <1>3, <3>1, <3>3, <3>4, <3>5 DEF CheckedTypeOK
    <2>2. CASE CheckStep(t)
        <3>2. reg[t].fin \in Fin /\ counts.ref \in Int BY DEF CheckedTypeOK
        <3>3. [n |-> counts.ref, fin |-> reg[t].fin] \in [n : Int, fin : Fin] BY <3>2
        <3>1. reg' \in [Goroutine -> [n : Int, fin : Fin]]
            BY <2>2, <3>3, CheckStepIs DEF CheckedTypeOK
        <3> QED BY <1>2, <1>3, <2>2, <3>1 DEF CheckedTypeOK, CheckStep
    <2>3. CASE Finalizer(t)
        <3>2. reg[t].n \in Int /\ finalizer \in Fin BY DEF CheckedTypeOK
        <3>3. [n |-> reg[t].n, fin |-> finalizer] \in [n : Int, fin : Fin] BY <3>2
        <3>1. reg' \in [Goroutine -> [n : Int, fin : Fin]] BY <2>3, <3>3, LoadIs DEF CheckedTypeOK
        <3> QED BY <1>2, <1>3, <2>3, <3>1 DEF CheckedTypeOK, Finalizer
    <2>4. CASE getDebuggerRef(t)
        <3>1. reg[t].fin \in Fin /\ finalizer \in Fin BY DEF CheckedTypeOK
        <3>2. finalizer' \in Fin BY <2>4, <3>1 DEF getDebuggerRef, Fin
        <3> QED BY <1>2, <1>3, <2>4, <3>2 DEF CheckedTypeOK, getDebuggerRef
    <2> QED BY <2>1, <2>2, <2>3, <2>4 DEF Inner
<1> QED BY <1>3, <1>4, <1>5

LEMMA FinalizeControl ==
    ASSUME ControlInv, FinInv, NEW t \in Goroutine, FinalizerFinalize(t)
    PROVE  ControlInv'
<1> USE DEF ControlInv
<1>1. PICK e \in {"finalize", "release"} : Moves(t, e) /\ (e # "finalize" => pooled' = pooled)
    BY FinalizeIs
<1>2. t = Owner /\ Quiet /\ pooled' = 1 /\ UNCHANGED <<holds, reg, panics>> BY FinalizeIs
<1>3. code' \in [Goroutine -> Seq(CodeStep)] /\ TextsInv' BY <1>1, MoveIs
<1>4. CheckedTypeOK' BY <1>2, <1>3 DEF CheckedTypeOK, FinalizerFinalize
<1>5. QuietInv'
    <2>1. CASE e = "finalize"
        <3>1. Follows(code[t], e, code'[t]) BY <1>1, MoveIs
        <3>2. \A d : Has(code'[t], d) => d = "release" BY <2>1, <3>1 DEF Follows
        <3>3. ~Has(code'[t], "finalize") BY <3>2
        <3>4. Quiet' BY <1>1, <1>2, MoveIs, OwnerIs DEF Quiet
        <3> QED BY <1>2, <3>2, <3>3, <3>4, Zenon DEF QuietInv
    <2>2. CASE e # "finalize" BY <1>1, <1>2, <2>2, QuietMove
    <2> QED BY <2>1, <2>2
<1> QED BY <1>3, <1>4, <1>5

LEMMA CallsControl ==
    ASSUME ~PollsNumRef, ControlInv, NEW t \in Goroutine,
           PoolGet \/ OwnerFinalizes \/ UseRef(t) \/ ReleaseRef(t)
    PROVE  ControlInv'
<1> USE DEF ControlInv
<1>1. CASE PoolGet
    <2>1. PICK n \in Nat : /\ Enters(Owner, Times(n, IncRef))
                           /\ Quiet /\ pooled = 1 /\ pooled' = 0 /\ holds' = Goroutine
        BY <1>1, PoolGetIs
    <2>2. PICK s : s = Times(n, IncRef) OBVIOUS
    <2>3. s \in Seq(CodeStep) /\ Text(s) /\ \A e : Has(s, e) => e \in {"ref+", "load", "store"}
        BY <2>2, TimesText
    <2>4. Owner \in Goroutine /\ Owner \notin User BY OwnerIs
    <2>5. code' \in [Goroutine -> Seq(CodeStep)] /\ TextsInv' /\ code'[Owner] = s
        BY <2>1, <2>2, <2>3, <2>4, CallIs
    <2>6. ~Has(code'[Owner], "finalize") /\ ~Has(code'[Owner], "release") BY <2>3, <2>5
    <2>7. QuietInv' BY <2>1, <2>6 DEF QuietInv
    <2>8. CheckedTypeOK'
        <3>1. given' \in FinObj /\ finalizer' \in Fin BY <1>1 DEF PoolGet, Fin
        <3> QED BY <1>1, <2>1, <2>5, <3>1 DEF CheckedTypeOK, PoolGet
    <2> QED BY <2>5, <2>7, <2>8
<1>2. CASE OwnerFinalizes
    <2>1. /\ Enters(Owner, Finalize) /\ Quiet /\ pooled = 0
          /\ UNCHANGED <<counts, finalizer, bound, given, pooled, holds, reg, panics, overlapped>>
        BY <1>2, OwnerFinalizesIs
    <2>2. Owner \in Goroutine /\ Owner \notin User BY OwnerIs
    <2>3. /\ code' \in [Goroutine -> Seq(CodeStep)] /\ TextsInv' /\ code'[Owner] = Finalize
          /\ \A u \in Goroutine : u # Owner => code'[u] = code[u]
        BY <2>1, <2>2, FinalizeText, CallIs
    <2>4. Quiet' BY <2>1, <2>2, <2>3, OwnerIs DEF Quiet
    <2>5. Has(code'[Owner], "finalize") BY <2>3, FinalizeText
    <2>6. QuietInv' BY <2>1, <2>4, <2>5 DEF QuietInv
    <2>7. CheckedTypeOK' BY <2>1, <2>3 DEF CheckedTypeOK
    <2> QED BY <2>3, <2>6, <2>7
<1>3. ASSUME NEW s \in Seq(CodeStep), Text(s), \A e : Has(s, e) => e \in UserSteps,
             Enters(t, s), t \in holds, holds' \subseteq holds,
             UNCHANGED <<counts, finalizer, bound, given, pooled, reg, panics, overlapped>>
      PROVE  ControlInv'
    <2>1. /\ code' \in [Goroutine -> Seq(CodeStep)] /\ TextsInv' /\ code'[t] = s
          /\ \A u \in Goroutine : u # t => code'[u] = code[u]
        BY <1>3, CallIs
    <2>2. pooled # 1 /\ ~Has(code[Owner], "finalize") BY <1>3 DEF QuietInv, Quiet
    <2>3. ~Has(code[Owner], "release") BY <2>2 DEF QuietInv
    <2>4. "finalize" \notin UserSteps /\ "release" \notin UserSteps BY DEF UserSteps, UseSteps
    <2>5. ~Has(code'[Owner], "finalize") /\ ~Has(code'[Owner], "release")
        BY <1>3, <2>1, <2>2, <2>3, <2>4, OwnerIs
    <2>6. pooled' # 1 BY <1>3, <2>2
    <2>7. QuietInv' BY <2>5, <2>6 DEF QuietInv
    <2>8. CheckedTypeOK' BY <1>3, <2>1 DEF CheckedTypeOK
    <2> QED BY <2>1, <2>7, <2>8
<1>4. CASE UseRef(t)
    <2>1. PICK s : Useful(s) /\ Enters(t, s) BY <1>4, UseRefIs
    <2>2. s \in Seq(CodeStep) /\ Text(s) /\ \A e : Has(s, e) => e \in UseSteps \cup {"load", "store"}
        BY <2>1, UseText DEF Useful
    <2>3. \A e : Has(s, e) => e \in UserSteps BY <2>2 DEF UserSteps
    <2> QED BY <1>3, <1>4, <2>1, <2>2, <2>3, UseRefIs
<1>5. CASE ReleaseRef(t)
    <2>1. \A e : Has(DecRef, e) => e \in UserSteps BY DecRefText DEF UserSteps
    <2>2. holds' \subseteq holds BY <1>5, ReleaseRefIs
    <2> QED BY <1>3, <1>5, <2>1, <2>2, DecRefText, ReleaseRefIs
<1> QED BY <1>1, <1>2, <1>4, <1>5

LEMMA FinStep ==
    ASSUME ~PollsNumRef, ControlInv, FinInv, NEW t \in Goroutine,
           \/ Inner(t) \/ FinalizerFinalize(t)
           \/ PoolGet \/ OwnerFinalizes \/ UseRef(t) \/ ReleaseRef(t)
    PROVE  FinInv'
<1> USE DEF ControlInv
\* What is loaded is this Get's, and nothing else is to be stored.
<1>1. CASE Inner(t)
    <2> SUFFICES ASSUME pooled' = 0 PROVE FinInv'
        BY DEF FinInv
    <2>1. PICK e : Moves(t, e) /\ e \notin {"finalize", "release"} BY <1>1, InnerIs
    <2>2. UNCHANGED <<bound, given, pooled, holds>> BY <1>1, InnerIs
    <2>3. /\ finalizer.obj = given /\ given \in bound
          /\ \A u \in Goroutine :
                First(code[u], "store") \/ First(code[u], "finalize") => reg[u].fin.obj = given
        BY <2>2 DEF FinInv
    <2>4. /\ Follows(code[t], e, code'[t]) /\ \A u \in Goroutine : u # t => code'[u] = code[u]
          /\ code[t] \in Seq(CodeStep) /\ First(code[t], e)
        BY <2>1, MoveIs DEF CheckedTypeOK
    <2>5. First(code'[t], "store") \/ First(code'[t], "finalize") => e = "load"
        BY <2>4 DEF Follows
    <2>6. finalizer'.obj = given
        <3>1. CASE getDebuggerRef(t)
            <4>1. First(code[t], "store") BY <3>1 DEF getDebuggerRef, At, First
            <4>2. reg[t].fin.obj = given /\ reg[t].fin \in Fin BY <2>3, <4>1 DEF CheckedTypeOK
            <4> QED BY <2>3, <3>1, <4>2 DEF getDebuggerRef, Fin
        <3>2. CASE ~getDebuggerRef(t)
            <4>1. finalizer' = finalizer BY <1>1, <3>2 DEF Inner, AddStep, CheckStep, Finalizer
            <4> QED BY <2>3, <4>1
        <3> QED BY <3>1, <3>2
    <2>7. /\ \A u \in Goroutine : u # t => reg'[u].fin = reg[u].fin
          /\ e = "load" => reg'[t].fin = finalizer
        <3>1. CASE AddStep(t)
            <4>1. PICK d \in AddSteps :
                    /\ Moves(t, d)
                    /\ reg' = [reg EXCEPT ![t] = [n |-> AddTo(d)[Counter(d)], fin |-> reg[t].fin]]
                BY <3>1, AddStepIs
            <4>2. e = d /\ d # "load" BY <2>4, <4>1 DEF Moves, First, AddSteps
            <4> QED BY <4>1, <4>2 DEF CheckedTypeOK
        <3>2. CASE CheckStep(t)
            <4>1. PICK d \in CheckSteps \cup {"NumRef", "value"} : Moves(t, d) BY <3>2, CheckStepIs
            <4>2. e = d /\ d # "load" BY <2>4, <4>1 DEF Moves, First, CheckSteps
            <4>3. \A u \in Goroutine : u # t => reg'[u] = reg[u]
                BY <3>2, CheckStepIs DEF CheckedTypeOK
            <4> QED BY <4>2, <4>3
        <3>3. CASE Finalizer(t)
            <4>1. reg' = [reg EXCEPT ![t] = [n |-> reg[t].n, fin |-> finalizer]] BY <3>3, LoadIs
            <4> QED BY <4>1 DEF CheckedTypeOK
        <3>4. CASE getDebuggerRef(t)
            <4>1. e = "store" BY <2>4, <3>4 DEF getDebuggerRef, At, First
            <4> QED BY <3>4, <4>1 DEF getDebuggerRef
        <3> QED BY <1>1, <3>1, <3>2, <3>3, <3>4 DEF Inner
    <2>8. ASSUME NEW u \in Goroutine, First(code'[u], "store") \/ First(code'[u], "finalize")
          PROVE  reg'[u].fin.obj = given
        <3>1. CASE u = t BY <2>3, <2>5, <2>7, <2>8, <3>1
        <3>2. CASE u # t
            <4>1. code'[u] = code[u] /\ reg'[u].fin = reg[u].fin BY <2>4, <2>7, <3>2
            <4> QED BY <2>3, <2>8, <4>1
        <3> QED BY <3>1, <3>2
    <2> QED BY <2>2, <2>3, <2>6, <2>8 DEF FinInv
<1>2. CASE FinalizerFinalize(t)
    <2>1. pooled' = 1 BY <1>2, FinalizeIs
    <2> QED BY <2>1 DEF FinInv
<1>3. CASE PoolGet
    <2>1. PICK n \in Nat : Enters(Owner, Times(n, IncRef)) /\ Quiet BY <1>3, PoolGetIs
    <2>2. PICK s : s = Times(n, IncRef) OBVIOUS
    <2>3. s \in Seq(CodeStep) /\ Text(s) /\ \A e : First(s, e) => e = "ref+"
        BY <2>2, TimesText
    <2>4. Owner \in Goroutine /\ Owner \notin User BY OwnerIs
    <2>5. code'[Owner] = s /\ \A u \in Goroutine : u # Owner => code'[u] = code[u]
        BY <2>1, <2>2, <2>3, <2>4, CallIs
    <2>6. \A u \in Goroutine : u # Owner => code'[u] = <<>> BY <2>1, <2>5, OwnerIs DEF Quiet
    <2>7. \A u \in Goroutine : ~First(code'[u], "store") /\ ~First(code'[u], "finalize")
        BY <2>3, <2>5, <2>6 DEF First
    <2>8. finalizer'.obj = given' /\ given' \in bound' BY <1>3 DEF PoolGet
    <2> QED BY <2>7, <2>8 DEF FinInv
<1>4. ASSUME NEW u \in Goroutine, NEW s \in Seq(CodeStep), Text(s), Enters(u, s),
             u \in User => \A e : Has(s, e) => e \in UserSteps,
             ~First(s, "store"), ~First(s, "finalize"),
             UNCHANGED <<finalizer, bound, given, pooled, reg>>
      PROVE  FinInv'
    <2>1. code'[u] = s /\ \A v \in Goroutine : v # u => code'[v] = code[v] BY <1>4, CallIs
    <2> QED BY <1>4, <2>1 DEF FinInv
<1>5. CASE OwnerFinalizes
    <2>1. Enters(Owner, Finalize) /\ UNCHANGED <<finalizer, bound, given, pooled, reg>>
        BY <1>5, OwnerFinalizesIs
    <2>2. ~First(Finalize, "store") /\ ~First(Finalize, "finalize") BY FinalizeText DEF First
    <2> QED BY <1>4, <2>1, <2>2, OwnerIs, FinalizeText
<1>6. CASE UseRef(t)
    <2>1. PICK s : Useful(s) /\ Enters(t, s) BY <1>6, UseRefIs
    <2>4. /\ s \in Seq(CodeStep) /\ Text(s) /\ \A e : Has(s, e) => e \in UseSteps \cup {"load", "store"}
          /\ \A e : First(s, e) => e \in {"load", "reads+", "writes+"}
        BY <2>1, UseText, Zenon DEF Useful
    <2>2. /\ s \in Seq(CodeStep) /\ Text(s) /\ \A e : Has(s, e) => e \in UseSteps \cup {"load", "store"}
          /\ ~First(s, "store") /\ ~First(s, "finalize")
        <3>1. "store" \notin {"load", "reads+", "writes+"} /\ "finalize" \notin {"load", "reads+", "writes+"}
            OBVIOUS
        <3> QED BY <2>4, <3>1, Zenon
    <2>3. \A e : Has(s, e) => e \in UserSteps BY <2>2 DEF UserSteps
    <2> QED BY <1>4, <1>6, <2>1, <2>2, <2>3, UseRefIs
<1>7. CASE ReleaseRef(t)
    <2>1. \A e : Has(DecRef, e) => e \in UserSteps BY DecRefText DEF UserSteps
    <2>2. ~First(DecRef, "store") /\ ~First(DecRef, "finalize") BY DecRefText DEF First
    <2> QED BY <1>4, <1>7, <2>1, <2>2, DecRefText, ReleaseRefIs
<1> QED BY <1>1, <1>2, <1>3, <1>5, <1>6, <1>7

-----------------------------------------------------------------------------
(* Checked: the references.                                                *)

LEMMA ReferrersFinite ==
    /\ IsFiniteSet(Goroutine) /\ IsFiniteSet(Referrers) /\ Cardinality(Referrers) \in Nat
    /\ \A t \in Referrers :
        Cardinality(Referrers) >= 1 /\ Cardinality(Referrers \ {t}) = Cardinality(Referrers) - 1
<1>1. IsFiniteSet(Goroutine) BY CheckedAssumption, FS_AddElement DEF Goroutine
<1>2. Referrers \subseteq Goroutine BY DEF Referrers
<1>3. IsFiniteSet(Referrers) BY <1>1, <1>2, FS_Subset
<1>4. Cardinality(Referrers) \in Nat BY <1>3, FS_CardinalityType
<1>5. ASSUME NEW t \in Referrers
      PROVE  /\ Cardinality(Referrers) >= 1
             /\ Cardinality(Referrers \ {t}) = Cardinality(Referrers) - 1
    <2>1. Cardinality(Referrers) # 0 BY <1>3, FS_EmptySet
    <2>2. Cardinality(Referrers \ {t}) = Cardinality(Referrers) - 1 BY <1>3, FS_RemoveElement
    <2> QED BY <1>4, <2>1, <2>2
<1> QED BY <1>1, <1>3, <1>4, <1>5

\* Who has a reference finds the count positive.
LEMMA RefPositive ==
    ASSUME CheckedTypeOK, RefsInv, NEW t \in Referrers, ~Has(code[Owner], "ref+")
    PROVE  counts.ref = Cardinality(Referrers) /\ counts.ref >= 1
<1>1. PICK n \in Nat : Left(code[Owner], n) /\ counts.ref + n = Cardinality(Referrers)
    BY DEF RefsInv, RefCounted
<1>2. code[Owner] \in Seq(CodeStep) BY OwnerIs DEF CheckedTypeOK
<1>3. n = 0 BY <1>1, <1>2, LeftIs
<1>4. counts.ref \in Int BY DEF CheckedTypeOK
<1>5. PICK c \in Nat : c = Cardinality(Referrers) /\ c >= 1 BY ReferrersFinite
<1> QED BY <1>1, <1>3, <1>4, <1>5

\* A step moves the count with the references.
LEMMA RefCountMove ==
    ASSUME ControlInv, RefsInv, NEW t \in Goroutine, NEW e, Moves(t, e), holds' = holds,
           e = "ref+" => counts'.ref = counts.ref + 1,
           e = "ref-" => counts'.ref = counts.ref - 1,
           e \notin {"ref+", "ref-"} => counts'.ref = counts.ref
    PROVE  RefCounted'
<1> USE DEF ControlInv
<1>1. /\ Follows(code[t], e, code'[t]) /\ \A u \in Goroutine : u # t => code'[u] = code[u]
      /\ code[t] \in Seq(CodeStep) /\ First(code[t], e) /\ code[t] # <<>>
      /\ code'[t] \in Seq(CodeStep) /\ Has(code[t], e)
    BY MoveIs DEF CheckedTypeOK
<1>2. ~First(code'[t], "ref-")
    <2>1. ~Has(code'[t], "ref-") BY <1>1 DEF Follows
    <2> QED BY <1>1, <2>1, HasIs
<1>3. First(code[t], "ref-") <=> e = "ref-" BY <1>1 DEF First
<1>4. First(code[t], "ref+") <=> e = "ref+" BY <1>1 DEF First
<1>5. PICK n \in Nat : Left(code[Owner], n) /\ counts.ref + n = Cardinality(Referrers)
    BY DEF RefsInv, RefCounted
<1>6. counts.ref \in Int /\ Owner \in Goroutine BY OwnerIs DEF CheckedTypeOK
<1>7. e # "ref+" => Left(code'[Owner], n)
    <2>1. CASE t = Owner
        <3>1. CASE e \in CheckSteps
            <4>1. ~Has(code[t], "ref+") /\ ~Has(code'[t], "ref+") BY <1>1, <3>1, Zenon DEF Follows
            <4>2. n = 0 BY <1>1, <1>5, <2>1, <4>1, LeftIs
            <4> QED BY <2>1, <4>1, <4>2 DEF Left
        <3>2. CASE e \notin CheckSteps
            <4>1. code'[t] = Tail(code[t]) BY <1>1, <3>2 DEF Follows
            <4> QED BY <1>1, <1>4, <1>5, <2>1, <4>1, LeftIs
        <3> QED BY <3>1, <3>2
    <2>2. CASE t # Owner
        <3>1. code'[Owner] = code[Owner] BY <1>1, <1>6, <2>2
        <3> QED BY <1>5, <3>1
    <2> QED BY <2>1, <2>2
<1>8. e # "ref-" => Referrers' = Referrers
    <2>1. ASSUME e # "ref-", NEW u \in Goroutine
          PROVE  First(code'[u], "ref-") <=> First(code[u], "ref-")
        <3>1. CASE u = t BY <1>2, <1>3, <2>1, <3>1
        <3>2. CASE u # t
            <4>1. code'[u] = code[u] BY <1>1, <3>2
            <4> QED BY <4>1
        <3> QED BY <3>1, <3>2
    <2> QED BY <2>1 DEF Referrers
<1>9. CASE e = "ref+"
    <2>1. t = Owner
        <3>1. e \notin UserSteps BY <1>9 DEF UserSteps, UseSteps
        <3> QED BY <1>1, <3>1, OwnerIs DEF TextsInv
    <2>4. e \notin CheckSteps BY <1>9 DEF CheckSteps
    <2>5. code'[t] = Tail(code[t]) BY <1>1, <2>4 DEF Follows
    <2>2. n >= 1 /\ Left(code'[Owner], n - 1) BY <1>1, <1>4, <1>5, <1>9, <2>1, <2>5, LeftIs
    <2>3. n - 1 \in Nat /\ counts'.ref + (n - 1) = Cardinality(Referrers') BY <1>5, <1>6, <1>8, <1>9, <2>2
    <2> QED BY <2>2, <2>3 DEF RefCounted
<1>10. CASE e = "ref-"
    <2>1. RefUsed(t) BY DEF RefsInv
    <2>2. t \in Referrers /\ t \notin holds BY <1>3, <1>10, <2>1 DEF Referrers, RefUsed
    <2>3. Referrers' = Referrers \ {t}
        <3>1. \A u \in Goroutine : u \in Referrers' <=> (u \in holds \/ First(code'[u], "ref-"))
            BY DEF Referrers
        <3>2. \A u \in Goroutine : u # t => (u \in Referrers' <=> u \in Referrers)
            <4> TAKE u \in Goroutine
            <4> HAVE u # t
            <4>1. code'[u] = code[u] BY <1>1
            <4> QED BY <3>1, <4>1 DEF Referrers
        <3>3. t \notin Referrers' BY <1>2, <2>2, <3>1
        <3>4. Referrers' \subseteq Goroutine /\ Referrers \subseteq Goroutine BY DEF Referrers
        <3> QED BY <3>2, <3>3, <3>4
    <2>4. Cardinality(Referrers \ {t}) = Cardinality(Referrers) - 1 BY <2>2, ReferrersFinite
    <2>5. Cardinality(Referrers') = Cardinality(Referrers) - 1 BY <2>3, <2>4
    <2>6. counts'.ref + n = Cardinality(Referrers') BY <1>5, <1>6, <1>10, <2>5
    <2> QED BY <1>7, <1>10, <2>6 DEF RefCounted
<1>11. CASE e \notin {"ref+", "ref-"}
    <2>1. counts'.ref + n = Cardinality(Referrers') BY <1>5, <1>8, <1>11
    <2> QED BY <1>7, <1>11, <2>1 DEF RefCounted
<1> QED BY <1>9, <1>10, <1>11

\* A step keeps what its goroutine has seen for the check to come.
LEMMA RefUsedMove ==
    ASSUME ControlInv, RefsInv, NEW t \in Goroutine, NEW e, Moves(t, e), holds' = holds,
           \A u \in Goroutine : u # t => reg'[u] = reg[u],
           e = "ref-" => reg'[t].n = counts.ref - 1,
           e = "NumRef" => reg'[t].n = counts.ref,
           e \in {"load", "store"} => reg'[t].n = reg[t].n
    PROVE  \A u \in Goroutine : RefUsed(u)'
<1> USE DEF ControlInv
<1>1. /\ Follows(code[t], e, code'[t]) /\ \A u \in Goroutine : u # t => code'[u] = code[u]
      /\ code[t] \in Seq(CodeStep) /\ First(code[t], e) /\ code[t] # <<>>
      /\ code'[t] \in Seq(CodeStep) /\ Has(code[t], e)
    BY MoveIs DEF CheckedTypeOK
<1>2. \A u \in Goroutine : \A d : d \notin {"load", "store"} /\ Has(code'[u], d) => Has(code[u], d)
    BY MoveIs
<1>3. Owner \in Goroutine BY OwnerIs
<1>4. ~First(code'[t], "ref-")
    <2>1. ~Has(code'[t], "ref-") BY <1>1 DEF Follows
    <2> QED BY <1>1, <2>1, HasIs
<1>5. \A d : First(code[t], d) <=> d = e BY <1>1 DEF First
<1>6. RefUsed(t) /\ counts.ref \in Int BY DEF RefsInv, CheckedTypeOK
<1>7. ASSUME Has(code'[t], "negative?") PROVE reg'[t].n >= 0
    <2>1. e \in {"ref-", "load", "store"} BY <1>1, <1>7 DEF Follows
    <2>2. CASE e = "ref-"
        <3>1. t \in Referrers /\ ~Has(code[Owner], "ref+")
            BY <1>5, <1>6, <2>2 DEF Referrers, RefUsed
        <3>2. counts.ref >= 1 BY <3>1, RefPositive
        <3> QED BY <1>6, <2>2, <3>2
    <2>3. CASE e \in {"load", "store"}
        <3>1. ~First(code[t], "ref-") BY <1>5, <2>3
        <3>2. reg[t].n >= 0 BY <1>2, <1>6, <1>7, <3>1 DEF RefUsed
        <3> QED BY <2>3, <3>2
    <2> QED BY <2>1, <2>2, <2>3
<1>8. ASSUME Has(code'[t], "zero?") PROVE reg'[t].n = 0
    <2>1. e \in {"NumRef", "load", "store"} BY <1>1, <1>8 DEF Follows
    <2>2. CASE e = "NumRef"
        <3>1. t = Owner
            <4>1. e \notin UserSteps BY <2>2 DEF UserSteps, UseSteps
            <4> QED BY <1>1, <4>1, OwnerIs DEF TextsInv
        <3>2. Has(code'[t], "finalize") BY <1>1, <2>2 DEF Follows
        <3>3. Quiet BY <1>2, <3>1, <3>2 DEF QuietInv
        <3>4. ~Has(code[Owner], "ref+")
            <4>1. Text(code[t]) BY DEF TextsInv
            <4>2. ~Has(Tail(code[t]), "ref+") BY <1>1, <2>2, <4>1, TextFirst
            <4> QED BY <1>1, <2>2, <3>1, <4>2, HasTail
        <3>5. Referrers = {}
            <4>1. \A u \in Goroutine : ~First(code[u], "ref-")
                BY <1>5, <2>2, <3>1, <3>3, OwnerIs DEF Quiet, First
            <4> QED BY <3>3, <4>1 DEF Referrers, Quiet
        <3>6. PICK n \in Nat : Left(code[Owner], n) /\ counts.ref + n = Cardinality(Referrers)
            BY DEF RefsInv, RefCounted
        <3>7. n = 0 BY <1>1, <3>1, <3>4, <3>6, LeftIs
        <3>8. counts.ref = 0 BY <1>6, <3>5, <3>6, <3>7, FS_EmptySet
        <3> QED BY <2>2, <3>8
    <2>3. CASE e \in {"load", "store"}
        <3>1. ~First(code[t], "NumRef") BY <1>5, <2>3
        <3>2. reg[t].n = 0 BY <1>2, <1>6, <1>8, <3>1 DEF RefUsed
        <3> QED BY <2>3, <3>2
    <2> QED BY <2>1, <2>2, <2>3
<1>9. ASSUME NEW u \in Goroutine PROVE RefUsed(u)'
    <2>4. \A d \in UseSteps : d \notin {"load", "store"} BY DEF UseSteps
    <2>5. "ref+" \notin {"load", "store"} OBVIOUS
    <2>1. \A d \in UseSteps : Has(code'[u], d) => u \in holds /\ ~Has(code'[Owner], "ref+")
        BY <1>2, <1>3, <2>4, <2>5, Zenon DEF RefsInv, RefUsed
    <2>2. CASE u = t
        BY <1>4, <1>7, <1>8, <2>1, <2>2 DEF RefUsed
    <2>3. CASE u # t
        <3>1. code'[u] = code[u] /\ reg'[u] = reg[u] BY <1>1, <2>3
        <3>2. RefUsed(u) BY DEF RefsInv
        <3>3. /\ First(code'[u], "ref-") => u \notin holds' /\ ~Has(code'[Owner], "ref+")
              /\ Has(code'[u], "negative?") => First(code'[u], "ref-") \/ reg'[u].n >= 0
              /\ Has(code'[u], "zero?") => First(code'[u], "NumRef") \/ reg'[u].n = 0
            BY <1>2, <1>3, <3>1, <3>2 DEF RefUsed
        <3> QED BY <2>1, <3>3 DEF RefUsed
    <2> QED BY <2>2, <2>3
<1> QED BY <1>9

\* So does a call, which finds the code of its goroutine empty.
LEMMA RefsCall ==
    ASSUME ControlInv, RefsInv, NEW t \in Goroutine, NEW s \in Seq(CodeStep), Enters(t, s), Text(s),
           t \in User => \A e : Has(s, e) => e \in UserSteps,
           ~Has(s, "ref+"), ~Has(code[Owner], "ref+"),
           counts' = counts, reg' = reg, holds' \subseteq Goroutine,
           \A u \in Goroutine : u # t => (u \in holds' <=> u \in holds),
           t \in holds <=> (t \in holds' \/ First(s, "ref-")),
           First(s, "ref-") => t \notin holds',
           \A e \in UseSteps : Has(s, e) => t \in holds',
           Has(s, "negative?") => First(s, "ref-"),
           Has(s, "zero?") => First(s, "NumRef")
    PROVE  RefsInv'
<1> USE DEF ControlInv
<1>1. /\ code'[t] = s /\ \A u \in Goroutine : u # t => code'[u] = code[u]
      /\ \A e : ~Has(code[t], e) /\ ~First(code[t], e)
    BY CallIs
<1>2. Owner \in Goroutine BY OwnerIs
<1>3. ~Has(code'[Owner], "ref+") BY <1>1, <1>2
<1>4. Referrers' = Referrers
    <2>1. ASSUME NEW u \in Goroutine
          PROVE  (u \in holds' \/ First(code'[u], "ref-")) <=> (u \in holds \/ First(code[u], "ref-"))
        <3>1. CASE u = t BY <1>1, <3>1
        <3>2. CASE u # t
            <4>1. code'[u] = code[u] /\ (u \in holds' <=> u \in holds) BY <1>1, <3>2
            <4> QED BY <4>1
        <3> QED BY <3>1, <3>2
    <2> QED BY <2>1 DEF Referrers
<1>5. RefCounted'
    <2>1. PICK n \in Nat : Left(code[Owner], n) /\ counts.ref + n = Cardinality(Referrers)
        BY DEF RefsInv, RefCounted
    <2>2. n = 0
        <3>1. code[Owner] \in Seq(CodeStep) BY <1>2 DEF CheckedTypeOK
        <3> QED BY <2>1, <3>1, LeftIs
    <2>3. Left(code'[Owner], n) BY <1>3, <2>2 DEF Left
    <2>4. counts'.ref + n = Cardinality(Referrers') BY <1>4, <2>1
    <2> QED BY <2>3, <2>4 DEF RefCounted
<1>6. ASSUME NEW u \in Goroutine PROVE RefUsed(u)'
    <2>1. CASE u = t BY <1>1, <1>3, <2>1 DEF RefUsed
    <2>2. CASE u # t
        <3>1. code'[u] = code[u] /\ (u \in holds' <=> u \in holds) BY <1>1, <2>2
        <3>2. RefUsed(u) BY DEF RefsInv
        <3> QED BY <1>3, <3>1, <3>2 DEF RefUsed
    <2> QED BY <2>1, <2>2
<1> QED BY <1>5, <1>6 DEF RefsInv

LEMMA RefsStep ==
    ASSUME ~PollsNumRef, ControlInv, FinInv, RefsInv, NEW t \in Goroutine,
           \/ Inner(t) \/ FinalizerFinalize(t)
           \/ PoolGet \/ OwnerFinalizes \/ UseRef(t) \/ ReleaseRef(t)
    PROVE  RefsInv'
<1> USE DEF ControlInv
<1>1. CASE AddStep(t)
    <2>1. PICK e \in AddSteps :
            /\ Moves(t, e) /\ counts' = AddTo(e)
            /\ reg' = [reg EXCEPT ![t] = [n |-> AddTo(e)[Counter(e)], fin |-> reg[t].fin]]
        BY <1>1, AddStepIs
    <2>2. holds' = holds BY <1>1 DEF AddStep
    <2>3. /\ e = "ref+" => counts'.ref = counts.ref + 1
          /\ e = "ref-" => counts'.ref = counts.ref - 1
          /\ e \notin {"ref+", "ref-"} => counts'.ref = counts.ref
        BY <2>1, AddToIs
    <2>4. /\ \A u \in Goroutine : u # t => reg'[u] = reg[u]
          /\ reg'[t].n = AddTo(e)[Counter(e)]
        BY <2>1 DEF CheckedTypeOK
    <2>5. e = "ref-" => reg'[t].n = counts.ref - 1 BY <2>4, AddToIs
    <2>6. e \notin {"NumRef", "load", "store"} BY DEF AddSteps
    <2>7. RefCounted' BY <2>1, <2>2, <2>3, RefCountMove
    <2>8. \A u \in Goroutine : RefUsed(u)' BY <2>1, <2>2, <2>4, <2>5, <2>6, RefUsedMove
    <2> QED BY <2>7, <2>8 DEF RefsInv
\* No other step changes the count.
<1>2. ASSUME NEW e, Moves(t, e), e \notin {"ref+", "ref-"}, holds' = holds, counts' = counts,
             \A u \in Goroutine : u # t => reg'[u] = reg[u],
             e = "NumRef" => reg'[t].n = counts.ref,
             e \in {"load", "store"} => reg'[t].n = reg[t].n
      PROVE  RefsInv'
    <2>1. RefCounted' BY <1>2, RefCountMove
    <2>2. \A u \in Goroutine : RefUsed(u)' BY <1>2, RefUsedMove
    <2> QED BY <2>1, <2>2 DEF RefsInv
<1>3. CASE CheckStep(t)
    <2>1. holds' = holds /\ counts' = counts BY <1>3 DEF CheckStep
    <2>2. CASE Moves(t, "NumRef") /\ reg' = [reg EXCEPT ![t] = [n |-> counts.ref, fin |-> reg[t].fin]]
        <3>1. reg'[t].n = counts.ref /\ \A u \in Goroutine : u # t => reg'[u] = reg[u]
            BY <2>2 DEF CheckedTypeOK
        <3> QED BY <1>2, <2>1, <2>2, <3>1
    <2>3. CASE \E e \in CheckSteps : Moves(t, e) /\ reg' = reg
        <3>1. PICK e \in CheckSteps : Moves(t, e) /\ reg' = reg BY <2>3
        <3>2. e \notin {"ref+", "ref-", "NumRef"} BY DEF CheckSteps
        <3> QED BY <1>2, <2>1, <3>1, <3>2
    <2>4. CASE Moves(t, "value") /\ reg' = reg BY <1>2, <2>1, <2>4
    <2> QED BY <1>3, <2>2, <2>3, <2>4, CheckStepIs
<1>4. CASE Finalizer(t)
    <2>1. holds' = holds /\ counts' = counts BY <1>4 DEF Finalizer
    <2>2. Moves(t, "load") /\ reg' = [reg EXCEPT ![t] = [n |-> reg[t].n, fin |-> finalizer]]
        BY <1>4, LoadIs
    <2>3. reg'[t].n = reg[t].n /\ \A u \in Goroutine : u # t => reg'[u] = reg[u]
        BY <2>2 DEF CheckedTypeOK
    <2> QED BY <1>2, <2>1, <2>2, <2>3
<1>5. CASE getDebuggerRef(t)
    <2>2. "store" \notin CheckSteps BY DEF CheckSteps
    <2>1. Moves(t, "store") /\ holds' = holds /\ counts' = counts /\ reg' = reg
        BY <1>5, <2>2, AtIs DEF getDebuggerRef
    <2> QED BY <1>2, <2>1
<1>6. CASE FinalizerFinalize(t)
    <2>1. /\ \E e \in {"finalize", "release"} : Moves(t, e)
          /\ holds' = holds /\ counts' = counts /\ reg' = reg
        BY <1>6, FinalizeIs DEF FinalizerFinalize
    <2> QED BY <1>2, <2>1
<1>7. CASE PoolGet
    <2>1. PICK n \in Nat :
            /\ n = Cardinality(Goroutine) /\ Enters(Owner, Times(n, IncRef))
            /\ Quiet /\ holds' = Goroutine
        BY <1>7, PoolGetIs
    <2>2. PICK s : s = Times(n, IncRef) OBVIOUS
    <2>3. /\ s \in Seq(CodeStep) /\ Text(s) /\ Left(s, n)
          /\ \A e : Has(s, e) => e \in {"ref+", "load", "store"}
          /\ \A e : First(s, e) => e = "ref+"
        BY <2>2, TimesText
    <2>4. Owner \in Goroutine /\ Owner \notin User BY OwnerIs
    <2>5. /\ code'[Owner] = s /\ \A u \in Goroutine : u # Owner => code'[u] = code[u]
          /\ \A e : ~Has(code[Owner], e) /\ ~First(code[Owner], e)
        BY <2>1, <2>2, <2>3, <2>4, CallIs
    <2>6. \A u \in Goroutine : u # Owner => code[u] = <<>> BY <2>1, OwnerIs DEF Quiet
    <2>7. \A u \in Goroutine : ~First(code[u], "ref-") BY <2>5, <2>6 DEF First
    <2>8. counts.ref = 0
        <3>1. PICK m \in Nat : Left(code[Owner], m) /\ counts.ref + m = Cardinality(Referrers)
            BY DEF RefsInv, RefCounted
        <3>2. m = 0
            <4>1. code[Owner] \in Seq(CodeStep) BY <2>4 DEF CheckedTypeOK
            <4> QED BY <2>5, <3>1, <4>1, LeftIs
        <3>3. Referrers = {} BY <2>1, <2>7 DEF Referrers, Quiet
        <3>4. counts.ref \in Int BY DEF CheckedTypeOK
        <3> QED BY <3>1, <3>2, <3>3, <3>4, FS_EmptySet
    <2>9. counts' = counts BY <1>7 DEF PoolGet
    <2>10. Referrers' = Goroutine BY <2>1 DEF Referrers
    <2>11. RefCounted' BY <2>1, <2>3, <2>5, <2>8, <2>9, <2>10 DEF RefCounted
    <2>12. ASSUME NEW u \in Goroutine
           PROVE  /\ \A e : Has(code'[u], e) => e \in {"ref+", "load", "store"}
                  /\ ~First(code'[u], "ref-")
        <3>1. CASE u = Owner BY <2>3, <2>5, <3>1
        <3>2. CASE u # Owner
            <4>1. code'[u] = <<>> /\ <<>> \in Seq(CodeStep) BY <2>5, <2>6, <3>2
            <4> QED BY <4>1, HasIs
        <3> QED BY <3>1, <3>2
    <2>13. "negative?" \notin {"ref+", "load", "store"} /\ "zero?" \notin {"ref+", "load", "store"}
           /\ \A e \in UseSteps : e \notin {"ref+", "load", "store"}
        BY DEF UseSteps
    <2>14. \A u \in Goroutine : RefUsed(u)' BY <2>12, <2>13, Zenon DEF RefUsed
    <2> QED BY <2>11, <2>14 DEF RefsInv
<1>8. CASE OwnerFinalizes
    <2>1. Enters(Owner, Finalize) /\ Quiet /\ UNCHANGED <<counts, holds, reg>>
        BY <1>8, OwnerFinalizesIs
    <2>2. Owner \in Goroutine /\ Owner \notin User /\ holds \subseteq Goroutine
        BY OwnerIs DEF CheckedTypeOK
    <2>3. ~Has(code[Owner], "ref+")
        <3>1. code[Owner] = <<>> /\ code[Owner] \in Seq(CodeStep)
            BY <2>1, <2>2 DEF Enters, CheckedTypeOK
        <3> QED BY <3>1, HasIs
    <2>4. /\ ~Has(Finalize, "ref+") /\ ~Has(Finalize, "negative?")
          /\ \A e \in UseSteps : ~Has(Finalize, e)
          /\ ~First(Finalize, "ref-") /\ First(Finalize, "NumRef")
        BY FinalizeText DEF UseSteps, First
    <2> QED BY <2>1, <2>2, <2>3, <2>4, FinalizeText, RefsCall
<1>9. CASE UseRef(t)
    <2>1. PICK s : Useful(s) /\ Enters(t, s) BY <1>9, UseRefIs
    <2>2. /\ s \in Seq(CodeStep) /\ Text(s) /\ \A e : Has(s, e) => e \in UseSteps \cup {"load", "store"}
        BY <2>1, UseText, Zenon DEF Useful
    <2>3. \A e : Has(s, e) => e \in UserSteps BY <2>2 DEF UserSteps
    <2>4. ~Has(s, "ref+") /\ ~Has(s, "ref-") /\ ~Has(s, "negative?") /\ ~Has(s, "zero?")
        BY <2>2 DEF UseSteps
    <2>5. ~First(s, "ref-") BY <2>2, <2>4, HasIs
    <2>6. /\ t \in holds /\ ~Has(code[Owner], "ref+") /\ UNCHANGED <<counts, holds, reg>>
          /\ holds \subseteq Goroutine
        BY <1>9, UseRefIs DEF CheckedTypeOK
    <2> QED BY <2>1, <2>2, <2>3, <2>4, <2>5, <2>6, RefsCall
<1>10. CASE ReleaseRef(t)
    <2>1. /\ Enters(t, DecRef) /\ t \in holds /\ ~Has(code[Owner], "ref+")
          /\ holds' = holds \ {t} /\ UNCHANGED <<counts, reg>>
        BY <1>10, ReleaseRefIs
    <2>2. holds' \subseteq Goroutine /\ t \notin holds' BY <2>1 DEF CheckedTypeOK
    <2>3. \A e : Has(DecRef, e) => e \in UserSteps BY DecRefText DEF UserSteps
    <2>4. /\ ~Has(DecRef, "ref+") /\ ~Has(DecRef, "zero?") /\ First(DecRef, "ref-")
          /\ \A e \in UseSteps : ~Has(DecRef, e)
        BY DecRefText DEF UseSteps
    <2>5. \A u \in Goroutine : u # t => (u \in holds' <=> u \in holds) BY <2>1
    <2> QED BY <2>1, <2>2, <2>3, <2>4, <2>5, DecRefText, RefsCall
<1> QED BY <1>1, <1>3, <1>4, <1>5, <1>6, <1>7, <1>8, <1>9, <1>10 DEF Inner

-----------------------------------------------------------------------------
(* Checked: the writes and the reports.                                    *)

LEMMA WritersIs ==
    /\ IsFiniteSet(Writers) /\ Cardinality(Writers) \in Nat /\ Writers \subseteq Goroutine
    /\ \A t \in Writers : Cardinality(Writers) >= 1
    /\ \A t \in Goroutine : Writing(t) <=> t \in Writers
<1>1. Writers \subseteq Goroutine BY DEF Writers
<1>2. IsFiniteSet(Writers) BY <1>1, FS_Subset, ReferrersFinite
<1>3. Cardinality(Writers) \in Nat BY <1>2, FS_CardinalityType
<1>4. ASSUME NEW t \in Writers PROVE Cardinality(Writers) >= 1
    <2>1. Cardinality(Writers) # 0 BY <1>2, FS_EmptySet
    <2> QED BY <1>3, <2>1
<1>5. ASSUME NEW t \in Goroutine PROVE Writing(t) <=> t \in Writers
    BY DEF Writing, Writers, IsWriting, Has, SX!Contains
<1> QED BY <1>1, <1>2, <1>3, <1>4, <1>5

\* A step moves the count with the writers.
LEMMA WritersMove ==
    ASSUME ControlInv, NEW t \in Goroutine, NEW e, Moves(t, e)
    PROVE  /\ e \notin {"writes+", "writes-"} => Writers' = Writers
           /\ e = "writes+" => t \notin Writers /\ Writers' = Writers \cup {t}
           /\ e = "writes-" => t \in Writers /\ Writers' = Writers \ {t}
<1> USE DEF ControlInv
<1>1. /\ Follows(code[t], e, code'[t]) /\ \A u \in Goroutine : u # t => code'[u] = code[u]
      /\ code[t] \in Seq(CodeStep) /\ First(code[t], e) /\ Has(code[t], e)
    BY MoveIs DEF CheckedTypeOK
<1>10. "writes+" \notin {"load", "store"} /\ "writes-" \notin {"load", "store"} OBVIOUS
<1>2. \A d \in {"writes+", "writes-"} : Has(code'[t], d) => Has(code[t], d)
    BY <1>1, <1>10 DEF Follows
<1>3. \A d \in {"writes+", "writes-"} : Has(code[t], d) => d = e \/ Has(code'[t], d)
    BY <1>1, <1>10 DEF Follows
<1>4. \A u \in Goroutine : u # t => (u \in Writers' <=> u \in Writers)
    <2> TAKE u \in Goroutine
    <2> HAVE u # t
    <2>1. code'[u] = code[u] BY <1>1
    <2>2. (u \in Writers' <=> IsWriting(code'[u])) /\ (u \in Writers <=> IsWriting(code[u]))
        BY DEF Writers
    <2> QED BY <2>1, <2>2
<1>5. (t \in Writers' <=> IsWriting(code'[t])) /\ (t \in Writers <=> IsWriting(code[t])) BY DEF Writers
<1>6. Writers \subseteq Goroutine /\ Writers' \subseteq Goroutine BY DEF Writers
<1>7. ASSUME e \notin {"writes+", "writes-"} PROVE Writers' = Writers
    <2>1. e # "writes+" /\ e # "writes-" BY <1>7
    <2>2. IsWriting(code'[t]) <=> IsWriting(code[t]) BY <1>2, <1>3, <2>1 DEF IsWriting
    <2> QED BY <1>4, <1>5, <1>6, <2>2
<1>8. ASSUME e = "writes+" PROVE t \notin Writers /\ Writers' = Writers \cup {t}
    <2>1. ~IsWriting(code[t]) BY <1>1, <1>8 DEF IsWriting
    <2>2. IsWriting(code'[t])
        <3>1. Has(code'[t], "writes-") BY <1>1, <1>8 DEF Follows
        <3>2. ~Has(code'[t], "writes+")
            <4>1. e \notin {"load", "store", "ref+"} BY <1>8
            <4> QED BY <1>1, <1>8, <4>1 DEF Follows
        <3> QED BY <1>1, <3>1, <3>2 DEF IsWriting
    <2> QED BY <1>4, <1>5, <1>6, <2>1, <2>2
<1>9. ASSUME e = "writes-" PROVE t \in Writers /\ Writers' = Writers \ {t}
    <2>1. ~Has(code'[t], "writes+") BY <1>1, <1>9 DEF Follows
    <2>2. ~Has(code[t], "writes+")
        <3>1. "writes+" # e BY <1>9
        <3> QED BY <1>3, <2>1, <3>1
    <2>3. ~Has(code'[t], "writes-")
        <3>1. e \notin {"load", "store", "ref+"} BY <1>9
        <3> QED BY <1>1, <1>9, <3>1 DEF Follows
    <2>4. IsWriting(code[t]) /\ ~IsWriting(code'[t]) BY <1>1, <1>9, <2>2, <2>3 DEF IsWriting
    <2> QED BY <1>4, <1>5, <1>6, <2>4
<1> QED BY <1>7, <1>8, <1>9

\* What has been noted of a step.
Noted(t, e) ==
    /\ e = "writes+" /\ (\E u \in Goroutine : Writing(u)) => overlapped'
    /\ overlapped => overlapped'
    /\ panics \subseteq panics'
    /\ Sees(t) => "double write" \in panics'

\* The second of two writers sees the first, and nobody else can have missed it.
LEMMA WritesMove ==
    ASSUME ControlInv, WritesInv, NEW t \in Goroutine, NEW e, Moves(t, e),
           \A u \in Goroutine : u # t => reg'[u] = reg[u],
           e = "writes+" => counts'.writes = counts.writes + 1 /\ reg'[t].n = counts.writes + 1,
           e = "writes-" => counts'.writes = counts.writes - 1,
           e \notin {"writes+", "writes-"} => counts'.writes = counts.writes,
           Noted(t, e)
    PROVE  WritesInv'
<1> USE DEF ControlInv
<1>1. /\ Follows(code[t], e, code'[t]) /\ \A u \in Goroutine : u # t => code'[u] = code[u]
      /\ code[t] \in Seq(CodeStep) /\ First(code[t], e)
    BY MoveIs DEF CheckedTypeOK
<1>2. counts.writes = Cardinality(Writers) /\ Cardinality(Writers) \in Nat /\ IsFiniteSet(Writers)
    BY WritersIs DEF WritesInv
<1>3. counts'.writes = Cardinality(Writers')
    <2>1. CASE e = "writes+"
        <3>1. t \notin Writers /\ Writers' = Writers \cup {t} BY <2>1, WritersMove
        <3>2. Cardinality(Writers \cup {t}) = Cardinality(Writers) + 1 BY <1>2, <3>1, FS_AddElement
        <3> QED BY <1>2, <2>1, <3>1, <3>2
    <2>2. CASE e = "writes-"
        <3>1. t \in Writers /\ Writers' = Writers \ {t} BY <2>2, WritersMove
        <3>2. Cardinality(Writers \ {t}) = Cardinality(Writers) - 1 BY <1>2, <3>1, FS_RemoveElement
        <3> QED BY <1>2, <2>2, <3>1, <3>2
    <2>3. CASE e \notin {"writes+", "writes-"}
        <3>1. Writers' = Writers BY <2>3, WritersMove
        <3> QED BY <1>2, <2>3, <3>1
    <2> QED BY <2>1, <2>2, <2>3
<1>4. ASSUME NEW u \in Goroutine, u # t PROVE Sees(u)' <=> Sees(u)
    <2>1. code'[u] = code[u] /\ reg'[u] = reg[u] BY <1>1, <1>4
    <2> QED BY <2>1 DEF Sees
<1>5. Sees(t)' => overlapped'
    <2> SUFFICES ASSUME Sees(t)' PROVE overlapped'
        OBVIOUS
    <2>1. First(code'[t], "write?") /\ reg'[t].n > 1 BY DEF Sees
    <2>2. e = "writes+" BY <1>1, <2>1 DEF Follows
    <2>3. counts.writes + 1 > 1 BY <2>1, <2>2
    <2>4. Writers # {}
        <3>1. PICK c \in Nat : c = Cardinality(Writers) /\ c = counts.writes BY <1>2
        <3>2. c # 0 BY <2>3, <3>1
        <3>3. Cardinality({}) = 0 BY FS_EmptySet
        <3> QED BY <3>1, <3>2, <3>3
    <2>5. \E u \in Goroutine : Writing(u) BY <2>4, WritersIs
    <2> QED BY <2>2, <2>5, Zenon DEF Noted
<1>6. \A u \in Goroutine : Sees(u)' => overlapped' BY <1>4, <1>5, Zenon DEF WritesInv, Noted
<1>7. ASSUME NEW u \in Writers', u # t
      PROVE  /\ u \in Writers
             /\ t \in Writers' => Sees(t)' \/ Sees(u)' \/ "double write" \in panics'
    <2>1. u \in Writers BY <1>7, WritersMove
    <2>2. u \in Goroutine BY <2>1, WritersIs
    <2>3. CASE e = "writes+"
        <3>1. Cardinality(Writers) >= 1 BY <2>1, WritersIs
        <3>4. PICK c \in Nat : c = Cardinality(Writers) /\ c = counts.writes BY <1>2
        <3>5. reg'[t].n = c + 1 BY <2>3, <3>4
        <3>2. reg'[t].n > 1 BY <3>1, <3>4, <3>5
        <3>3. First(code'[t], "write?") BY <1>1, <2>3 DEF Follows
        <3> QED BY <2>1, <3>2, <3>3 DEF Sees
    <2>4. CASE e # "writes+" /\ t \in Writers'
        <3>1. t \in Writers BY <2>4, WritersMove
        <3>2. Sees(t) \/ Sees(u) \/ "double write" \in panics BY <1>7, <2>1, <3>1 DEF WritesInv
        <3> QED BY <1>4, <1>7, <2>1, <2>2, <3>2, Zenon DEF Noted
    <2> QED BY <2>1, <2>3, <2>4
<1>8. ASSUME NEW u \in Writers', NEW v \in Writers', u # v
      PROVE  Sees(u)' \/ Sees(v)' \/ "double write" \in panics'
    <2>1. CASE u = t BY <1>7, <1>8, <2>1
    <2>2. CASE v = t BY <1>7, <1>8, <2>2
    <2>3. CASE u # t /\ v # t
        <3>1. u \in Writers /\ v \in Writers BY <1>7, <2>3
        <3>2. Sees(u) \/ Sees(v) \/ "double write" \in panics BY <1>8, <3>1 DEF WritesInv
        <3>3. u \in Goroutine /\ v \in Goroutine BY <3>1, WritersIs
        <3> QED BY <1>4, <2>3, <3>2, <3>3, Zenon DEF Noted
    <2> QED BY <2>1, <2>2, <2>3
<1> QED BY <1>3, <1>6, <1>8 DEF WritesInv

LEMMA WritesCall ==
    ASSUME ControlInv, WritesInv, NEW t \in Goroutine, NEW s \in Seq(CodeStep), Enters(t, s), Text(s),
           t \in User => \A e : Has(s, e) => e \in UserSteps,
           Has(s, "writes-") => Has(s, "writes+"), ~First(s, "write?"),
           UNCHANGED <<counts, reg, overlapped, panics>>
    PROVE  WritesInv'
<1> USE DEF ControlInv
<1>1. /\ code'[t] = s /\ \A u \in Goroutine : u # t => code'[u] = code[u]
      /\ \A e : ~Has(code[t], e) /\ ~First(code[t], e)
    BY CallIs
<1>2. ASSUME NEW u \in Goroutine
      PROVE  (IsWriting(code'[u]) <=> IsWriting(code[u])) /\ (Sees(u)' <=> Sees(u))
    <2>1. CASE u = t BY <1>1, <2>1 DEF IsWriting, Sees
    <2>2. CASE u # t
        <3>1. code'[u] = code[u] /\ reg'[u] = reg[u] BY <1>1, <2>2
        <3> QED BY <3>1 DEF Sees
    <2> QED BY <2>1, <2>2
<1>3. Writers' = Writers BY <1>2 DEF Writers
<1>4. Writers \subseteq Goroutine BY WritersIs
<1>5. \A u \in Goroutine : Sees(u)' <=> Sees(u) BY <1>2
<1>6. counts'.writes = Cardinality(Writers') BY <1>3 DEF WritesInv
<1>7. \A u \in Goroutine : Sees(u)' => overlapped' BY <1>5 DEF WritesInv
<1>8. \A u, v \in Writers' : u # v => Sees(u)' \/ Sees(v)' \/ "double write" \in panics'
    BY <1>3, <1>4, <1>5 DEF WritesInv
<1> QED BY <1>6, <1>7, <1>8 DEF WritesInv

\* Only a write that overlaps another is reported.
LEMMA ReportsIs ==
    ASSUME CheckedTypeOK, TextsInv, RefsInv, WritesInv, NEW t \in Goroutine, NEW e \in CheckSteps, Moves(t, e)
    PROVE  /\ Reports(e, reg[t].n, counts.ref) \subseteq IF overlapped THEN {"double write"} ELSE {}
           /\ Sees(t) => "double write" \in Reports(e, reg[t].n, counts.ref)
<1>1. /\ First(code[t], e) /\ code[t] \in Seq(CodeStep) BY DEF Moves, CheckedTypeOK
<1>2. Has(code[t], e) /\ \A d : First(code[t], d) <=> d = e BY <1>1, HasIs DEF First
<1>3. RefUsed(t) /\ reg[t].n \in Int /\ counts.ref \in Int BY DEF RefsInv, CheckedTypeOK
<1>4. PICK n \in Int, r \in Int : n = reg[t].n /\ r = counts.ref BY <1>3
<1>5. ASSUME e \in UseSteps PROVE r >= 1
    <2>1. t \in holds /\ ~Has(code[Owner], "ref+") BY <1>2, <1>3, <1>5 DEF RefUsed
    <2>2. t \in Referrers BY <2>1 DEF Referrers
    <2> QED BY <1>4, <2>1, <2>2, RefPositive
<1>6. CASE e = "negative?"
    <2>1. n >= 0 BY <1>2, <1>3, <1>4, <1>6 DEF RefUsed
    <2>3. ~(n < 0) BY <2>1
    <2>2. Reports(e, n, r) = {} BY <1>6, <2>3, Zenon DEF Reports
    <2> QED BY <1>2, <1>4, <1>6, <2>2 DEF Sees
<1>7. CASE e = "zero?"
    <2>1. n = 0 BY <1>2, <1>3, <1>4, <1>7 DEF RefUsed
    <2>2. Reports(e, n, r) = {} BY <1>7, <2>1 DEF Reports
    <2> QED BY <1>2, <1>4, <1>7, <2>2 DEF Sees
<1>8. CASE e = "read?"
    <2>1. r >= 1 BY <1>5, <1>8 DEF UseSteps
    <2>3. ~(r < 1) BY <2>1
    <2>2. Reports(e, n, r) = {} BY <1>8, <2>3, Zenon DEF Reports
    <2> QED BY <1>2, <1>4, <1>8, <2>2 DEF Sees
<1>9. CASE e = "freed?"
    <2>1. r >= 1 BY <1>5, <1>9 DEF UseSteps
    <2>3. ~(r < 1) BY <2>1
    <2>2. Reports(e, n, r) = {} BY <1>9, <2>3, Zenon DEF Reports
    <2> QED BY <1>2, <1>4, <1>9, <2>2 DEF Sees
<1>10. CASE e = "write?"
    <2>1. r >= 1 BY <1>5, <1>10 DEF UseSteps
    <2>5. ~(r < 1) BY <2>1
    <2>6. Reports(e, n, r) = {} \cup IF n > 1 THEN {"double write"} ELSE {}
        BY <1>10, <2>5, Zenon DEF Reports
    <2>2. Reports(e, n, r) = IF n > 1 THEN {"double write"} ELSE {} BY <2>6
    <2>3. Sees(t) <=> n > 1 BY <1>2, <1>4, <1>10 DEF Sees
    <2>4. Sees(t) => overlapped BY DEF WritesInv
    <2> QED BY <1>4, <2>2, <2>3, <2>4
<1> QED BY <1>6, <1>7, <1>8, <1>9, <1>10 DEF CheckSteps

LEMMA WritesStep ==
    ASSUME CheckedInv, NEW t \in Goroutine,
           \/ Inner(t) \/ FinalizerFinalize(t)
           \/ PoolGet \/ OwnerFinalizes \/ UseRef(t) \/ ReleaseRef(t)
    PROVE  WritesInv' /\ PanicsInv'
<1> USE DEF CheckedInv, ControlInv
<1>1. CASE AddStep(t)
    <2>1. PICK e \in AddSteps :
            /\ Moves(t, e) /\ counts' = AddTo(e)
            /\ reg' = [reg EXCEPT ![t] = [n |-> AddTo(e)[Counter(e)], fin |-> reg[t].fin]]
            /\ overlapped' = (overlapped \/ (e = "writes+" /\ \E u \in Goroutine : Writing(u)))
        BY <1>1, AddStepIs
    <2>2. panics' = panics BY <1>1 DEF AddStep
    <2>3. overlapped => overlapped' BY <2>1
    <2>4. /\ \A u \in Goroutine : u # t => reg'[u] = reg[u]
          /\ reg'[t].n = AddTo(e)[Counter(e)]
        BY <2>1 DEF CheckedTypeOK
    <2>5. /\ e = "writes+" => counts'.writes = counts.writes + 1 /\ reg'[t].n = counts.writes + 1
          /\ e = "writes-" => counts'.writes = counts.writes - 1
          /\ e \notin {"writes+", "writes-"} => counts'.writes = counts.writes
        BY <2>1, <2>4, AddToIs
    <2>7. ~Sees(t)
        <3>1. First(code[t], e) /\ e # "write?" BY <2>1 DEF Moves, AddSteps
        <3> QED BY <3>1 DEF Sees, First
    <2>6. Noted(t, e) BY <2>1, <2>2, <2>3, <2>7, Zenon DEF Noted
    <2>8. WritesInv' BY <2>1, <2>2, <2>3, <2>4, <2>5, <2>6, <2>7, WritesMove
    <2>9. PanicsInv' BY <2>2, <2>3 DEF PanicsInv
    <2> QED BY <2>8, <2>9
\* The steps that neither count nor check.
<1>2. ASSUME NEW e, Moves(t, e), e \notin {"writes+", "writes-", "write?"},
             \A u \in Goroutine : u # t => reg'[u] = reg[u],
             UNCHANGED <<counts, overlapped, panics>>
      PROVE  WritesInv' /\ PanicsInv'
    <2>1. ~Sees(t)
        <3>1. First(code[t], e) /\ e # "write?" BY <1>2 DEF Moves
        <3> QED BY <3>1 DEF Sees, First
    <2>2. /\ e # "writes+" /\ e # "writes-" /\ e \notin {"writes+", "writes-"}
          /\ counts'.writes = counts.writes
        BY <1>2
    <2>5. Noted(t, e) BY <1>2, <2>1, <2>2, Zenon DEF Noted
    <2>3. WritesInv' BY <1>2, <2>2, <2>5, WritesMove
    <2>4. PanicsInv' BY <1>2 DEF PanicsInv
    <2> QED BY <2>3, <2>4
<1>3. CASE CheckStep(t)
    <2>1. UNCHANGED <<counts, overlapped>> BY <1>3 DEF CheckStep
    <2>2. CASE /\ Moves(t, "NumRef") /\ panics' = panics
               /\ reg' = [reg EXCEPT ![t] = [n |-> counts.ref, fin |-> reg[t].fin]]
        <3>1. \A u \in Goroutine : u # t => reg'[u] = reg[u] BY <2>2 DEF CheckedTypeOK
        <3> QED BY <1>2, <2>1, <2>2, <3>1
    <2>3. CASE \E e \in CheckSteps :
                /\ Moves(t, e) /\ reg' = reg
                /\ panics' = panics \cup Reports(e, reg[t].n, counts.ref)
        <3>1. PICK e \in CheckSteps :
                /\ Moves(t, e) /\ reg' = reg
                /\ panics' = panics \cup Reports(e, reg[t].n, counts.ref)
            BY <2>3
        <3>2. PICK r : r = Reports(e, reg[t].n, counts.ref) OBVIOUS
        <3>3. /\ r \subseteq IF overlapped THEN {"double write"} ELSE {}
              /\ Sees(t) => "double write" \in r
            BY <3>1, <3>2, ReportsIs
        <3>4. PanicsInv' BY <2>1, <3>1, <3>2, <3>3 DEF PanicsInv
        <3>5. e # "writes+" /\ e # "writes-" /\ e \notin {"writes+", "writes-"} BY DEF CheckSteps
        <3>6. counts'.writes = counts.writes /\ (Sees(t) => "double write" \in panics')
            BY <2>1, <3>1, <3>2, <3>3
        <3>8. Noted(t, e) BY <2>1, <3>1, <3>5, <3>6 DEF Noted
        <3>7. WritesInv' BY <3>1, <3>5, <3>6, <3>8, WritesMove
        <3> QED BY <3>4, <3>7
    <2>4. CASE Moves(t, "value") /\ reg' = reg /\ panics' = panics BY <1>2, <2>1, <2>4
    <2> QED BY <1>3, <2>2, <2>3, <2>4, CheckStepIs
<1>4. CASE Finalizer(t)
    <2>1. Moves(t, "load") /\ reg' = [reg EXCEPT ![t] = [n |-> reg[t].n, fin |-> finalizer]]
        BY <1>4, LoadIs
    <2>2. \A u \in Goroutine : u # t => reg'[u] = reg[u] BY <2>1 DEF CheckedTypeOK
    <2>3. UNCHANGED <<counts, overlapped, panics>> BY <1>4 DEF Finalizer
    <2> QED BY <1>2, <2>1, <2>2, <2>3
<1>5. CASE getDebuggerRef(t)
    <2>2. "store" \notin CheckSteps BY DEF CheckSteps
    <2>1. Moves(t, "store") /\ UNCHANGED <<counts, overlapped, panics, reg>>
        BY <1>5, <2>2, AtIs DEF getDebuggerRef
    <2> QED BY <1>2, <2>1
<1>6. CASE FinalizerFinalize(t)
    <2>1. PICK e \in {"finalize", "release"} : Moves(t, e) BY <1>6, FinalizeIs
    <2>2. UNCHANGED <<counts, overlapped, panics, reg>> BY <1>6, FinalizeIs DEF FinalizerFinalize
    <2> QED BY <1>2, <2>1, <2>2
\* The calls.
<1>7. ASSUME UNCHANGED <<overlapped, panics>> PROVE PanicsInv' BY <1>7 DEF PanicsInv
<1>8. CASE PoolGet
    <2>1. PICK n \in Nat : Enters(Owner, Times(n, IncRef)) BY <1>8, PoolGetIs
    <2>2. PICK s : s = Times(n, IncRef) OBVIOUS
    <2>3. s \in Seq(CodeStep) /\ Text(s) /\ (\A e : Has(s, e) => e \in {"ref+", "load", "store"})
        BY <2>2, TimesText
    <2>4. ~Has(s, "writes-") /\ ~Has(s, "write?") BY <2>3
    <2>5. ~First(s, "write?") BY <2>3, <2>4, HasIs
    <2>6. UNCHANGED <<counts, reg, overlapped, panics>> BY <1>8 DEF PoolGet
    <2>7. WritesInv' BY <2>1, <2>2, <2>3, <2>4, <2>5, <2>6, OwnerIs, WritesCall
    <2> QED BY <1>7, <2>6, <2>7
<1>9. CASE OwnerFinalizes
    <2>1. Enters(Owner, Finalize) /\ UNCHANGED <<counts, reg, overlapped, panics>>
        BY <1>9, OwnerFinalizesIs
    <2>2. ~Has(Finalize, "writes-") /\ ~First(Finalize, "write?") BY FinalizeText DEF First
    <2>3. WritesInv' BY <2>1, <2>2, FinalizeText, OwnerIs, WritesCall
    <2> QED BY <1>7, <2>1, <2>3
<1>10. CASE UseRef(t)
    <2>1. PICK s : Useful(s) /\ Enters(t, s) BY <1>10, UseRefIs
    <2>2. /\ s \in Seq(CodeStep) /\ Text(s) /\ \A e : Has(s, e) => e \in UseSteps \cup {"load", "store"}
          /\ \A e : First(s, e) => e \in {"load", "reads+", "writes+"}
          /\ Has(s, "writes-") => Has(s, "writes+")
        BY <2>1, UseText, Zenon DEF Useful
    <2>3. \A e : Has(s, e) => e \in UserSteps BY <2>2 DEF UserSteps
    <2>4. ~First(s, "write?") BY <2>2
    <2>5. UNCHANGED <<counts, reg, overlapped, panics>> BY <1>10, UseRefIs
    <2>6. WritesInv' BY <2>1, <2>2, <2>3, <2>4, <2>5, WritesCall
    <2> QED BY <1>7, <2>5, <2>6
<1>11. CASE ReleaseRef(t)
    <2>1. Enters(t, DecRef) /\ UNCHANGED <<counts, reg, overlapped, panics>> BY <1>11, ReleaseRefIs
    <2>2. \A e : Has(DecRef, e) => e \in UserSteps BY DecRefText DEF UserSteps
    <2>3. ~Has(DecRef, "writes-") /\ ~First(DecRef, "write?") BY DecRefText DEF First
    <2>4. WritesInv' BY <2>1, <2>2, <2>3, DecRefText, WritesCall
    <2> QED BY <1>7, <2>1, <2>4
<1> QED BY <1>1, <1>3, <1>4, <1>5, <1>6, <1>8, <1>9, <1>10, <1>11 DEF Inner

LEMMA CheckedStep == CheckedInv /\ [CheckedNext]_checkedVars => CheckedInv'
<1> SUFFICES ASSUME CheckedInv, [CheckedNext]_checkedVars PROVE CheckedInv'
    OBVIOUS
<1>1. ASSUME NEW t \in Goroutine,
             \/ Inner(t) \/ FinalizerFinalize(t)
             \/ PoolGet \/ OwnerFinalizes \/ UseRef(t) \/ ReleaseRef(t)
      PROVE  CheckedInv'
    <2>1. ControlInv' BY <1>1, InnerControl, FinalizeControl, CallsControl DEF CheckedInv
    <2>2. FinInv' BY <1>1, FinStep DEF CheckedInv
    <2>3. RefsInv' BY <1>1, RefsStep DEF CheckedInv
    <2>4. WritesInv' /\ PanicsInv' BY <1>1, WritesStep
    <2> QED BY <2>1, <2>2, <2>3, <2>4 DEF CheckedInv
<1>2. CASE UNCHANGED checkedVars
    <2> USE <1>2 DEF checkedVars, CheckedInv
    <2>1. ControlInv' BY DEF ControlInv, CheckedTypeOK, TextsInv, QuietInv, Quiet
    <2>2. FinInv' BY DEF FinInv
    <2>3. RefsInv' BY DEF RefsInv, RefCounted, Referrers, RefUsed
    <2>4. WritesInv' /\ PanicsInv' BY DEF WritesInv, Writers, Sees, PanicsInv
    <2> QED BY <2>1, <2>2, <2>3, <2>4
<1>3. CASE PoolGet \/ OwnerFinalizes BY <1>1, <1>3, OwnerIs
<1>4. CASE \E t \in Goroutine :
            \/ AddStep(t) \/ CheckStep(t) \/ Finalizer(t) \/ getDebuggerRef(t) \/ FinalizerFinalize(t)
            \/ UseRef(t) \/ ReleaseRef(t)
    BY <1>1, <1>4 DEF Inner
<1> QED BY <1>2, <1>3, <1>4 DEF CheckedNext

\* THEOREM. For any number of users that hold a reference while they use an
\* object and give it back before its owner finalizes it, with and without
\* tracebacks, however the loads, adds and stores of their methods interleave:
\* nothing but a write that overlaps another is reported, and of two goroutines
\* that are about to change the value together one has been.
THEOREM ReportsAreExact == CheckedSpec /\ ~PollsNumRef => []ReportsExact
<1>1. CheckedInv => ReportsExact
    <2> SUFFICES ASSUME CheckedInv PROVE ReportsExact
        OBVIOUS
    <2>1. ASSUME NEW t \in Goroutine, NEW u \in Goroutine, t # u, At(t, "value"), At(u, "value"),
                 Writing(t), Writing(u)
          PROVE  "double write" \in panics
        <3>1. t \in Writers /\ u \in Writers BY <2>1, WritersIs
        <3>2. ~Sees(t) /\ ~Sees(u) BY <2>1 DEF Sees, At, First
        <3> QED BY <2>1, <3>1, <3>2 DEF CheckedInv, WritesInv
    <2> QED BY <2>1 DEF CheckedInv, PanicsInv, ReportsExact
<1> QED BY <1>1, CheckedInitInv, CheckedStep, PTL DEF CheckedSpec

\* THEOREM. For the same clients, the finalizer of an object that is out of its
\* pool is the one of the Get that took it, though getDebuggerRef loads and
\* stores it without a lock, and Finalize returns the object once.
THEOREM FinalizersAreKept == CheckedSpec /\ ~PollsNumRef => []FinalizerKept
<1>1. CheckedInv => FinalizerKept
    BY DEF CheckedInv, ControlInv, CheckedTypeOK, FinInv, FinalizerKept
<1> QED BY <1>1, CheckedInitInv, CheckedStep, PTL DEF CheckedSpec

=============================================================================
