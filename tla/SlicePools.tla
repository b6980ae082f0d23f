----------------------------- MODULE SlicePools -----------------------------
(***************************************************************************)
(* Pools of slices:                                                        *)
(*   "bytes"    pool/bucketized.go under pool/bytes.go: a pool for each    *)
(*              capacity, AppendByte that swaps a full slice for a larger; *)
(*   "checked"  pool/checked_bytes.go: the same for reference-counted      *)
(*              bytes, where the caller of AppendByteChecked gives the old *)
(*              slice back;                                                *)
(*   "array"    generics/arraypool/pool.go: one pool, elements cleared     *)
(*              when a slice is put back or grown.                         *)
(* The object pool of a bucket (ObjectPool.tla) is the queue of what it    *)
(* holds.  A byte or element is the client that wrote it; a slice is the   *)
(* cells of its array, as many as its capacity, and its length.            *)
(***************************************************************************)
EXTENDS Integers, Sequences

CONSTANTS
    SliceClient,
    EmptyElem,    \* the zero element
    sizesAsc,     \* the capacities of the buckets, ascending
    BucketSize,   \* slices a bucket has room for
    MaxCapacity,  \* of the array pool: larger slices are not kept
    MaxCap        \* bound on the capacity of slices

ASSUME SlicePoolsAssumption ==
    /\ EmptyElem \notin SliceClient
    /\ BucketSize \in Nat /\ MaxCapacity \in Nat /\ MaxCap \in Nat
    /\ sizesAsc \in Seq(Nat) /\ sizesAsc # <<>>
    /\ \A n \in 1 .. Len(sizesAsc) - 1 : sizesAsc[n] <= sizesAsc[n + 1]

VARIABLES
    poolKind,  \* "bytes", "checked" or "array"
    buckets,   \* buckets[n]: the arrays in the pool of the n-th capacity
    slice      \* slice[c]: the slices c uses, at most one but after AppendByteChecked
slicePoolsVars == <<poolKind, buckets, slice>>

Make(capacity) == [k \in 1 .. capacity |-> EmptyElem]

SlicePoolsInit ==
    /\ poolKind \in {"bytes", "checked", "array"}
    /\ buckets = [n \in DOMAIN sizesAsc |-> [k \in 1 .. BucketSize |-> Make(sizesAsc[n])]]
    /\ slice = [c \in SliceClient |-> <<>>]

\* The first bucket with enough capacity, 0 if there is none.  bytesPool.Get
\* goes to no bucket for less than one byte: it returns nil.
GetBucket(capacity) ==
    IF capacity > sizesAsc[Len(sizesAsc)] \/ (poolKind = "bytes" /\ capacity < 1) THEN 0
    ELSE CHOOSE n \in DOMAIN sizesAsc :
            sizesAsc[n] >= capacity /\ \A m \in 1 .. n - 1 : sizesAsc[m] < capacity

\* The last bucket whose capacity is not above, 0 if there is none or the
\* slice is larger than all of them.
PutBucket(capacity) ==
    LET fit == {n \in DOMAIN sizesAsc : sizesAsc[n] <= capacity}
    IN IF capacity > sizesAsc[Len(sizesAsc)] \/ fit = {} THEN 0
       ELSE CHOOSE n \in fit : \A m \in fit : m <= n

\* A Get from bucket n: its first array, or a new one if it is empty or there
\* is no bucket; and the pools without it.
Got(n, capacity) ==
    IF n # 0 /\ buckets[n] # <<>> THEN Head(buckets[n])
    ELSE Make(IF n = 0 THEN capacity ELSE sizesAsc[n])
Without(n) == IF n # 0 /\ buckets[n] # <<>> THEN [buckets EXCEPT ![n] = Tail(@)] ELSE buckets

\* A Put to bucket n of the pools p; a full pool drops the array.
With(p, n, cells) ==
    IF n = 0 THEN p ELSE IF Len(p[n]) >= BucketSize THEN p ELSE [p EXCEPT ![n] = Append(@, cells)]

GetSlice(c, capacity) ==
    LET n == IF poolKind = "array" THEN 1 ELSE GetBucket(capacity) IN
    /\ slice[c] = <<>>
    /\ slice' = [slice EXCEPT ![c] = <<[cells |-> Got(n, capacity), len |-> 0]>>]
    /\ buckets' = Without(n)
    /\ UNCHANGED poolKind

\* A slice the client made itself.
OwnSlice(c, capacity) ==
    /\ slice[c] = <<>>
    /\ slice' = [slice EXCEPT ![c] = <<[cells |-> Make(capacity), len |-> 0]>>]
    /\ UNCHANGED <<poolKind, buckets>>

\* bytesPool.Put, FinalizeBytes, also of a slice that was swapped for another:
\* cut to length zero and sorted by capacity.
PutBytes(c) ==
    LET last == slice[c][Len(slice[c])] IN
    /\ poolKind # "array" /\ slice[c] # <<>>
    /\ buckets' = With(buckets, PutBucket(Len(last.cells)), last.cells)
    /\ slice' = [slice EXCEPT ![c] = SubSeq(@, 1, Len(@) - 1)]
    /\ UNCHANGED poolKind

\* elemArrPool.Put: the finalizer clears the elements up to the length.
PutElems(c) ==
    LET s == slice[c][1]
        cleared == [k \in DOMAIN s.cells |-> IF k <= s.len THEN EmptyElem ELSE s.cells[k]]
    IN /\ poolKind = "array" /\ slice[c] # <<>>
       /\ buckets' = IF MaxCapacity > 0 /\ Len(s.cells) > MaxCapacity THEN buckets
                     ELSE With(buckets, 1, cleared)
       /\ slice' = [slice EXCEPT ![c] = <<>>]
       /\ UNCHANGED poolKind

\* append: into the array where there is room; else, in an array pool's
\* client, into a new array twice as large.
AppendElem(c) ==
    LET s == slice[c][1]
        cells == IF s.len < Len(s.cells) THEN [s.cells EXCEPT ![s.len + 1] = c]
                 ELSE s.cells \o <<c>> \o Make(s.len - 1)
    IN /\ slice[c] # <<>> /\ (s.len < Len(s.cells) \/ poolKind = "array") /\ Len(cells) <= MaxCap
       /\ slice' = [slice EXCEPT ![c][1] = [cells |-> cells, len |-> s.len + 1]]
       /\ UNCHANGED <<poolKind, buckets>>

\* AppendByte and AppendByteChecked of a full slice: a slice of twice the
\* capacity from the pool, the bytes copied, the new one appended, for which a
\* nil slice grows.  The old slice is put back here, or by the caller of
\* AppendByteChecked.
AppendByte(c) ==
    LET s   == slice[c][1]
        n   == GetBucket(2 * Len(s.cells))
        new == Got(n, 2 * Len(s.cells))
        grown == [cells |-> s.cells \o <<c>> \o SubSeq(new, s.len + 2, Len(new)), len |-> s.len + 1]
    IN /\ poolKind # "array" /\ Len(slice[c]) = 1 /\ s.len = Len(s.cells) /\ 2 * s.len <= MaxCap
       /\ IF poolKind = "checked"
          THEN slice' = [slice EXCEPT ![c] = <<grown, s>>] /\ buckets' = Without(n)
          ELSE /\ slice' = [slice EXCEPT ![c] = <<grown>>]
               /\ buckets' = With(Without(n), PutBucket(Len(s.cells)), s.cells)
       /\ UNCHANGED poolKind

\* The client cuts off its last element.
Truncate(c) ==
    /\ poolKind = "array" /\ slice[c] # <<>> /\ slice[c][1].len > 0
    /\ slice' = [slice EXCEPT ![c][1].len = @ - 1]
    /\ UNCHANGED <<poolKind, buckets>>

\* Faulty variant: nothing is cleared.
grow_NotCleared(c, n) ==
    /\ poolKind = "array" /\ slice[c] # <<>> /\ n <= Len(slice[c][1].cells)
    /\ slice' = [slice EXCEPT ![c][1].len = n]
    /\ UNCHANGED <<poolKind, buckets>>

\* elemArr.grow: n cleared elements, in the array if it is large enough.
grow(c, n) ==
    LET old == slice[c][1].cells
        cells == IF Len(old) < n THEN Make(n)
                 ELSE [k \in DOMAIN old |-> IF k <= n THEN EmptyElem ELSE old[k]]
    IN /\ poolKind = "array" /\ slice[c] # <<>>
       /\ slice' = [slice EXCEPT ![c][1] = [cells |-> cells, len |-> n]]
       /\ UNCHANGED <<poolKind, buckets>>

SlicePoolsNext ==
    \E c \in SliceClient :
        \/ \E n \in 0 .. sizesAsc[Len(sizesAsc)] + 1 : GetSlice(c, n) \/ OwnSlice(c, n)
        \/ PutBytes(c) \/ PutElems(c) \/ Truncate(c) \/ AppendElem(c) \/ AppendByte(c)
        \/ \E n \in 0 .. MaxCap : grow(c, n)

SlicePoolsSpec == SlicePoolsInit /\ [][SlicePoolsNext]_slicePoolsVars

-----------------------------------------------------------------------------
(* Properties.                                                             *)

\* An array in a bucket has at least the capacity of the bucket, so that a Get
\* has what was asked for, and what a client sees in its slice it has written
\* itself (or zero elements of an array it grew), through swaps, growth, cuts
\* and reuse: nothing of the last user of the array shows.
SlicesFitAndOwn ==
    /\ poolKind # "array" =>
        \A n \in DOMAIN buckets : \A k \in DOMAIN buckets[n] : Len(buckets[n][k]) >= sizesAsc[n]
    /\ \A c \in SliceClient : \A j \in DOMAIN slice[c] : \A k \in 1 .. slice[c][j].len :
        slice[c][j].cells[k] \in {c} \cup (IF poolKind = "array" THEN {EmptyElem} ELSE {})

=============================================================================
