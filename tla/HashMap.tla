------------------------------- MODULE HashMap -------------------------------
(***************************************************************************)
(* generics/hashmap/map.go, the template of the maps keyed by bytes and by *)
(* identifiers: a Go map from hashes to entries, with linear probing.      *)
(*                                                                         *)
(* Hashes are unsigned integers of HashSize values, 2^64 in the code, that *)
(* wrap around.  The hash function is one of HashFns, picked at the start. *)
(* A probe that meets no free slot never ends, so an operation is enabled  *)
(* when its probe stops.  mapKey is modelled by the key and its finalize   *)
(* flag: whether it was copied only matters to the owner of its memory.    *)
(***************************************************************************)
EXTENDS Integers, FiniteSets

CONSTANTS
    Key, Val, NoVal,
    HashSize,     \* number of hashes
    HashFns,      \* hash functions to consider
    NoEntry,      \* what lookup finds in a free slot
    HasFinalize,  \* the option finalize is set
    Unsafe,       \* callers use SetUnsafe
    CollidingDeletes \* callers use Delete although hashes of keys collide

Hash == 0 .. HashSize - 1
Entry == [key : Key, finalize : BOOLEAN, value : Val]

ASSUME HashMapAssumption ==
    /\ HashSize \in Nat \ {0}
    /\ HashFns \subseteq [Key -> Hash]
    /\ NoEntry \notin Entry
    /\ NoVal \notin Val
    /\ HasFinalize \in BOOLEAN /\ Unsafe \in BOOLEAN /\ CollidingDeletes \in BOOLEAN

VARIABLES
    hash,       \* @struct mapOptions
    lookup,     \* @struct Map
    keys,       \* keys[k]: key objects equal to k the map has still to finalize
    mapPanicked \* a nil finalize function has been called

hashMapVars == <<hash, lookup, keys, mapPanicked>>

HashMapTypeOK ==
    /\ hash \in HashFns
    /\ lookup \in [Hash -> Entry \cup {NoEntry}]
    /\ keys \in [Key -> Int]
    /\ mapPanicked \in BOOLEAN

\* mapAlloc.
HashMapInit ==
    /\ hash \in HashFns
    /\ lookup = [h \in Hash |-> NoEntry]
    /\ keys = [k \in Key |-> 0]
    /\ mapPanicked = FALSE

-----------------------------------------------------------------------------
(* Probing.                                                                *)

\* hash++ done d times.
Slot(h, d) == IF h + d < HashSize THEN h + d ELSE h + d - HashSize

Occupied(h) == lookup[h] # NoEntry

\* No two keys have the same hash.
Injective == \A k, l \in Key : hash[k] = hash[l] => k = l

Holds(h, k) == Occupied(h) /\ lookup[h].key = k

\* The loop shared by Get, set and Delete leaves after d increments, at a
\* free slot or at the entry of k.
Stops(k, d) ==
    /\ \A e \in 0 .. d - 1 : Occupied(Slot(hash[k], e)) /\ ~Holds(Slot(hash[k], e), k)
    /\ ~Occupied(Slot(hash[k], d)) \/ Holds(Slot(hash[k], d), k)

\* Get: the value of k, NoVal when it is not found.
MapGet(k) ==
    IF \E d \in Hash : Stops(k, d) /\ Holds(Slot(hash[k], d), k)
    THEN lookup[Slot(hash[k], CHOOSE d \in Hash : Stops(k, d))].value
    ELSE NoVal

-----------------------------------------------------------------------------
\* Faulty variant: keys are not compared, the hash alone decides.
set_NoEquals(k, v, f) ==
    IF Occupied(hash[k])
    THEN lookup' = [lookup EXCEPT ![hash[k]].value = v] /\ UNCHANGED keys
    ELSE /\ lookup' = [lookup EXCEPT ![hash[k]] = [key |-> k, finalize |-> f, value |-> v]]
         /\ keys' = [keys EXCEPT ![k] = IF f THEN @ + 1 ELSE @]

\* set: the entry of k keeps its key, a free slot gets a new one.
set(k, v, f) ==
    \E d \in Hash : LET h == Slot(hash[k], d) IN
        /\ Stops(k, d)
        /\ IF Occupied(h)
           THEN lookup' = [lookup EXCEPT ![h].value = v] /\ UNCHANGED keys
           ELSE /\ lookup' = [lookup EXCEPT ![h] = [key |-> k, finalize |-> f, value |-> v]]
                /\ keys' = [keys EXCEPT ![k] = IF f THEN @ + 1 ELSE @]

Set(k, v) == set(k, v, HasFinalize) /\ UNCHANGED <<hash, mapPanicked>>

\* SetUnsafe does not look whether there is a finalize function.
SetUnsafe(k, v, noFinalizeKey) ==
    /\ Unsafe
    /\ set(k, v, ~noFinalizeKey)
    /\ UNCHANGED <<hash, mapPanicked>>

\* removeMapKey on the slots of S: delete, and finalize the keys that ask
\* for it.  A call of a nil function panics.
removeMapKeys(S) ==
    /\ lookup' = [h \in Hash |-> IF h \in S THEN NoEntry ELSE lookup[h]]
    /\ keys' = [k \in Key |-> keys[k] - Cardinality({h \in S : Holds(h, k) /\ lookup[h].finalize})]
    /\ mapPanicked' = \E h \in S : Occupied(h) /\ lookup[h].finalize /\ ~HasFinalize

\* Faulty variant: the key is not finalized.
Delete_NotFinalized(k) ==
    /\ CollidingDeletes \/ Injective
    /\ \E d \in Hash :
        /\ Stops(k, d)
        /\ lookup' = [lookup EXCEPT ![Slot(hash[k], d)] = NoEntry]
    /\ UNCHANGED <<hash, keys, mapPanicked>>

\* Delete frees the slot and leaves the entries behind it where they are.
Delete(k) ==
    /\ CollidingDeletes \/ Injective
    /\ \E d \in Hash :
        /\ Stops(k, d)
        /\ removeMapKeys({h \in {Slot(hash[k], d)} : Occupied(h)})
    /\ UNCHANGED hash

\* Reset deletes every entry.
Reset == removeMapKeys({h \in Hash : Occupied(h)}) /\ UNCHANGED hash

\* Reallocate forgets every entry; no key is finalized.
Reallocate ==
    /\ lookup' = [h \in Hash |-> NoEntry]
    /\ keys' = [k \in Key |-> 0]
    /\ UNCHANGED <<hash, mapPanicked>>

-----------------------------------------------------------------------------
\* A panic ends the program.
HashMapNext ==
    /\ ~mapPanicked
    /\ \/ \E k \in Key, v \in Val : Set(k, v)
       \/ \E k \in Key, v \in Val, b \in BOOLEAN : SetUnsafe(k, v, b)
       \/ \E k \in Key : Delete(k)
       \/ Reset \/ Reallocate

HashMapSpec == HashMapInit /\ [][HashMapNext]_hashMapVars

-----------------------------------------------------------------------------
(* Properties.                                                             *)

\* Every entry is where a probe for its key stops: the slots from the key's
\* hash up to it are all taken, by other keys.  So the probes of Get, set and
\* Delete find it, and no key has two entries.
ProbesReachEntries ==
    \A h \in Hash : Occupied(h) =>
        \E d \in Hash : h = Slot(hash[lookup[h].key], d) /\ Stops(lookup[h].key, d)

\* The keys to be finalized are those of the entries set with finalize: set on
\* a key that is there takes no second copy, Delete and Reset finalize each
\* key once, so that a pooled key is returned once.
KeysFinalizedOnce ==
    \A k \in Key : keys[k] = Cardinality({h \in Hash : Holds(h, k) /\ lookup[h].finalize})

\* The map is a dictionary: Get returns the value last set for a key that has
\* not been deleted since, and no operation changes the value of another key.
\* Each operation is the dictionary's operation on the same key.
D == INSTANCE Dictionary WITH dict <- [k \in Key |-> MapGet(k)]

OperationsMatch ==
    /\ \A k \in Key, v \in Val, b \in BOOLEAN : Set(k, v) \/ SetUnsafe(k, v, b) => D!Set(k, v)
    /\ \A k \in Key : Delete(k) => D!Delete(k)
    /\ Reset \/ Reallocate => D!Clear

ImplementsDictionary == D!Spec /\ [][OperationsMatch]_hashMapVars

=============================================================================
