----------------------------- MODULE DataProofs -----------------------------
(***************************************************************************)
(* Theorems about the data structures: HashMap for any keys, values,       *)
(* number of hashes and hash functions, collisions and wrap-around         *)
(* included, TimeRanges for any latest time, and Durations for any width   *)
(* and any units.                                                          *)
(*                                                                         *)
(* Delete leaves a hole in a run of probes, so what depends on probes is   *)
(* proved for clients that use Delete only when no two keys have the same  *)
(* hash (~CollidingDeletes).                                               *)
(***************************************************************************)
EXTENDS HashMap, TimeRanges, Durations, FiniteSetTheorems, SequenceTheorems, NaturalsInduction,
        WellFoundedInduction, TLAPS

-----------------------------------------------------------------------------
(* HashMap.                                                                *)

\* Without collisions every entry is at the hash of its key.
AtHome == Injective => \A h \in Hash : Occupied(h) => hash[lookup[h].key] = h

MapInv == HashMapTypeOK /\ ProbesReachEntries /\ AtHome

-----------------------------------------------------------------------------
(* Probes.                                                                 *)

LEMMA SlotInHash == ASSUME NEW h \in Hash, NEW d \in Hash PROVE Slot(h, d) \in Hash
BY HashMapAssumption DEF Hash, Slot

LEMMA HashOfKey == ASSUME HashMapTypeOK, NEW k \in Key PROVE hash[k] \in Hash
BY HashMapAssumption DEF HashMapTypeOK

\* A probe stops at one place only.
LEMMA StopsOnce ==
    ASSUME NEW k, NEW d \in Hash, NEW e \in Hash, Stops(k, d), Stops(k, e)
    PROVE  d = e
<1>1. d \in Int /\ e \in Int BY HashMapAssumption DEF Hash
<1>2. ~(d < e) BY <1>1, HashMapAssumption DEF Stops, Hash
<1>3. ~(e < d) BY <1>1, HashMapAssumption DEF Stops, Hash
<1> QED BY <1>1, <1>2, <1>3

\* Get returns the value of the entry of k, wherever that entry is.
LEMMA GetHolds ==
    MapInv => \A k \in Key, h \in Hash : Holds(h, k) => MapGet(k) = lookup[h].value
<1> SUFFICES ASSUME MapInv, NEW k \in Key, NEW h \in Hash, Holds(h, k)
             PROVE  MapGet(k) = lookup[h].value
    OBVIOUS
<1>1. PICK d \in Hash : h = Slot(hash[k], d) /\ Stops(k, d)
    BY DEF MapInv, ProbesReachEntries, Holds
<1>2. (CHOOSE e \in Hash : Stops(k, e)) = d BY <1>1, StopsOnce
<1> QED BY <1>1, <1>2 DEF MapGet

LEMMA GetMissing ==
    MapInv => \A k \in Key : (\A h \in Hash : ~Holds(h, k)) => MapGet(k) = NoVal
BY SlotInHash, HashOfKey DEF MapGet, MapInv

\* No key has two entries.
LEMMA OneEntry ==
    ASSUME MapInv, NEW k \in Key, NEW g \in Hash, NEW h \in Hash, Holds(g, k), Holds(h, k)
    PROVE  g = h
<1>1. PICK d \in Hash : g = Slot(hash[k], d) /\ Stops(k, d)
    BY DEF MapInv, ProbesReachEntries, Holds
<1>2. PICK e \in Hash : h = Slot(hash[k], e) /\ Stops(k, e)
    BY DEF MapInv, ProbesReachEntries, Holds
<1> QED BY <1>1, <1>2, StopsOnce

\* Without collisions the probe of a key stops at once.
LEMMA StopsAtHome ==
    ASSUME Injective, MapInv, NEW k \in Key, NEW d \in Hash, Stops(k, d)
    PROVE  Slot(hash[k], d) = hash[k]
<1>1. hash[k] \in Hash /\ 0 \in Hash /\ Slot(hash[k], 0) = hash[k]
    BY HashOfKey, HashMapAssumption DEF MapInv, Hash, Slot
<1>2. ASSUME Occupied(hash[k]) PROVE Holds(hash[k], k)
    <2>1. lookup[hash[k]].key \in Key
        BY <1>1, <1>2 DEF MapInv, HashMapTypeOK, Occupied, Entry
    <2>2. hash[lookup[hash[k]].key] = hash[k] BY <1>1, <1>2 DEF MapInv, AtHome
    <2> QED BY <1>2, <2>1, <2>2 DEF Injective, MapInv, HashMapTypeOK, Holds
<1>3. Stops(k, 0) BY <1>1, <1>2 DEF Stops
<1> QED BY <1>1, <1>3, StopsOnce

-----------------------------------------------------------------------------
(* Operations.                                                             *)

\* set writes one entry of k, where its probe stops.
LEMMA setWrites ==
    ASSUME HashMapTypeOK, NEW k \in Key, NEW v \in Val, NEW f \in BOOLEAN, set(k, v, f)
    PROVE  \E d \in Hash, e \in Entry :
            /\ Stops(k, d) /\ Slot(hash[k], d) \in Hash
            /\ lookup' = [lookup EXCEPT ![Slot(hash[k], d)] = e]
            /\ e.key = k /\ e.value = v
            /\ IF Occupied(Slot(hash[k], d))
               THEN e.finalize = lookup[Slot(hash[k], d)].finalize /\ keys' = keys
               ELSE e.finalize = f /\ keys' = [keys EXCEPT ![k] = IF f THEN @ + 1 ELSE @]
<1>1. PICK d \in Hash :
        /\ Stops(k, d)
        /\ IF Occupied(Slot(hash[k], d))
           THEN lookup' = [lookup EXCEPT ![Slot(hash[k], d)].value = v] /\ keys' = keys
           ELSE /\ lookup' = [lookup EXCEPT ![Slot(hash[k], d)] =
                                [key |-> k, finalize |-> f, value |-> v]]
                /\ keys' = [keys EXCEPT ![k] = IF f THEN @ + 1 ELSE @]
    BY DEF set
<1> DEFINE h == Slot(hash[k], d)
<1>2. h \in Hash BY HashOfKey, SlotInHash
<1>3. CASE Occupied(h)
    <2>1. lookup[h] \in Entry /\ lookup[h].key = k
        BY <1>1, <1>2, <1>3 DEF HashMapTypeOK, Occupied, Stops, Holds
    <2> DEFINE e == [lookup[h] EXCEPT !.value = v]
    <2>2. /\ e \in Entry /\ e.key = k /\ e.value = v
          /\ e.finalize = lookup[h].finalize
        BY <2>1 DEF Entry
    <2>3. lookup' = [lookup EXCEPT ![h] = e] /\ keys' = keys BY <1>1, <1>3
    <2> QED BY <1>1, <1>2, <1>3, <2>2, <2>3
<1>4. CASE ~Occupied(h)
    <2> DEFINE e == [key |-> k, finalize |-> f, value |-> v]
    <2>1. e \in Entry /\ e.key = k /\ e.value = v /\ e.finalize = f BY DEF Entry
    <2> QED BY <1>1, <1>2, <1>4, <2>1
<1> QED BY <1>3, <1>4

\* removeMapKey on every slot, and Reallocate, leave an empty map.
LEMMA EmptyMap ==
    ASSUME HashMapTypeOK, Reset \/ Reallocate
    PROVE  lookup' = [h \in Hash |-> NoEntry] /\ hash' = hash
BY DEF HashMapTypeOK, Reset, Reallocate, removeMapKeys, Occupied

LEMMA FiniteSlots == ASSUME NEW S \in SUBSET Hash PROVE IsFiniteSet(S) /\ Cardinality(S) \in Nat
<1>1. 0 \in Int /\ HashSize - 1 \in Int BY HashMapAssumption
<1>2. IsFiniteSet(Hash) BY <1>1, FS_Interval, Zenon DEF Hash
<1>3. IsFiniteSet(S) BY <1>2, FS_Subset, Zenon
<1> QED BY <1>3, FS_CardinalityType, Zenon

\* Set and SetUnsafe are one set.
LEMMA SetsAreSet ==
    ASSUME NEW k \in Key, NEW v \in Val,
           Set(k, v) \/ \E b \in BOOLEAN : SetUnsafe(k, v, b)
    PROVE  (\E f \in BOOLEAN : set(k, v, f)) /\ hash' = hash /\ mapPanicked' = mapPanicked
BY HashMapAssumption DEF Set, SetUnsafe

LEMMA TypeStep == ASSUME HashMapTypeOK, [HashMapNext]_hashMapVars PROVE HashMapTypeOK'
<1> USE HashMapAssumption
<1>1. ASSUME NEW S \in SUBSET Hash, removeMapKeys(S), hash' = hash PROVE HashMapTypeOK'
    <2>1. \A k \in Key : Cardinality({h \in S : Holds(h, k) /\ lookup[h].finalize}) \in Nat
        BY FiniteSlots
    <2>2. keys' \in [Key -> Int] BY <1>1, <2>1 DEF removeMapKeys, HashMapTypeOK
    <2>3. lookup' \in [Hash -> Entry \cup {NoEntry}] BY <1>1 DEF removeMapKeys, HashMapTypeOK
    <2>4. mapPanicked' \in BOOLEAN BY <1>1, Zenon DEF removeMapKeys
    <2> QED BY <1>1, <2>2, <2>3, <2>4 DEF HashMapTypeOK
<1>2. ASSUME NEW k \in Key, NEW v \in Val,
             Set(k, v) \/ \E b \in BOOLEAN : SetUnsafe(k, v, b)
      PROVE  HashMapTypeOK'
    <2>1. PICK f \in BOOLEAN : set(k, v, f) BY <1>2, SetsAreSet
    <2>2. lookup' \in [Hash -> Entry \cup {NoEntry}] /\ keys' \in [Key -> Int]
        BY <2>1, setWrites DEF HashMapTypeOK
    <2> QED BY <1>2, <2>2, SetsAreSet DEF HashMapTypeOK
<1>3. ASSUME NEW k \in Key, Delete(k) PROVE HashMapTypeOK'
    BY <1>1, <1>3, HashOfKey, SlotInHash DEF Delete
<1>4. CASE Reset BY <1>1, <1>4 DEF Reset
<1>5. CASE Reallocate BY <1>5 DEF Reallocate, HashMapTypeOK
<1>6. CASE UNCHANGED hashMapVars BY <1>6 DEF hashMapVars, HashMapTypeOK
<1> QED BY <1>2, <1>3, <1>4, <1>5, <1>6 DEF HashMapNext

\* set fills no slot that the probe of another entry stops at and overwrites
\* none that it passes.
LEMMA setKeepsProbes ==
    ASSUME ~CollidingDeletes, MapInv, NEW k \in Key, NEW v \in Val, NEW f \in BOOLEAN,
           set(k, v, f), hash' = hash
    PROVE  ProbesReachEntries' /\ AtHome'
<1>1. PICK d \in Hash, e \in Entry :
        /\ Stops(k, d) /\ Slot(hash[k], d) \in Hash
        /\ lookup' = [lookup EXCEPT ![Slot(hash[k], d)] = e]
        /\ e.key = k
    BY setWrites DEF MapInv
<1> DEFINE h == Slot(hash[k], d)
<1>2. /\ \A g \in Hash : Occupied(g)' <=> g = h \/ Occupied(g)
      /\ \A g \in Hash \ {h} : lookup'[g] = lookup[g]
      /\ lookup'[h].key = k
    BY <1>1, HashMapAssumption DEF MapInv, HashMapTypeOK, Occupied
<1>3. Occupied(h) => lookup[h].key = k BY <1>1 DEF Stops, Holds
<1>4. \A g \in Hash, j \in Key :
        /\ Occupied(g) /\ ~Holds(g, j)
            => lookup'[g] # NoEntry /\ ~(lookup'[g] # NoEntry /\ lookup'[g].key = j)
        /\ lookup'[g] # NoEntry <=> g = h \/ Occupied(g)
    BY <1>2, <1>3 DEF Holds, Occupied
<1>5. ASSUME NEW j \in Key, NEW c \in Hash, Stops(j, c), NEW g \in Hash,
             g = Slot(hash[j], c), lookup'[g] # NoEntry, lookup'[g].key = j
      PROVE  Stops(j, c)'
    <2>1. \A i \in 0 .. c - 1 : i \in Hash
        BY HashMapAssumption DEF Hash
    <2>2. \A i \in 0 .. c - 1 : Slot(hash[j], i) \in Hash
        BY <2>1, HashOfKey, SlotInHash DEF MapInv
    <2>3. \A i \in 0 .. c - 1 : Occupied(Slot(hash[j], i)) /\ ~Holds(Slot(hash[j], i), j)
        BY <1>5 DEF Stops
    <2>4. \A i \in 0 .. c - 1 :
            /\ lookup'[Slot(hash[j], i)] # NoEntry
            /\ ~(lookup'[Slot(hash[j], i)] # NoEntry /\ lookup'[Slot(hash[j], i)].key = j)
        BY <1>4, <2>2, <2>3
    <2> QED BY <1>5, <2>4 DEF Stops, Holds, Occupied
<1>6. ProbesReachEntries'
    <2> SUFFICES ASSUME NEW g \in Hash, lookup'[g] # NoEntry
                 PROVE  \E c \in Hash : /\ g = Slot(hash'[lookup'[g].key], c)
                                         /\ Stops(lookup[g].key, c)'
        BY DEF ProbesReachEntries, Occupied
    <2>1. CASE g = h
        BY <1>1, <1>2, <1>5, <2>1
    <2>2. CASE g # h
        <3>1. Occupied(g) /\ lookup'[g] = lookup[g] BY <1>2, <2>2 DEF Occupied
        <3> DEFINE j == lookup[g].key
        <3>2. j \in Key BY <3>1 DEF MapInv, HashMapTypeOK, Occupied, Entry
        <3>3. PICK c \in Hash : g = Slot(hash[j], c) /\ Stops(j, c)
            BY <3>1 DEF MapInv, ProbesReachEntries
        <3> HIDE DEF j
        <3>4. Stops(j, c)' BY <1>5, <3>1, <3>2, <3>3 DEF j
        <3> QED BY <3>1, <3>3, <3>4 DEF j
    <2> QED BY <2>1, <2>2
<1>7. AtHome'
    <2> SUFFICES ASSUME Injective, NEW g \in Hash, Occupied(g)'
                 PROVE  hash[lookup'[g].key] = g
        BY DEF AtHome, Injective
    <2>1. CASE g = h BY <1>1, <1>2, <2>1, StopsAtHome
    <2>2. CASE g # h BY <1>2, <2>2 DEF MapInv, AtHome
    <2> QED BY <2>1, <2>2
<1> QED BY <1>6, <1>7

\* Delete frees one slot; without collisions no other probe goes through it.
LEMMA DeleteFrees ==
    ASSUME ~CollidingDeletes, MapInv, NEW k \in Key, Delete(k)
    PROVE  /\ Injective /\ hash' = hash /\ hash[k] \in Hash
           /\ \A g \in Hash : lookup'[g] = IF g = hash[k] THEN NoEntry ELSE lookup[g]
<1>1. hash[k] \in Hash BY HashOfKey DEF MapInv
<1>2. PICK d \in Hash :
        Stops(k, d) /\ removeMapKeys({h \in {Slot(hash[k], d)} : Occupied(h)})
    BY DEF Delete
<1>3. Slot(hash[k], d) = hash[k] BY <1>2, StopsAtHome DEF Delete
<1> QED BY <1>1, <1>2, <1>3 DEF Delete, removeMapKeys, Occupied

LEMMA ProbesStep ==
    ASSUME ~CollidingDeletes, MapInv, [HashMapNext]_hashMapVars PROVE ProbesReachEntries' /\ AtHome'
<1>1. ASSUME NEW k \in Key, NEW v \in Val,
             Set(k, v) \/ \E b \in BOOLEAN : SetUnsafe(k, v, b)
      PROVE  ProbesReachEntries' /\ AtHome'
    BY <1>1, SetsAreSet, setKeepsProbes
<1>2. ASSUME NEW k \in Key, Delete(k) PROVE ProbesReachEntries' /\ AtHome'
    <2>1. AtHome' BY <1>2, DeleteFrees DEF MapInv, AtHome, Occupied, Injective
    <2>2. ASSUME NEW g \in Hash, lookup'[g] # NoEntry
          PROVE  \E c \in Hash : /\ g = Slot(hash'[lookup'[g].key], c)
                                  /\ Stops(lookup[g].key, c)'
        <3>1. hash'[lookup'[g].key] = g BY <1>2, <2>1, <2>2, DeleteFrees DEF AtHome, Occupied, Injective
        <3>2. 0 \in Hash /\ Slot(g, 0) = g BY HashMapAssumption DEF Hash, Slot
        <3>3. Stops(lookup[g].key, 0)' BY <2>2, <3>1, <3>2 DEF Stops, Holds, Occupied
        <3> QED BY <3>1, <3>2, <3>3
    <2>3. ProbesReachEntries' BY <2>2 DEF ProbesReachEntries, Occupied
    <2> QED BY <2>1, <2>3
<1>3. CASE Reset \/ Reallocate
    BY <1>3, EmptyMap DEF MapInv, ProbesReachEntries, AtHome, Occupied, Injective
<1>4. CASE UNCHANGED hashMapVars
    BY <1>4 DEF hashMapVars, MapInv, ProbesReachEntries, AtHome, Injective, Stops, Holds, Occupied
<1> QED BY <1>1, <1>2, <1>3, <1>4 DEF HashMapNext

LEMMA MapInit == HashMapInit => MapInv /\ KeysFinalizedOnce
<1> SUFFICES ASSUME HashMapInit PROVE MapInv /\ KeysFinalizedOnce
    OBVIOUS
<1>1. \A h \in Hash : ~Occupied(h) BY DEF HashMapInit, Occupied
<1>2. HashMapTypeOK
    <2>1. keys \in [Key -> Int] BY DEF HashMapInit
    <2>2. /\ hash \in HashFns /\ mapPanicked \in BOOLEAN
          /\ lookup \in [Hash -> Entry \cup {NoEntry}]
        BY Zenon DEF HashMapInit
    <2> QED BY <2>1, <2>2 DEF HashMapTypeOK
<1>3. ProbesReachEntries /\ AtHome BY <1>1 DEF ProbesReachEntries, AtHome
<1>4. \A k \in Key : {h \in Hash : Holds(h, k) /\ lookup[h].finalize} = {}
    BY <1>1 DEF Holds
<1>5. KeysFinalizedOnce BY <1>4, FS_EmptySet DEF HashMapInit, KeysFinalizedOnce
<1> QED BY <1>2, <1>3, <1>5 DEF MapInv

\* The lookup table, the key counts and the hash function keep their types.
THEOREM TypeCorrect == HashMapSpec => []HashMapTypeOK
<1>1. HashMapInit => HashMapTypeOK BY MapInit DEF MapInv
<1>2. HashMapTypeOK /\ [HashMapNext]_hashMapVars => HashMapTypeOK' BY TypeStep
<1> QED BY <1>1, <1>2, PTL DEF HashMapSpec

LEMMA MapInvariant == ~CollidingDeletes /\ HashMapSpec => []MapInv
<1> SUFFICES ASSUME ~CollidingDeletes PROVE HashMapSpec => []MapInv
    OBVIOUS
<1>1. MapInv /\ [HashMapNext]_hashMapVars => MapInv' BY TypeStep, ProbesStep DEF MapInv
<1> QED BY <1>1, MapInit, PTL DEF HashMapSpec

\* Every entry is found by the probe of its key, whatever the hash function,
\* when Delete is used only if hashes do not collide.
THEOREM EntriesAreReachable == ~CollidingDeletes /\ HashMapSpec => []ProbesReachEntries
<1> SUFFICES ASSUME ~CollidingDeletes PROVE HashMapSpec => []ProbesReachEntries
    OBVIOUS
<1>1. MapInv => ProbesReachEntries BY DEF MapInv
<1>2. HashMapSpec => []MapInv BY MapInvariant
<1> QED BY <1>1, <1>2, PTL

-----------------------------------------------------------------------------
(* Finalization of keys.                                                   *)

ToFinalize(k) == {h \in Hash : Holds(h, k) /\ lookup[h].finalize}

\* removeMapKey takes what it finalizes out of what is to be finalized.
LEMMA RemoveFinalizes ==
    ASSUME HashMapTypeOK, KeysFinalizedOnce, NEW S \in SUBSET Hash, removeMapKeys(S)
    PROVE  KeysFinalizedOnce'
<1> SUFFICES ASSUME NEW k \in Key PROVE keys'[k] = Cardinality(ToFinalize(k)')
    BY DEF KeysFinalizedOnce, ToFinalize
<1> DEFINE T == {h \in S : Holds(h, k) /\ lookup[h].finalize}
<1>1. ToFinalize(k)' = ToFinalize(k) \ T
    BY DEF removeMapKeys, ToFinalize, Holds, Occupied
<1>2. T = ToFinalize(k) \cap T BY DEF ToFinalize
<1>3. ToFinalize(k) \in SUBSET Hash BY DEF ToFinalize
<1>4. IsFiniteSet(ToFinalize(k)) BY <1>3, FiniteSlots
<1>5. Cardinality(ToFinalize(k) \ T) = Cardinality(ToFinalize(k)) - Cardinality(ToFinalize(k) \cap T)
    BY <1>4, FS_Difference, Zenon
<1>6. keys'[k] = keys[k] - Cardinality(T) BY DEF removeMapKeys
<1>7. keys[k] = Cardinality(ToFinalize(k)) BY DEF KeysFinalizedOnce, ToFinalize
<1> QED BY <1>1, <1>2, <1>5, <1>6, <1>7

\* A new key is counted once, a key that is there is not counted again.
LEMMA setCounts ==
    ASSUME HashMapTypeOK, KeysFinalizedOnce, NEW k \in Key, NEW v \in Val, NEW f \in BOOLEAN,
           set(k, v, f)
    PROVE  KeysFinalizedOnce'
<1>1. PICK d \in Hash, e \in Entry :
        /\ Stops(k, d) /\ Slot(hash[k], d) \in Hash
        /\ lookup' = [lookup EXCEPT ![Slot(hash[k], d)] = e]
        /\ e.key = k
        /\ IF Occupied(Slot(hash[k], d))
           THEN e.finalize = lookup[Slot(hash[k], d)].finalize /\ keys' = keys
           ELSE e.finalize = f /\ keys' = [keys EXCEPT ![k] = IF f THEN @ + 1 ELSE @]
    BY setWrites
<1> DEFINE h == Slot(hash[k], d)
<1>2. e # NoEntry BY HashMapAssumption
<1>3. Occupied(h) => lookup[h].key = k BY <1>1 DEF Stops, Holds
<1> SUFFICES ASSUME NEW j \in Key PROVE keys'[j] = Cardinality(ToFinalize(j)')
    BY DEF KeysFinalizedOnce, ToFinalize
<1>4. keys[j] = Cardinality(ToFinalize(j)) BY DEF KeysFinalizedOnce, ToFinalize
<1>5. CASE Occupied(h) \/ j # k \/ ~f
    <2>1. ToFinalize(j)' = ToFinalize(j)
        BY <1>1, <1>2, <1>3, <1>5 DEF HashMapTypeOK, ToFinalize, Holds, Occupied
    <2>2. keys'[j] = keys[j] BY <1>1, <1>5 DEF HashMapTypeOK
    <2> QED BY <1>4, <2>1, <2>2
<1>6. CASE ~Occupied(h) /\ j = k /\ f
    <2>1. ToFinalize(j)' = ToFinalize(j) \cup {h}
        BY <1>1, <1>2, <1>6 DEF HashMapTypeOK, ToFinalize, Holds, Occupied
    <2>2. h \notin ToFinalize(j) BY <1>6 DEF ToFinalize, Holds
    <2>3. ToFinalize(j) \in SUBSET Hash BY DEF ToFinalize
    <2>4. IsFiniteSet(ToFinalize(j)) BY <2>3, FiniteSlots
    <2>5. Cardinality(ToFinalize(j) \cup {h}) = Cardinality(ToFinalize(j)) + 1
        BY <2>2, <2>4, FS_AddElement
    <2>6. keys'[j] = keys[j] + 1 BY <1>1, <1>6 DEF HashMapTypeOK
    <2> QED BY <1>4, <2>1, <2>5, <2>6
<1> QED BY <1>5, <1>6

\* The keys that set took over are finalized exactly once, by Delete or by
\* Reset, for every hash function and with every mix of operations.
THEOREM KeysAreFinalizedOnce == HashMapSpec => []KeysFinalizedOnce
<1> DEFINE Inv == HashMapTypeOK /\ KeysFinalizedOnce
<1>1. HashMapInit => Inv BY MapInit DEF MapInv
<1>2. Inv /\ [HashMapNext]_hashMapVars => Inv'
    <2> SUFFICES ASSUME Inv, [HashMapNext]_hashMapVars PROVE KeysFinalizedOnce'
        BY TypeStep
    <2>1. ASSUME NEW k \in Key, NEW v \in Val,
                 Set(k, v) \/ \E b \in BOOLEAN : SetUnsafe(k, v, b)
          PROVE  KeysFinalizedOnce'
        BY <2>1, SetsAreSet, setCounts
    <2>2. ASSUME NEW k \in Key, Delete(k) PROVE KeysFinalizedOnce'
        BY <2>2, RemoveFinalizes, HashOfKey, SlotInHash DEF Delete
    <2>3. CASE Reset BY <2>3, RemoveFinalizes DEF Reset
    <2>4. CASE Reallocate
        <3>1. \A k \in Key : (ToFinalize(k))' = {}
            BY <2>4 DEF Reallocate, ToFinalize, Holds, Occupied
        <3>2. \A k \in Key : keys'[k] = 0 BY <2>4 DEF Reallocate
        <3> QED BY <3>1, <3>2, FS_EmptySet DEF KeysFinalizedOnce, ToFinalize
    <2>5. CASE UNCHANGED hashMapVars
        BY <2>5 DEF hashMapVars, KeysFinalizedOnce, Holds, Occupied
    <2> QED BY <2>1, <2>2, <2>3, <2>4, <2>5 DEF HashMapNext
<1>3. Inv => KeysFinalizedOnce OBVIOUS
<1> QED BY <1>1, <1>2, <1>3, PTL DEF HashMapSpec

-----------------------------------------------------------------------------
(* The map implements the dictionary.                                      *)

\* What Get returns after an operation, in terms of the entries after it.
LEMMA GetAfter ==
    ASSUME ~CollidingDeletes, MapInv, [HashMapNext]_hashMapVars
    PROVE  /\ \A k \in Key, h \in Hash :
                lookup'[h] # NoEntry /\ lookup'[h].key = k => MapGet(k)' = lookup'[h].value
           /\ \A k \in Key : (\A h \in Hash : ~(lookup'[h] # NoEntry /\ lookup'[h].key = k))
                => MapGet(k)' = NoVal
<1>1. MapInv' BY TypeStep, ProbesStep DEF MapInv
<1>2. MapInv' => (\A k \in Key, h \in Hash : Holds(h, k) => MapGet(k) = lookup[h].value)'
    BY GetHolds, PTL
<1>3. MapInv' => (\A k \in Key : (\A h \in Hash : ~Holds(h, k)) => MapGet(k) = NoVal)'
    BY GetMissing, PTL
<1> QED BY <1>1, <1>2, <1>3 DEF Holds, Occupied

LEMMA SetIsDictionarySet ==
    ASSUME ~CollidingDeletes, MapInv, HashMapNext, NEW k \in Key, NEW v \in Val,
           Set(k, v) \/ \E b \in BOOLEAN : SetUnsafe(k, v, b)
    PROVE  D!Set(k, v)
<1>1. PICK f \in BOOLEAN : set(k, v, f) BY SetsAreSet
<1>2. PICK d \in Hash, e \in Entry :
        /\ Stops(k, d) /\ Slot(hash[k], d) \in Hash
        /\ lookup' = [lookup EXCEPT ![Slot(hash[k], d)] = e]
        /\ e.key = k /\ e.value = v
    BY <1>1, setWrites DEF MapInv
<1> DEFINE h == Slot(hash[k], d)
<1>3. /\ lookup'[h] = e /\ e # NoEntry
      /\ \A g \in Hash \ {h} : lookup'[g] = lookup[g]
    BY <1>2, HashMapAssumption DEF MapInv, HashMapTypeOK
<1>4. MapGet(k)' = v BY <1>2, <1>3, GetAfter
<1>5. ASSUME NEW j \in Key, j # k PROVE MapGet(j)' = MapGet(j)
    <2>1. ~Holds(h, j) BY <1>2, <1>5 DEF Stops, Holds
    <2>2. CASE \E g \in Hash : Holds(g, j)
        <3>1. PICK g \in Hash : Holds(g, j) BY <2>2
        <3>2. g # h BY <2>1, <3>1
        <3>3. lookup'[g] = lookup[g] /\ lookup'[g] # NoEntry /\ lookup'[g].key = j
            BY <1>3, <3>1, <3>2 DEF Holds, Occupied
        <3> QED BY <3>1, <3>3, GetHolds, GetAfter
    <2>3. CASE \A g \in Hash : ~Holds(g, j)
        <3>1. \A g \in Hash : ~(lookup'[g] # NoEntry /\ lookup'[g].key = j)
            BY <1>2, <1>3, <1>5, <2>3 DEF Holds, Occupied
        <3> QED BY <2>3, <3>1, GetMissing, GetAfter
    <2> QED BY <2>2, <2>3
<1> QED BY <1>4, <1>5 DEF D!Set

LEMMA DeleteIsDictionaryDelete ==
    ASSUME ~CollidingDeletes, MapInv, HashMapNext, NEW k \in Key, Delete(k)
    PROVE  D!Delete(k)
<1>1. /\ hash[k] \in Hash /\ Injective
      /\ \A g \in Hash : lookup'[g] = IF g = hash[k] THEN NoEntry ELSE lookup[g]
    BY DeleteFrees
<1>2. \A g \in Hash : Occupied(g) => hash[lookup[g].key] = g
    BY <1>1 DEF MapInv, AtHome
<1>3. MapGet(k)' = NoVal
    <2>1. \A h \in Hash : ~(lookup'[h] # NoEntry /\ lookup'[h].key = k)
        BY <1>1, <1>2 DEF Occupied
    <2> QED BY <2>1, GetAfter
<1>4. ASSUME NEW j \in Key, j # k PROVE MapGet(j)' = MapGet(j)
    <2>1. hash[j] # hash[k] BY <1>1, <1>4 DEF Injective, MapInv, HashMapTypeOK
    <2>2. CASE \E g \in Hash : Holds(g, j)
        <3>1. PICK g \in Hash : Holds(g, j) BY <2>2
        <3>2. g # hash[k] BY <1>2, <2>1, <3>1 DEF Holds
        <3>3. lookup'[g] = lookup[g] /\ lookup'[g] # NoEntry /\ lookup'[g].key = j
            BY <1>1, <3>1, <3>2 DEF Holds, Occupied
        <3> QED BY <3>1, <3>3, GetHolds, GetAfter
    <2>3. CASE \A g \in Hash : ~Holds(g, j)
        <3>1. \A g \in Hash : ~(lookup'[g] # NoEntry /\ lookup'[g].key = j)
            BY <1>1, <2>3 DEF Holds, Occupied
        <3> QED BY <2>3, <3>1, GetMissing, GetAfter
    <2> QED BY <2>2, <2>3
<1> QED BY <1>3, <1>4 DEF D!Delete

LEMMA EmptyIsDictionaryClear ==
    ASSUME ~CollidingDeletes, MapInv, HashMapNext, Reset \/ Reallocate PROVE D!Clear
<1>1. \A h \in Hash : lookup'[h] = NoEntry BY EmptyMap DEF MapInv
<1>2. \A k \in Key : MapGet(k)' = NoVal BY <1>1, GetAfter
<1> QED BY <1>2 DEF D!Clear

\* The map implements the dictionary, operation by operation, for every hash
\* function, when Delete is used only if hashes do not collide.
THEOREM MapIsDictionary == ~CollidingDeletes /\ HashMapSpec => ImplementsDictionary
<1> SUFFICES ASSUME ~CollidingDeletes PROVE HashMapSpec => ImplementsDictionary
    OBVIOUS
<1>1. HashMapInit => D!Init
    <2> SUFFICES ASSUME HashMapInit PROVE D!Init
        OBVIOUS
    <2>1. \A k \in Key : MapGet(k) = NoVal
        <3>1. \A k \in Key, h \in Hash : ~Holds(h, k) BY DEF HashMapInit, Holds, Occupied
        <3> QED BY <3>1, MapInit, GetMissing
    <2> QED BY <2>1 DEF D!Init
<1>2. MapInv /\ [HashMapNext]_hashMapVars => [D!Next]_[k \in Key |-> MapGet(k)]
    <2> SUFFICES ASSUME MapInv, [HashMapNext]_hashMapVars PROVE [D!Next]_[k \in Key |-> MapGet(k)]
        OBVIOUS
    <2>1. ASSUME HashMapNext, NEW k \in Key, NEW v \in Val,
                 Set(k, v) \/ \E b \in BOOLEAN : SetUnsafe(k, v, b)
          PROVE  D!Next
        BY <2>1, SetIsDictionarySet DEF D!Next
    <2>2. ASSUME HashMapNext, NEW k \in Key, Delete(k) PROVE D!Next
        BY <2>2, DeleteIsDictionaryDelete DEF D!Next
    <2>3. ASSUME HashMapNext, Reset \/ Reallocate PROVE D!Next
        BY <2>3, EmptyIsDictionaryClear DEF D!Next
    <2>4. ASSUME UNCHANGED hashMapVars PROVE UNCHANGED [k \in Key |-> MapGet(k)]
        BY <2>4 DEF hashMapVars, MapGet, Stops, Holds, Occupied
    <2> QED BY <2>1, <2>2, <2>3, <2>4 DEF HashMapNext
<1>3. MapInv /\ [HashMapNext]_hashMapVars => [OperationsMatch]_hashMapVars
    <2> SUFFICES ASSUME MapInv, HashMapNext PROVE OperationsMatch
        OBVIOUS
    <2>1. ASSUME NEW k \in Key, NEW v \in Val, NEW b \in BOOLEAN,
                 Set(k, v) \/ SetUnsafe(k, v, b)
          PROVE  D!Set(k, v)
        BY <2>1, SetIsDictionarySet
    <2>2. ASSUME NEW k \in Key, Delete(k) PROVE D!Delete(k)
        BY <2>2, DeleteIsDictionaryDelete
    <2>3. ASSUME Reset \/ Reallocate PROVE D!Clear
        BY <2>3, EmptyIsDictionaryClear
    <2> QED BY <2>1, <2>2, <2>3 DEF OperationsMatch
<1>4. HashMapSpec => []MapInv BY MapInvariant
<1> QED BY <1>1, <1>2, <1>3, <1>4, PTL DEF HashMapSpec, ImplementsDictionary, D!Spec

-----------------------------------------------------------------------------
(* TimeRanges.                                                             *)

LEMMA LeastExists ==
    ASSUME NEW S, S \subseteq Nat, S # {} PROVE \E n \in S : \A m \in S : n <= m
<1>1. PICK R : R = OpToRel(<, Nat) OBVIOUS
<1>2. IsWellFoundedOn(R, Nat) BY <1>1, NatLessThanWellFounded
<1>3. \A m, n \in Nat : m < n => <<m, n>> \in R BY <1>1 DEF OpToRel
<1>4. PICK n \in S : \A m \in S : ~(<<m, n>> \in R) BY <1>2, WFMin, Zenon
<1>5. \A m \in S : ~(m < n) BY <1>3, <1>4, Zenon
<1>6. \A m \in S : n <= m BY <1>5
<1> QED BY <1>6

\* The instant t is in the range r, in one of the list.
Within(r, t) == r.start <= t /\ t < r.end
Somewhere(list, t) == \E i \in 1 .. Len(list) : Within(list[i], t)

\* What every list of a Ranges is: no range is empty, and each ends before any
\* later one starts.
Tidy(list) ==
    /\ list \in Seq(Range_)
    /\ \A i \in 1 .. Len(list) : list[i].start < list[i].end
    /\ \A i, j \in 1 .. Len(list) : i < j => list[i].end <= list[j].start

RangesInv == ranges \in [RangesVar -> Seq(Range_)] /\ \A v \in RangesVar : Tidy(ranges[v])

LEMMA RangeFields ==
    ASSUME NEW r \in Range_
    PROVE  /\ r.start \in Time /\ r.end \in Time /\ r.start <= r.end
           /\ r.start \in Nat /\ r.end \in Nat
           /\ In(r) = {t \in Time : Within(r, t)}
BY TimeRangesAssumption DEF Range_, Time, In, Within

LEMMA InstantsOfList ==
    ASSUME NEW list \in Seq(Range_) PROVE InList(list) = {t \in Time : Somewhere(list, t)}
<1>1. \A i \in 1 .. Len(list) : list[i] \in Range_ OBVIOUS
<1>2. \A i \in 1 .. Len(list) : In(list[i]) = {t \in Time : Within(list[i], t)}
    BY <1>1, RangeFields, Zenon
<1>3. DOMAIN list = 1 .. Len(list) OBVIOUS
<1>4. \A t : t \in InList(list) <=> \E i \in 1 .. Len(list) : t \in In(list[i])
    BY <1>3 DEF InList
<1>5. \A t : t \in InList(list) <=> t \in Time /\ Somewhere(list, t)
    BY <1>2, <1>4 DEF Somewhere
<1> QED BY <1>5

\* The first place from e on that is in S, or the one past the end.
LEMMA FirstOfExists ==
    ASSUME NEW n \in Nat, NEW e \in 1 .. n + 1, NEW S
    PROVE  \E i \in e .. n + 1 : (i = n + 1 \/ i \in S) /\ \A j \in e .. i - 1 : j \notin S
<1> DEFINE T == {i \in e .. n + 1 : i = n + 1 \/ i \in S}
<1>1. T \subseteq Nat /\ n + 1 \in T OBVIOUS
<1> HIDE DEF T
<1>2. PICK i \in T : \A j \in T : i <= j BY <1>1, LeastExists
<1>3. i \in e .. n + 1 /\ (i = n + 1 \/ i \in S) BY <1>2 DEF T
<1>4. ASSUME NEW j \in e .. i - 1, j \in S PROVE FALSE
    <2>1. j \in e .. n + 1 /\ j < i BY <1>3
    <2>2. j \in T BY <1>4, <2>1 DEF T
    <2> QED BY <1>2, <1>3, <2>1, <2>2
<1> QED BY <1>3, <1>4

\* The searches of a tidy list: up to e ranges end before r starts, from e on
\* they end after that.
FirstNotBefore(list, r, e) ==
    /\ e \in 1 .. Len(list) + 1
    /\ \A j \in 1 .. e - 1 : list[j].end <= r.start
    /\ \A j \in e .. Len(list) : r.start < list[j].end

LEMMA FirstNotBeforeFound ==
    ASSUME NEW list, Tidy(list), NEW r \in Range_
    PROVE  FirstNotBefore(list, r, findFirstNotBefore(list, r))
<1> DEFINE n == Len(list)
           S == {i \in 1 .. n : ~Before(list[i], r)}
           F(i) == (i = n + 1 \/ ~Before(list[i], r)) /\ \A j \in 1 .. i - 1 : ~~Before(list[j], r)
<1>1. n \in Nat /\ list \in Seq(Range_) BY DEF Tidy
<1>2. \A i \in 1 .. n : list[i] \in Range_ BY <1>1
<1>3. \E i \in 1 .. n + 1 : F(i)
    <2> HIDE DEF S
    <2>0. 1 \in 1 .. n + 1 BY <1>1
    <2>1. PICK i \in 1 .. n + 1 : (i = n + 1 \/ i \in S) /\ \A j \in 1 .. i - 1 : j \notin S
        BY <1>1, <2>0, FirstOfExists
    <2> USE DEF S
    <2>2. \A j \in 1 .. i - 1 : j \in 1 .. n BY <1>1, <2>1
    <2> QED BY <2>1, <2>2
<1>4. findFirstNotBefore(list, r) = CHOOSE i \in 1 .. n + 1 : F(i)
    BY DEF findFirstNotBefore, FirstFrom
<1> HIDE DEF F
<1>5. PICK e : e = findFirstNotBefore(list, r) /\ e \in 1 .. n + 1 /\ F(e)
    BY <1>3, <1>4
<1>6. ASSUME NEW j \in 1 .. e - 1 PROVE list[j].end <= r.start
    BY <1>5 DEF F, Before
<1>7. ASSUME NEW j \in e .. n PROVE r.start < list[j].end
    <2>1. e \in 1 .. n /\ j \in 1 .. n /\ (e = j \/ e < j) BY <1>1, <1>5
    <2>2. ~(list[e].end <= r.start) BY <1>1, <1>5, <2>1 DEF F, Before
    <2>3. list[e] \in Range_ /\ list[j] \in Range_ BY <1>2, <2>1
    <2>4. e < j => list[e].end <= list[j].start BY <2>1 DEF Tidy
    <2>5. list[j].start < list[j].end BY <2>1 DEF Tidy
    <2> QED BY <2>1, <2>2, <2>3, <2>4, <2>5, RangeFields
<1> QED BY <1>5, <1>6, <1>7 DEF FirstNotBefore

LEMMA OverlapsAnswers ==
    ASSUME NEW list, Tidy(list), NEW r \in Range_
    PROVE  RangesOverlaps(list, r) <=> \E t \in Time : Somewhere(list, t) /\ Within(r, t)
<1> DEFINE n == Len(list)
<1>1. PICK e : e = findFirstNotBefore(list, r) /\ FirstNotBefore(list, r, e)
    BY FirstNotBeforeFound
<1>2. n \in Nat /\ e \in 1 .. n + 1 /\ \A i \in 1 .. n : list[i] \in Range_
    BY <1>1 DEF FirstNotBefore, Tidy
<1>3. RangesOverlaps(list, r) <=> r.start # r.end /\ e <= n /\ list[e].end > r.start /\ list[e].start < r.end
    BY <1>1 DEF RangesOverlaps, IsEmpty, Overlaps
<1>4. ASSUME RangesOverlaps(list, r) PROVE \E t \in Time : Somewhere(list, t) /\ Within(r, t)
    <2>1. e \in 1 .. n /\ list[e] \in Range_ BY <1>2, <1>3, <1>4
    <2>2. list[e].start < list[e].end BY <2>1 DEF Tidy
    <2>3. PICK t \in Time : (t = r.start \/ t = list[e].start) /\ Within(list[e], t) /\ Within(r, t)
        BY <1>3, <1>4, <2>1, <2>2, RangeFields DEF Within
    <2> QED BY <2>1, <2>3 DEF Somewhere
<1>5. ASSUME NEW t \in Time, Somewhere(list, t), Within(r, t) PROVE RangesOverlaps(list, r)
    <2>1. PICK i \in 1 .. n : Within(list[i], t) BY <1>5 DEF Somewhere
    <2>2. list[i] \in Range_ /\ t \in Int BY <1>2, TimeRangesAssumption DEF Time
    <2>3. list[i].end > r.start /\ list[i].start < r.end /\ r.start # r.end
        BY <1>5, <2>1, <2>2, RangeFields DEF Within
    <2>4. ~(i \in 1 .. e - 1)
        <3> SUFFICES ASSUME i \in 1 .. e - 1 PROVE FALSE OBVIOUS
        <3>1. list[i].end <= r.start BY <1>1 DEF FirstNotBefore
        <3> QED BY <2>2, <2>3, <3>1, RangeFields
    <2>5. e \in 1 .. n /\ (i = e \/ e < i) BY <1>2, <2>1, <2>4
    <2>6. list[e] \in Range_ /\ list[e].end > r.start BY <1>1, <1>2, <2>5 DEF FirstNotBefore
    <2>7. e < i => list[e].end <= list[i].start BY <2>5 DEF Tidy
    <2>8. list[e].start < list[e].end BY <2>5 DEF Tidy
    <2>9. list[e].start < r.end BY <2>2, <2>3, <2>5, <2>6, <2>7, <2>8, RangeFields
    <2> QED BY <1>3, <2>3, <2>5, <2>6, <2>9
<1> QED BY <1>4, <1>5

-----------------------------------------------------------------------------
\* Lists that are parts of tidy lists or put together of them.

LEMMA TidySmall ==
    /\ Tidy(<<>>) /\ \A t : ~Somewhere(<<>>, t)
    /\ \A x \in Range_ : x.start < x.end =>
        /\ Tidy(<<x>>) /\ Len(<<x>>) = 1 /\ <<x>>[1] = x
        /\ \A t : Somewhere(<<x>>, t) <=> Within(x, t)
<1>1. Tidy(<<>>) /\ \A t : ~Somewhere(<<>>, t) BY DEF Tidy, Somewhere
<1>2. ASSUME NEW x \in Range_, x.start < x.end PROVE Tidy(<<x>>) BY <1>2 DEF Tidy
<1>3. ASSUME NEW x, NEW t PROVE Somewhere(<<x>>, t) <=> Within(x, t)
    <2>1. Len(<<x>>) = 1 /\ <<x>>[1] = x OBVIOUS
    <2>2. 1 .. 1 = {1} OBVIOUS
    <2> QED BY <2>1, <2>2 DEF Somewhere
<1>4. \A x : Len(<<x>>) = 1 /\ <<x>>[1] = x OBVIOUS
<1> QED BY <1>1, <1>2, <1>3, <1>4

LEMMA TidyPart ==
    ASSUME NEW list, Tidy(list), NEW i \in 1 .. Len(list) + 1, NEW j \in i - 1 .. Len(list)
    PROVE  LET part == SubSeq(list, i, j) IN
           /\ Tidy(part) /\ Len(part) = j - i + 1
           /\ \A k \in 1 .. j - i + 1 : part[k] = list[i + k - 1]
           /\ \A t : Somewhere(part, t) <=> \E k \in i .. j : Within(list[k], t)
<1> DEFINE part == SubSeq(list, i, j)
<1>1. list \in Seq(Range_) /\ Len(list) \in Nat BY DEF Tidy
<1>2. part \in Seq(Range_) /\ Len(part) = j - i + 1 /\ \A k \in 1 .. j - i + 1 : part[k] = list[i + k - 1]
    BY <1>1
<1> HIDE DEF part
<1>3. ASSUME NEW k \in 1 .. Len(part) PROVE part[k].start < part[k].end
    <2>1. k \in 1 .. j - i + 1 /\ i + k - 1 \in 1 .. Len(list) BY <1>1, <1>2
    <2>2. part[k] = list[i + k - 1] BY <1>2, <2>1
    <2> QED BY <2>1, <2>2 DEF Tidy
<1>4. ASSUME NEW k \in 1 .. Len(part), NEW l \in 1 .. Len(part), k < l PROVE part[k].end <= part[l].start
    <2>1. i + k - 1 \in 1 .. Len(list) /\ part[k] = list[i + k - 1] BY <1>1, <1>2
    <2>2. i + l - 1 \in 1 .. Len(list) /\ part[l] = list[i + l - 1] BY <1>1, <1>2
    <2>3. i + k - 1 < i + l - 1 BY <1>1, <1>2, <1>4
    <2> QED BY <2>1, <2>2, <2>3 DEF Tidy
<1>5. ASSUME NEW t PROVE Somewhere(part, t) <=> \E k \in i .. j : Within(list[k], t)
    <2>1. ASSUME Somewhere(part, t) PROVE \E k \in i .. j : Within(list[k], t)
        <3>1. PICK k \in 1 .. Len(part) : Within(part[k], t) BY <2>1 DEF Somewhere
        <3>2. i + k - 1 \in i .. j /\ part[k] = list[i + k - 1] BY <1>1, <1>2
        <3> QED BY <3>1, <3>2
    <2>2. ASSUME NEW k \in i .. j, Within(list[k], t) PROVE Somewhere(part, t)
        <3>1. k - i + 1 \in 1 .. Len(part) /\ i + (k - i + 1) - 1 = k BY <1>1, <1>2
        <3>2. part[k - i + 1] = list[k] BY <1>2, <3>1
        <3> QED BY <2>2, <3>1, <3>2 DEF Somewhere
    <2> QED BY <2>1, <2>2
<1> QED BY <1>2, <1>3, <1>4, <1>5 DEF Tidy, part

LEMMA TidyJoined ==
    ASSUME NEW a, NEW b, Tidy(a), Tidy(b),
           \A i \in 1 .. Len(a), j \in 1 .. Len(b) : a[i].end <= b[j].start
    PROVE  LET ab == a \o b IN
           /\ Tidy(ab) /\ Len(ab) = Len(a) + Len(b)
           /\ \A k \in 1 .. Len(ab) :
                \/ k \in 1 .. Len(a) /\ ab[k] = a[k]
                \/ k - Len(a) \in 1 .. Len(b) /\ ab[k] = b[k - Len(a)]
           /\ \A t : Somewhere(ab, t) <=> Somewhere(a, t) \/ Somewhere(b, t)
<1> DEFINE ab == a \o b
<1>1. a \in Seq(Range_) /\ b \in Seq(Range_) /\ Len(a) \in Nat /\ Len(b) \in Nat BY DEF Tidy
<1>2. /\ ab \in Seq(Range_) /\ Len(ab) = Len(a) + Len(b)
      /\ \A k \in 1 .. Len(a) : ab[k] = a[k]
      /\ \A k \in 1 .. Len(b) : ab[Len(a) + k] = b[k]
    BY <1>1
<1> HIDE DEF ab
<1>3. ASSUME NEW k \in 1 .. Len(ab)
      PROVE  \/ k \in 1 .. Len(a) /\ ab[k] = a[k]
             \/ k - Len(a) \in 1 .. Len(b) /\ ab[k] = b[k - Len(a)]
    <2>1. k \in 1 .. Len(a) \/ (k - Len(a) \in 1 .. Len(b) /\ Len(a) + (k - Len(a)) = k) BY <1>1, <1>2
    <2> QED BY <1>2, <2>1
<1>4. ASSUME NEW k \in 1 .. Len(ab) PROVE ab[k].start < ab[k].end
    BY <1>3 DEF Tidy
<1>5. ASSUME NEW k \in 1 .. Len(ab), NEW l \in 1 .. Len(ab), k < l PROVE ab[k].end <= ab[l].start
    <2>1. CASE k \in 1 .. Len(a) /\ ab[k] = a[k] /\ l \in 1 .. Len(a) /\ ab[l] = a[l] BY <1>5, <2>1 DEF Tidy
    <2>2. CASE k \in 1 .. Len(a) /\ ab[k] = a[k] /\ l - Len(a) \in 1 .. Len(b) /\ ab[l] = b[l - Len(a)] BY <2>2
    <2>3. CASE /\ k - Len(a) \in 1 .. Len(b) /\ ab[k] = b[k - Len(a)]
               /\ l - Len(a) \in 1 .. Len(b) /\ ab[l] = b[l - Len(a)]
        <3>1. k - Len(a) < l - Len(a) BY <1>1, <1>5
        <3> QED BY <2>3, <3>1 DEF Tidy
    <2>4. ~(k - Len(a) \in 1 .. Len(b) /\ l \in 1 .. Len(a)) BY <1>1, <1>5
    <2> QED BY <1>3, <2>1, <2>2, <2>3, <2>4
<1>6. ASSUME NEW t PROVE Somewhere(ab, t) <=> Somewhere(a, t) \/ Somewhere(b, t)
    <2>1. ASSUME Somewhere(ab, t) PROVE Somewhere(a, t) \/ Somewhere(b, t)
        <3>1. PICK k \in 1 .. Len(ab) : Within(ab[k], t) BY <2>1 DEF Somewhere
        <3> QED BY <1>3, <3>1 DEF Somewhere
    <2>2. ASSUME Somewhere(a, t) PROVE Somewhere(ab, t)
        <3>1. PICK k \in 1 .. Len(a) : Within(a[k], t) BY <2>2 DEF Somewhere
        <3>2. k \in 1 .. Len(ab) /\ ab[k] = a[k] BY <1>1, <1>2
        <3> QED BY <3>1, <3>2 DEF Somewhere
    <2>3. ASSUME Somewhere(b, t) PROVE Somewhere(ab, t)
        <3>1. PICK k \in 1 .. Len(b) : Within(b[k], t) BY <2>3 DEF Somewhere
        <3>2. Len(a) + k \in 1 .. Len(ab) /\ ab[Len(a) + k] = b[k] BY <1>1, <1>2
        <3> QED BY <3>1, <3>2 DEF Somewhere
    <2> QED BY <2>1, <2>2, <2>3
<1> QED BY <1>2, <1>3, <1>4, <1>5, <1>6 DEF Tidy, ab

\* What is left of a range when another is taken away is tidy and inside it.
LEMMA SubtractLeaves ==
    ASSUME NEW a \in Range_, a.start < a.end, NEW r \in Range_
    PROVE  LET left == Subtract(a, r) IN
           /\ Tidy(left)
           /\ \A k \in 1 .. Len(left) : a.start <= left[k].start /\ left[k].end <= a.end
           /\ \A t \in Time : Somewhere(left, t) <=> Within(a, t) /\ ~Within(r, t)
<1> DEFINE lo == [start |-> a.start, end |-> r.start]
           hi == [start |-> r.end, end |-> a.end]
           Keep(x) == IF IsEmpty(x) THEN <<>> ELSE <<x>>
           left == Subtract(a, r)
           Inside(list) == \A k \in 1 .. Len(list) : a.start <= list[k].start /\ list[k].end <= a.end
           Is(list) == \A t \in Time : Somewhere(list, t) <=> Within(a, t) /\ ~Within(r, t)
<1>1. /\ a.start \in Nat /\ a.end \in Nat /\ r.start \in Nat /\ r.end \in Nat /\ r.start <= r.end
      /\ a.start \in Time /\ a.end \in Time /\ r.start \in Time /\ r.end \in Time
      /\ \A t \in Time : t \in Nat
    BY RangeFields, TimeRangesAssumption DEF Time
<1>2. \A s, e \in Time : s <= e => [start |-> s, end |-> e] \in Range_ BY DEF Range_
<1>3. lo.start = a.start /\ lo.end = r.start /\ hi.start = r.end /\ hi.end = a.end OBVIOUS
<1>4. a.start <= r.start => lo \in Range_ BY <1>1, <1>2
<1>5. r.end <= a.end => hi \in Range_ BY <1>1, <1>2
<1>6. /\ IsEmpty(lo) <=> a.start = r.start
      /\ IsEmpty(hi) <=> r.end = a.end
    BY DEF IsEmpty
<1>7. left = IF ~Overlaps(a, r) THEN <<a>>
             ELSE IF Contains(r, a) THEN <<>>
             ELSE IF Contains(a, r) THEN Keep(lo) \o Keep(hi)
             ELSE IF a.start <= r.start THEN Keep(lo)
             ELSE Keep(hi)
    BY DEF Subtract
<1>8. /\ Overlaps(a, r) <=> a.end > r.start /\ a.start < r.end
      /\ Contains(r, a) <=> r.start <= a.start /\ r.end >= a.end
      /\ Contains(a, r) <=> a.start <= r.start /\ a.end >= r.end
    BY DEF Overlaps, Contains
<1> HIDE DEF lo, hi, left
<1>9. ASSUME a.start <= r.start, r.start < a.end
      PROVE  /\ Tidy(Keep(lo)) /\ Inside(Keep(lo))
             /\ \A t \in Time : Somewhere(Keep(lo), t) <=> Within(a, t) /\ t < r.start
             /\ \A k \in 1 .. Len(Keep(lo)) : Keep(lo)[k] = lo
    <2>1. CASE a.start = r.start
        <3>1. Keep(lo) = <<>> BY <1>6, <2>1
        <3> QED BY <1>1, <2>1, <3>1, TidySmall DEF Within
    <2>2. CASE a.start # r.start
        <3>1. Keep(lo) = <<lo>> /\ lo.start < lo.end /\ lo \in Range_ BY <1>1, <1>3, <1>4, <1>6, <1>9, <2>2
        <3>2. Tidy(<<lo>>) /\ Len(<<lo>>) = 1 /\ <<lo>>[1] = lo /\ \A t : Somewhere(<<lo>>, t) <=> Within(lo, t)
            BY <3>1, TidySmall
        <3>3. \A t \in Time : Within(lo, t) <=> Within(a, t) /\ t < r.start BY <1>1, <1>3, <1>9 DEF Within
        <3>4. Inside(<<lo>>) BY <1>1, <1>3, <1>9, <3>2
        <3>5. \A k \in 1 .. 1 : <<lo>>[k] = lo BY <3>2
        <3> QED BY <3>1, <3>2, <3>3, <3>4, <3>5
    <2> QED BY <2>1, <2>2
<1>10. ASSUME r.end <= a.end, a.start < r.end
      PROVE  /\ Tidy(Keep(hi)) /\ Inside(Keep(hi))
             /\ \A t \in Time : Somewhere(Keep(hi), t) <=> Within(a, t) /\ r.end <= t
             /\ \A k \in 1 .. Len(Keep(hi)) : Keep(hi)[k] = hi
    <2>1. CASE a.end = r.end
        <3>1. Keep(hi) = <<>> BY <1>6, <2>1
        <3> QED BY <1>1, <2>1, <3>1, TidySmall DEF Within
    <2>2. CASE a.end # r.end
        <3>1. Keep(hi) = <<hi>> /\ hi.start < hi.end /\ hi \in Range_ BY <1>1, <1>3, <1>5, <1>6, <1>10, <2>2
        <3>2. Tidy(<<hi>>) /\ Len(<<hi>>) = 1 /\ <<hi>>[1] = hi /\ \A t : Somewhere(<<hi>>, t) <=> Within(hi, t)
            BY <3>1, TidySmall
        <3>3. \A t \in Time : Within(hi, t) <=> Within(a, t) /\ r.end <= t BY <1>1, <1>3, <1>10 DEF Within
        <3>4. Inside(<<hi>>) BY <1>1, <1>3, <1>10, <3>2
        <3>5. \A k \in 1 .. 1 : <<hi>>[k] = hi BY <3>2
        <3> QED BY <3>1, <3>2, <3>3, <3>4, <3>5
    <2> QED BY <2>1, <2>2
<1>11. CASE ~Overlaps(a, r)
    <2>1. left = <<a>> BY <1>7, <1>11
    <2>2. Tidy(<<a>>) /\ Len(<<a>>) = 1 /\ <<a>>[1] = a /\ \A t : Somewhere(<<a>>, t) <=> Within(a, t)
        BY TidySmall
    <2>3. \A t \in Time : Within(a, t) => ~Within(r, t) BY <1>1, <1>8, <1>11 DEF Within
    <2>4. Inside(<<a>>) BY <1>1, <2>2
    <2> QED BY <2>1, <2>2, <2>3, <2>4 DEF left
<1>12. CASE Overlaps(a, r) /\ Contains(r, a)
    <2>1. left = <<>> BY <1>7, <1>12
    <2>2. \A t \in Time : Within(a, t) => Within(r, t) BY <1>1, <1>8, <1>12 DEF Within
    <2> QED BY <2>1, <2>2, TidySmall DEF left
<1>13. CASE Overlaps(a, r) /\ ~Contains(r, a) /\ Contains(a, r)
    <2>1. left = Keep(lo) \o Keep(hi) BY <1>7, <1>13
    <2>2. a.start <= r.start /\ r.start < a.end /\ r.end <= a.end /\ a.start < r.end BY <1>1, <1>8, <1>13
    <2> DEFINE p == Keep(lo)
               q == Keep(hi)
    <2>3. Tidy(p) /\ Inside(p) /\ \A k \in 1 .. Len(p) : p[k] = lo BY <1>9, <2>2
    <2>4. Tidy(q) /\ Inside(q) /\ \A k \in 1 .. Len(q) : q[k] = hi BY <1>10, <2>2
    <2>5. \A t \in Time : (Somewhere(p, t) \/ Somewhere(q, t)) <=> Within(a, t) /\ ~Within(r, t)
        <3>1. \A t \in Time : ~Within(r, t) <=> t < r.start \/ r.end <= t BY <1>1 DEF Within
        <3> QED BY <1>9, <1>10, <2>2, <3>1
    <2> HIDE DEF p, q
    <2>6. \A i \in 1 .. Len(p), j \in 1 .. Len(q) : p[i].end <= q[j].start
        BY <1>1, <1>3, <2>3, <2>4
    <2>7. /\ Tidy(p \o q)
          /\ \A k \in 1 .. Len(p \o q) :
                \/ k \in 1 .. Len(p) /\ (p \o q)[k] = p[k]
                \/ k - Len(p) \in 1 .. Len(q) /\ (p \o q)[k] = q[k - Len(p)]
          /\ \A t : Somewhere(p \o q, t) <=> Somewhere(p, t) \/ Somewhere(q, t)
        BY <2>3, <2>4, <2>6, TidyJoined
    <2>8. left = p \o q BY <2>1 DEF p, q
    <2>9. Inside(left) BY <2>3, <2>4, <2>7, <2>8
    <2> QED BY <2>5, <2>7, <2>8, <2>9 DEF left
<1>14. CASE Overlaps(a, r) /\ ~Contains(r, a) /\ ~Contains(a, r) /\ a.start <= r.start
    <2>1. left = Keep(lo) BY <1>7, <1>14
    <2>2. r.start < a.end /\ a.end < r.end BY <1>1, <1>8, <1>14
    <2>3. \A t \in Time : Within(a, t) => (~Within(r, t) <=> t < r.start) BY <1>1, <2>2 DEF Within
    <2> QED BY <1>9, <1>14, <2>1, <2>2, <2>3 DEF left
<1>15. CASE Overlaps(a, r) /\ ~Contains(r, a) /\ ~Contains(a, r) /\ ~(a.start <= r.start)
    <2>1. left = Keep(hi) BY <1>7, <1>15
    <2>2. r.start < a.start /\ r.end < a.end /\ a.start < r.end BY <1>1, <1>8, <1>15
    <2>3. \A t \in Time : Within(a, t) => (~Within(r, t) <=> r.end <= t) BY <1>1, <2>2 DEF Within
    <2> QED BY <1>1, <1>10, <2>1, <2>2, <2>3 DEF left
<1> QED BY <1>11, <1>12, <1>13, <1>14, <1>15

-----------------------------------------------------------------------------
\* Adding a range to a tidy list.

\* What r has become when the ranges of list from e up to i - 1 have been merged
\* into it, and the equation of the loop that does it.
MergedUpTo(list, r, e, i) ==
    IF i = e THEN r
    ELSE [start |-> MinTime(r.start, list[e].start), end |-> MaxTime(r.end, list[i - 1].end)]

Merging(list, r, e, m) ==
    m = [i \in e .. Len(list) + 1 |-> IF i = e THEN r ELSE Merge(m[i - 1], list[i - 1])]

LEMMA AtMostTransitive == \A a, b, c \in Nat : (a <= b \/ a < b) /\ (b <= c \/ b < c) => a <= c
OBVIOUS

LEMMA MinTwice == \A a, b, c \in Nat : b <= c => MinTime(MinTime(a, b), c) = MinTime(a, b)
BY DEF MinTime

LEMMA MaxTwice == \A a, b, c \in Nat : b <= c => MaxTime(MaxTime(a, b), c) = MaxTime(a, c)
BY DEF MaxTime

LEMMA MergeStep ==
    ASSUME NEW list, Tidy(list), NEW r \in Range_, NEW e \in 1 .. Len(list) + 1,
           NEW i \in e + 1 .. Len(list) + 1
    PROVE  MergedUpTo(list, r, e, i) = Merge(MergedUpTo(list, r, e, i - 1), list[i - 1])
<1>1. Len(list) \in Nat /\ \A k \in 1 .. Len(list) : list[k] \in Range_ BY DEF Tidy
<1>2. e \in 1 .. Len(list) /\ i - 1 \in 1 .. Len(list) BY <1>1
<1>3. /\ list[e].start \in Nat /\ list[i - 1].start \in Nat /\ list[i - 1].end \in Nat
      /\ r.start \in Nat /\ r.end \in Nat
    BY <1>1, <1>2, RangeFields
<1>4. CASE i = e + 1
    <2>1. i - 1 = e /\ i # e BY <1>1, <1>4
    <2> QED BY <2>1 DEF MergedUpTo, Merge
<1>5. CASE i # e + 1
    <2>1. i - 1 # e /\ i # e /\ i - 2 \in 1 .. Len(list) /\ e < i - 1 /\ (i - 1) - 1 = i - 2 /\ i - 2 < i - 1 BY <1>1, <1>5
    <2>2. list[e].end <= list[i - 1].start /\ list[e].start < list[e].end BY <1>2, <2>1 DEF Tidy
    <2>3. list[i - 2].end <= list[i - 1].start /\ list[i - 1].start < list[i - 1].end BY <1>2, <2>1 DEF Tidy
    <2>4. list[e].end \in Nat /\ list[i - 2].end \in Nat BY <1>1, <1>2, <2>1, RangeFields
    <2>5. MinTime(MinTime(r.start, list[e].start), list[i - 1].start) = MinTime(r.start, list[e].start)
        <3>1. list[e].start <= list[i - 1].start BY <1>3, <2>2, <2>4, AtMostTransitive, Zenon
        <3> QED BY <1>3, <2>4, <3>1, MinTwice, Zenon
    <2>6. MaxTime(MaxTime(r.end, list[i - 2].end), list[i - 1].end) = MaxTime(r.end, list[i - 1].end)
        <3>1. list[i - 2].end <= list[i - 1].end BY <1>3, <2>3, <2>4, AtMostTransitive, Zenon
        <3>2. \A a \in Nat : MaxTime(MaxTime(a, list[i - 2].end), list[i - 1].end) = MaxTime(a, list[i - 1].end)
            BY <1>3, <2>4, <3>1, MaxTwice, ZenonT(40)
        <3> QED BY <1>3, <3>2, Zenon
    <2> DEFINE a == MergedUpTo(list, r, e, i - 1)
    <2>7. a.start = MinTime(r.start, list[e].start) /\ a.end = MaxTime(r.end, list[i - 2].end)
        BY <2>1 DEF MergedUpTo
    <2>8. Merge(a, list[i - 1]) = [start |-> MinTime(r.start, list[e].start), end |-> MaxTime(r.end, list[i - 1].end)]
        BY <2>5, <2>6, <2>7 DEF Merge
    <2> QED BY <2>1, <2>8 DEF MergedUpTo
<1> QED BY <1>4, <1>5

LEMMA MergingExists ==
    ASSUME NEW list, Tidy(list), NEW r \in Range_, NEW e \in 1 .. Len(list) + 1
    PROVE  \E m : Merging(list, r, e, m)
<1> DEFINE n == Len(list)
           m == [i \in e .. n + 1 |-> MergedUpTo(list, r, e, i)]
<1>1. n \in Nat BY DEF Tidy
<1>2. ASSUME NEW i \in e .. n + 1
      PROVE  MergedUpTo(list, r, e, i) = IF i = e THEN r ELSE Merge(m[i - 1], list[i - 1])
    <2>1. CASE i = e BY <2>1 DEF MergedUpTo
    <2>2. CASE i # e
        <3>1. i \in e + 1 .. n + 1 /\ i - 1 \in e .. n + 1 BY <1>1, <2>2
        <3>2. m[i - 1] = MergedUpTo(list, r, e, i - 1) BY <3>1
        <3> QED BY <2>2, <3>1, <3>2, MergeStep
    <2> QED BY <2>1, <2>2
<1> QED BY <1>2 DEF Merging

LEMMA MergingIs ==
    ASSUME NEW list, Tidy(list), NEW r \in Range_, NEW e \in 1 .. Len(list) + 1,
           NEW m, Merging(list, r, e, m), NEW i \in e .. Len(list) + 1
    PROVE  m[i] = MergedUpTo(list, r, e, i)
<1> DEFINE n == Len(list)
           Wrong == {k \in e .. n + 1 : m[k] # MergedUpTo(list, r, e, k)}
<1>1. n \in Nat BY DEF Tidy
<1>2. \A k \in e .. n + 1 : m[k] = IF k = e THEN r ELSE Merge(m[k - 1], list[k - 1]) BY DEF Merging
<1>3. Wrong \subseteq Nat BY <1>1
<1>4. ASSUME Wrong # {} PROVE FALSE
    <2> HIDE DEF Wrong
    <2>1. PICK k \in Wrong : \A l \in Wrong : k <= l BY <1>3, <1>4, LeastExists
    <2>2. k \in e .. n + 1 /\ m[k] # MergedUpTo(list, r, e, k) BY <2>1 DEF Wrong
    <2>3. k # e BY <1>2, <2>2 DEF MergedUpTo
    <2>4. k \in e + 1 .. n + 1 /\ k - 1 \in e .. n + 1 /\ k - 1 < k BY <1>1, <2>2, <2>3
    <2>5. k - 1 \notin Wrong BY <1>3, <2>1, <2>4
    <2>6. m[k - 1] = MergedUpTo(list, r, e, k - 1) BY <2>4, <2>5 DEF Wrong
    <2> QED BY <1>2, <2>2, <2>3, <2>4, <2>6, MergeStep
<1> QED BY <1>4

\* What the loop does: the ranges from e up to stop - 1 overlap r as it has grown,
\* the range at stop does not.
AddedAt(list, r, e, stop) ==
    /\ e \in 1 .. Len(list) + 1 /\ stop \in e .. Len(list) + 1
    /\ FirstNotBefore(list, r, e)
    /\ \A j \in e .. stop - 1 : Overlaps(list[j], MergedUpTo(list, r, e, j))
    /\ stop <= Len(list) => ~Overlaps(list[stop], MergedUpTo(list, r, e, stop))

MergedFrom(list, r, e) ==
    CHOOSE f : f = [i \in e .. Len(list) + 1 |-> IF i = e THEN r ELSE Merge(f[i - 1], list[i - 1])]

MergeStop(list, r, e) ==
    CHOOSE i \in e .. Len(list) + 1 :
        /\ i = Len(list) + 1 \/ ~Overlaps(list[i], MergedFrom(list, r, e)[i])
        /\ \A j \in e .. i - 1 : ~~Overlaps(list[j], MergedFrom(list, r, e)[j])

LEMMA AddIs ==
    ASSUME NEW list, NEW r
    PROVE  addRangeInPlace(list, r) =
               IF IsEmpty(r) THEN list
               ELSE SubSeq(list, 1, findFirstNotBefore(list, r) - 1)
                    \o <<MergedFrom(list, r, findFirstNotBefore(list, r))[MergeStop(list, r, findFirstNotBefore(list, r))]>>
                    \o SubSeq(list, MergeStop(list, r, findFirstNotBefore(list, r)), Len(list))
BY DEF addRangeInPlace, FirstFrom, MergedFrom, MergeStop

LEMMA AddUnfolds ==
    ASSUME NEW list, Tidy(list), NEW r \in Range_, ~IsEmpty(r)
    PROVE  \E e, stop : AddedAt(list, r, e, stop) /\ addRangeInPlace(list, r) =
               SubSeq(list, 1, e - 1) \o <<MergedUpTo(list, r, e, stop)>> \o SubSeq(list, stop, Len(list))
<1> DEFINE n == Len(list)
<1>1. n \in Nat BY DEF Tidy
<1>2. PICK e : e = findFirstNotBefore(list, r) /\ FirstNotBefore(list, r, e)
    BY FirstNotBeforeFound
<1>3. e \in 1 .. n + 1 BY <1>2 DEF FirstNotBefore
<1>4. PICK m : m = MergedFrom(list, r, e) OBVIOUS
<1>5. Merging(list, r, e, m)
    <2>1. MergedFrom(list, r, e) = CHOOSE f : Merging(list, r, e, f) BY DEF MergedFrom, Merging
    <2>2. \E f : Merging(list, r, e, f) BY <1>3, MergingExists, Zenon
    <2> QED BY <1>4, <2>1, <2>2
<1>6. \A i \in e .. n + 1 : m[i] = MergedUpTo(list, r, e, i) BY <1>3, <1>5, MergingIs
<1> DEFINE F(i) == (i = n + 1 \/ ~Overlaps(list[i], m[i])) /\ \A j \in e .. i - 1 : ~~Overlaps(list[j], m[j])
           S == {i \in e .. n : ~Overlaps(list[i], m[i])}
<1>7. \E i \in e .. n + 1 : F(i)
    <2> HIDE DEF S
    <2>1. PICK i \in e .. n + 1 : (i = n + 1 \/ i \in S) /\ \A j \in e .. i - 1 : j \notin S
        BY <1>1, <1>3, FirstOfExists
    <2> USE DEF S
    <2>2. \A j \in e .. i - 1 : j \in e .. n BY <1>1, <1>3, <2>1
    <2> QED BY <2>1, <2>2
<1>8. PICK stop : stop = MergeStop(list, r, e) OBVIOUS
<1>9. stop \in e .. n + 1 /\ F(stop)
    <2>1. stop = CHOOSE i \in e .. n + 1 : F(i) BY <1>4, <1>8 DEF MergeStop
    <2> HIDE DEF F
    <2> QED BY <1>7, <2>1
<1>10. addRangeInPlace(list, r) = SubSeq(list, 1, e - 1) \o <<m[stop]>> \o SubSeq(list, stop, n)
    BY <1>2, <1>4, <1>8, AddIs
<1>11. AddedAt(list, r, e, stop)
    <2>1. \A j \in e .. stop - 1 : j \in e .. n + 1 /\ Overlaps(list[j], m[j]) BY <1>1, <1>3, <1>9
    <2>2. stop <= n => ~Overlaps(list[stop], m[stop]) BY <1>1, <1>9
    <2> QED BY <1>2, <1>3, <1>6, <1>9, <2>1, <2>2 DEF AddedAt
<1> QED BY <1>6, <1>9, <1>10, <1>11

LEMMA RangeAdded ==
    ASSUME NEW list, Tidy(list), NEW r \in Range_
    PROVE  LET sum == addRangeInPlace(list, r) IN
           /\ Tidy(sum)
           /\ \A t \in Time : Somewhere(sum, t) <=> Somewhere(list, t) \/ Within(r, t)
<1> DEFINE sum == addRangeInPlace(list, r)
           n == Len(list)
<1>1. n \in Nat /\ (\A k \in 1 .. n : list[k] \in Range_) /\ \A t \in Time : t \in Nat
    BY TimeRangesAssumption DEF Tidy, Time
<1>2. CASE IsEmpty(r)
    <2>1. sum = list BY <1>2 DEF addRangeInPlace
    <2>2. \A t \in Time : ~Within(r, t) BY <1>1, <1>2, RangeFields DEF Within, IsEmpty
    <2> QED BY <2>1, <2>2
<1>3. CASE ~IsEmpty(r)
    <2>1. PICK e, stop : AddedAt(list, r, e, stop) /\ sum =
              SubSeq(list, 1, e - 1) \o <<MergedUpTo(list, r, e, stop)>> \o SubSeq(list, stop, n)
        BY <1>3, AddUnfolds
    <2>2. /\ e \in 1 .. n + 1 /\ stop \in e .. n + 1
          /\ \A j \in 1 .. e - 1 : list[j].end <= r.start
          /\ \A j \in e .. n : r.start < list[j].end
          /\ \A j \in e .. stop - 1 : Overlaps(list[j], MergedUpTo(list, r, e, j))
          /\ stop <= n => ~Overlaps(list[stop], MergedUpTo(list, r, e, stop))
        BY <2>1 DEF AddedAt, FirstNotBefore
    <2>3. /\ r.start \in Nat /\ r.end \in Nat /\ r.start < r.end /\ r.start \in Time /\ r.end \in Time
          /\ \A k \in 1 .. n : /\ list[k].start \in Nat /\ list[k].end \in Nat /\ list[k].start < list[k].end
                               /\ list[k].start \in Time /\ list[k].end \in Time
        BY <1>1, <1>3, RangeFields DEF IsEmpty, Tidy
    <2>4. \A i, j \in 1 .. n : i < j => list[i].end <= list[j].start BY DEF Tidy
    <2> DEFINE m == MergedUpTo(list, r, e, stop)
               p == SubSeq(list, 1, e - 1)
               q == SubSeq(list, stop, n)
    <2>5. stop = e => m = r BY DEF MergedUpTo
    <2>6. stop # e => /\ e \in 1 .. n /\ stop - 1 \in e .. n
                      /\ m = [start |-> MinTime(r.start, list[e].start), end |-> MaxTime(r.end, list[stop - 1].end)]
                      /\ m.start = MinTime(r.start, list[e].start) /\ m.end = MaxTime(r.end, list[stop - 1].end)
        BY <1>1, <2>2 DEF MergedUpTo
    <2> HIDE DEF m
    <2>7. m.start <= r.start /\ r.end <= m.end /\ m.start \in Nat /\ m.end \in Nat
        <3>1. CASE stop = e BY <2>3, <2>5, <3>1
        <3>2. CASE stop # e
            <4>1. list[e].start \in Nat /\ list[stop - 1].end \in Nat BY <1>1, <2>2, <2>3, <2>6, <3>2
            <4> QED BY <2>3, <2>6, <3>2, <4>1 DEF MinTime, MaxTime
        <3> QED BY <3>1, <3>2
    <2>8. m \in Range_
        <3>1. CASE stop = e BY <2>5, <3>1
        <3>2. CASE stop # e
            <4>1. e \in 1 .. n /\ stop - 1 \in 1 .. n BY <1>1, <2>2, <2>6, <3>2
            <4>2. list[e].start \in Time /\ list[stop - 1].end \in Time BY <2>3, <4>1
            <4>3. MinTime(r.start, list[e].start) \in Time /\ MaxTime(r.end, list[stop - 1].end) \in Time
                BY <2>3, <4>2 DEF MinTime, MaxTime
            <4>4. m.start <= m.end BY <2>3, <2>7
            <4> QED BY <2>6, <3>2, <4>3, <4>4 DEF Range_
        <3> QED BY <3>1, <3>2
    <2>9. \A j \in e .. stop - 1 :
             /\ j \in 1 .. n
             /\ m.start <= list[j].start /\ list[j].end <= m.end
             /\ list[j].start < r.end
        <3> SUFFICES ASSUME NEW j \in e .. stop - 1
                     PROVE  /\ j \in 1 .. n /\ m.start <= list[j].start /\ list[j].end <= m.end
                            /\ list[j].start < r.end
            OBVIOUS
        <3>1. j \in 1 .. n /\ stop # e /\ e \in 1 .. n /\ stop - 1 \in 1 .. n /\ e <= j /\ j <= stop - 1
            BY <1>1, <2>2
        <3>2. list[e].start <= list[j].start
            <4>1. e = j \/ e < j BY <2>2, <3>1
            <4>2. e < j => list[e].end <= list[j].start BY <2>4, <3>1
            <4>3. list[e].start < list[e].end BY <2>3, <3>1
            <4>4. list[e].start \in Nat /\ list[e].end \in Nat /\ list[j].start \in Nat BY <2>3, <3>1
            <4> QED BY <4>1, <4>2, <4>3, <4>4
        <3>3. list[j].end <= list[stop - 1].end
            <4>1. j = stop - 1 \/ j < stop - 1 BY <2>2, <3>1
            <4>2. j < stop - 1 => list[j].end <= list[stop - 1].start BY <2>4, <3>1
            <4>3. list[stop - 1].start < list[stop - 1].end BY <2>3, <3>1
            <4>4. list[stop - 1].start \in Nat /\ list[stop - 1].end \in Nat /\ list[j].end \in Nat BY <2>3, <3>1
            <4> QED BY <4>1, <4>2, <4>3, <4>4
        <3>4. m.start <= list[j].start /\ list[j].end <= m.end
            <4>1. /\ list[e].start \in Nat /\ list[stop - 1].end \in Nat
                  /\ list[j].start \in Nat /\ list[j].end \in Nat
                BY <2>3, <3>1
            <4>2. m.start <= list[e].start BY <2>3, <2>6, <3>1, <4>1 DEF MinTime
            <4>3. list[stop - 1].end <= m.end BY <2>3, <2>6, <3>1, <4>1 DEF MaxTime
            <4> QED BY <2>7, <3>2, <3>3, <4>1, <4>2, <4>3
        <3>5. list[j].start < r.end
            <4> DEFINE a == MergedUpTo(list, r, e, j)
            <4>1. list[j].start < a.end BY <2>2 DEF Overlaps
            <4>2. CASE j = e BY <4>1, <4>2 DEF MergedUpTo
            <4>3. CASE j # e
                <5>1. j - 1 \in 1 .. n /\ j - 1 < j BY <2>2, <3>1, <4>3
                <5>2. list[j - 1].end <= list[j].start BY <2>4, <3>1, <5>1
                <5>3. a.end = MaxTime(r.end, list[j - 1].end) BY <4>3 DEF MergedUpTo
                <5>4. list[j - 1].end \in Nat /\ list[j].start \in Nat BY <2>3, <3>1, <5>1
                <5> QED BY <2>3, <4>1, <5>2, <5>3, <5>4 DEF MaxTime
            <4> QED BY <4>2, <4>3
        <3> QED BY <3>1, <3>4, <3>5
    <2>10. ASSUME NEW t \in Time
           PROVE  Within(m, t) <=> Within(r, t) \/ \E j \in e .. stop - 1 : Within(list[j], t)
        <3>1. t \in Nat BY <1>1
        <3>2. Within(r, t) => Within(m, t) BY <2>3, <2>7, <3>1 DEF Within
        <3>3. ASSUME NEW j \in e .. stop - 1, Within(list[j], t) PROVE Within(m, t)
            <4>1. /\ m.start <= list[j].start /\ list[j].end <= m.end
                  /\ list[j].start \in Nat /\ list[j].end \in Nat
                BY <2>3, <2>9
            <4> QED BY <2>7, <3>1, <3>3, <4>1 DEF Within
        <3>4. ASSUME Within(m, t), ~Within(r, t) PROVE \E j \in e .. stop - 1 : Within(list[j], t)
            <4>1. stop # e BY <2>5, <3>4
            <4>2. e \in e .. stop - 1 /\ stop - 1 \in e .. stop - 1 BY <2>2, <2>6, <4>1
            <4>3. /\ list[e].start \in Nat /\ list[e].end \in Nat
                  /\ list[stop - 1].start \in Nat /\ list[stop - 1].end \in Nat
                BY <2>3, <2>9, <4>2
            <4>4. CASE t < r.start
                <5>1. list[e].start <= t BY <2>3, <2>6, <3>1, <3>4, <4>1, <4>3, <4>4 DEF Within, MinTime
                <5>2. r.start < list[e].end BY <2>2, <2>6, <4>1
                <5> QED BY <2>3, <3>1, <4>2, <4>3, <4>4, <5>1, <5>2 DEF Within
            <4>5. CASE r.end <= t
                <5>1. t < list[stop - 1].end BY <2>3, <2>6, <3>1, <3>4, <4>1, <4>3, <4>5 DEF Within, MaxTime
                <5>2. list[stop - 1].start < r.end BY <2>9, <4>2
                <5> QED BY <2>3, <3>1, <4>2, <4>3, <4>5, <5>1, <5>2 DEF Within
            <4> QED BY <2>3, <3>1, <3>4, <4>4, <4>5 DEF Within
        <3> QED BY <3>2, <3>3, <3>4
    <2>11. /\ Tidy(p) /\ Len(p) = e - 1 /\ \A k \in 1 .. e - 1 : p[k] = list[k]
           /\ \A t : Somewhere(p, t) <=> \E k \in 1 .. e - 1 : Within(list[k], t)
        <3>1. 1 \in 1 .. n + 1 /\ e - 1 \in 1 - 1 .. n /\ (e - 1) - 1 + 1 = e - 1 /\ \A k \in 1 .. e - 1 : 1 + k - 1 = k
            BY <1>1, <2>2
        <3>2. /\ Tidy(p) /\ Len(p) = (e - 1) - 1 + 1 /\ \A k \in 1 .. (e - 1) - 1 + 1 : p[k] = list[1 + k - 1]
              /\ \A t : Somewhere(p, t) <=> \E k \in 1 .. e - 1 : Within(list[k], t)
            BY <3>1, TidyPart
        <3> QED BY <3>1, <3>2
    <2>12. /\ Tidy(q) /\ Len(q) = n - stop + 1 /\ \A k \in 1 .. n - stop + 1 : q[k] = list[stop + k - 1]
           /\ \A t : Somewhere(q, t) <=> \E k \in stop .. n : Within(list[k], t)
        <3>1. stop \in 1 .. n + 1 /\ n \in stop - 1 .. n BY <1>1, <2>2
        <3> QED BY <3>1, TidyPart
    <2> HIDE DEF p, q
    <2>13. Tidy(<<m>>) /\ Len(<<m>>) = 1 /\ <<m>>[1] = m /\ \A t : Somewhere(<<m>>, t) <=> Within(m, t)
        BY <2>3, <2>7, <2>8, TidySmall
    <2>14. ASSUME NEW k \in 1 .. Len(p) PROVE p[k].end <= m.start
        <3>1. k \in 1 .. e - 1 /\ k \in 1 .. n /\ p[k] = list[k] BY <1>1, <2>2, <2>11
        <3>2. list[k].end <= r.start /\ list[k].end \in Nat BY <2>2, <2>3, <3>1
        <3>3. CASE stop = e BY <2>5, <3>1, <3>2, <3>3
        <3>4. CASE stop # e
            <4>1. list[k].end <= list[e].start /\ list[e].start \in Nat
                BY <2>2, <2>3, <2>4, <2>6, <3>1, <3>4
            <4> QED BY <2>3, <2>6, <3>1, <3>2, <3>4, <4>1 DEF MinTime
        <3> QED BY <3>3, <3>4
    <2>15. ASSUME NEW k \in 1 .. Len(q) PROVE m.end <= q[k].start
        <3>1. stop \in 1 .. n /\ stop + k - 1 \in 1 .. n /\ q[k] = list[stop + k - 1] /\ (k = 1 \/ stop < stop + k - 1)
            <4>1. k \in 1 .. n - stop + 1 BY <2>12
            <4>2. q[k] = list[stop + k - 1] BY <2>12, <4>1
            <4> QED BY <1>1, <2>2, <4>1, <4>2
        <3>2. ~(list[stop].end > m.start /\ list[stop].start < m.end) BY <2>2, <3>1 DEF Overlaps, m
        <3>3. r.start < list[stop].end /\ list[stop].start \in Nat /\ list[stop].end \in Nat /\ list[stop].start < list[stop].end
            BY <1>1, <2>2, <2>3, <3>1
        <3>4. m.end <= list[stop].start BY <2>3, <2>7, <3>2, <3>3
        <3>5. k = 1 => stop + k - 1 = stop BY <3>1
        <3>6. stop < stop + k - 1 => list[stop].end <= list[stop + k - 1].start BY <2>4, <3>1
        <3>7. list[stop + k - 1].start \in Nat BY <2>3, <3>1
        <3>8. CASE k = 1 BY <3>1, <3>4, <3>5, <3>8
        <3>9. CASE stop < stop + k - 1
            <4>1. m.end <= list[stop].end BY <2>7, <3>3, <3>4, AtMostTransitive, Zenon
            <4>2. m.end <= list[stop + k - 1].start
                BY <2>7, <3>3, <3>6, <3>7, <3>9, <4>1, AtMostTransitive, Zenon
            <4> QED BY <3>1, <4>2
        <3> QED BY <3>1, <3>8, <3>9
    <2> DEFINE pm == p \o <<m>>
    <2>16. /\ Tidy(pm)
           /\ \A k \in 1 .. Len(pm) : (k \in 1 .. Len(p) /\ pm[k] = p[k]) \/ (k - Len(p) \in 1 .. 1 /\ pm[k] = <<m>>[k - Len(p)])
           /\ \A t : Somewhere(pm, t) <=> Somewhere(p, t) \/ Within(m, t)
        <3>1. \A i \in 1 .. Len(p), j \in 1 .. Len(<<m>>) : p[i].end <= <<m>>[j].start BY <2>13, <2>14
        <3> HIDE DEF m
        <3>2. /\ Tidy(pm)
              /\ \A k \in 1 .. Len(pm) : (k \in 1 .. Len(p) /\ pm[k] = p[k]) \/ (k - Len(p) \in 1 .. Len(<<m>>) /\ pm[k] = <<m>>[k - Len(p)])
              /\ \A t : Somewhere(pm, t) <=> Somewhere(p, t) \/ Somewhere(<<m>>, t)
            BY <2>11, <2>13, <3>1, TidyJoined
        <3> QED BY <2>13, <3>2
    <2> HIDE DEF pm
    <2>17. \A i \in 1 .. Len(pm), j \in 1 .. Len(q) : pm[i].end <= q[j].start
        <3> SUFFICES ASSUME NEW i \in 1 .. Len(pm), NEW j \in 1 .. Len(q) PROVE pm[i].end <= q[j].start
            OBVIOUS
        <3>1. m.end <= q[j].start BY <2>15
        <3>2. CASE i \in 1 .. Len(p) /\ pm[i] = p[i]
            <4>1. p[i].end <= m.start /\ i \in 1 .. n /\ p[i] = list[i] BY <1>1, <2>2, <2>11, <2>14, <3>2
            <4>2. stop + j - 1 \in 1 .. n /\ q[j] = list[stop + j - 1] BY <1>1, <2>2, <2>12
            <4>3. list[i].end \in Nat /\ list[stop + j - 1].start \in Nat BY <2>3, <4>1, <4>2
            <4>4. pm[i].end \in Nat /\ pm[i].end <= m.start BY <3>2, <4>1, <4>3
            <4>5. q[j].start \in Nat BY <4>2, <4>3
            <4>6. m.start <= m.end BY <2>3, <2>7
            <4>7. pm[i].end <= m.end BY <2>7, <4>4, <4>6, AtMostTransitive, Zenon
            <4> QED BY <2>7, <3>1, <4>4, <4>5, <4>7, AtMostTransitive, Zenon
        <3>3. CASE i - Len(p) \in 1 .. 1 /\ pm[i] = <<m>>[i - Len(p)] BY <2>13, <3>1, <3>3
        <3> QED BY <2>16, <3>2, <3>3
    <2>18. Tidy(pm \o q) /\ \A t : Somewhere(pm \o q, t) <=> Somewhere(pm, t) \/ Somewhere(q, t)
        BY <2>12, <2>16, <2>17, TidyJoined
    <2>19. sum = pm \o q BY <2>1 DEF pm, p, q, m
    <2>20. ASSUME NEW t \in Time PROVE Somewhere(sum, t) <=> Somewhere(list, t) \/ Within(r, t)
        <3>1. Somewhere(sum, t) <=>
                \/ \E k \in 1 .. e - 1 : Within(list[k], t)
                \/ Within(r, t) \/ \E j \in e .. stop - 1 : Within(list[j], t)
                \/ \E k \in stop .. n : Within(list[k], t)
            BY <2>10, <2>11, <2>12, <2>16, <2>18, <2>19
        <3>2. 1 .. n = (1 .. e - 1) \cup (e .. stop - 1) \cup (stop .. n) BY <1>1, <2>2
        <3>3. Somewhere(list, t) <=>
                \/ \E k \in 1 .. e - 1 : Within(list[k], t)
                \/ \E j \in e .. stop - 1 : Within(list[j], t)
                \/ \E k \in stop .. n : Within(list[k], t)
            BY <3>2 DEF Somewhere
        <3> QED BY <3>1, <3>3
    <2> QED BY <2>18, <2>19, <2>20
<1> QED BY <1>2, <1>3

-----------------------------------------------------------------------------
\* Removing a range from a tidy list.

\* A function applied n times over exists, as the recursive definitions need it.
StepFcns(S, n) == [S \X (1 .. n) -> S]

Iterates(f, S, n, a, G) ==
    /\ f \in [0 .. n -> S]
    /\ f[0] = a
    /\ \A i \in 1 .. n : f[i] = G[<<f[i - 1], i>>]

LEMMA IterationExists ==
    ASSUME NEW S, NEW n \in Nat, NEW a \in S, NEW G \in StepFcns(S, n)
    PROVE  \E f : Iterates(f, S, n, a, G)
<1> USE DEF StepFcns
<1> DEFINE Upto(k, f) == f \in [0 .. k -> S] /\ f[0] = a /\ \A i \in 1 .. k : f[i] = G[<<f[i - 1], i>>]
           Missing == {k \in 0 .. n : ~\E f : Upto(k, f)}
<1>1. ASSUME Missing # {} PROVE FALSE
    <2>1. Missing \subseteq Nat OBVIOUS
    <2> HIDE DEF Missing
    <2>2. PICK k \in Missing : \A l \in Missing : k <= l BY <1>1, <2>1, LeastExists
    <2>3. k \in 0 .. n /\ ~\E f : Upto(k, f) BY <2>2 DEF Missing
    <2>4. k # 0
        <3>1. Upto(0, [i \in 0 .. 0 |-> a]) OBVIOUS
        <3> QED BY <2>3, <3>1
    <2>5. k - 1 \in 0 .. n /\ k - 1 < k /\ k \in 1 .. n BY <2>3, <2>4
    <2>6. k - 1 \notin Missing BY <2>1, <2>2, <2>5
    <2>7. PICK f : Upto(k - 1, f) BY <2>5, <2>6 DEF Missing
    <2> DEFINE g == [i \in 0 .. k |-> IF i = k THEN G[<<f[k - 1], k>>] ELSE f[i]]
    <2>8. f[k - 1] \in S /\ <<f[k - 1], k>> \in S \X (1 .. n) BY <2>5, <2>7
    <2>9. G[<<f[k - 1], k>>] \in S BY <2>8
    <2>10. \A i \in 0 .. k - 1 : i \in 0 .. k /\ i # k /\ f[i] \in S BY <2>5, <2>7
    <2>11. g \in [0 .. k -> S]
        <3>1. \A i \in 0 .. k : i = k \/ i \in 0 .. k - 1 BY <2>5
        <3> QED BY <2>9, <2>10, <3>1
    <2>12. g[0] = a BY <2>5, <2>7
    <2>13. ASSUME NEW i \in 1 .. k PROVE g[i] = G[<<g[i - 1], i>>]
        <3>1. i - 1 \in 0 .. k /\ i - 1 # k /\ i \in 0 .. k BY <2>5
        <3>2. g[i - 1] = f[i - 1] BY <3>1
        <3>3. CASE i = k BY <3>1, <3>2, <3>3
        <3>4. CASE i # k
            <4>1. i \in 1 .. k - 1 BY <2>5, <3>4
            <4> QED BY <2>7, <3>1, <3>2, <3>4, <4>1
        <3> QED BY <3>3, <3>4
    <2>14. Upto(k, g) BY <2>11, <2>12, <2>13
    <2> QED BY <2>3, <2>14
<1>2. n \notin Missing BY <1>1
<1>3. \E f : Upto(n, f) BY <1>2
<1> QED BY <1>3 DEF Iterates

LEMMA FlattenUnfolds ==
    ASSUME NEW S, NEW n \in Nat \ {0}, NEW seqs \in [1 .. n -> Seq(S)]
    PROVE  \E f : /\ Lists!FlattenSeq(seqs) = f[n] /\ f[1] = seqs[1]
                  /\ \A i \in 2 .. n : f[i] = f[i - 1] \o seqs[i]
<1>1. seqs \in Seq(Seq(S)) /\ Len(seqs) = n /\ n # 0 OBVIOUS
<1> DEFINE G == [p \in Seq(S) \X (1 .. n) |-> p[1] \o seqs[p[2]]]
           Is(f) == f = [i \in 1 .. n |-> IF i = 1 THEN seqs[i] ELSE f[i - 1] \o seqs[i]]
<1>2. G \in [Seq(S) \X (1 .. n) -> Seq(S)] /\ \A s \in Seq(S), i \in 1 .. n : G[<<s, i>>] = s \o seqs[i]
    <2>1. \A p \in Seq(S) \X (1 .. n) : p[1] \in Seq(S) /\ p[2] \in 1 .. n /\ seqs[p[2]] \in Seq(S) OBVIOUS
    <2>2. \A s, u \in Seq(S) : s \o u \in Seq(S) OBVIOUS
    <2>3. \A p \in Seq(S) \X (1 .. n) : p[1] \o seqs[p[2]] \in Seq(S) BY <2>1, <2>2
    <2>4. \A s \in Seq(S), i \in 1 .. n : <<s, i>> \in Seq(S) \X (1 .. n) /\ <<s, i>>[1] = s /\ <<s, i>>[2] = i OBVIOUS
    <2> QED BY <2>3, <2>4
<1> HIDE DEF G
<1>3. <<>> \in Seq(S) /\ n \in Nat OBVIOUS
<1>4. PICK g \in [0 .. n -> Seq(S)] : g[0] = <<>> /\ \A i \in 1 .. n : g[i] = G[<<g[i - 1], i>>]
    <2>1. G \in StepFcns(Seq(S), n) BY <1>2 DEF StepFcns
    <2>2. \E g : Iterates(g, Seq(S), n, <<>>, G) BY <1>3, <2>1, IterationExists
    <2> QED BY <2>2 DEF Iterates
<1>5. \A i \in 1 .. n : g[i] = g[i - 1] \o seqs[i]
    <2>1. \A i \in 1 .. n : i - 1 \in 0 .. n BY <1>1
    <2> QED BY <1>2, <1>4, <2>1
<1>6. g[1] = seqs[1]
    <2>1. 1 \in 1 .. n /\ 1 - 1 = 0 /\ seqs[1] \in Seq(S) BY <1>1
    <2>2. g[1] = <<>> \o seqs[1] BY <1>4, <1>5, <2>1
    <2> QED BY <2>1, <2>2
<1> DEFINE h == [i \in 1 .. n |-> g[i]]
<1>7. Is(h)
    <2>1. ASSUME NEW i \in 1 .. n PROVE g[i] = IF i = 1 THEN seqs[i] ELSE h[i - 1] \o seqs[i]
        <3>1. CASE i = 1 BY <1>6, <3>1
        <3>2. CASE i # 1
            <4>1. i - 1 \in 1 .. n BY <3>2
            <4> QED BY <1>5, <3>2, <4>1
        <3> QED BY <3>1, <3>2
    <2> QED BY <2>1
<1>8. PICK f : f = CHOOSE x : Is(x) OBVIOUS
<1>9. Is(f)
    <2> HIDE DEF Is
    <2> QED BY <1>7, <1>8
<1>10. Lists!FlattenSeq(seqs) = f[n] BY <1>1, <1>8 DEF Lists!FlattenSeq
<1>11. f[1] = seqs[1] /\ \A i \in 2 .. n : f[i] = f[i - 1] \o seqs[i]
    <2>1. \A i \in 1 .. n : f[i] = IF i = 1 THEN seqs[i] ELSE f[i - 1] \o seqs[i] BY <1>9
    <2>2. 1 \in 1 .. n /\ \A i \in 2 .. n : i \in 1 .. n /\ i # 1 BY <1>1
    <2> HIDE DEF Is
    <2> QED BY <2>1, <2>2
<1> QED BY <1>10, <1>11

RemoveStop(list, r, e) ==
    CHOOSE i \in e .. Len(list) + 1 :
        /\ i = Len(list) + 1 \/ ~Overlaps(list[i], r)
        /\ \A j \in e .. i - 1 : ~~Overlaps(list[j], r)

RemoveLeaves(list, r, e, stop) == [i \in 1 .. stop - e |-> Subtract(list[e + i - 1], r)]

LEMMA RemoveIs ==
    ASSUME NEW list, NEW r
    PROVE  removeRangeInPlace(list, r) =
               IF IsEmpty(r) THEN list
               ELSE SubSeq(list, 1, findFirstNotBefore(list, r) - 1)
                    \o Lists!FlattenSeq(RemoveLeaves(list, r, findFirstNotBefore(list, r),
                                                     RemoveStop(list, r, findFirstNotBefore(list, r))))
                    \o SubSeq(list, RemoveStop(list, r, findFirstNotBefore(list, r)), Len(list))
BY DEF removeRangeInPlace, FirstFrom, RemoveStop, RemoveLeaves

\* The ranges from e up to stop - 1 overlap r, the range at stop does not.
RemovedAt(list, r, e, stop) ==
    /\ e \in 1 .. Len(list) + 1 /\ stop \in e .. Len(list) + 1
    /\ FirstNotBefore(list, r, e)
    /\ \A j \in e .. stop - 1 : Overlaps(list[j], r)
    /\ stop <= Len(list) => ~Overlaps(list[stop], r)

LEMMA RemoveUnfolds ==
    ASSUME NEW list, Tidy(list), NEW r \in Range_, ~IsEmpty(r)
    PROVE  \E e, stop : RemovedAt(list, r, e, stop) /\ removeRangeInPlace(list, r) =
               SubSeq(list, 1, e - 1) \o Lists!FlattenSeq(RemoveLeaves(list, r, e, stop)) \o SubSeq(list, stop, Len(list))
<1> DEFINE n == Len(list)
<1>1. n \in Nat BY DEF Tidy
<1>2. PICK e : e = findFirstNotBefore(list, r) /\ FirstNotBefore(list, r, e)
    BY FirstNotBeforeFound
<1>3. e \in 1 .. n + 1 BY <1>2 DEF FirstNotBefore
<1> DEFINE F(i) == (i = n + 1 \/ ~Overlaps(list[i], r)) /\ \A j \in e .. i - 1 : ~~Overlaps(list[j], r)
           S == {i \in e .. n : ~Overlaps(list[i], r)}
<1>4. \E i \in e .. n + 1 : F(i)
    <2> HIDE DEF S
    <2>1. PICK i \in e .. n + 1 : (i = n + 1 \/ i \in S) /\ \A j \in e .. i - 1 : j \notin S
        BY <1>1, <1>3, FirstOfExists
    <2> USE DEF S
    <2>2. \A j \in e .. i - 1 : j \in e .. n BY <1>1, <1>3, <2>1
    <2> QED BY <2>1, <2>2
<1>5. PICK stop : stop = RemoveStop(list, r, e) OBVIOUS
<1>6. stop \in e .. n + 1 /\ F(stop)
    <2>1. stop = CHOOSE i \in e .. n + 1 : F(i) BY <1>5 DEF RemoveStop
    <2> HIDE DEF F
    <2> QED BY <1>4, <2>1
<1>7. removeRangeInPlace(list, r) =
          SubSeq(list, 1, e - 1) \o Lists!FlattenSeq(RemoveLeaves(list, r, e, stop)) \o SubSeq(list, stop, n)
    BY <1>2, <1>5, RemoveIs
<1>8. RemovedAt(list, r, e, stop)
    <2>1. stop <= n => ~Overlaps(list[stop], r) BY <1>1, <1>3, <1>6
    <2> QED BY <1>2, <1>3, <1>6, <2>1 DEF RemovedAt
<1> QED BY <1>7, <1>8

\* The list s is what is left of the k ranges of list from e on.
LeftOf(list, r, e, k, s) ==
    /\ Tidy(s)
    /\ \A i \in 1 .. Len(s) : list[e].start <= s[i].start /\ s[i].end <= list[e + k - 1].end
    /\ \A t \in Time : Somewhere(s, t) <=> (\E j \in e .. e + k - 1 : Within(list[j], t)) /\ ~Within(r, t)

LEMMA LeftOfStep ==
    ASSUME NEW list, Tidy(list), NEW r \in Range_, NEW e \in 1 .. Len(list), NEW k \in Nat,
           1 < k, e + k - 1 \in 1 .. Len(list), NEW s, LeftOf(list, r, e, k - 1, s)
    PROVE  LeftOf(list, r, e, k, s \o Subtract(list[e + k - 1], r))
<1> DEFINE n == Len(list)
           x == list[e + k - 1]
           u == Subtract(x, r)
           su == s \o u
<1>1. n \in Nat /\ e \in 1 .. n /\ e + k - 1 \in 1 .. n /\ e + k - 2 \in 1 .. n /\ e + (k - 1) - 1 = e + k - 2
    BY DEF Tidy
<1>2. \A i \in 1 .. n : /\ list[i] \in Range_ /\ list[i].start < list[i].end
                        /\ list[i].start \in Nat /\ list[i].end \in Nat
    BY RangeFields DEF Tidy
<1>3. \A i, j \in 1 .. n : i < j => list[i].end <= list[j].start BY DEF Tidy
<1>4. /\ Tidy(u)
      /\ \A j \in 1 .. Len(u) : x.start <= u[j].start /\ u[j].end <= x.end
      /\ \A t \in Time : Somewhere(u, t) <=> Within(x, t) /\ ~Within(r, t)
    BY <1>1, <1>2, SubtractLeaves
<1>5. /\ Tidy(s)
      /\ \A i \in 1 .. Len(s) : list[e].start <= s[i].start /\ s[i].end <= list[e + k - 2].end
      /\ \A t \in Time : Somewhere(s, t) <=> (\E j \in e .. e + k - 2 : Within(list[j], t)) /\ ~Within(r, t)
    BY <1>1 DEF LeftOf
<1>6. list[e].start <= x.start /\ list[e + k - 2].end <= x.start /\ list[e + k - 2].end <= x.end
    <2>1. e < e + k - 1 /\ e + k - 2 < e + k - 1 BY <1>1
    <2>2. list[e].end <= x.start /\ list[e + k - 2].end <= x.start BY <1>1, <1>3, <2>1
    <2>3. /\ list[e].start \in Nat /\ list[e].end \in Nat /\ list[e].start < list[e].end
          /\ x.start \in Nat /\ x.end \in Nat /\ x.start < x.end /\ list[e + k - 2].end \in Nat
        BY <1>1, <1>2
    <2> QED BY <2>2, <2>3, AtMostTransitive, Zenon
<1>7. /\ x.start \in Nat /\ x.end \in Nat /\ list[e].start \in Nat /\ list[e + k - 2].end \in Nat
      /\ \A i \in 1 .. Len(s) : s[i].start \in Nat /\ s[i].end \in Nat
      /\ \A i \in 1 .. Len(u) : u[i].start \in Nat /\ u[i].end \in Nat
    <2>1. \A i \in 1 .. Len(s) : s[i] \in Range_ BY <1>5 DEF Tidy
    <2>2. \A i \in 1 .. Len(u) : u[i] \in Range_ BY <1>4 DEF Tidy
    <2> QED BY <1>1, <1>2, <2>1, <2>2, RangeFields
<1> HIDE DEF x, u
<1>8. \A i \in 1 .. Len(s), j \in 1 .. Len(u) : s[i].end <= u[j].start
    <2> SUFFICES ASSUME NEW i \in 1 .. Len(s), NEW j \in 1 .. Len(u) PROVE s[i].end <= u[j].start
        OBVIOUS
    <2>1. s[i].end <= list[e + k - 2].end /\ s[i].end \in Nat BY <1>5, <1>7
    <2>2. x.start <= u[j].start /\ u[j].start \in Nat BY <1>4, <1>7
    <2>3. list[e + k - 2].end <= x.start /\ list[e + k - 2].end \in Nat /\ x.start \in Nat BY <1>6, <1>7
    <2>4. s[i].end <= x.start BY <2>1, <2>3, AtMostTransitive, Zenon
    <2> QED BY <2>1, <2>2, <2>3, <2>4, AtMostTransitive, Zenon
<1>9. /\ Tidy(su)
      /\ \A i \in 1 .. Len(su) : (i \in 1 .. Len(s) /\ su[i] = s[i]) \/ (i - Len(s) \in 1 .. Len(u) /\ su[i] = u[i - Len(s)])
      /\ \A t : Somewhere(su, t) <=> Somewhere(s, t) \/ Somewhere(u, t)
    BY <1>4, <1>5, <1>8, TidyJoined
<1>10. ASSUME NEW i \in 1 .. Len(su) PROVE list[e].start <= su[i].start /\ su[i].end <= x.end
    <2> HIDE DEF su
    <2>1. CASE i \in 1 .. Len(s) /\ su[i] = s[i]
        <3>1. list[e].start <= s[i].start /\ s[i].end <= list[e + k - 2].end /\ s[i].end \in Nat BY <1>5, <1>7, <2>1
        <3>2. list[e + k - 2].end <= x.end /\ list[e + k - 2].end \in Nat /\ x.end \in Nat BY <1>6, <1>7
        <3>3. s[i].end <= x.end BY <3>1, <3>2, AtMostTransitive, Zenon
        <3> QED BY <2>1, <3>1, <3>3
    <2>2. CASE i - Len(s) \in 1 .. Len(u) /\ su[i] = u[i - Len(s)]
        <3>1. PICK j \in 1 .. Len(u) : su[i] = u[j] BY <2>2
        <3>2. x.start <= u[j].start /\ u[j].end <= x.end /\ u[j].start \in Nat BY <1>4, <1>7
        <3>3. list[e].start <= x.start /\ list[e].start \in Nat /\ x.start \in Nat BY <1>6, <1>7
        <3>4. list[e].start <= u[j].start BY <3>2, <3>3, AtMostTransitive, Zenon
        <3> QED BY <3>1, <3>2, <3>4
    <2> QED BY <1>9, <2>1, <2>2
<1>11. ASSUME NEW t \in Time
       PROVE  Somewhere(su, t) <=> (\E j \in e .. e + k - 1 : Within(list[j], t)) /\ ~Within(r, t)
    <2>1. e .. e + k - 1 = (e .. e + k - 2) \cup {e + k - 1} BY <1>1
    <2>2. (\E j \in e .. e + k - 1 : Within(list[j], t)) <=>
              (\E j \in e .. e + k - 2 : Within(list[j], t)) \/ Within(x, t)
        BY <2>1 DEF x
    <2> QED BY <1>4, <1>5, <1>9, <2>2
<1> HIDE DEF su
<1>12. LeftOf(list, r, e, k, su) BY <1>9, <1>10, <1>11 DEF LeftOf, x
<1> QED BY <1>12 DEF su, u, x

LEMMA LeftOfAll ==
    ASSUME NEW list, Tidy(list), NEW r \in Range_, NEW e \in 1 .. Len(list), NEW c \in Nat \ {0},
           e + c - 1 \in 1 .. Len(list), NEW stop, stop = e + c
    PROVE  LeftOf(list, r, e, c, Lists!FlattenSeq(RemoveLeaves(list, r, e, stop)))
<1> DEFINE n == Len(list)
           left == RemoveLeaves(list, r, e, stop)
<1>1. n \in Nat /\ (\A i \in 1 .. n : list[i] \in Range_ /\ list[i].start < list[i].end) /\ stop - e = c
    BY DEF Tidy
<1>2. \A k \in 1 .. c : e + k - 1 \in 1 .. n BY <1>1
<1>3. /\ left \in [1 .. c -> Seq(Range_)]
      /\ \A k \in 1 .. c : left[k] = Subtract(list[e + k - 1], r)
    <2>1. ASSUME NEW k \in 1 .. c PROVE Subtract(list[e + k - 1], r) \in Seq(Range_)
        <3>1. list[e + k - 1] \in Range_ /\ list[e + k - 1].start < list[e + k - 1].end BY <1>1, <1>2
        <3>2. Tidy(Subtract(list[e + k - 1], r)) BY <3>1, SubtractLeaves
        <3> QED BY <3>2 DEF Tidy
    <2>2. left = [k \in 1 .. c |-> Subtract(list[e + k - 1], r)] BY <1>1 DEF RemoveLeaves
    <2> QED BY <2>1, <2>2
<1> HIDE DEF left
<1>4. PICK f : /\ Lists!FlattenSeq(left) = f[c] /\ f[1] = left[1]
               /\ \A k \in 2 .. c : f[k] = f[k - 1] \o left[k]
    BY <1>3, FlattenUnfolds, ZenonT(60)
<1> DEFINE Wrong == {k \in 1 .. c : ~LeftOf(list, r, e, k, f[k])}
<1>5. ASSUME Wrong # {} PROVE FALSE
    <2>1. Wrong \subseteq Nat OBVIOUS
    <2> HIDE DEF Wrong
    <2>2. PICK k \in Wrong : \A l \in Wrong : k <= l BY <1>5, <2>1, LeastExists
    <2>3. k \in 1 .. c /\ ~LeftOf(list, r, e, k, f[k]) BY <2>2 DEF Wrong
    <2>4. CASE k = 1
        <3>1. f[1] = Subtract(list[e], r) /\ e + 1 - 1 = e
            <4>1. 1 \in 1 .. c /\ e + 1 - 1 = e OBVIOUS
            <4>2. left[1] = Subtract(list[e + 1 - 1], r) BY <1>3, <4>1
            <4> QED BY <1>4, <4>1, <4>2
        <3>2. /\ Tidy(f[1])
              /\ \A i \in 1 .. Len(f[1]) : list[e].start <= f[1][i].start /\ f[1][i].end <= list[e].end
              /\ \A t \in Time : Somewhere(f[1], t) <=> Within(list[e], t) /\ ~Within(r, t)
            <4>1. PICK a \in Range_ : a = list[e] /\ a.start < a.end BY <1>1
            <4>2. r \in Range_ /\ a.start < a.end BY <4>1
            <4>3. LET l == Subtract(a, r) IN
                  /\ Tidy(l)
                  /\ \A i \in 1 .. Len(l) : a.start <= l[i].start /\ l[i].end <= a.end
                  /\ \A t \in Time : Somewhere(l, t) <=> Within(a, t) /\ ~Within(r, t)
                BY <4>2, SubtractLeaves, Zenon
            <4> QED BY <3>1, <4>1, <4>3
        <3>3. \A t : (\E j \in e .. e : Within(list[j], t)) <=> Within(list[e], t)
            <4>1. e .. e = {e} OBVIOUS
            <4> QED BY <4>1
        <3>4. LeftOf(list, r, e, 1, f[1]) BY <3>1, <3>2, <3>3 DEF LeftOf
        <3> QED BY <2>3, <2>4, <3>4
    <2>5. CASE k # 1
        <3>1. k \in Nat /\ 1 < k /\ k \in 2 .. c /\ k - 1 \in 1 .. c /\ k - 1 < k BY <2>3, <2>5
        <3>2. k - 1 \notin Wrong BY <2>1, <2>2, <3>1
        <3>3. LeftOf(list, r, e, k - 1, f[k - 1]) BY <3>1, <3>2 DEF Wrong
        <3>4. f[k] = f[k - 1] \o Subtract(list[e + k - 1], r) BY <1>3, <1>4, <2>3, <3>1
        <3>5. e + k - 1 \in 1 .. Len(list) BY <1>2, <2>3
        <3>6. LeftOf(list, r, e, k, f[k - 1] \o Subtract(list[e + k - 1], r))
            BY <3>1, <3>3, <3>5, LeftOfStep
        <3> QED BY <2>3, <3>4, <3>6
    <2> QED BY <2>4, <2>5
<1>6. c \in 1 .. c /\ c \notin Wrong BY <1>5
<1>7. LeftOf(list, r, e, c, f[c]) BY <1>6
<1> QED BY <1>4, <1>7 DEF left

LEMMA RangeRemoved ==
    ASSUME NEW list, Tidy(list), NEW r \in Range_
    PROVE  LET rest == removeRangeInPlace(list, r) IN
           /\ Tidy(rest)
           /\ \A t \in Time : Somewhere(rest, t) <=> Somewhere(list, t) /\ ~Within(r, t)
<1> DEFINE rest == removeRangeInPlace(list, r)
           n == Len(list)
<1>1. n \in Nat /\ (\A k \in 1 .. n : list[k] \in Range_) /\ \A t \in Time : t \in Nat
    BY TimeRangesAssumption DEF Tidy, Time
<1>2. CASE IsEmpty(r)
    <2>1. rest = list BY <1>2 DEF removeRangeInPlace
    <2>2. \A t \in Time : ~Within(r, t) BY <1>1, <1>2, RangeFields DEF Within, IsEmpty
    <2> QED BY <2>1, <2>2
<1>3. CASE ~IsEmpty(r)
    <2>1. PICK e, stop : RemovedAt(list, r, e, stop) /\ rest =
              SubSeq(list, 1, e - 1) \o Lists!FlattenSeq(RemoveLeaves(list, r, e, stop)) \o SubSeq(list, stop, n)
        BY <1>3, RemoveUnfolds
    <2>2. /\ e \in 1 .. n + 1 /\ stop \in e .. n + 1
          /\ \A j \in 1 .. e - 1 : list[j].end <= r.start
          /\ \A j \in e .. n : r.start < list[j].end
          /\ stop <= n => ~Overlaps(list[stop], r)
        BY <2>1 DEF RemovedAt, FirstNotBefore
    <2>3. /\ r.start \in Nat /\ r.end \in Nat /\ r.start < r.end
          /\ \A k \in 1 .. n : list[k].start \in Nat /\ list[k].end \in Nat /\ list[k].start < list[k].end
        BY <1>1, <1>3, RangeFields DEF IsEmpty, Tidy
    <2>4. \A i, j \in 1 .. n : i < j => list[i].end <= list[j].start BY DEF Tidy
    <2> DEFINE p == SubSeq(list, 1, e - 1)
               s == Lists!FlattenSeq(RemoveLeaves(list, r, e, stop))
               q == SubSeq(list, stop, n)
    <2>5. /\ Tidy(p) /\ Len(p) = e - 1 /\ \A k \in 1 .. e - 1 : p[k] = list[k]
          /\ \A t : Somewhere(p, t) <=> \E k \in 1 .. e - 1 : Within(list[k], t)
        <3>1. 1 \in 1 .. n + 1 /\ e - 1 \in 1 - 1 .. n /\ (e - 1) - 1 + 1 = e - 1 /\ \A k \in 1 .. e - 1 : 1 + k - 1 = k
            BY <1>1, <2>2
        <3>2. /\ Tidy(p) /\ Len(p) = (e - 1) - 1 + 1 /\ \A k \in 1 .. (e - 1) - 1 + 1 : p[k] = list[1 + k - 1]
              /\ \A t : Somewhere(p, t) <=> \E k \in 1 .. e - 1 : Within(list[k], t)
            BY <3>1, TidyPart
        <3> QED BY <3>1, <3>2
    <2>6. /\ Tidy(q) /\ Len(q) = n - stop + 1 /\ \A k \in 1 .. n - stop + 1 : q[k] = list[stop + k - 1]
          /\ \A t : Somewhere(q, t) <=> \E k \in stop .. n : Within(list[k], t)
        <3>1. stop \in 1 .. n + 1 /\ n \in stop - 1 .. n BY <1>1, <2>2
        <3> QED BY <3>1, TidyPart
    <2>7. /\ Tidy(s)
          /\ \A i \in 1 .. Len(s) : /\ e \in 1 .. n /\ stop - 1 \in 1 .. n /\ e < stop
                                    /\ list[e].start <= s[i].start /\ s[i].end <= list[stop - 1].end
          /\ \A t \in Time : Somewhere(s, t) <=> (\E j \in e .. stop - 1 : Within(list[j], t)) /\ ~Within(r, t)
        <3>1. CASE stop = e
            <4>1. 1 .. stop - e = {} /\ e .. stop - 1 = {} BY <2>2, <3>1
            <4>2. RemoveLeaves(list, r, e, stop) = <<>> BY <4>1 DEF RemoveLeaves
            <4>3. Len(<<>>) = 0 OBVIOUS
            <4>4. s = <<>> BY <4>2, <4>3 DEF Lists!FlattenSeq
            <4> HIDE DEF s
            <4>5. 1 .. Len(s) = {} BY <4>4
            <4> QED BY <4>1, <4>4, <4>5, TidySmall
        <3>2. CASE stop # e
            <4>1. PICK c : c = stop - e OBVIOUS
            <4> HIDE DEF s
            <4>2. c \in Nat \ {0} /\ e \in 1 .. n /\ e + c - 1 = stop - 1 /\ stop - 1 \in 1 .. n /\ stop = e + c /\ e < stop
                <5>1. n \in Nat /\ e \in 1 .. n + 1 /\ stop \in e .. n + 1 BY <1>1, <2>2
                <5> QED BY <3>2, <4>1, <5>1
            <4>3. LeftOf(list, r, e, c, s) BY <4>2, LeftOfAll DEF s
            <4> QED BY <4>2, <4>3 DEF LeftOf
        <3> QED BY <3>1, <3>2
    <2> HIDE DEF p, s, q
    <2>8. \A i, j \in 1 .. n : i <= j => list[i].start <= list[j].start /\ list[i].end <= list[j].end
        <3> SUFFICES ASSUME NEW i \in 1 .. n, NEW j \in 1 .. n, i < j
                     PROVE  list[i].start <= list[j].start /\ list[i].end <= list[j].end
            BY <2>3
        <3>1. list[i].end <= list[j].start BY <2>4
        <3> QED BY <2>3, <3>1
    <2>9. \A i \in 1 .. Len(s) : s[i].start \in Nat /\ s[i].end \in Nat
        <3>1. \A i \in 1 .. Len(s) : s[i] \in Range_ BY <2>7 DEF Tidy
        <3> QED BY <3>1, RangeFields
    <2>10. ASSUME NEW i \in 1 .. Len(p), NEW j \in 1 .. Len(s) PROVE p[i].end <= s[j].start
        <3>1. i \in 1 .. n /\ e \in 1 .. n /\ i < e /\ p[i] = list[i] BY <1>1, <2>2, <2>5, <2>7
        <3>2. list[i].end <= list[e].start /\ list[e].start <= s[j].start BY <2>4, <2>7, <3>1
        <3>3. list[i].end \in Nat /\ list[e].start \in Nat /\ s[j].start \in Nat BY <2>3, <2>9, <3>1
        <3> QED BY <3>1, <3>2, <3>3
    <2> DEFINE ps == p \o s
    <2>11. /\ Tidy(ps)
           /\ \A k \in 1 .. Len(ps) : (k \in 1 .. Len(p) /\ ps[k] = p[k]) \/ (k - Len(p) \in 1 .. Len(s) /\ ps[k] = s[k - Len(p)])
           /\ \A t : Somewhere(ps, t) <=> Somewhere(p, t) \/ Somewhere(s, t)
        BY <2>5, <2>7, <2>10, TidyJoined
    <2> HIDE DEF ps
    <2>12. ASSUME NEW i \in 1 .. Len(ps), NEW j \in 1 .. Len(q) PROVE ps[i].end <= q[j].start
        <3>0. j \in 1 .. n - stop + 1 BY <2>6
        <3>1. stop + j - 1 \in 1 .. n /\ stop \in 1 .. n /\ q[j] = list[stop + j - 1] BY <1>1, <2>2, <2>6, <3>0
        <3>2. list[stop + j - 1].start \in Nat BY <2>3, <3>1
        <3>3. CASE i \in 1 .. Len(p) /\ ps[i] = p[i]
            <4>1. i \in 1 .. n /\ p[i] = list[i] /\ i < stop + j - 1 BY <1>1, <2>2, <2>5, <3>3
            <4> QED BY <2>4, <3>1, <3>3, <4>1
        <3>4. CASE i - Len(p) \in 1 .. Len(s) /\ ps[i] = s[i - Len(p)]
            <4>1. PICK k \in 1 .. Len(s) : ps[i] = s[k] BY <3>4
            <4>2. stop - 1 \in 1 .. n /\ s[k].end <= list[stop - 1].end BY <2>7
            <4>3. stop - 1 < stop + j - 1 BY <2>2
            <4>4. list[stop - 1].end <= list[stop + j - 1].start BY <2>4, <3>1, <4>2, <4>3
            <4>5. list[stop - 1].end \in Nat /\ s[k].end \in Nat BY <2>3, <2>9, <4>2
            <4>6. q[j].start \in Nat /\ list[stop - 1].end <= q[j].start BY <3>1, <3>2, <4>4
            <4>7. s[k].end <= q[j].start BY <4>2, <4>5, <4>6, AtMostTransitive, Zenon
            <4> QED BY <4>1, <4>7
        <3> QED BY <2>11, <3>3, <3>4
    <2>13. Tidy(ps \o q) /\ \A t : Somewhere(ps \o q, t) <=> Somewhere(ps, t) \/ Somewhere(q, t)
        BY <2>6, <2>11, <2>12, TidyJoined
    <2>14. rest = ps \o q BY <2>1 DEF ps, p, s, q
    <2>15. ASSUME NEW t \in Time PROVE Somewhere(rest, t) <=> Somewhere(list, t) /\ ~Within(r, t)
        <3>1. Somewhere(rest, t) <=>
                \/ \E k \in 1 .. e - 1 : Within(list[k], t)
                \/ (\E j \in e .. stop - 1 : Within(list[j], t)) /\ ~Within(r, t)
                \/ \E k \in stop .. n : Within(list[k], t)
            BY <2>5, <2>6, <2>7, <2>11, <2>13, <2>14
        <3>2. 1 .. n = (1 .. e - 1) \cup (e .. stop - 1) \cup (stop .. n) BY <1>1, <2>2
        <3>3. Somewhere(list, t) <=>
                \/ \E k \in 1 .. e - 1 : Within(list[k], t)
                \/ \E j \in e .. stop - 1 : Within(list[j], t)
                \/ \E k \in stop .. n : Within(list[k], t)
            BY <3>2 DEF Somewhere
        <3>4. ASSUME NEW k \in 1 .. e - 1, Within(list[k], t) PROVE ~Within(r, t)
            <4>1. k \in 1 .. n /\ t \in Nat BY <1>1, <2>2
            <4>2. list[k].end <= r.start /\ list[k].end \in Nat BY <2>2, <2>3, <4>1
            <4> QED BY <2>3, <3>4, <4>1, <4>2 DEF Within
        <3>5. ASSUME NEW k \in stop .. n, Within(list[k], t) PROVE ~Within(r, t)
            <4>1. k \in 1 .. n /\ stop \in 1 .. n /\ stop <= k /\ t \in Nat BY <1>1, <2>2
            <4>2. ~(list[stop].end > r.start /\ list[stop].start < r.end) BY <2>2, <4>1 DEF Overlaps
            <4>3. r.start < list[stop].end /\ list[stop].start \in Nat /\ list[stop].end \in Nat /\ list[k].start \in Nat
                BY <1>1, <2>2, <2>3, <4>1
            <4>4. list[stop].start <= list[k].start BY <2>8, <4>1
            <4> QED BY <2>3, <3>5, <4>1, <4>2, <4>3, <4>4 DEF Within
        <3> QED BY <3>1, <3>3, <3>4, <3>5
    <2> QED BY <2>13, <2>14, <2>15
<1> QED BY <1>2, <1>3

-----------------------------------------------------------------------------
\* Adding and removing all ranges of another list.

TidyLists == {list \in Seq(Range_) : Tidy(list)}

LEMMA AddedAllUnfolds ==
    ASSUME NEW list, Tidy(list), NEW other \in Seq(Range_), NEW n, n = Len(other)
    PROVE  \E f : /\ AddedAll(list, other) = f[n] /\ f[0] = list
                  /\ \A i \in 1 .. n : f[i] = addRangeInPlace(f[i - 1], other[i])
<1> DEFINE G == [p \in TidyLists \X (1 .. n) |-> addRangeInPlace(p[1], other[p[2]])]
           Is(f) == f = [i \in 0 .. n |-> IF i = 0 THEN list ELSE addRangeInPlace(f[i - 1], other[i])]
<1>1. n \in Nat /\ \A i \in 1 .. n : other[i] \in Range_ OBVIOUS
<1>2. G \in StepFcns(TidyLists, n) /\ \A l \in TidyLists, i \in 1 .. n : G[<<l, i>>] = addRangeInPlace(l, other[i])
    <2>1. ASSUME NEW p \in TidyLists \X (1 .. n) PROVE addRangeInPlace(p[1], other[p[2]]) \in TidyLists
        <3>1. Tidy(p[1]) /\ other[p[2]] \in Range_ BY <1>1 DEF TidyLists
        <3>2. Tidy(addRangeInPlace(p[1], other[p[2]])) BY <3>1, RangeAdded
        <3> QED BY <3>2 DEF TidyLists, Tidy
    <2>2. \A l \in TidyLists, i \in 1 .. n : <<l, i>> \in TidyLists \X (1 .. n) /\ <<l, i>>[1] = l /\ <<l, i>>[2] = i
        OBVIOUS
    <2> QED BY <2>1, <2>2 DEF StepFcns
<1> HIDE DEF G
<1>3. list \in TidyLists BY DEF TidyLists, Tidy
<1>4. PICK g : Iterates(g, TidyLists, n, list, G) BY <1>1, <1>2, <1>3, IterationExists
<1>5. g \in [0 .. n -> TidyLists] /\ g[0] = list /\ \A i \in 1 .. n : g[i] = G[<<g[i - 1], i>>]
    BY <1>4 DEF Iterates
<1>6. \A i \in 1 .. n : g[i] = addRangeInPlace(g[i - 1], other[i])
    <2>1. \A i \in 1 .. n : i - 1 \in 0 .. n BY <1>1
    <2> QED BY <1>2, <1>5, <2>1
<1>7. Is(g)
    <2>1. \A i \in 0 .. n : g[i] = IF i = 0 THEN list ELSE addRangeInPlace(g[i - 1], other[i])
        <3>1. \A i \in 0 .. n : i = 0 \/ i \in 1 .. n BY <1>1
        <3>2. \A i \in 1 .. n : i # 0 OBVIOUS
        <3> QED BY <1>5, <1>6, <3>1, <3>2
    <2> QED BY <1>5, <2>1
<1>8. PICK f : f = CHOOSE x : Is(x) OBVIOUS
<1>9. Is(f)
    <2> HIDE DEF Is
    <2> QED BY <1>7, <1>8
<1>10. AddedAll(list, other) = f[n] BY <1>8 DEF AddedAll
<1>11. f[0] = list /\ \A i \in 1 .. n : f[i] = addRangeInPlace(f[i - 1], other[i])
    <2>1. \A i \in 0 .. n : f[i] = IF i = 0 THEN list ELSE addRangeInPlace(f[i - 1], other[i]) BY <1>9
    <2>2. 0 \in 0 .. n /\ \A i \in 1 .. n : i \in 0 .. n /\ i # 0 BY <1>1
    <2> HIDE DEF Is
    <2> QED BY <2>1, <2>2
<1> QED BY <1>10, <1>11

LEMMA RangesAdded ==
    ASSUME NEW list, Tidy(list), NEW other, Tidy(other)
    PROVE  LET sum == AddedAll(list, other) IN
           /\ Tidy(sum)
           /\ \A t \in Time : Somewhere(sum, t) <=> Somewhere(list, t) \/ Somewhere(other, t)
<1>1. PICK n : n = Len(other) OBVIOUS
<1>2. n \in Nat /\ other \in Seq(Range_) /\ \A i \in 1 .. n : other[i] \in Range_ BY <1>1 DEF Tidy
<1>3. PICK f : /\ AddedAll(list, other) = f[n] /\ f[0] = list
               /\ \A i \in 1 .. n : f[i] = addRangeInPlace(f[i - 1], other[i])
    BY <1>1, <1>2, AddedAllUnfolds
<1> DEFINE Any(k, t) == \E i \in 1 .. k : Within(other[i], t)
           Right(k) == /\ Tidy(f[k])
                       /\ \A t \in Time : Somewhere(f[k], t) <=> Somewhere(list, t) \/ Any(k, t)
           Wrong == {k \in 0 .. n : ~Right(k)}
<1>4. ASSUME Wrong # {} PROVE FALSE
    <2>1. Wrong \subseteq Nat OBVIOUS
    <2> HIDE DEF Wrong
    <2>2. PICK k \in Wrong : \A l \in Wrong : k <= l BY <1>4, <2>1, LeastExists
    <2>3. k \in 0 .. n /\ ~Right(k) BY <2>2 DEF Wrong
    <2>4. k # 0
        <3>1. 1 .. 0 = {} OBVIOUS
        <3>2. Right(0) BY <1>3, <3>1
        <3> QED BY <2>3, <3>2
    <2>5. k \in 1 .. n /\ k - 1 \in 0 .. n /\ k - 1 < k BY <1>2, <2>3, <2>4
    <2>6. k - 1 \notin Wrong BY <2>1, <2>2, <2>5
    <2>7. Right(k - 1) BY <2>5, <2>6 DEF Wrong
    <2>8. f[k] = addRangeInPlace(f[k - 1], other[k]) BY <1>3, <2>5
    <2>9. /\ Tidy(f[k])
          /\ \A t \in Time : Somewhere(f[k], t) <=> Somewhere(f[k - 1], t) \/ Within(other[k], t)
        BY <1>2, <2>5, <2>7, <2>8, RangeAdded
    <2>10. \A t : Any(k, t) <=> Any(k - 1, t) \/ Within(other[k], t)
        <3>1. 1 .. k = (1 .. k - 1) \cup {k} BY <2>5
        <3> QED BY <3>1
    <2> HIDE DEF Any
    <2>11. Right(k) BY <2>7, <2>9, <2>10
    <2> QED BY <2>3, <2>11
<1>5. Right(n)
    <2>1. n \in 0 .. n /\ n \notin Wrong BY <1>2, <1>4
    <2> HIDE DEF Right
    <2> QED BY <2>1
<1>6. \A t : Any(n, t) <=> Somewhere(other, t) BY <1>1 DEF Somewhere
<1> HIDE DEF Any
<1> QED BY <1>3, <1>5, <1>6

LEMMA RemovedAllUnfolds ==
    ASSUME NEW list, Tidy(list), NEW other \in Seq(Range_), NEW n, n = Len(other)
    PROVE  \E f : /\ RemovedAll(list, other) = f[n] /\ f[0] = list
                  /\ \A i \in 1 .. n : f[i] = removeRangeInPlace(f[i - 1], other[i])
<1> DEFINE G == [p \in TidyLists \X (1 .. n) |-> removeRangeInPlace(p[1], other[p[2]])]
           Is(f) == f = [i \in 0 .. n |-> IF i = 0 THEN list ELSE removeRangeInPlace(f[i - 1], other[i])]
<1>1. n \in Nat /\ \A i \in 1 .. n : other[i] \in Range_ OBVIOUS
<1>2. G \in StepFcns(TidyLists, n) /\ \A l \in TidyLists, i \in 1 .. n : G[<<l, i>>] = removeRangeInPlace(l, other[i])
    <2>1. ASSUME NEW p \in TidyLists \X (1 .. n) PROVE removeRangeInPlace(p[1], other[p[2]]) \in TidyLists
        <3>1. Tidy(p[1]) /\ other[p[2]] \in Range_ BY <1>1 DEF TidyLists
        <3>2. Tidy(removeRangeInPlace(p[1], other[p[2]])) BY <3>1, RangeRemoved
        <3> QED BY <3>2 DEF TidyLists, Tidy
    <2>2. \A l \in TidyLists, i \in 1 .. n : <<l, i>> \in TidyLists \X (1 .. n) /\ <<l, i>>[1] = l /\ <<l, i>>[2] = i
        OBVIOUS
    <2> QED BY <2>1, <2>2 DEF StepFcns
<1> HIDE DEF G
<1>3. list \in TidyLists BY DEF TidyLists, Tidy
<1>4. PICK g : Iterates(g, TidyLists, n, list, G) BY <1>1, <1>2, <1>3, IterationExists
<1>5. g \in [0 .. n -> TidyLists] /\ g[0] = list /\ \A i \in 1 .. n : g[i] = G[<<g[i - 1], i>>]
    BY <1>4 DEF Iterates
<1>6. \A i \in 1 .. n : g[i] = removeRangeInPlace(g[i - 1], other[i])
    <2>1. \A i \in 1 .. n : i - 1 \in 0 .. n BY <1>1
    <2> QED BY <1>2, <1>5, <2>1
<1>7. Is(g)
    <2>1. \A i \in 0 .. n : g[i] = IF i = 0 THEN list ELSE removeRangeInPlace(g[i - 1], other[i])
        <3>1. \A i \in 0 .. n : i = 0 \/ i \in 1 .. n BY <1>1
        <3>2. \A i \in 1 .. n : i # 0 OBVIOUS
        <3> QED BY <1>5, <1>6, <3>1, <3>2
    <2> QED BY <1>5, <2>1
<1>8. PICK f : f = CHOOSE x : Is(x) OBVIOUS
<1>9. Is(f)
    <2> HIDE DEF Is
    <2> QED BY <1>7, <1>8
<1>10. RemovedAll(list, other) = f[n] BY <1>8 DEF RemovedAll
<1>11. f[0] = list /\ \A i \in 1 .. n : f[i] = removeRangeInPlace(f[i - 1], other[i])
    <2>1. \A i \in 0 .. n : f[i] = IF i = 0 THEN list ELSE removeRangeInPlace(f[i - 1], other[i]) BY <1>9
    <2>2. 0 \in 0 .. n /\ \A i \in 1 .. n : i \in 0 .. n /\ i # 0 BY <1>1
    <2> HIDE DEF Is
    <2> QED BY <2>1, <2>2
<1> QED BY <1>10, <1>11

LEMMA RangesRemoved ==
    ASSUME NEW list, Tidy(list), NEW other, Tidy(other)
    PROVE  LET rest == RemovedAll(list, other) IN
           /\ Tidy(rest)
           /\ \A t \in Time : Somewhere(rest, t) <=> Somewhere(list, t) /\ ~Somewhere(other, t)
<1>1. PICK n : n = Len(other) OBVIOUS
<1>2. n \in Nat /\ other \in Seq(Range_) /\ \A i \in 1 .. n : other[i] \in Range_ BY <1>1 DEF Tidy
<1>3. PICK f : /\ RemovedAll(list, other) = f[n] /\ f[0] = list
               /\ \A i \in 1 .. n : f[i] = removeRangeInPlace(f[i - 1], other[i])
    BY <1>1, <1>2, RemovedAllUnfolds
<1> DEFINE Any(k, t) == \E i \in 1 .. k : Within(other[i], t)
           Right(k) == /\ Tidy(f[k])
                       /\ \A t \in Time : Somewhere(f[k], t) <=> Somewhere(list, t) /\ ~Any(k, t)
           Wrong == {k \in 0 .. n : ~Right(k)}
<1>4. ASSUME Wrong # {} PROVE FALSE
    <2>1. Wrong \subseteq Nat OBVIOUS
    <2> HIDE DEF Wrong
    <2>2. PICK k \in Wrong : \A l \in Wrong : k <= l BY <1>4, <2>1, LeastExists
    <2>3. k \in 0 .. n /\ ~Right(k) BY <2>2 DEF Wrong
    <2>4. k # 0
        <3>1. 1 .. 0 = {} OBVIOUS
        <3>2. Right(0) BY <1>3, <3>1
        <3> QED BY <2>3, <3>2
    <2>5. k \in 1 .. n /\ k - 1 \in 0 .. n /\ k - 1 < k BY <1>2, <2>3, <2>4
    <2>6. k - 1 \notin Wrong BY <2>1, <2>2, <2>5
    <2>7. Right(k - 1) BY <2>5, <2>6 DEF Wrong
    <2>8. f[k] = removeRangeInPlace(f[k - 1], other[k]) BY <1>3, <2>5
    <2>9. /\ Tidy(f[k])
          /\ \A t \in Time : Somewhere(f[k], t) <=> Somewhere(f[k - 1], t) /\ ~Within(other[k], t)
        BY <1>2, <2>5, <2>7, <2>8, RangeRemoved
    <2>10. \A t : Any(k, t) <=> Any(k - 1, t) \/ Within(other[k], t)
        <3>1. 1 .. k = (1 .. k - 1) \cup {k} BY <2>5
        <3> QED BY <3>1
    <2> HIDE DEF Any
    <2>11. Right(k) BY <2>7, <2>9, <2>10
    <2> QED BY <2>3, <2>11
<1>5. Right(n)
    <2>1. n \in 0 .. n /\ n \notin Wrong BY <1>2, <1>4
    <2> HIDE DEF Right
    <2> QED BY <2>1
<1>6. \A t : Any(n, t) <=> Somewhere(other, t) BY <1>1 DEF Somewhere
<1> HIDE DEF Any
<1> QED BY <1>3, <1>5, <1>6

LEMMA IntersectAndSince ==
    ASSUME NEW a \in Range_, a.start < a.end, NEW r \in Range_
    PROVE  /\ In(Intersect(a, r)) = In(a) \cap In(r)
           /\ In(Since(a, r.start)) = {t \in In(a) : t >= r.start}
<1>1. /\ a.start \in Nat /\ a.end \in Nat /\ r.start \in Nat /\ r.end \in Nat /\ r.start <= r.end
      /\ \A t \in Time : t \in Nat
    BY RangeFields, TimeRangesAssumption DEF Time
<1>2. \A t : t \in In(Intersect(a, r)) <=> t \in In(a) \cap In(r)
    <2>1. CASE Overlaps(a, r)
        <3>1. a.end > r.start /\ a.start < r.end BY <2>1 DEF Overlaps
        <3>2. Intersect(a, r) = [start |-> IF a.start < r.start THEN r.start ELSE a.start,
                                 end   |-> IF a.end > r.end THEN r.end ELSE a.end]
            BY <2>1 DEF Intersect
        <3> QED BY <1>1, <3>1, <3>2 DEF In
    <2>2. CASE ~Overlaps(a, r)
        <3>1. ~(a.end > r.start /\ a.start < r.end) BY <2>2 DEF Overlaps
        <3>2. Intersect(a, r) = ZeroRange BY <2>2 DEF Intersect
        <3> QED BY <1>1, <3>1, <3>2 DEF In, ZeroRange
    <2> QED BY <2>1, <2>2
<1>3. \A t : t \in In(Since(a, r.start)) <=> t \in In(a) /\ t >= r.start
    <2>1. CASE r.start < a.start
        <3>1. Since(a, r.start) = a BY <1>1, <2>1 DEF Since
        <3> QED BY <1>1, <2>1, <3>1 DEF In
    <2>2. CASE r.start > a.end
        <3>1. Since(a, r.start) = ZeroRange BY <1>1, <2>2 DEF Since
        <3> QED BY <1>1, <2>2, <3>1 DEF In, ZeroRange
    <2>3. CASE ~(r.start < a.start) /\ ~(r.start > a.end)
        <3>1. Since(a, r.start) = [start |-> r.start, end |-> a.end] BY <2>3 DEF Since
        <3> QED BY <1>1, <2>3, <3>1 DEF In
    <2> QED BY <2>1, <2>2, <2>3
<1> QED BY <1>2, <1>3

-----------------------------------------------------------------------------

LEMMA RangesInitInv == RangesInit => RangesInv
<1> SUFFICES ASSUME RangesInit PROVE RangesInv
    OBVIOUS
<1>1. ranges = [v \in RangesVar |-> <<>>] BY DEF RangesInit
<1>2. <<>> \in Seq(Range_) OBVIOUS
<1>3. \A v \in RangesVar : ranges[v] = <<>> BY <1>1
<1> QED BY <1>1, <1>2, <1>3, TidySmall DEF RangesInv

LEMMA RangesNextInv == RangesInv /\ [RangesNext]_rangesVars => RangesInv'
<1> SUFFICES ASSUME RangesInv, [RangesNext]_rangesVars PROVE RangesInv'
    OBVIOUS
<1>1. ranges \in [RangesVar -> Seq(Range_)] /\ \A v \in RangesVar : Tidy(ranges[v]) BY DEF RangesInv
<1>2. ASSUME NEW v \in RangesVar, NEW list, Tidy(list), ranges' = [ranges EXCEPT ![v] = list]
      PROVE  RangesInv'
    <2>1. list \in Seq(Range_) BY <1>2 DEF Tidy
    <2>2. ranges' \in [RangesVar -> Seq(Range_)] BY <1>1, <1>2, <2>1
    <2>3. ASSUME NEW w \in RangesVar PROVE Tidy(ranges'[w])
        <3>1. ranges'[w] = IF w = v THEN list ELSE ranges[w] BY <1>1, <1>2
        <3> QED BY <1>1, <1>2, <3>1
    <2> QED BY <2>2, <2>3 DEF RangesInv, Tidy
<1>3. ASSUME NEW v \in RangesVar, NEW w \in RangesVar, NEW r \in Range_, AddRange(v, w, r) PROVE RangesInv'
    <2>1. Tidy(addRangeInPlace(ranges[w], r)) BY <1>1, RangeAdded
    <2> QED BY <1>2, <1>3, <2>1 DEF AddRange
<1>4. ASSUME NEW v \in RangesVar, NEW w \in RangesVar, NEW r \in Range_, RemoveRange(v, w, r) PROVE RangesInv'
    <2>1. Tidy(removeRangeInPlace(ranges[w], r)) BY <1>1, RangeRemoved
    <2> QED BY <1>2, <1>4, <2>1 DEF RemoveRange
<1>5. ASSUME NEW v \in RangesVar, NEW w \in RangesVar, NEW x \in RangesVar, AddRanges(v, w, x) PROVE RangesInv'
    <2>1. Tidy(AddedAll(ranges[w], ranges[x])) BY <1>1, RangesAdded
    <2> QED BY <1>2, <1>5, <2>1 DEF AddRanges, Iter
<1>6. ASSUME NEW v \in RangesVar, NEW w \in RangesVar, NEW x \in RangesVar, RemoveRanges(v, w, x) PROVE RangesInv'
    <2>1. Tidy(RemovedAll(ranges[w], ranges[x])) BY <1>1, RangesRemoved
    <2> QED BY <1>2, <1>6, <2>1 DEF RemoveRanges, Iter
<1>7. CASE UNCHANGED rangesVars BY <1>1, <1>7 DEF rangesVars, RangesInv
<1> QED BY <1>3, <1>4, <1>5, <1>6, <1>7 DEF RangesNext

LEMMA TidyListsAreSets == RangesInv => RangesAreSets
<1> SUFFICES ASSUME RangesInv, NEW v \in RangesVar
             PROVE  LET list == ranges[v] IN
                    /\ \A i \in DOMAIN list : list[i].start < list[i].end
                    /\ \A i \in 1 .. Len(list) - 1 : list[i].end <= list[i + 1].start
                    /\ \A r \in Range_ :
                        /\ InList(addRangeInPlace(list, r)) = InList(list) \cup In(r)
                        /\ InList(removeRangeInPlace(list, r)) = InList(list) \ In(r)
                        /\ RangesOverlaps(list, r) <=> InList(list) \cap In(r) # {}
                        /\ \A i \in DOMAIN list :
                            /\ In(Intersect(list[i], r)) = In(list[i]) \cap In(r)
                            /\ In(Since(list[i], r.start)) = {t \in In(list[i]) : t >= r.start}
                            /\ InList(Subtract(list[i], r)) = In(list[i]) \ In(r)
                    /\ \A x \in RangesVar :
                        /\ InList(AddedAll(list, ranges[x])) = InList(list) \cup InList(ranges[x])
                        /\ InList(RemovedAll(list, ranges[x])) = InList(list) \ InList(ranges[x])
    BY DEF RangesAreSets
<1>1. PICK list : list = ranges[v] OBVIOUS
<1>2. Tidy(list) /\ \A x \in RangesVar : Tidy(ranges[x]) BY <1>1 DEF RangesInv
<1>3. list \in Seq(Range_) /\ Len(list) \in Nat /\ DOMAIN list = 1 .. Len(list) BY <1>2 DEF Tidy
<1>4. \A i \in 1 .. Len(list) : list[i] \in Range_ /\ list[i].start < list[i].end BY <1>2, <1>3 DEF Tidy
<1>5. ASSUME NEW i \in 1 .. Len(list) - 1 PROVE list[i].end <= list[i + 1].start
    <2>1. i \in 1 .. Len(list) /\ i + 1 \in 1 .. Len(list) /\ i < i + 1 BY <1>3
    <2> QED BY <1>2, <2>1 DEF Tidy
<1>6. ASSUME NEW s, Tidy(s) PROVE \A t : t \in InList(s) <=> t \in Time /\ Somewhere(s, t)
    <2>1. s \in Seq(Range_) BY <1>6 DEF Tidy
    <2> QED BY <2>1, InstantsOfList
<1>7. ASSUME NEW r \in Range_
      PROVE  /\ InList(addRangeInPlace(list, r)) = InList(list) \cup In(r)
             /\ InList(removeRangeInPlace(list, r)) = InList(list) \ In(r)
             /\ RangesOverlaps(list, r) <=> InList(list) \cap In(r) # {}
             /\ \A i \in DOMAIN list :
                 /\ In(Intersect(list[i], r)) = In(list[i]) \cap In(r)
                 /\ In(Since(list[i], r.start)) = {t \in In(list[i]) : t >= r.start}
                 /\ InList(Subtract(list[i], r)) = In(list[i]) \ In(r)
    <2>1. \A t : t \in In(r) <=> t \in Time /\ Within(r, t) BY RangeFields
    <2>2. InList(addRangeInPlace(list, r)) = InList(list) \cup In(r)
        <3> DEFINE s == addRangeInPlace(list, r)
        <3>1. Tidy(s) /\ \A t \in Time : Somewhere(s, t) <=> Somewhere(list, t) \/ Within(r, t) BY <1>2, RangeAdded
        <3> HIDE DEF s
        <3>2. \A t : t \in InList(s) <=> t \in InList(list) \cup In(r) BY <1>2, <1>6, <2>1, <3>1
        <3> QED BY <3>2 DEF s
    <2>3. InList(removeRangeInPlace(list, r)) = InList(list) \ In(r)
        <3> DEFINE s == removeRangeInPlace(list, r)
        <3>1. Tidy(s) /\ \A t \in Time : Somewhere(s, t) <=> Somewhere(list, t) /\ ~Within(r, t) BY <1>2, RangeRemoved
        <3> HIDE DEF s
        <3>2. \A t : t \in InList(s) <=> t \in InList(list) \ In(r) BY <1>2, <1>6, <2>1, <3>1
        <3> QED BY <3>2 DEF s
    <2>4. RangesOverlaps(list, r) <=> InList(list) \cap In(r) # {}
        <3>1. RangesOverlaps(list, r) <=> \E t \in Time : Somewhere(list, t) /\ Within(r, t) BY <1>2, OverlapsAnswers
        <3>2. \A t : t \in InList(list) \cap In(r) <=> t \in Time /\ Somewhere(list, t) /\ Within(r, t)
            BY <1>2, <1>6, <2>1
        <3> QED BY <3>1, <3>2
    <2>5. ASSUME NEW i \in DOMAIN list PROVE InList(Subtract(list[i], r)) = In(list[i]) \ In(r)
        <3> DEFINE s == Subtract(list[i], r)
        <3>1. list[i] \in Range_ /\ list[i].start < list[i].end BY <1>3, <1>4
        <3>2. Tidy(s) /\ \A t \in Time : Somewhere(s, t) <=> Within(list[i], t) /\ ~Within(r, t)
            BY <3>1, SubtractLeaves
        <3> HIDE DEF s
        <3>3. \A t : t \in In(list[i]) <=> t \in Time /\ Within(list[i], t) BY <3>1, RangeFields
        <3>4. \A t : t \in InList(s) <=> t \in In(list[i]) \ In(r) BY <1>6, <2>1, <3>2, <3>3
        <3> QED BY <3>4 DEF s
    <2> QED BY <1>3, <1>4, <2>2, <2>3, <2>4, <2>5, IntersectAndSince
<1>8. ASSUME NEW x \in RangesVar
      PROVE  /\ InList(AddedAll(list, ranges[x])) = InList(list) \cup InList(ranges[x])
             /\ InList(RemovedAll(list, ranges[x])) = InList(list) \ InList(ranges[x])
    <2> DEFINE y == ranges[x]
               sum == AddedAll(list, y)
               rest == RemovedAll(list, y)
    <2>1. Tidy(y) BY <1>2
    <2> HIDE DEF y
    <2>2. Tidy(sum) /\ \A t \in Time : Somewhere(sum, t) <=> Somewhere(list, t) \/ Somewhere(y, t)
        BY <1>2, <2>1, RangesAdded
    <2>3. Tidy(rest) /\ \A t \in Time : Somewhere(rest, t) <=> Somewhere(list, t) /\ ~Somewhere(y, t)
        BY <1>2, <2>1, RangesRemoved
    <2> HIDE DEF sum, rest
    <2>4. \A t : t \in InList(sum) <=> t \in InList(list) \cup InList(y) BY <1>2, <1>6, <2>1, <2>2
    <2>5. \A t : t \in InList(rest) <=> t \in InList(list) \ InList(y) BY <1>2, <1>6, <2>1, <2>3
    <2>6. InList(sum) = InList(list) \cup InList(y) /\ InList(rest) = InList(list) \ InList(y) BY <2>4, <2>5
    <2> QED BY <2>6 DEF sum, rest, y
<1> QED BY <1>1, <1>3, <1>4, <1>5, <1>7, <1>8

\* Whatever is added and removed, in any order and however often, the lists of
\* ranges stay sorted and disjoint, and adding, removing, Overlaps, Intersect,
\* Since and Subtract answer as the sets of instants do, for any latest time.
THEOREM RangesBehaveAsSets == RangesSpec => []RangesAreSets
BY RangesInitInv, RangesNextInv, TidyListsAreSets, PTL DEF RangesSpec

-----------------------------------------------------------------------------
(* Durations.                                                              *)

Half == 2 ^ (Width - 1)

LEMMA HalfIs ==
    /\ Half \in Nat \ {0} /\ MinInt = -Half /\ Int_ = -Half .. Half - 1
    /\ \A n : Wrap(n) = ((n + Half) % (2 * Half)) - Half
<1>1. PICK h \in Nat \ {0} : h = 2 ^ (Width - 1) /\ 2 ^ Width = 2 * h BY DurationsAssumption
<1>2. MinInt = -h /\ Int_ = -h .. h - 1 BY <1>1 DEF MinInt, Int_
<1>3. \A n : Wrap(n) = ((n + h) % (2 * h)) + -h BY <1>1, <1>2 DEF Wrap
<1>4. \A n : ((n + h) % (2 * h)) \in Int => Wrap(n) = ((n + h) % (2 * h)) - h BY <1>3
<1> QED BY <1>1, <1>2, <1>3 DEF Half

LEMMA DivisionIs ==
    ASSUME NEW a \in Int, NEW m \in Nat \ {0}
    PROVE  /\ a \div m \in Int /\ a % m \in 0 .. m - 1 /\ a = m * (a \div m) + (a % m)
           /\ 0 <= a => a \div m \in Nat /\ m * (a \div m) <= a
<1>1. a \div m \in Int /\ a % m \in Int OBVIOUS
<1>2. a % m >= 0 /\ a % m < m OBVIOUS
<1>3. a - m * (a \div m) = a % m OBVIOUS
<1>4. ASSUME 0 <= a PROVE a \div m >= 0 BY <1>4
<1> QED BY <1>1, <1>2, <1>3, <1>4

LEMMA ModuloSmall ==
    ASSUME NEW x \in Int, NEW m \in Nat \ {0}, 0 <= x, x < m PROVE x % m = x
OBVIOUS

LEMMA WrapIs == ASSUME NEW n \in Int PROVE Wrap(n) \in Int_ /\ (n \in Int_ => Wrap(n) = n)
<1>1. PICK h \in Nat \ {0} : h = Half BY HalfIs
<1>2. Int_ = -h .. h - 1 /\ Wrap(n) = ((n + h) % (2 * h)) - h BY <1>1, HalfIs
<1>3. 2 * h \in Nat \ {0} /\ n + h \in Int OBVIOUS
<1>4. (n + h) % (2 * h) \in 0 .. 2 * h - 1 BY <1>3, DivisionIs
<1>5. ASSUME n \in Int_ PROVE (n + h) % (2 * h) = n + h
    <2>1. 0 <= n + h /\ n + h < 2 * h BY <1>2, <1>5
    <2> QED BY <1>3, <2>1, ModuloSmall
<1> QED BY <1>2, <1>4, <1>5

LEMMA NegateIs ==
    ASSUME NEW d \in Int_
    PROVE  /\ Negate(d) \in Int_ /\ d \in Int
           /\ d # MinInt => Negate(d) = -d /\ -d \in Int_
           /\ d = MinInt => Negate(d) = d /\ d < 0
<1>1. PICK h \in Nat \ {0} : h = Half BY HalfIs
<1>2. Int_ = -h .. h - 1 /\ MinInt = -h /\ Wrap(h) = ((h + h) % (2 * h)) - h BY <1>1, HalfIs
<1>3. d \in Int /\ -d \in Int BY <1>2
<1>4. Negate(d) \in Int_ BY <1>3, WrapIs DEF Negate
<1>5. ASSUME d # MinInt PROVE Negate(d) = -d /\ -d \in Int_
    <2>1. -d \in Int_ BY <1>2, <1>5
    <2> QED BY <1>3, <2>1, WrapIs DEF Negate
<1>6. ASSUME d = MinInt PROVE Negate(d) = d /\ d < 0
    <2>1. -d = h BY <1>2, <1>6
    <2>2. (h + h) % (2 * h) = 0
        <3>1. PICK m \in Nat \ {0} : m = 2 * h OBVIOUS
        <3>2. h + h = m /\ m % m = 0 BY <3>1
        <3> QED BY <3>1, <3>2
    <2>3. Wrap(h) = -h BY <1>2, <2>2
    <2> QED BY <1>2, <1>6, <2>1, <2>3 DEF Negate
<1> QED BY <1>3, <1>4, <1>5, <1>6

LEMMA UnitValues ==
    /\ \A u \in Unit : /\ unitsToDuration[u] \in 1 .. Half - 1 /\ unitsToDuration[u] \in Nat \ {0}
                        /\ u \in DOMAIN durationUnits /\ durationUnits[u] = unitsToDuration[u]
    /\ \A u, v \in Unit : unitsToDuration[u] = unitsToDuration[v] => u = v
    /\ "ns" \in Unit /\ unitsToDuration["ns"] = 1 /\ "s" \in DOMAIN durationUnits
    /\ IsFiniteSet(Unit)
<1>1. PICK h \in Nat \ {0} : h = Half BY HalfIs
<1>2. \A u \in Unit : unitsToDuration[u] \in 1 .. h - 1 BY <1>1, DurationsAssumption DEF Unit, Half
<1>3. \A u \in Unit : unitsToDuration[u] \in Nat \ {0} BY <1>2
<1>4. /\ \A u \in Unit : u \in DOMAIN durationUnits /\ durationUnits[u] = unitsToDuration[u]
      /\ \A u, v \in Unit : unitsToDuration[u] = unitsToDuration[v] => u = v
      /\ "ns" \in Unit /\ unitsToDuration["ns"] = 1 /\ "s" \in DOMAIN durationUnits
      /\ IsFiniteSet(Unit)
    BY DurationsAssumption DEF Unit
<1> QED BY <1>1, <1>2, <1>3, <1>4

\* The sorted sequence of units exists, and ends with the nanosecond.
LEMMA UnitsSorted ==
    ASSUME NEW n, n = Cardinality(Unit), NEW s, s = unitsByDurationDesc
    PROVE  n \in Nat \ {0} /\ s \in [1 .. n -> Unit] /\ s[n] = "ns"
<1> DEFINE V(u) == unitsToDuration[u]
           Up(u) == {v \in Unit : V(v) >= V(u)}
           rank == [u \in Unit |-> Cardinality(Up(u))]
           Sorted(t) == t \in [1 .. n -> Unit] /\ \A i, j \in DOMAIN t : i < j => V(t[i]) > V(t[j])
<1>1. n \in Nat \ {0} BY UnitValues, FS_CardinalityType, FS_EmptySet
<1>2. \A u \in Unit : V(u) \in Nat BY UnitValues
<1>3. \A u, v \in Unit : V(u) = V(v) => u = v BY UnitValues
<1>4. \A u \in Unit : Up(u) \in SUBSET Unit /\ u \in Up(u) BY <1>2
<1>5. \A u, v \in Unit : V(u) > V(v) => Up(u) \in SUBSET Up(v) /\ v \notin Up(u) BY <1>2
<1> HIDE DEF V, Up
<1>6. \A u \in Unit : IsFiniteSet(Up(u)) /\ Cardinality(Up(u)) \in 1 .. n
    <2> SUFFICES ASSUME NEW u \in Unit PROVE IsFiniteSet(Up(u)) /\ Cardinality(Up(u)) \in 1 .. n
        OBVIOUS
    <2>1. Up(u) \in SUBSET Unit /\ IsFiniteSet(Unit) BY <1>4, UnitValues
    <2>2. IsFiniteSet(Up(u)) /\ Cardinality(Up(u)) <= n BY <2>1, FS_Subset
    <2>3. Cardinality(Up(u)) \in Nat /\ Cardinality(Up(u)) # 0 BY <1>4, <2>2, FS_CardinalityType, FS_EmptySet
    <2> QED BY <1>1, <2>2, <2>3
<1>7. ASSUME NEW u \in Unit, NEW v \in Unit, V(u) > V(v) PROVE Cardinality(Up(u)) < Cardinality(Up(v))
    <2>1. Up(u) \in SUBSET Up(v) /\ v \in Up(v) /\ v \notin Up(u) BY <1>4, <1>5, <1>7
    <2>2. IsFiniteSet(Up(v)) BY <1>6
    <2>3. Cardinality(Up(u)) <= Cardinality(Up(v)) /\ Cardinality(Up(v)) # Cardinality(Up(u))
        BY <2>1, <2>2, FS_Subset
    <2>4. Cardinality(Up(u)) \in Nat /\ Cardinality(Up(v)) \in Nat BY <1>6
    <2> QED BY <2>3, <2>4
<1>8. rank \in [Unit -> 1 .. n] BY <1>6
<1>9. \A u, v \in Unit : rank[u] = rank[v] => u = v
    <2> SUFFICES ASSUME NEW u \in Unit, NEW v \in Unit, rank[u] = rank[v] PROVE u = v
        OBVIOUS
    <2>1. Cardinality(Up(u)) = Cardinality(Up(v)) /\ Cardinality(Up(u)) \in Nat BY <1>6
    <2>2. ~(V(u) > V(v)) /\ ~(V(v) > V(u)) BY <1>7, <2>1
    <2>3. V(u) = V(v) BY <1>2, <2>2
    <2> QED BY <1>3, <2>3
<1>10. \A i \in 1 .. n : \E u \in Unit : rank[u] = i
    <2>1. rank \in Injection(Unit, 1 .. n) BY <1>8, <1>9 DEF Injection, IsInjective
    <2>2. IsFiniteSet(1 .. n) /\ Cardinality(1 .. n) = n BY <1>1, FS_Interval
    <2>3. rank \in Surjection(Unit, 1 .. n) BY <2>1, <2>2, FS_Injection
    <2> QED BY <2>3 DEF Surjection
<1>11. \E t : Sorted(t)
    <2> DEFINE t == [i \in 1 .. n |-> CHOOSE u \in Unit : rank[u] = i]
    <2> HIDE DEF rank
    <2>1. \A i \in 1 .. n : t[i] \in Unit /\ rank[t[i]] = i BY <1>10
    <2>2. t \in [1 .. n -> Unit] BY <2>1
    <2>3. ASSUME NEW i \in 1 .. n, NEW j \in 1 .. n, i < j PROVE V(t[i]) > V(t[j])
        <3> HIDE DEF t
        <3>1. PICK u \in Unit, v \in Unit : u = t[i] /\ v = t[j] BY <2>1
        <3>2. rank[u] = i /\ rank[v] = j BY <2>1, <3>1
        <3>3. Cardinality(Up(u)) = i /\ Cardinality(Up(v)) = j BY <3>2 DEF rank
        <3>4. ~(V(v) > V(u)) BY <1>7, <2>3, <3>3
        <3>5. V(u) # V(v) BY <1>3, <2>3, <3>2
        <3> QED BY <1>2, <3>1, <3>4, <3>5
    <2>4. DOMAIN t = 1 .. n OBVIOUS
    <2> HIDE DEF t
    <2> QED BY <2>2, <2>3, <2>4
<1>12. Sorted(s)
    <2>1. s = CHOOSE t : Sorted(t) BY DEF unitsByDurationDesc, V
    <2> HIDE DEF Sorted
    <2> QED BY <1>11, <2>1
<1>13. s \in Injection(1 .. n, Unit)
    <2>1. ASSUME NEW i \in 1 .. n, NEW j \in 1 .. n, s[i] = s[j] PROVE i = j
        <3>1. V(s[i]) = V(s[j]) /\ V(s[i]) \in Nat /\ DOMAIN s = 1 .. n BY <1>2, <1>12, <2>1
        <3>2. ~(i < j) /\ ~(j < i) BY <1>12, <3>1
        <3> QED BY <3>2
    <2> QED BY <1>12, <2>1 DEF Injection, IsInjective
<1>14. PICK k \in 1 .. n : s[k] = "ns"
    <2>1. Cardinality(1 .. n) = n BY <1>1, FS_Interval
    <2>2. s \in Surjection(1 .. n, Unit) BY <1>13, <2>1, UnitValues, FS_Injection
    <2> QED BY <2>2, UnitValues DEF Surjection
<1>15. k = n
    <2>1. n \in 1 .. n /\ s[n] \in Unit /\ DOMAIN s = 1 .. n BY <1>1, <1>12
    <2>2. V(s[k]) = 1 /\ V(s[n]) >= 1 /\ V(s[n]) \in Nat
        <3>1. V("ns") = 1 /\ \A u \in Unit : V(u) >= 1 /\ V(u) \in Nat BY UnitValues DEF V
        <3> QED BY <1>14, <2>1, <3>1
    <2>3. ~(k < n) BY <1>12, <2>1, <2>2
    <2> QED BY <1>1, <2>3
<1> QED BY <1>1, <1>12, <1>14, <1>15

\* g adds up the first p pairs of numbers and units of lex.
Sums(g, lex, p) ==
    /\ g \in [0 .. p -> Int_] /\ g[0] = 0
    /\ \A j \in 1 .. p : g[j] = Wrap(g[j - 1] + lex[2 * j - 1][2] * durationUnits[lex[2 * j][2]])

LEMMA TotalUnfolds ==
    ASSUME NEW lex, NEW p \in Nat, p = Len(lex) \div 2,
           \A j \in 1 .. p : lex[2 * j - 1][2] \in Nat /\ durationUnits[lex[2 * j][2]] \in Nat
    PROVE  \E g : Total(lex) = g[p] /\ Sums(g, lex, p)
<1> DEFINE T(j) == lex[2 * j - 1][2] * durationUnits[lex[2 * j][2]]
           G == [q \in Int_ \X (1 .. p) |-> Wrap(q[1] + T(q[2]))]
           Is(f) == f = [i \in 0 .. p |-> IF i = 0 THEN 0 ELSE Wrap(f[i - 1] + T(i))]
<1>1. \A j \in 1 .. p : T(j) \in Nat
    <2> SUFFICES ASSUME NEW j \in 1 .. p PROVE T(j) \in Nat
        OBVIOUS
    <2>1. PICK a \in Nat, b \in Nat : a = lex[2 * j - 1][2] /\ b = durationUnits[lex[2 * j][2]] OBVIOUS
    <2>2. a * b \in Nat OBVIOUS
    <2> QED BY <2>1, <2>2
<1>2. Total(lex) = LET f == CHOOSE f : Is(f) IN f[p] BY DEF Total
<1> HIDE DEF T
<1>3. 0 \in Int_ /\ \A x \in Int_ : x \in Int BY HalfIs
<1>4. G \in StepFcns(Int_, p) /\ \A x \in Int_, i \in 1 .. p : G[<<x, i>>] = Wrap(x + T(i))
    <2>1. ASSUME NEW x \in Int_, NEW i \in 1 .. p PROVE Wrap(x + T(i)) \in Int_
        <3>1. x + T(i) \in Int BY <1>1, <1>3
        <3> QED BY <3>1, WrapIs
    <2>2. \A q \in Int_ \X (1 .. p) : q[1] \in Int_ /\ q[2] \in 1 .. p OBVIOUS
    <2>3. \A x \in Int_, i \in 1 .. p : <<x, i>> \in Int_ \X (1 .. p) /\ <<x, i>>[1] = x /\ <<x, i>>[2] = i
        OBVIOUS
    <2>4. \A q \in Int_ \X (1 .. p) : Wrap(q[1] + T(q[2])) \in Int_ BY <2>1, <2>2, Zenon
    <2> QED BY <2>3, <2>4 DEF StepFcns
<1> HIDE DEF G
<1>5. PICK g : Iterates(g, Int_, p, 0, G) BY <1>3, <1>4, IterationExists
<1>6. g \in [0 .. p -> Int_] /\ g[0] = 0 /\ \A i \in 1 .. p : g[i] = G[<<g[i - 1], i>>]
    BY <1>5 DEF Iterates
<1>7. \A i \in 1 .. p : g[i] = Wrap(g[i - 1] + T(i))
    <2>1. \A i \in 1 .. p : i - 1 \in 0 .. p OBVIOUS
    <2> QED BY <1>4, <1>6, <2>1
<1>8. Is(g)
    <2>1. \A i \in 0 .. p : g[i] = IF i = 0 THEN 0 ELSE Wrap(g[i - 1] + T(i))
        <3>1. \A i \in 0 .. p : i = 0 \/ i \in 1 .. p OBVIOUS
        <3>2. \A i \in 1 .. p : i # 0 OBVIOUS
        <3> QED BY <1>6, <1>7, <3>1, <3>2
    <2> QED BY <1>6, <2>1
<1>9. PICK f : f = CHOOSE x : Is(x) OBVIOUS
<1>10. Is(f) /\ Total(lex) = f[p]
    <2> HIDE DEF Is
    <2> QED BY <1>2, <1>8, <1>9
<1>11. f[0] = 0 /\ \A i \in 1 .. p : f[i] = Wrap(f[i - 1] + T(i))
    <2>1. \A i \in 0 .. p : f[i] = IF i = 0 THEN 0 ELSE Wrap(f[i - 1] + T(i)) BY <1>10
    <2>2. 0 \in 0 .. p /\ \A i \in 1 .. p : i \in 0 .. p /\ i # 0 OBVIOUS
    <2> HIDE DEF Is
    <2> QED BY <2>1, <2>2
<1>12. f \in [0 .. p -> Int_]
    <2>1. ASSUME NEW i \in 0 .. p PROVE f[i] \in Int_
        <3> DEFINE Bad == {j \in 0 .. p : f[j] \notin Int_}
        <3>1. ASSUME Bad # {} PROVE FALSE
            <4>1. Bad \subseteq Nat OBVIOUS
            <4> HIDE DEF Bad, Is
            <4>2. PICK j \in Bad : \A l \in Bad : j <= l BY <3>1, <4>1, LeastExists
            <4>3. j \in 0 .. p /\ f[j] \notin Int_ BY <4>2 DEF Bad
            <4>4. j \in 1 .. p /\ j - 1 \in 0 .. p /\ j - 1 < j BY <1>3, <1>11, <4>3
            <4>5. j - 1 \notin Bad BY <4>1, <4>2, <4>4
            <4>6. f[j - 1] \in Int_ BY <4>4, <4>5 DEF Bad
            <4>7. f[j - 1] + T(j) \in Int BY <1>1, <1>3, <4>4, <4>6
            <4>8. f[j] \in Int_ BY <1>11, <4>4, <4>7, WrapIs
            <4> QED BY <4>3, <4>8
        <3> QED BY <3>1
    <2>2. f = [i \in 0 .. p |-> f[i]] BY <1>10
    <2> HIDE DEF Is
    <2> QED BY <2>1, <2>2
<1> HIDE DEF Is
<1> QED BY <1>10, <1>11, <1>12 DEF Sums, T

\* What ToExtendedString has at each point of its loop.
Writing_ == [rest : Int, lex : Seq(({"number"} \X Int) \cup ({"unit"} \X Unit))]

LEMMA WriteUnitIs ==
    ASSUME NEW b \in Writing_, NEW u \in Unit
    PROVE  WriteUnit(b, u) \in Writing_
<1>1. PICK v \in Nat \ {0} : v = unitsToDuration[u] BY UnitValues
<1>2. b.rest \in Int /\ b.rest % v \in Int /\ b.rest \div v \in Int BY DivisionIs DEF Writing_
<1> DEFINE S == ({"number"} \X Int) \cup ({"unit"} \X Unit)
<1>3. <<"number", b.rest \div v>> \in S /\ <<"unit", u>> \in S BY <1>2
<1> HIDE DEF S
<1>4. b.lex \o <<<<"number", b.rest \div v>>, <<"unit", u>>>> \in Seq(S)
    <2>1. b.lex \in Seq(S) BY DEF Writing_, S
    <2>2. PICK x \in S, y \in S : x = <<"number", b.rest \div v>> /\ y = <<"unit", u>> BY <1>3
    <2>3. b.lex \o <<x, y>> \in Seq(S) BY <2>1
    <2> QED BY <2>2, <2>3
<1>5. CASE b.rest < v BY <1>1, <1>5 DEF WriteUnit
<1>6. CASE ~(b.rest < v)
    <2>1. WriteUnit(b, u) = [rest |-> b.rest % v, lex |-> b.lex \o <<<<"number", b.rest \div v>>, <<"unit", u>>>>]
        BY <1>1, <1>6 DEF WriteUnit
    <2> QED BY <1>2, <1>4, <2>1 DEF Writing_, S
<1> QED BY <1>5, <1>6

LEMMA ToExtendedStringUnfolds ==
    ASSUME NEW d \in Int_, d # 0, NEW n, n = Cardinality(Unit), NEW s, s = unitsByDurationDesc
    PROVE  \E f : /\ ToExtendedString(d) = [neg |-> d < 0, lex |-> f[n].lex]
                  /\ f[0] = [rest |-> IF d < 0 THEN Negate(d) ELSE d, lex |-> <<>>]
                  /\ \A i \in 1 .. n : f[i] = WriteUnit(f[i - 1], s[i])
<1> DEFINE start == [rest |-> IF d < 0 THEN Negate(d) ELSE d, lex |-> <<>>]
           G == [q \in Writing_ \X (1 .. n) |-> WriteUnit(q[1], s[q[2]])]
           Is(f) == f = [i \in 0 .. n |-> IF i = 0 THEN start ELSE WriteUnit(f[i - 1], s[i])]
<1>1. ToExtendedString(d) = LET f == CHOOSE f : Is(f) IN [neg |-> d < 0, lex |-> f[n].lex]
    BY DEF ToExtendedString
<1>2. n \in Nat /\ \A i \in 1 .. n : s[i] \in Unit BY UnitsSorted
<1>3. start \in Writing_
    <2>1. Negate(d) \in Int /\ d \in Int
        <3>1. \A x \in Int_ : x \in Int BY HalfIs
        <3> QED BY <3>1, NegateIs
    <2>2. (IF d < 0 THEN Negate(d) ELSE d) \in Int BY <2>1
    <2> QED BY <2>2 DEF Writing_
<1> HIDE DEF start
<1>4. G \in StepFcns(Writing_, n) /\ \A x \in Writing_, i \in 1 .. n : G[<<x, i>>] = WriteUnit(x, s[i])
    <2>1. \A x \in Writing_, i \in 1 .. n : WriteUnit(x, s[i]) \in Writing_ BY <1>2, WriteUnitIs
    <2>2. \A q \in Writing_ \X (1 .. n) : q[1] \in Writing_ /\ q[2] \in 1 .. n OBVIOUS
    <2>3. \A x \in Writing_, i \in 1 .. n : <<x, i>> \in Writing_ \X (1 .. n) /\ <<x, i>>[1] = x /\ <<x, i>>[2] = i
        OBVIOUS
    <2>4. \A q \in Writing_ \X (1 .. n) : WriteUnit(q[1], s[q[2]]) \in Writing_ BY <2>1, <2>2, Zenon
    <2> QED BY <2>3, <2>4 DEF StepFcns
<1> HIDE DEF G
<1>5. PICK g : Iterates(g, Writing_, n, start, G) BY <1>2, <1>3, <1>4, IterationExists
<1>6. g \in [0 .. n -> Writing_] /\ g[0] = start /\ \A i \in 1 .. n : g[i] = G[<<g[i - 1], i>>]
    BY <1>5 DEF Iterates
<1>7. \A i \in 1 .. n : g[i] = WriteUnit(g[i - 1], s[i])
    <2>1. \A i \in 1 .. n : i - 1 \in 0 .. n BY <1>2
    <2> QED BY <1>4, <1>6, <2>1
<1>8. Is(g)
    <2>1. \A i \in 0 .. n : g[i] = IF i = 0 THEN start ELSE WriteUnit(g[i - 1], s[i])
        <3>1. \A i \in 0 .. n : i = 0 \/ i \in 1 .. n BY <1>2
        <3>2. \A i \in 1 .. n : i # 0 OBVIOUS
        <3> QED BY <1>6, <1>7, <3>1, <3>2
    <2> QED BY <1>6, <2>1
<1>9. PICK f : f = CHOOSE x : Is(x) OBVIOUS
<1>10. Is(f) /\ ToExtendedString(d) = [neg |-> d < 0, lex |-> f[n].lex]
    <2> HIDE DEF Is
    <2> QED BY <1>1, <1>8, <1>9
<1>11. f[0] = start /\ \A i \in 1 .. n : f[i] = WriteUnit(f[i - 1], s[i])
    <2>1. \A i \in 0 .. n : f[i] = IF i = 0 THEN start ELSE WriteUnit(f[i - 1], s[i]) BY <1>10
    <2>2. 0 \in 0 .. n /\ \A i \in 1 .. n : i \in 0 .. n /\ i # 0 BY <1>2
    <2> HIDE DEF Is
    <2> QED BY <2>1, <2>2
<1> HIDE DEF Is
<1> QED BY <1>10, <1>11 DEF start

\* lex is p numbers, each with a unit after it.
Pairs(lex, p) ==
    /\ Len(lex) = 2 * p /\ DOMAIN lex = 1 .. 2 * p
    /\ \A j \in 1 .. p : /\ lex[2 * j - 1][1] = "number" /\ lex[2 * j - 1][2] \in Nat
                         /\ lex[2 * j][2] \in DOMAIN durationUnits

LEMMA PairsAreRead ==
    ASSUME NEW lex, NEW p \in Nat, Pairs(lex, p)
    PROVE  WellFormed(lex) /\ \E g : Total(lex) = g[p] /\ Sums(g, lex, p)
<1>1. Len(lex) = 2 * p /\ DOMAIN lex = 1 .. 2 * p BY DEF Pairs
<1>2. WellFormed(lex)
    <2>1. ASSUME NEW i \in 1 .. 2 * p, i % 2 = 1 PROVE lex[i][1] = "number" /\ i < Len(lex)
        <3>1. PICK j \in 1 .. p : i = 2 * j - 1
            <4>1. (i + 1) \div 2 \in 1 .. p /\ i = 2 * ((i + 1) \div 2) - 1 BY <2>1
            <4> QED BY <4>1
        <3>2. lex[2 * j - 1][1] = "number" BY DEF Pairs
        <3> QED BY <1>1, <3>1, <3>2
    <2>2. ASSUME NEW i \in 1 .. 2 * p, i % 2 # 1 PROVE lex[i][2] \in DOMAIN durationUnits
        <3>1. PICK j \in 1 .. p : i = 2 * j
            <4>1. i \div 2 \in 1 .. p /\ i = 2 * (i \div 2) BY <2>2
            <4> QED BY <4>1
        <3>2. lex[2 * j][2] \in DOMAIN durationUnits BY DEF Pairs
        <3> QED BY <3>1, <3>2
    <2> QED BY <1>1, <2>1, <2>2 DEF WellFormed
<1>3. p = Len(lex) \div 2 BY <1>1
<1>4. \A j \in 1 .. p : lex[2 * j - 1][2] \in Nat /\ durationUnits[lex[2 * j][2]] \in Nat
    BY DurationsAssumption DEF Pairs
<1> QED BY <1>2, <1>3, <1>4, TotalUnfolds

IsList(lex, n) == lex = [i \in 1 .. n |-> lex[i]]

WithTwo(lex, x, y) == lex \o <<x, y>>
EndsWith(new, lex, n, x, y) ==
    /\ Len(new) = n + 2 /\ DOMAIN new = 1 .. n + 2 /\ IsList(new, n + 2)
    /\ new[n + 1] = x /\ new[n + 2] = y
    /\ \A i \in 1 .. n : new[i] = lex[i]

LEMMA TwoAppended ==
    ASSUME NEW S, NEW lex \in Seq(S), NEW x \in S, NEW y \in S
    PROVE  EndsWith(WithTwo(lex, x, y), lex, Len(lex), x, y)
<1>1. PICK new, n : new = lex \o <<x, y>> /\ n = Len(lex) OBVIOUS
<1>2. new \in Seq(S) /\ Len(new) = n + 2 /\ n \in Nat BY <1>1
<1>3. DOMAIN new = 1 .. n + 2 /\ new = [i \in 1 .. n + 2 |-> new[i]] BY <1>2
<1>4. new[n + 1] = x /\ new[n + 2] = y BY <1>1
<1>5. \A i \in 1 .. n : new[i] = lex[i] BY <1>1
<1>6. EndsWith(new, lex, n, x, y) BY <1>2, <1>3, <1>4, <1>5 DEF IsList, EndsWith
<1> QED BY <1>1, <1>6 DEF WithTwo

\* What is written of m and what is left of it are m together.
Adds(b, p, m) ==
    /\ b.rest \in 0 .. m /\ Pairs(b.lex, p) /\ IsList(b.lex, 2 * p)
    /\ \A g : Sums(g, b.lex, p) => g[p] = m - b.rest

LEMMA AppendedPair ==
    ASSUME NEW lex, NEW p \in Nat, Pairs(lex, p), IsList(lex, 2 * p),
           NEW q \in Nat, NEW u \in DOMAIN durationUnits,
           NEW new, new = WithTwo(lex, <<"number", q>>, <<"unit", u>>)
    PROVE  /\ Pairs(new, p + 1) /\ IsList(new, 2 * (p + 1))
           /\ \A g : Sums(g, new, p + 1) =>
                /\ Sums([j \in 0 .. p |-> g[j]], lex, p) /\ g[p] \in Int_
                /\ g[p + 1] = Wrap(g[p] + q * durationUnits[u])
<1>1. PICK x, y : x = <<"number", q>> /\ y = <<"unit", u>> OBVIOUS
<1>2. x[1] = "number" /\ x[2] = q /\ y[2] = u BY <1>1
<1>3. new = WithTwo(lex, x, y) BY <1>1
<1>4. Len(lex) = 2 * p /\ DOMAIN lex = 1 .. 2 * p BY DEF Pairs
<1>5. PICK S : lex \in Seq(S) /\ x \in S /\ y \in S
    <2> DEFINE S == {lex[i] : i \in 1 .. 2 * p} \cup {x, y}
    <2>1. lex \in [1 .. 2 * p -> S] /\ 2 * p \in Nat BY DEF IsList
    <2> HIDE DEF S
    <2>2. lex \in Seq(S) BY <2>1
    <2>3. x \in S /\ y \in S BY DEF S
    <2> QED BY <2>2, <2>3
<1>6. /\ Len(new) = 2 * p + 2 /\ DOMAIN new = 1 .. 2 * p + 2 /\ IsList(new, 2 * p + 2)
      /\ new[2 * p + 1] = x /\ new[2 * p + 2] = y
      /\ \A i \in 1 .. 2 * p : new[i] = lex[i]
    <2>1. PICK n \in Nat : n = 2 * p OBVIOUS
    <2>2. n = Len(lex) BY <1>4, <2>1
    <2>3. EndsWith(new, lex, Len(lex), x, y) BY <1>3, <1>5, TwoAppended
    <2> QED BY <2>1, <2>2, <2>3 DEF EndsWith
<1>7. \A j \in 1 .. p : 2 * j - 1 \in 1 .. 2 * p /\ 2 * j \in 1 .. 2 * p OBVIOUS
<1>8. 2 * (p + 1) = 2 * p + 2 /\ 2 * (p + 1) - 1 = 2 * p + 1 /\ (p + 1) - 1 = p OBVIOUS
<1>9. Pairs(new, p + 1)
    <2>1. ASSUME NEW j \in 1 .. p + 1
          PROVE  /\ new[2 * j - 1][1] = "number" /\ new[2 * j - 1][2] \in Nat
                 /\ new[2 * j][2] \in DOMAIN durationUnits
        <3>1. CASE j \in 1 .. p
            <4>1. new[2 * j - 1] = lex[2 * j - 1] /\ new[2 * j] = lex[2 * j] BY <1>6, <1>7, <3>1
            <4> QED BY <3>1, <4>1 DEF Pairs
        <3>2. CASE j = p + 1 BY <1>2, <1>6, <1>8, <3>2
        <3>3. j \in 1 .. p \/ j = p + 1 OBVIOUS
        <3> QED BY <3>1, <3>2, <3>3, Zenon
    <2> QED BY <1>6, <1>8, <2>1 DEF Pairs
<1>10. ASSUME NEW g, Sums(g, new, p + 1)
       PROVE  /\ Sums([j \in 0 .. p |-> g[j]], lex, p) /\ g[p] \in Int_
              /\ g[p + 1] = Wrap(g[p] + q * durationUnits[u])
    <2>1. /\ g \in [0 .. p + 1 -> Int_] /\ g[0] = 0
          /\ \A j \in 1 .. p + 1 : g[j] = Wrap(g[j - 1] + new[2 * j - 1][2] * durationUnits[new[2 * j][2]])
        BY <1>10 DEF Sums
    <2>2. p + 1 \in 1 .. p + 1 /\ p \in 0 .. p + 1 OBVIOUS
    <2>3. g[p + 1] = Wrap(g[p] + q * durationUnits[u])
        <3>1. PICK k \in Nat : k = p + 1 OBVIOUS
        <3>2. g[k] = Wrap(g[k - 1] + new[2 * k - 1][2] * durationUnits[new[2 * k][2]]) BY <2>1, <2>2, <3>1
        <3>3. k - 1 = p /\ new[2 * k - 1] = x /\ new[2 * k] = y BY <1>6, <1>8, <3>1
        <3>4. new[2 * k - 1][2] = q /\ new[2 * k][2] = u BY <1>2, <3>3
        <3> QED BY <3>1, <3>2, <3>3, <3>4, Zenon
    <2>4. PICK h : h = [j \in 0 .. p |-> g[j]] OBVIOUS
    <2>5. \A j \in 1 .. p : j \in 0 .. p /\ j - 1 \in 0 .. p /\ j \in 1 .. p + 1 OBVIOUS
    <2>6. \A j \in 1 .. p : h[j] = Wrap(h[j - 1] + lex[2 * j - 1][2] * durationUnits[lex[2 * j][2]])
        <3>1. \A j \in 1 .. p : new[2 * j - 1] = lex[2 * j - 1] /\ new[2 * j] = lex[2 * j] BY <1>6, <1>7
        <3> QED BY <2>1, <2>4, <2>5, <3>1
    <2>7. h \in [0 .. p -> Int_] /\ h[0] = 0
        <3>1. 0 \in 0 .. p /\ \A j \in 0 .. p : j \in 0 .. p + 1 OBVIOUS
        <3> QED BY <2>1, <2>4, <3>1
    <2> QED BY <2>1, <2>2, <2>3, <2>4, <2>6, <2>7 DEF Sums
<1> QED BY <1>6, <1>8, <1>9, <1>10

LEMMA UnitWritten ==
    ASSUME NEW m \in Int_, NEW b, NEW p \in Nat, Adds(b, p, m), NEW u \in Unit, NEW c, c = WriteUnit(b, u)
    PROVE  \E k \in Nat : Adds(c, k, m) /\ c.rest < unitsToDuration[u]
<1>1. PICK v \in Nat \ {0} : v = unitsToDuration[u] BY UnitValues
<1>2. u \in DOMAIN durationUnits /\ durationUnits[u] = v BY <1>1, UnitValues
<1>3. PICK h \in Nat \ {0} : Int_ = -h .. h - 1 BY HalfIs
<1>4. b.rest \in 0 .. m /\ m \in Nat /\ b.rest \in Nat
    <2>1. b.rest \in 0 .. m /\ m \in Int BY <1>3 DEF Adds
    <2> QED BY <2>1
<1>5. CASE b.rest < v
    <2>1. c = b BY <1>1, <1>5 DEF WriteUnit
    <2> QED BY <1>1, <1>5, <2>1
<1>6. CASE ~(b.rest < v)
    <2>1. PICK r, q : r = b.rest % v /\ q = b.rest \div v OBVIOUS
    <2>2. r \in 0 .. v - 1 /\ q \in Nat /\ v * q \in Nat /\ b.rest = v * q + r
        <3>1. b.rest \in Int /\ 0 <= b.rest BY <1>4
        <3>2. r \in 0 .. v - 1 /\ q \in Nat /\ b.rest = v * q + r BY <2>1, <3>1, DivisionIs
        <3>3. v * q \in Nat BY <3>2
        <3> QED BY <3>2, <3>3
    <2>3. c = [rest |-> r, lex |-> b.lex \o <<<<"number", q>>, <<"unit", u>>>>]
        BY <1>1, <1>6, <2>1 DEF WriteUnit
    <2>4. c.rest = r /\ c.lex = b.lex \o <<<<"number", q>>, <<"unit", u>>>> BY <2>3
    <2>5. Pairs(b.lex, p) /\ IsList(b.lex, 2 * p) BY DEF Adds
    <2>6. /\ Pairs(c.lex, p + 1) /\ IsList(c.lex, 2 * (p + 1))
          /\ \A g : Sums(g, c.lex, p + 1) =>
                /\ Sums([j \in 0 .. p |-> g[j]], b.lex, p) /\ g[p] \in Int_
                /\ g[p + 1] = Wrap(g[p] + q * v)
        <3>1. PICK w : w = durationUnits[u] /\ w = v BY <1>2
        <3>2. /\ Pairs(c.lex, p + 1) /\ IsList(c.lex, 2 * (p + 1))
              /\ \A g : Sums(g, c.lex, p + 1) =>
                    /\ Sums([j \in 0 .. p |-> g[j]], b.lex, p) /\ g[p] \in Int_
                    /\ g[p + 1] = Wrap(g[p] + q * durationUnits[u])
            <4>1. PICK lex, new : lex = b.lex /\ new = c.lex OBVIOUS
            <4>2. Pairs(lex, p) /\ IsList(lex, 2 * p) BY <2>5, <4>1
            <4>3. new = WithTwo(lex, <<"number", q>>, <<"unit", u>>) BY <2>4, <4>1 DEF WithTwo
            <4>4. /\ Pairs(new, p + 1) /\ IsList(new, 2 * (p + 1))
                  /\ \A g : Sums(g, new, p + 1) =>
                        /\ Sums([j \in 0 .. p |-> g[j]], lex, p) /\ g[p] \in Int_
                        /\ g[p + 1] = Wrap(g[p] + q * durationUnits[u])
                BY <1>2, <2>2, <4>2, <4>3, AppendedPair
            <4> QED BY <4>1, <4>4
        <3> QED BY <3>1, <3>2, Zenon
    <2>7. ASSUME NEW g, Sums(g, c.lex, p + 1) PROVE g[p + 1] = m - r
        <3>1. PICK f : f = [j \in 0 .. p |-> g[j]] OBVIOUS
        <3>2. Sums(f, b.lex, p) /\ f[p] = g[p] BY <2>6, <2>7, <3>1
        <3>3. g[p] = m - b.rest BY <3>2 DEF Adds
        <3>4. q * v = v * q BY <2>2
        <3>5. g[p] + q * v = m - r BY <1>4, <2>2, <3>3, <3>4
        <3>6. m - r \in Int_ /\ m - r \in Int BY <1>3, <1>4, <2>2
        <3> QED BY <2>6, <2>7, <3>5, <3>6, WrapIs
    <2>8. r \in 0 .. m BY <1>4, <2>2
    <2>9. Adds(c, p + 1, m) BY <2>4, <2>6, <2>7, <2>8 DEF Adds
    <2> QED BY <1>1, <2>2, <2>4, <2>9
<1> QED BY <1>5, <1>6

\* ParseExtendedDuration reads what ToExtendedString writes.
LEMMA MagnitudeWritten ==
    ASSUME NEW d \in Int_, d # 0, d # MinInt, NEW m, m = IF d < 0 THEN -d ELSE d
    PROVE  \E lex, p : /\ ToExtendedString(d) = [neg |-> d < 0, lex |-> lex]
                       /\ p \in Nat \ {0} /\ Pairs(lex, p) /\ \A g : Sums(g, lex, p) => g[p] = m
<1>0. d \in Int BY NegateIs
<1>1. PICK n, s : n = Cardinality(Unit) /\ s = unitsByDurationDesc OBVIOUS
<1>2. n \in Nat \ {0} /\ s \in [1 .. n -> Unit] /\ s[n] = "ns" BY <1>1, UnitsSorted
<1>3. PICK f : /\ ToExtendedString(d) = [neg |-> d < 0, lex |-> f[n].lex]
               /\ f[0] = [rest |-> IF d < 0 THEN Negate(d) ELSE d, lex |-> <<>>]
               /\ \A i \in 1 .. n : f[i] = WriteUnit(f[i - 1], s[i])
    BY <1>0, <1>1, ToExtendedStringUnfolds
<1>4. d \in Int /\ m \in Nat \ {0} /\ m \in Int_ /\ f[0] = [rest |-> m, lex |-> <<>>]
    <2>1. d \in Int /\ Negate(d) = -d /\ -d \in Int_ BY NegateIs
    <2> QED BY <1>3, <2>1
<1> DEFINE Right(i) == \E p \in Nat : Adds(f[i], p, m)
<1>5. Right(0)
    <2>1. f[0].rest = m /\ f[0].lex = <<>> BY <1>4
    <2>2. PICK e : e = <<>> /\ Len(e) = 0 /\ DOMAIN e = 1 .. 0 /\ e = [i \in 1 .. 0 |-> e[i]] OBVIOUS
    <2>3. Pairs(e, 0) BY <2>2 DEF Pairs
    <2>4. \A g : Sums(g, e, 0) => g[0] = m - m BY <1>4 DEF Sums
    <2>5. m \in 0 .. m BY <1>4
    <2>6. IsList(e, 2 * 0) BY <2>2 DEF IsList
    <2>7. Adds(f[0], 0, m) BY <2>1, <2>2, <2>3, <2>4, <2>5, <2>6 DEF Adds
    <2> QED BY <2>7
<1>6. ASSUME NEW i \in 1 .. n, Right(i - 1)
      PROVE  \E p \in Nat : Adds(f[i], p, m) /\ f[i].rest < unitsToDuration[s[i]]
    <2>1. PICK p \in Nat : Adds(f[i - 1], p, m) BY <1>6
    <2>2. f[i] = WriteUnit(f[i - 1], s[i]) /\ s[i] \in Unit BY <1>2, <1>3
    <2> QED BY <1>4, <2>1, <2>2, UnitWritten
<1>7. ASSUME {i \in 0 .. n : ~Right(i)} # {} PROVE FALSE
    <2> DEFINE Wrong == {i \in 0 .. n : ~Right(i)}
    <2>1. Wrong \subseteq Nat /\ Wrong # {} BY <1>7
    <2> HIDE DEF Wrong
    <2>2. PICK i \in Wrong : \A l \in Wrong : i <= l BY <2>1, LeastExists
    <2>3. i \in 0 .. n /\ ~Right(i) BY <2>2 DEF Wrong
    <2>4. i # 0 BY <1>5, <2>3
    <2>5. i \in 1 .. n /\ i - 1 \in 0 .. n /\ i - 1 < i BY <1>2, <2>3, <2>4
    <2>6. i - 1 \notin Wrong BY <2>1, <2>2, <2>5
    <2>7. Right(i - 1) BY <2>5, <2>6 DEF Wrong
    <2>8. Right(i) BY <1>6, <2>5, <2>7
    <2> QED BY <2>3, <2>8
<1>8. n \in 1 .. n /\ n - 1 \in 0 .. n BY <1>2
<1>9. Right(n - 1)
    <2>1. n - 1 \notin {i \in 0 .. n : ~Right(i)} BY <1>7
    <2> HIDE DEF Right
    <2> QED BY <1>8, <2>1
<1>10. PICK p \in Nat : Adds(f[n], p, m) /\ f[n].rest < unitsToDuration[s[n]] BY <1>6, <1>8, <1>9
<1>11. f[n].rest = 0
    <2>1. f[n].rest \in 0 .. m /\ f[n].rest < 1 BY <1>2, <1>10, UnitValues DEF Adds
    <2> QED BY <1>4, <2>1
<1>12. PICK lex : lex = f[n].lex OBVIOUS
<1>13. Pairs(lex, p) /\ \A g : Sums(g, lex, p) => g[p] = m
    <2>1. m - 0 = m BY <1>4
    <2> QED BY <1>10, <1>11, <1>12, <2>1 DEF Adds
<1>14. p # 0
    <2>1. ASSUME p = 0 PROVE FALSE
        <3>1. PICK g : Sums(g, lex, p) BY <1>13, PairsAreRead
        <3>2. g[p] = m /\ g[0] = 0 BY <1>13, <3>1 DEF Sums
        <3> QED BY <1>4, <2>1, <3>2
    <2> QED BY <2>1
<1> QED BY <1>3, <1>12, <1>13, <1>14

LEMMA ReadIs ==
    ASSUME NEW lex, NEW neg \in BOOLEAN, NEW p \in Nat, Pairs(lex, p), p # 0 \/ neg
    PROVE  \E g : /\ Sums(g, lex, p)
                  /\ ParseExtendedDuration([neg |-> neg, lex |-> lex]) =
                        [d |-> IF neg THEN Negate(g[p]) ELSE g[p], err |-> FALSE]
<1>1. WellFormed(lex) BY PairsAreRead
<1>2. PICK g : Total(lex) = g[p] /\ Sums(g, lex, p) BY PairsAreRead
<1>3. lex = <<>> => neg
    <2>1. ASSUME lex = <<>> PROVE p = 0
        <3>1. Len(lex) = 2 * p /\ Len(lex) = 0 BY <2>1 DEF Pairs
        <3> QED BY <3>1
    <2> QED BY <2>1
<1>4. PICK t : t = [neg |-> neg, lex |-> lex] OBVIOUS
<1>5. t.neg = neg /\ t.lex = lex BY <1>4
<1>6. ParseExtendedDuration(t) = [d |-> IF neg THEN Negate(g[p]) ELSE g[p], err |-> FALSE]
    BY <1>1, <1>2, <1>3, <1>5 DEF ParseExtendedDuration
<1> QED BY <1>2, <1>4, <1>6

LEMMA NothingWritten ==
    ASSUME MinInt # 0
    PROVE  ToExtendedString(MinInt) = [neg |-> TRUE, lex |-> <<>>]
<1>1. PICK n, s : n = Cardinality(Unit) /\ s = unitsByDurationDesc OBVIOUS
<1>2. n \in Nat \ {0} /\ s \in [1 .. n -> Unit] BY <1>1, UnitsSorted
<1>3. PICK d : d = MinInt OBVIOUS
<1>4. d \in Int_ /\ d \in Int /\ d < 0 /\ Negate(d) = d
    <2>1. d \in Int_ BY <1>3, HalfIs
    <2> QED BY <1>3, <2>1, NegateIs
<1>5. PICK f : /\ ToExtendedString(d) = [neg |-> d < 0, lex |-> f[n].lex]
               /\ f[0] = [rest |-> IF d < 0 THEN Negate(d) ELSE d, lex |-> <<>>]
               /\ \A i \in 1 .. n : f[i] = WriteUnit(f[i - 1], s[i])
    BY <1>1, <1>3, <1>4, ToExtendedStringUnfolds
<1>6. PICK b : b = [rest |-> d, lex |-> <<>>] /\ b.rest = d /\ b.lex = <<>>
    <2>1. PICK b : b = [rest |-> d, lex |-> <<>>] OBVIOUS
    <2>2. b.rest = d /\ b.lex = <<>> BY <2>1
    <2> QED BY <2>1, <2>2, Zenon
<1>7. f[0] = b BY <1>4, <1>5, <1>6
<1>8. ASSUME NEW u \in Unit PROVE WriteUnit(b, u) = b
    <2>1. PICK v \in Nat \ {0} : v = unitsToDuration[u] BY UnitValues
    <2>2. b.rest < v BY <1>4, <1>6
    <2> QED BY <2>1, <2>2 DEF WriteUnit
<1>9. ASSUME {i \in 0 .. n : f[i] # b} # {} PROVE FALSE
    <2> DEFINE Wrong == {i \in 0 .. n : f[i] # b}
    <2>1. Wrong \subseteq Nat /\ Wrong # {} BY <1>9
    <2> HIDE DEF Wrong
    <2>2. PICK i \in Wrong : \A l \in Wrong : i <= l BY <2>1, LeastExists
    <2>3. i \in 0 .. n /\ f[i] # b BY <2>2 DEF Wrong
    <2>4. i # 0 BY <1>7, <2>3
    <2>5. i \in 1 .. n /\ i - 1 \in 0 .. n /\ i - 1 < i BY <1>2, <2>3, <2>4
    <2>6. i - 1 \notin Wrong BY <2>1, <2>2, <2>5
    <2>7. f[i - 1] = b BY <2>5, <2>6 DEF Wrong
    <2>8. f[i] = b BY <1>2, <1>5, <1>8, <2>5, <2>7
    <2> QED BY <2>3, <2>8
<1>10. f[n] = b
    <2>1. n \in 0 .. n BY <1>2
    <2> QED BY <1>9, <2>1
<1>11. (d < 0) = TRUE BY <1>4
<1> QED BY <1>3, <1>5, <1>6, <1>10, <1>11

LEMMA TextIsReadBack ==
    ASSUME NEW d \in Int_
    PROVE  ParseExtendedDuration(ToExtendedString(d)) = [d |-> IF d = MinInt THEN 0 ELSE d, err |-> FALSE]
<1>1. d \in Int /\ MinInt \in Int /\ MinInt < 0 /\ Negate(0) = 0 /\ 0 \in Int_
    <2>1. 0 \in Int_ /\ MinInt \in Int_ /\ 0 # MinInt BY HalfIs
    <2>2. Negate(0) = -0 BY <2>1, NegateIs
    <2> QED BY <2>1, <2>2, NegateIs
<1>2. CASE d = MinInt
    <2>1. ToExtendedString(d) = [neg |-> TRUE, lex |-> <<>>] BY <1>1, <1>2, NothingWritten
    <2>2. PICK e : e = <<>> OBVIOUS
    <2>3. Pairs(e, 0) BY <2>2 DEF Pairs
    <2>4. PICK g : /\ Sums(g, e, 0)
                   /\ ParseExtendedDuration([neg |-> TRUE, lex |-> e]) = [d |-> Negate(g[0]), err |-> FALSE]
        BY <2>3, ReadIs
    <2>5. g[0] = 0 BY <2>4 DEF Sums
    <2> QED BY <1>1, <1>2, <2>1, <2>2, <2>4, <2>5
<1>3. CASE d = 0
    <2>1. PICK x, y : x = <<"number", 0>> /\ y = <<"unit", "s">> OBVIOUS
    <2>2. PICK lex : lex = <<x, y>> /\ Len(lex) = 2 /\ DOMAIN lex = 1 .. 2 /\ lex[1] = x /\ lex[2] = y
        <3>1. PICK lex : lex = <<x, y>> OBVIOUS
        <3>2. Len(lex) = 2 /\ DOMAIN lex = 1 .. 2 /\ lex[1] = x /\ lex[2] = y BY <3>1
        <3> QED BY <3>1, <3>2, Zenon
    <2>3. ToExtendedString(d) = [neg |-> FALSE, lex |-> lex] BY <1>3, <2>1, <2>2 DEF ToExtendedString
    <2>4. Pairs(lex, 1)
        <3>1. "s" \in DOMAIN durationUnits BY UnitValues
        <3>2. x[1] = "number" /\ x[2] = 0 /\ y[2] = "s" BY <2>1
        <3>3. \A j \in 1 .. 1 : 2 * j - 1 = 1 /\ 2 * j = 2 OBVIOUS
        <3> QED BY <2>2, <3>1, <3>2, <3>3 DEF Pairs
    <2>5. PICK g : /\ Sums(g, lex, 1)
                   /\ ParseExtendedDuration([neg |-> FALSE, lex |-> lex]) = [d |-> g[1], err |-> FALSE]
        <3>1. PICK neg \in BOOLEAN : neg = FALSE OBVIOUS
        <3>2. PICK g : /\ Sums(g, lex, 1)
                       /\ ParseExtendedDuration([neg |-> neg, lex |-> lex]) =
                            [d |-> IF neg THEN Negate(g[1]) ELSE g[1], err |-> FALSE]
            BY <2>4, ReadIs
        <3> QED BY <3>1, <3>2
    <2>6. g[1] = 0
        <3>1. g[1] = Wrap(g[1 - 1] + lex[2 * 1 - 1][2] * durationUnits[lex[2 * 1][2]]) /\ g[0] = 0
            BY <2>5 DEF Sums
        <3>2. PICK a \in Nat : a = durationUnits["s"] BY UnitValues, DurationsAssumption
        <3>3. x[2] = 0 /\ y[2] = "s" BY <2>1
        <3>4. g[1] = Wrap(0 + 0 * a) BY <2>2, <3>1, <3>2, <3>3
        <3>5. 0 + 0 * a = 0 OBVIOUS
        <3> QED BY <1>1, <3>4, <3>5, WrapIs
    <2> QED BY <1>1, <1>3, <2>3, <2>5, <2>6
<1>4. CASE d # 0 /\ d # MinInt
    <2>1. PICK m : m = IF d < 0 THEN -d ELSE d OBVIOUS
    <2>2. PICK lex, p : /\ ToExtendedString(d) = [neg |-> d < 0, lex |-> lex]
                        /\ p \in Nat \ {0} /\ Pairs(lex, p) /\ \A g : Sums(g, lex, p) => g[p] = m
        BY <1>1, <1>4, <2>1, MagnitudeWritten
    <2>3. PICK neg \in BOOLEAN : neg <=> d < 0 OBVIOUS
    <2>4. ToExtendedString(d) = [neg |-> neg, lex |-> lex] BY <2>2, <2>3
    <2>5. PICK g : /\ Sums(g, lex, p)
                   /\ ParseExtendedDuration([neg |-> neg, lex |-> lex]) =
                        [d |-> IF neg THEN Negate(g[p]) ELSE g[p], err |-> FALSE]
        BY <2>2, ReadIs
    <2>6. g[p] = m BY <2>2, <2>5
    <2>7. (IF neg THEN Negate(m) ELSE m) = d
        <3>1. CASE d < 0
            <4>1. m = -d /\ m > 0 /\ -d \in Int_ BY <1>1, <1>4, <2>1, <3>1, NegateIs
            <4>2. Negate(m) = -m BY <1>1, <4>1, NegateIs
            <4> QED BY <1>1, <2>3, <3>1, <4>1, <4>2
        <3>2. CASE ~(d < 0) BY <2>1, <2>3, <3>2
        <3> QED BY <3>1, <3>2
    <2> QED BY <1>4, <2>4, <2>5, <2>6, <2>7
<1> QED BY <1>2, <1>3, <1>4

\* Products and quotients of units.
LEMMA QuotientSmall ==
    ASSUME NEW v \in Nat \ {0}, NEW q \in Nat, NEW n \in Nat, v * q <= n
    PROVE  q <= n /\ v * q \in Nat /\ q * v = v * q /\ (-q) * v = -(v * q)
<1>1. v * q \in Nat /\ q * v = v * q OBVIOUS
<1>2. q <= v * q
    <2>1. PICK w \in Nat : v = w + 1
        <3>1. v - 1 \in Nat /\ v = (v - 1) + 1 OBVIOUS
        <3> QED BY <3>1
    <2>2. v * q = w * q + q /\ w * q \in Nat BY <2>1
    <2> QED BY <2>2
<1>3. (-q) * v = -(v * q) OBVIOUS
<1> QED BY <1>1, <1>2, <1>3

LEMMA ProductDivides ==
    ASSUME NEW v \in Nat \ {0}, NEW j \in Int PROVE (v * j) % v = 0
OBVIOUS

LEMMA MaxUnitIs ==
    ASSUME NEW d \in Int_
    PROVE  LET max == MaxUnitForDuration(d) IN
           d # MinInt =>
                /\ max[1] * unitsToDuration[max[2]] = d
                /\ \A u \in Unit : d # 0 /\ d % unitsToDuration[u] = 0 => unitsToDuration[u] <= unitsToDuration[max[2]]
                /\ \A u \in UnitOf(d) : max = <<1, u>>
<1> SUFFICES ASSUME d # MinInt
             PROVE  LET max == MaxUnitForDuration(d) IN
                    /\ max[1] * unitsToDuration[max[2]] = d
                    /\ \A u \in Unit : d # 0 /\ d % unitsToDuration[u] = 0 => unitsToDuration[u] <= unitsToDuration[max[2]]
                    /\ \A u \in UnitOf(d) : max = <<1, u>>
    OBVIOUS
<1> DEFINE V(u) == unitsToDuration[u]
<1>1. PICK n : n = IF d < 0 THEN Negate(d) ELSE d OBVIOUS
<1>2. d \in Int /\ n \in Nat /\ n \in Int_ /\ (n = d \/ (n = -d /\ d < 0)) /\ (d >= 0 => n = d) BY <1>1, NegateIs
<1> DEFINE Longest(u) == Fits(u, n) /\ \A v \in Unit : Fits(v, n) => V(v) <= V(u)
<1>0. \A u : Fits(u, n) <=> n >= V(u) /\ n % V(u) = 0 BY DEF Fits
<1>3. \A u \in Unit : V(u) \in Nat \ {0} /\ (V(u) = 1 <=> u = "ns") BY UnitValues
<1>4. "ns" \in Unit /\ V("ns") = 1 BY UnitValues
<1>5. \A u, v \in Unit : V(u) = V(v) => u = v BY UnitValues
<1>6. PICK max : max = MaxUnitForDuration(d) OBVIOUS
<1> HIDE DEF V
<1>7. CASE n = 0
    <2>1. \A u \in Unit : ~Fits(u, n) BY <1>0, <1>3, <1>7
    <2>2. max = <<0, "ns">> BY <1>1, <1>6, <2>1 DEF MaxUnitForDuration, V
    <2>3. d = 0 /\ max[1] = 0 /\ max[2] = "ns" BY <1>2, <1>7, <2>2
    <2>4. UnitOf(d) = {} BY <1>3, <2>3 DEF UnitOf, V
    <2>5. 0 * V("ns") = 0 BY <1>4
    <2> QED BY <1>6, <2>3, <2>4, <2>5 DEF V
<1>8. CASE n # 0
    <2>1. Fits("ns", n)
        <3>1. n % 1 = 0 BY <1>2
        <3> QED BY <1>0, <1>2, <1>4, <1>8, <3>1
    <2>2. \E u \in Unit : Longest(u)
        <3> DEFINE Gap == {n - V(u) : u \in {w \in Unit : Fits(w, n)}}
        <3>1. Gap \subseteq Nat /\ n - V("ns") \in Gap BY <1>0, <1>2, <1>3, <1>4, <2>1
        <3> HIDE DEF Gap
        <3>2. PICK k \in Gap : \A l \in Gap : k <= l BY <3>1, LeastExists
        <3>3. PICK u \in Unit : Fits(u, n) /\ k = n - V(u) BY <3>2 DEF Gap
        <3>4. ASSUME NEW v \in Unit, Fits(v, n) PROVE V(v) <= V(u)
            <4>1. n - V(v) \in Gap BY <3>4 DEF Gap
            <4>2. n - V(u) <= n - V(v) BY <3>2, <3>3, <4>1
            <4> QED BY <1>2, <1>3, <4>2
        <3> QED BY <3>3, <3>4
    <2>3. PICK u : u = LongestFit(n) /\ u = CHOOSE w \in Unit : Longest(w) BY DEF LongestFit, V
    <2>4. u \in Unit /\ Longest(u)
        <3> HIDE DEF Longest
        <3> QED BY <2>2, <2>3
    <2>5. PICK q : q = n \div V(u) OBVIOUS
    <2>6. max = <<IF d < 0 THEN Negate(q) ELSE q, u>>
        <3>1. \E w \in Unit : Fits(w, n) BY <1>4, <2>1
        <3> QED BY <1>1, <1>6, <2>3, <2>5, <3>1 DEF MaxUnitForDuration, V
    <2>7. q \in Nat /\ V(u) * q = n
        <3>1. PICK v \in Nat \ {0} : v = V(u) BY <1>3, <2>4
        <3>2. q = n \div v /\ n % v = 0 BY <1>0, <2>4, <2>5, <3>1
        <3>3. n \in Int /\ 0 <= n BY <1>2
        <3>4. n \div v \in Nat /\ n = v * (n \div v) + (n % v) BY <3>3, DivisionIs
        <3>5. q \in Nat /\ n = v * q + 0 BY <3>2, <3>4
        <3>6. v * q \in Nat BY <3>5
        <3> QED BY <3>1, <3>5, <3>6
    <2>8. q <= n /\ q * V(u) = n /\ (-q) * V(u) = -n
        <3>1. V(u) * q <= n BY <1>2, <2>7
        <3> QED BY <1>2, <1>3, <2>4, <2>7, <3>1, QuotientSmall
    <2>9. Negate(q) = -q
        <3>1. PICK h \in Nat \ {0} : Int_ = -h .. h - 1 /\ MinInt = -h BY HalfIs
        <3>2. q \in Int_ /\ q # MinInt BY <1>2, <2>7, <2>8, <3>1
        <3> QED BY <3>2, NegateIs
    <2>10. max[2] = u /\ max[1] = IF d < 0 THEN -q ELSE q BY <2>6, <2>9
    <2>11. max[1] * V(u) = d
        <3>1. CASE d < 0 BY <1>2, <2>8, <2>10, <3>1
        <3>2. CASE ~(d < 0) BY <1>2, <2>8, <2>10, <3>2
        <3> QED BY <3>1, <3>2
    <2>12. ASSUME NEW w \in Unit, d % V(w) = 0 PROVE V(w) <= V(u)
        <3>1. n % V(w) = 0
            <4>1. CASE n = d BY <2>12, <4>1
            <4>2. CASE n = -d
                <5>1. PICK v \in Nat \ {0}, k \in Int : v = V(w) /\ k = d \div v BY <1>2, <1>3, DivisionIs
                <5>2. d = v * k
                    <6>1. d % v = 0 BY <2>12, <5>1
                    <6>2. d = v * k + (d % v) BY <1>2, <5>1, DivisionIs
                    <6>3. v * k \in Int OBVIOUS
                    <6> QED BY <6>1, <6>2, <6>3
                <5>3. PICK j \in Int : j = -k OBVIOUS
                <5>4. n = v * j BY <1>2, <4>2, <5>2, <5>3
                <5> QED BY <5>1, <5>4, ProductDivides
            <4> QED BY <1>2, <4>1, <4>2
        <3>2. n >= V(w) BY <1>2, <1>3, <1>8, <3>1, ModuloSmall
        <3> QED BY <1>0, <2>4, <3>1, <3>2
    <2>13. ASSUME NEW w \in UnitOf(d) PROVE max = <<1, w>>
        <3>1. w \in Unit /\ V(w) = d BY DEF UnitOf, V
        <3>2. n = d /\ ~(d < 0) /\ Fits(w, n)
            <4>1. d >= 0 BY <1>3, <3>1
            <4>2. n = d BY <1>2, <4>1
            <4>3. d % d = 0 BY <1>3, <3>1
            <4> QED BY <1>0, <1>2, <3>1, <4>1, <4>2, <4>3
        <3>3. V(w) <= V(u) /\ V(u) <= n BY <1>0, <2>4, <3>1, <3>2
        <3>4. V(w) = V(u) BY <1>3, <2>4, <3>1, <3>2, <3>3
        <3>5. w = u BY <1>5, <2>4, <3>1, <3>4
        <3>6. q = 1
            <4>1. PICK k \in Nat \ {0} : k = V(u) BY <1>3, <2>4
            <4>2. k \div k = 1 OBVIOUS
            <4> QED BY <2>5, <3>1, <3>2, <3>4, <4>1, <4>2
        <3> QED BY <2>6, <3>2, <3>5, <3>6
    <2> QED BY <1>6, <2>10, <2>11, <2>12, <2>13 DEF V
<1> QED BY <1>7, <1>8

\* Normalized counts lose less than a unit, towards zero; Ceil is the first
\* multiple from d on.
LEMMA CountsAreExact ==
    ASSUME NEW d \in Int_, NEW u \in Unit
    PROVE  LET v    == unitsToDuration[u]
               back == FromNormalizedDuration(ToNormalizedDuration(d, v), v)
           IN /\ d >= 0 => back <= d /\ d - back < v /\ Count(u, d) * v = back
              /\ d < 0  => back >= d /\ back - d < v
              /\ d >= 0 => Ceil(d, v) % v = 0 /\ Ceil(d, v) \in d .. d + v - 1
<1>1. PICK v \in Nat \ {0} : v = unitsToDuration[u] BY UnitValues
<1>2. PICK h \in Nat \ {0} : h = Half /\ Int_ = -h .. h - 1 BY HalfIs
<1>3. d \in Int /\ -h <= d /\ d <= h - 1 BY <1>2
<1>4. PICK back : back = FromNormalizedDuration(ToNormalizedDuration(d, v), v) OBVIOUS
<1>5. back = Wrap(Quotient(d, v) * v) BY <1>4 DEF FromNormalizedDuration, ToNormalizedDuration
<1>6. CASE d >= 0
    <2>1. 0 <= d /\ ~(d < 0) /\ d \in Nat BY <1>3, <1>6
    <2>2. PICK q \in Nat, r \in 0 .. v - 1 : q = d \div v /\ r = d % v /\ d = v * q + r /\ v * q <= d
        BY <1>3, <2>1, DivisionIs
    <2>3. v * q \in Nat /\ q * v = v * q BY <2>1, <2>2, QuotientSmall
    <2>4. back = v * q
        <3>1. v * q \in Int_ BY <1>2, <1>3, <2>2, <2>3
        <3>2. Quotient(d, v) * v = v * q BY <2>1, <2>2, <2>3 DEF Quotient
        <3> QED BY <1>5, <2>3, <3>1, <3>2, WrapIs
    <2>5. Count(u, d) * v = v * q BY <1>1, <2>1, <2>2, <2>3 DEF Count
    <2>6. Ceil(d, v) % v = 0 /\ Ceil(d, v) \in d .. d + v - 1
        <3>1. CASE r = 0
            <4>1. Ceil(d, v) = d BY <2>2, <3>1 DEF Ceil
            <4> QED BY <1>3, <2>2, <3>1, <4>1
        <3>2. CASE r # 0
            <4>1. PICK j \in Nat : j = q + 1 OBVIOUS
            <4>2. Ceil(d, v) = v * j
                <5>1. Ceil(d, v) = (q + 1) * v BY <2>2, <3>2 DEF Ceil
                <5>2. j * v = v * j OBVIOUS
                <5> QED BY <4>1, <5>1, <5>2
            <4>3. v * j = v * q + v BY <4>1
            <4>4. (v * j) % v = 0 BY ProductDivides
            <4>5. v * q + v \in d .. d + v - 1
                <5>1. PICK m \in Nat : m = v * q BY <2>3
                <5>2. d = m + r BY <2>2, <5>1
                <5> QED BY <1>3, <2>2, <3>2, <5>1, <5>2
            <4> QED BY <4>2, <4>3, <4>4, <4>5
        <3> QED BY <3>1, <3>2
    <2>7. v * q <= d /\ d - v * q < v
        <3>1. PICK m \in Nat : m = v * q BY <2>3
        <3> QED BY <2>2, <3>1
    <2> QED BY <1>1, <1>4, <2>1, <2>4, <2>5, <2>6, <2>7
<1>7. CASE d < 0
    <2>1. PICK e \in Nat : e = -d BY <1>3, <1>7
    <2>2. PICK q \in Nat, r \in 0 .. v - 1 : q = e \div v /\ e = v * q + r /\ v * q <= e
        <3>1. e \in Int /\ 0 <= e OBVIOUS
        <3>2. e \div v \in Nat /\ e % v \in 0 .. v - 1 /\ e = v * (e \div v) + (e % v) /\ v * (e \div v) <= e
            BY <3>1, DivisionIs
        <3> QED BY <3>2
    <2>3. v * q \in Nat /\ (-q) * v = -(v * q) BY <2>1, <2>2, QuotientSmall
    <2>4. PICK m \in Nat : m = v * q BY <2>3
    <2>5. back = -m
        <3>1. Quotient(d, v) = -q BY <1>7, <2>1, <2>2 DEF Quotient
        <3>2. -m \in Int_ /\ -m \in Int BY <1>2, <1>3, <2>1, <2>2, <2>4
        <3>3. back = Wrap(-m) BY <1>5, <2>3, <2>4, <3>1
        <3> QED BY <3>2, <3>3, WrapIs
    <2>6. -m >= d /\ -m - d < v BY <1>3, <2>1, <2>2, <2>4
    <2>7. ~(d >= 0) BY <1>3, <1>7
    <2> QED BY <1>1, <1>4, <2>5, <2>6, <2>7
<1> QED BY <1>3, <1>6, <1>7

\* The variables hold a duration and a flag.
DurationsInv == dur \in Int_ /\ durErr \in BOOLEAN

\* Every text of the program is read as a duration.
LEMMA ParsedInRange ==
    ASSUME NEW text \in Text
    PROVE  ParseExtendedDuration(text).d \in Int_ /\ ParseExtendedDuration(text).err \in BOOLEAN
<1>1. 0 \in Int_ BY HalfIs
<1>2. PICK lex : lex = text.lex OBVIOUS
<1>3. PICK n \in Nat : lex \in [1 .. n -> Lexeme] BY <1>2 DEF Text
<1>4. Len(lex) = n /\ DOMAIN lex = 1 .. n
    <2>1. lex \in Seq(Lexeme) BY <1>3
    <2> QED BY <1>3, <2>1
<1>5. ASSUME WellFormed(lex) PROVE Total(lex) \in Int_
    <2>1. PICK p \in Nat : p = Len(lex) \div 2 /\ 2 * p <= n
        <3>1. n \div 2 \in Nat /\ 2 * (n \div 2) <= n OBVIOUS
        <3> QED BY <1>4, <3>1
    <2>2. \A j \in 1 .. p : lex[2 * j - 1][2] \in Nat /\ durationUnits[lex[2 * j][2]] \in Nat
        <3> SUFFICES ASSUME NEW j \in 1 .. p
                     PROVE  lex[2 * j - 1][2] \in Nat /\ durationUnits[lex[2 * j][2]] \in Nat
            OBVIOUS
        <3>1. PICK i \in 1 .. n, k \in 1 .. n : i = 2 * j - 1 /\ k = 2 * j /\ i % 2 = 1 /\ k % 2 = 0
            <4>1. 2 * j - 1 \in 1 .. n /\ 2 * j \in 1 .. n BY <2>1
            <4>2. (2 * j - 1) % 2 = 1 /\ (2 * j) % 2 = 0 OBVIOUS
            <4> QED BY <4>1, <4>2
        <3>2. lex[i][1] = "number" /\ lex[k][2] \in DOMAIN durationUnits BY <1>4, <1>5, <3>1 DEF WellFormed
        <3>3. lex[i] \in Lexeme BY <1>3
        <3>4. lex[i][2] \in Number BY <3>2, <3>3 DEF Lexeme
        <3> QED BY <3>1, <3>2, <3>4, DurationsAssumption
    <2>3. PICK g : Total(lex) = g[p] /\ Sums(g, lex, p) BY <2>1, <2>2, TotalUnfolds
    <2>4. p \in 0 .. p OBVIOUS
    <2> QED BY <2>3, <2>4 DEF Sums
<1>6. CASE ~WellFormed(lex) \/ (lex = <<>> /\ ~text.neg) BY <1>1, <1>2, <1>6 DEF ParseExtendedDuration
<1>7. CASE WellFormed(lex) /\ ~(lex = <<>> /\ ~text.neg)
    <2>1. Total(lex) \in Int_ /\ Negate(Total(lex)) \in Int_ BY <1>5, <1>7, NegateIs
    <2> QED BY <1>2, <1>7, <2>1 DEF ParseExtendedDuration
<1> QED BY <1>6, <1>7

LEMMA DurationsNextInv == DurationsInv /\ [DurationsNext]_durationsVars => DurationsInv'
<1> SUFFICES ASSUME DurationsInv, [DurationsNext]_durationsVars PROVE DurationsInv'
    OBVIOUS
<1>1. ASSUME NEW text \in Text, ParseText(text) PROVE DurationsInv'
    BY <1>1, ParsedInRange DEF ParseText, DurationsInv
<1>2. ASSUME NEW u \in Unit \cup {BadUnit}, DurationFromUnit(u) PROVE DurationsInv'
    <2>1. PICK h \in Nat \ {0} : h = Half /\ Int_ = -h .. h - 1 BY HalfIs
    <2>2. 0 \in Int_ BY <2>1
    <2>3. u \in Unit => unitsToDuration[u] \in Int_
        <3>1. u \in Unit => unitsToDuration[u] \in 1 .. h - 1 BY <2>1, UnitValues
        <3> QED BY <2>1, <3>1
    <2> QED BY <1>2, <2>2, <2>3 DEF DurationFromUnit, DurationsInv
<1>3. CASE UNCHANGED durationsVars BY <1>3 DEF DurationsInv, durationsVars
<1> QED BY <1>1, <1>2, <1>3 DEF DurationsNext

LEMMA DurationsInRangeAreExact == DurationsInv => DurationsExact
<1> SUFFICES ASSUME DurationsInv PROVE DurationsExact
    OBVIOUS
<1>1. dur \in Int_ BY DEF DurationsInv
<1>2. ASSUME dur = MinInt PROVE UnitOf(dur) = {}
    <2>1. PICK h \in Nat \ {0} : MinInt = -h BY HalfIs
    <2>2. \A u \in Unit : unitsToDuration[u] \in Nat \ {0} BY UnitValues
    <2> QED BY <1>2, <2>1, <2>2 DEF UnitOf
<1>3. TextRoundTrips BY <1>1, TextIsReadBack DEF TextRoundTrips
<1>4. PICK max : max = MaxUnitForDuration(dur) OBVIOUS
<1>5. dur # MinInt =>
        /\ max[1] * unitsToDuration[max[2]] = dur
        /\ \A u \in Unit : dur # 0 /\ dur % unitsToDuration[u] = 0 => unitsToDuration[u] <= unitsToDuration[max[2]]
        /\ \A u \in UnitOf(dur) : max = <<1, u>>
    BY <1>1, <1>4, MaxUnitIs
<1>6. \A u \in UnitOf(dur) : max = <<1, u>> BY <1>2, <1>5
<1> QED BY <1>1, <1>3, <1>4, <1>5, <1>6, CountsAreExact DEF DurationsExact

\* Durations are converted to text and to counts of units without loss beyond
\* the unit, whatever the width of a duration and the values of the units:
\* ToExtendedString and ParseExtendedDuration, MaxUnitForDuration, Count, the
\* normalized conversions and Ceil.
THEOREM DurationsAreExact == DurationsSpec => []DurationsExact
<1>1. DurationsInit => DurationsInv BY DEF DurationsInit, DurationsInv
<1> QED BY <1>1, DurationsNextInv, DurationsInRangeAreExact, PTL DEF DurationsSpec

=============================================================================
