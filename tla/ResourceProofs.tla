--------------------------- MODULE ResourceProofs ---------------------------
(***************************************************************************)
(* Theorems about what pools hand out and take back: elements that are     *)
(* watched for leaks, slices, and the bytes of identifiers.                *)
(***************************************************************************)
EXTENDS LeakcheckPool, SlicePools, Ident,
        FiniteSetTheorems, FunctionTheorems, SequenceTheorems,
        NaturalsInduction, WellFoundedInduction, TLAPS

LEMMA LeastExists ==
    ASSUME NEW S, S \subseteq Nat, S # {} PROVE \E n \in S : \A m \in S : n <= m
<1>1. PICK R : R = OpToRel(<, Nat) OBVIOUS
<1>2. IsWellFoundedOn(R, Nat) BY <1>1, NatLessThanWellFounded
<1>3. \A m, n \in Nat : m < n => <<m, n>> \in R BY <1>1 DEF OpToRel
<1>4. PICK n \in S : \A m \in S : ~(<<m, n>> \in R) BY <1>2, WFMin, Zenon
<1>5. \A m \in S : ~(m < n) BY <1>3, <1>4, Zenon
<1>6. \A m \in S : n <= m BY <1>5
<1> QED BY <1>6

-----------------------------------------------------------------------------
(* LeakcheckPool.                                                          *)

\* The pending items, and the outstanding elements, of value v.
PendingOf(v, s) == {n \in DOMAIN s : s[n][1] = v}
HeldOf(v, S) == {e \in S : e[1] = v}

LeakcheckTypeOK ==
    /\ NumGets \in Nat /\ NumPuts \in Nat /\ tracked \in BOOLEAN
    /\ PendingItems \in Seq(Elem)
    /\ outstanding \subseteq Elem /\ IsFiniteSet(outstanding)

\* Of each value as many items are pending as elements are outstanding.
ValuesMatch(items, S) ==
    \A v \in {e[1] : e \in Elem} : Cardinality(PendingOf(v, items)) = Cardinality(HeldOf(v, S))

\* And as many in all as Gets have had no Put.
ItemsMatch ==
    /\ Len(PendingItems) = NumGets - NumPuts
    /\ Cardinality(outstanding) = NumGets - NumPuts
    /\ ValuesMatch(PendingItems, outstanding)

LeakcheckInv == LeakcheckTypeOK /\ (tracked => ItemsMatch)

LEMMA PendingOfFinite ==
    ASSUME NEW s \in Seq(Elem), NEW v
    PROVE  /\ IsFiniteSet(PendingOf(v, s)) /\ Cardinality(PendingOf(v, s)) \in Nat
           /\ PendingOf(v, s) \subseteq 1 .. Len(s)
<1>1. PendingOf(v, s) \in SUBSET (1 .. Len(s)) BY DEF PendingOf
<1>2. IsFiniteSet(1 .. Len(s)) BY FS_Interval
<1> QED BY <1>1, <1>2, FS_Subset, FS_CardinalityType

LEMMA PendingOfAppend ==
    ASSUME NEW s \in Seq(Elem), NEW e \in Elem, NEW v
    PROVE  Cardinality(PendingOf(v, Append(s, e)))
               = Cardinality(PendingOf(v, s)) + (IF e[1] = v THEN 1 ELSE 0)
<1> DEFINE n == Len(s) + 1
<1>1. n \notin PendingOf(v, s) BY PendingOfFinite
<1>2. IsFiniteSet(PendingOf(v, s)) /\ Cardinality(PendingOf(v, s)) \in Nat BY PendingOfFinite
<1>3. /\ DOMAIN Append(s, e) = 1 .. n /\ DOMAIN s = 1 .. Len(s) /\ Append(s, e)[n] = e
      /\ \A k \in 1 .. Len(s) : Append(s, e)[k] = s[k]
      /\ 1 .. n = 1 .. Len(s) \cup {n}
    OBVIOUS
<1> HIDE DEF n
<1>4. CASE e[1] = v
    <2>1. PendingOf(v, Append(s, e)) = PendingOf(v, s) \cup {n} BY <1>3, <1>4 DEF PendingOf
    <2> QED BY <1>1, <1>2, <1>4, <2>1, FS_AddElement
<1>5. CASE e[1] # v
    <2>1. PendingOf(v, Append(s, e)) = PendingOf(v, s) BY <1>3, <1>5 DEF PendingOf
    <2> QED BY <1>2, <1>5, <2>1
<1> QED BY <1>4, <1>5

\* r is s without its item p.
WithoutItem(r, s, p) ==
    /\ Len(r) = Len(s) - 1
    /\ \A k \in 1 .. Len(s) - 1 : r[k] = s[IF k < p THEN k ELSE k + 1]

LEMMA JoinItems ==
    ASSUME NEW s \in Seq(Elem), NEW p \in 1 .. Len(s), NEW a \in Seq(Elem), NEW b \in Seq(Elem),
           Len(a) = p - 1, \A k \in 1 .. p - 1 : a[k] = s[k],
           Len(b) = Len(s) - p, \A k \in 1 .. Len(s) - p : b[k] = s[k + p]
    PROVE  a \o b \in Seq(Elem) /\ WithoutItem(a \o b, s, p)
<1>1. PICK r : r = a \o b OBVIOUS
<1>2. /\ r \in Seq(Elem) /\ Len(r) = Len(a) + Len(b)
      /\ \A k \in 1 .. Len(a) + Len(b) : r[k] = IF k <= Len(a) THEN a[k] ELSE b[k - Len(a)]
    BY <1>1, ConcatProperties
<1>3. Len(s) \in Nat OBVIOUS
<1>4. Len(r) = Len(s) - 1 BY <1>2, <1>3
<1>5. ASSUME NEW k \in 1 .. Len(s) - 1 PROVE r[k] = s[IF k < p THEN k ELSE k + 1]
    <2>1. r[k] = IF k <= p - 1 THEN a[k] ELSE b[k - (p - 1)] BY <1>2, <1>3
    <2>2. CASE k < p BY <2>1, <2>2
    <2>3. CASE ~(k < p)
        <3>1. k - (p - 1) \in 1 .. Len(s) - p /\ (k - (p - 1)) + p = k + 1 BY <1>3, <2>3
        <3>2. b[k - (p - 1)] = s[(k - (p - 1)) + p] BY <3>1
        <3> QED BY <2>1, <2>3, <3>1, <3>2
    <2> QED BY <2>2, <2>3
<1> QED BY <1>1, <1>2, <1>4, <1>5 DEF WithoutItem

LEMMA CutItem ==
    ASSUME NEW s \in Seq(Elem), NEW p \in 1 .. Len(s)
    PROVE  LET r == SubSeq(s, 1, p - 1) \o SubSeq(s, p + 1, Len(s))
           IN  r \in Seq(Elem) /\ WithoutItem(r, s, p)
<1>1. PICK a, b : a = SubSeq(s, 1, p - 1) /\ b = SubSeq(s, p + 1, Len(s)) OBVIOUS
<1>2. Len(s) \in Nat OBVIOUS
<1>3. a \in Seq(Elem) /\ Len(a) = p - 1 /\ \A k \in 1 .. p - 1 : a[k] = s[k]
    BY <1>1, <1>2
<1>4. b \in Seq(Elem) /\ Len(b) = Len(s) - p /\ \A k \in 1 .. Len(s) - p : b[k] = s[k + p]
    BY <1>1, <1>2
<1>5. a \o b \in Seq(Elem) /\ WithoutItem(a \o b, s, p) BY <1>3, <1>4, JoinItems
<1> QED BY <1>1, <1>5

LEMMA PendingOfCut ==
    ASSUME NEW s \in Seq(Elem), NEW p \in 1 .. Len(s), NEW r \in Seq(Elem), WithoutItem(r, s, p), NEW v
    PROVE  Cardinality(PendingOf(v, r))
               = Cardinality(PendingOf(v, s)) - (IF s[p][1] = v THEN 1 ELSE 0)
<1> DEFINE E == PendingOf(v, s)  F == PendingOf(v, r)  f == [k \in F |-> IF k < p THEN k ELSE k + 1]
<1>1. IsFiniteSet(E) /\ Cardinality(E) \in Nat /\ E \subseteq 1 .. Len(s) BY PendingOfFinite
<1>2. IsFiniteSet(F) /\ Cardinality(F) \in Nat /\ F \subseteq 1 .. Len(r) BY PendingOfFinite
<1>3. /\ Len(s) \in Nat /\ Len(r) = Len(s) - 1
      /\ \A k \in 1 .. Len(s) - 1 : r[k] = s[IF k < p THEN k ELSE k + 1]
      /\ DOMAIN s = 1 .. Len(s) /\ DOMAIN r = 1 .. Len(s) - 1
    BY SMTT(40) DEF WithoutItem
<1>4. ASSUME NEW k \in F PROVE (IF k < p THEN k ELSE k + 1) \in E \ {p}
    <2>1. k \in 1 .. Len(s) - 1 /\ r[k][1] = v BY <1>3 DEF PendingOf
    <2>2. PICK j : j = IF k < p THEN k ELSE k + 1 OBVIOUS
    <2>3. j \in 1 .. Len(s) /\ j # p BY <1>3, <2>1, <2>2
    <2>4. s[j][1] = v BY <1>3, <2>1, <2>2
    <2>5. j \in E \ {p} BY <1>3, <2>3, <2>4 DEF PendingOf
    <2> QED BY <2>2, <2>5
<1>5. ASSUME NEW j \in E \ {p} PROVE \E k \in F : (IF k < p THEN k ELSE k + 1) = j
    <2>1. j \in 1 .. Len(s) /\ j # p /\ s[j][1] = v BY <1>3 DEF PendingOf
    <2>2. PICK k : k = IF j < p THEN j ELSE j - 1 OBVIOUS
    <2>3. k \in 1 .. Len(s) - 1 /\ (IF k < p THEN k ELSE k + 1) = j BY <1>3, <2>1, <2>2
    <2>4. r[k] = s[j] BY <1>3, <2>3
    <2>5. k \in F BY <1>3, <2>1, <2>3, <2>4 DEF PendingOf
    <2> QED BY <2>3, <2>5
<1>6. p \in E <=> s[p][1] = v BY <1>3 DEF PendingOf
<1>7. F \subseteq Int BY <1>2
<1> HIDE DEF E, F
<1>8. ExistsBijection(F, E \ {p})
    <2>1. f \in [F -> E \ {p}] BY <1>4
    <2>2. \A k, j \in F : f[k] = f[j] => k = j BY <1>7
    <2>3. \A j \in E \ {p} : \E k \in F : f[k] = j BY <1>5
    <2> HIDE DEF f
    <2>4. f \in Bijection(F, E \ {p})
        BY <2>1, <2>2, <2>3, Zenon DEF Bijection, Injection, IsInjective, Surjection
    <2> QED BY <2>4 DEF ExistsBijection
<1>9. Cardinality(E \ {p}) = Cardinality(F) BY <1>2, <1>8, FS_Bijection
<1>10. Cardinality(E \ {p}) = IF p \in E THEN Cardinality(E) - 1 ELSE Cardinality(E)
    BY <1>1, FS_RemoveElement
<1>11. Cardinality(F) = Cardinality(E) - (IF s[p][1] = v THEN 1 ELSE 0)
    BY <1>1, <1>6, <1>9, <1>10
<1> QED BY <1>11 DEF E, F

\* What Put takes off the list: one item of the value of e, if there is one.
LEMMA RemovePendingIs ==
    ASSUME PendingItems \in Seq(Elem), NEW e
    PROVE  \/ PendingOf(e[1], PendingItems) = {} /\ RemovePending(e) = PendingItems
           \/ \E p \in 1 .. Len(PendingItems) :
                /\ PendingItems[p][1] = e[1]
                /\ RemovePending(e) \in Seq(Elem) /\ WithoutItem(RemovePending(e), PendingItems, p)
<1> DEFINE equal == {n \in DOMAIN PendingItems : EqualsFn(PendingItems[n], e)}
           first == CHOOSE n \in equal : \A m \in equal : n <= m
<1>1. equal = PendingOf(e[1], PendingItems) BY DEF EqualsFn, PendingOf
<1>2. CASE equal = {} BY <1>1, <1>2 DEF RemovePending
<1>3. CASE equal # {}
    <2>1. equal \subseteq Nat OBVIOUS
    <2>2. \E n \in equal : \A m \in equal : n <= m BY <1>3, <2>1, LeastExists, Zenon
    <2>3. first \in equal BY <2>2
    <2>4. first \in 1 .. Len(PendingItems) /\ PendingItems[first][1] = e[1]
        BY <2>3 DEF EqualsFn
    <2>5. RemovePending(e) = SubSeq(PendingItems, 1, first - 1)
                             \o SubSeq(PendingItems, first + 1, Len(PendingItems))
        BY <1>3 DEF RemovePending
    <2> HIDE DEF first
    <2>6. RemovePending(e) \in Seq(Elem) /\ WithoutItem(RemovePending(e), PendingItems, first)
        BY <2>4, <2>5, CutItem
    <2> QED BY <2>4, <2>6
<1> QED BY <1>2, <1>3

LEMMA HeldOfAdd ==
    ASSUME NEW S, IsFiniteSet(S), NEW e, e \notin S, NEW v
    PROVE  Cardinality(HeldOf(v, S \cup {e})) = Cardinality(HeldOf(v, S)) + (IF e[1] = v THEN 1 ELSE 0)
<1>1. IsFiniteSet(HeldOf(v, S)) /\ Cardinality(HeldOf(v, S)) \in Nat
    <2>1. HeldOf(v, S) \in SUBSET S BY DEF HeldOf
    <2> QED BY <2>1, FS_Subset, FS_CardinalityType
<1>2. e \notin HeldOf(v, S) BY DEF HeldOf
<1>3. CASE e[1] = v
    <2>1. HeldOf(v, S \cup {e}) = HeldOf(v, S) \cup {e} BY <1>3 DEF HeldOf
    <2> QED BY <1>1, <1>2, <1>3, <2>1, FS_AddElement
<1>4. CASE e[1] # v
    <2>1. HeldOf(v, S \cup {e}) = HeldOf(v, S) BY <1>4 DEF HeldOf
    <2> QED BY <1>1, <1>4, <2>1
<1> QED BY <1>3, <1>4

LEMMA HeldOfRemove ==
    ASSUME NEW S, IsFiniteSet(S), NEW e \in S, NEW v
    PROVE  Cardinality(HeldOf(v, S \ {e})) = Cardinality(HeldOf(v, S)) - (IF e[1] = v THEN 1 ELSE 0)
<1>1. PICK T : T = S \ {e} OBVIOUS
<1>2. IsFiniteSet(T) /\ e \notin T /\ T \cup {e} = S BY <1>1, FS_RemoveElement
<1>3. Cardinality(HeldOf(v, T \cup {e})) = Cardinality(HeldOf(v, T)) + (IF e[1] = v THEN 1 ELSE 0)
    BY <1>2, HeldOfAdd
<1>4. Cardinality(HeldOf(v, T)) \in Nat
    <2>1. HeldOf(v, T) \in SUBSET T BY DEF HeldOf
    <2> QED BY <1>2, <2>1, FS_Subset, FS_CardinalityType
<1>5. Cardinality(HeldOf(v, T)) = Cardinality(HeldOf(v, S)) - (IF e[1] = v THEN 1 ELSE 0)
    BY <1>2, <1>3, <1>4
<1> QED BY <1>1, <1>5

LEMMA LeakcheckInitInv == LeakcheckInit => LeakcheckInv
<1> SUFFICES ASSUME LeakcheckInit PROVE LeakcheckInv
    OBVIOUS
<1> USE DEF LeakcheckInit
<1>1. LeakcheckTypeOK BY FS_EmptySet DEF LeakcheckTypeOK
<1>2. \A v : PendingOf(v, <<>>) = {} /\ HeldOf(v, {}) = {} BY DEF PendingOf, HeldOf
<1>3. ValuesMatch(PendingItems, outstanding) BY <1>2, Zenon DEF ValuesMatch
<1>4. Cardinality(outstanding) = 0 BY FS_EmptySet
<1>5. ItemsMatch BY <1>3, <1>4 DEF ItemsMatch
<1> QED BY <1>1, <1>5 DEF LeakcheckInv

LEMMA LeakcheckGetInv == ASSUME LeakcheckInv, NEW e \in Elem, LeakcheckGet(e) PROVE LeakcheckInv'
<1> USE DEF LeakcheckInv, LeakcheckTypeOK
<1>1. /\ NumGets' = NumGets + 1 /\ NumPuts' = NumPuts /\ tracked' = tracked
      /\ PendingItems' = Append(PendingItems, e) /\ outstanding' = outstanding \cup {e}
      /\ e \notin outstanding
    BY DEF LeakcheckGet
<1>2. /\ IsFiniteSet(outstanding') /\ Cardinality(outstanding') = Cardinality(outstanding) + 1
      /\ outstanding' \subseteq Elem
    BY <1>1, FS_AddElement
<1>3. PendingItems' \in Seq(Elem) /\ Len(PendingItems') = Len(PendingItems) + 1 BY <1>1
<1>4. LeakcheckTypeOK' BY <1>1, <1>2, <1>3
<1>5. ASSUME tracked PROVE ItemsMatch'
    <2>1. ItemsMatch BY <1>5
    <2>2. ASSUME NEW v \in {f[1] : f \in Elem}
          PROVE  Cardinality(PendingOf(v, PendingItems')) = Cardinality(HeldOf(v, outstanding'))
        <3>1. Cardinality(PendingOf(v, PendingItems')) = Cardinality(PendingOf(v, PendingItems)) + (IF e[1] = v THEN 1 ELSE 0)
            BY <1>1, PendingOfAppend
        <3>2. Cardinality(HeldOf(v, outstanding')) = Cardinality(HeldOf(v, outstanding)) + (IF e[1] = v THEN 1 ELSE 0)
            BY <1>1, HeldOfAdd
        <3> QED BY <2>1, <3>1, <3>2 DEF ItemsMatch, ValuesMatch
    <2>3. ValuesMatch(PendingItems', outstanding') BY <2>2, Zenon DEF ValuesMatch
    <2> QED BY <1>1, <1>2, <1>3, <2>1, <2>3 DEF ItemsMatch
<1> QED BY <1>1, <1>4, <1>5

LEMMA LeakcheckPutInv == ASSUME LeakcheckInv, NEW e \in Elem, LeakcheckPut(e) PROVE LeakcheckInv'
<1> USE DEF LeakcheckInv, LeakcheckTypeOK
<1>1. CASE RemovePending(e) = PendingItems /\ DisallowUntrackedPuts
    <2>1. UNCHANGED <<NumGets, NumPuts, PendingItems, outstanding, tracked>> BY <1>1 DEF LeakcheckPut
    <2> QED BY <2>1 DEF ItemsMatch
<1>2. CASE ~(RemovePending(e) = PendingItems /\ DisallowUntrackedPuts)
    <2>1. /\ NumPuts' = NumPuts + 1 /\ NumGets' = NumGets
          /\ PendingItems' = RemovePending(e) /\ outstanding' = outstanding \ {e}
          /\ tracked' = (tracked /\ e \in outstanding)
        BY <1>2 DEF LeakcheckPut
    <2>2. PendingItems' \in Seq(Elem) BY <2>1, RemovePendingIs
    <2>3. IsFiniteSet(outstanding') /\ outstanding' \subseteq Elem BY <2>1, FS_RemoveElement
    <2>4. tracked' \in BOOLEAN BY <2>1
    <2>5. LeakcheckTypeOK' BY <2>1, <2>2, <2>3, <2>4
    <2>6. ASSUME tracked, e \in outstanding PROVE ItemsMatch'
        <3>1. ItemsMatch BY <2>6
        <3>2. e \in HeldOf(e[1], outstanding) /\ IsFiniteSet(HeldOf(e[1], outstanding))
            <4>1. HeldOf(e[1], outstanding) \in SUBSET outstanding BY DEF HeldOf
            <4> QED BY <2>6, <4>1, FS_Subset DEF HeldOf
        <3>3. Cardinality(PendingOf(e[1], PendingItems)) = Cardinality(HeldOf(e[1], outstanding))
            BY <3>1 DEF ItemsMatch, ValuesMatch
        <3>4. PendingOf(e[1], PendingItems) # {}
            BY <3>2, <3>3, FS_EmptySet
        <3>5. PICK p \in 1 .. Len(PendingItems) :
                /\ PendingItems[p][1] = e[1]
                /\ WithoutItem(PendingItems', PendingItems, p)
            BY <2>1, <3>4, RemovePendingIs
        <3>6. ASSUME NEW v \in {f[1] : f \in Elem}
              PROVE  Cardinality(PendingOf(v, PendingItems')) = Cardinality(HeldOf(v, outstanding'))
            <4>1. Cardinality(PendingOf(v, PendingItems')) = Cardinality(PendingOf(v, PendingItems)) - (IF e[1] = v THEN 1 ELSE 0)
                BY <2>2, <3>5, PendingOfCut
            <4>2. Cardinality(HeldOf(v, outstanding')) = Cardinality(HeldOf(v, outstanding)) - (IF e[1] = v THEN 1 ELSE 0)
                BY <2>1, <2>6, HeldOfRemove
            <4> QED BY <3>1, <4>1, <4>2 DEF ItemsMatch, ValuesMatch
        <3>7. Cardinality(outstanding') = Cardinality(outstanding) - 1
            BY <2>1, <2>6, FS_RemoveElement
        <3>8. Len(PendingItems') = Len(PendingItems) - 1 BY <3>5 DEF WithoutItem
        <3>9. ValuesMatch(PendingItems', outstanding') BY <3>6, Zenon DEF ValuesMatch
        <3> QED BY <2>1, <3>1, <3>7, <3>8, <3>9 DEF ItemsMatch
    <2> QED BY <2>1, <2>5, <2>6
<1> QED BY <1>1, <1>2

\* While clients put back what they took, the list of the leak-checking pool is
\* what they still have, and Check fails for every leak and for nothing else,
\* for any elements and any EqualsFn that compares their values.
THEOREM LeaksAreFound == LeakcheckSpec => []LeaksFound
<1>1. LeakcheckInv /\ [LeakcheckNext]_leakcheckVars => LeakcheckInv'
    <2> SUFFICES ASSUME LeakcheckInv, [LeakcheckNext]_leakcheckVars PROVE LeakcheckInv'
        OBVIOUS
    <2>1. CASE UNCHANGED leakcheckVars
        BY <2>1 DEF leakcheckVars, LeakcheckInv, LeakcheckTypeOK, ItemsMatch
    <2> QED BY <2>1, LeakcheckGetInv, LeakcheckPutInv DEF LeakcheckNext
<1>2. LeakcheckInv => LeaksFound
    <2> SUFFICES ASSUME LeakcheckInv, tracked PROVE LeaksFound
        BY DEF LeaksFound
    <2> USE DEF LeakcheckInv, LeakcheckTypeOK
    <2>1. ItemsMatch OBVIOUS
    <2>2. Check <=> outstanding = {}
        <3>1. Len(PendingItems) = 0 <=> PendingItems = <<>> OBVIOUS
        <3>2. Cardinality(outstanding) = 0 <=> outstanding = {} BY FS_EmptySet
        <3> QED BY <2>1, <3>1, <3>2 DEF Check, ItemsMatch
    <2> QED BY <2>1, <2>2 DEF LeaksFound, ItemsMatch, ValuesMatch, PendingOf, HeldOf
<1> QED BY LeakcheckInitInv, <1>1, <1>2, PTL DEF LeakcheckSpec

-----------------------------------------------------------------------------
(* SlicePools.                                                             *)

Cell == SliceClient \cup {EmptyElem}

\* What c may see in its slices.
Own(c, kind) == {c} \cup (IF kind = "array" THEN {EmptyElem} ELSE {})

GoodSlice(c, kind) ==
    {s \in [cells : Seq(Cell), len : Nat] :
        s.len <= Len(s.cells) /\ \A k \in 1 .. s.len : s.cells[k] \in Own(c, kind)}

\* The arrays that may be in bucket n.
Fitting(n, kind) == {a \in Seq(Cell) : kind # "array" => Len(a) >= sizesAsc[n]}

GoodBuckets(p, kind) ==
    DOMAIN p = DOMAIN sizesAsc /\ \A n \in DOMAIN sizesAsc : p[n] \in Seq(Fitting(n, kind))

GoodSlices(q, kind) ==
    DOMAIN q = SliceClient /\ \A c \in SliceClient : q[c] \in Seq(GoodSlice(c, kind))

SlicePoolsInv ==
    /\ poolKind \in {"bytes", "checked", "array"}
    /\ GoodBuckets(buckets, poolKind) /\ GoodSlices(slice, poolKind)

LEMMA MakeIs ==
    ASSUME NEW n \in Nat
    PROVE  /\ Make(n) \in Seq(Cell) /\ Len(Make(n)) = n /\ \A k \in 1 .. n : Make(n)[k] = EmptyElem
           /\ Make(n - 1) \in Seq(Cell)
<1>1. EmptyElem \in Cell BY DEF Cell
<1>2. \A m \in Nat : [k \in 1 .. m |-> EmptyElem] \in Seq(Cell) BY <1>1
<1>3. PICK m \in Nat : 1 .. n - 1 = 1 .. m
    <2>1. CASE n = 0
        <3>1. 1 .. n - 1 = 1 .. 0 BY <2>1
        <3> QED BY <3>1
    <2>2. CASE n # 0
        <3>1. n - 1 \in Nat BY <2>2
        <3> QED BY <3>1
    <2> QED BY <2>1, <2>2
<1>4. [k \in 1 .. n - 1 |-> EmptyElem] \in Seq(Cell) BY <1>2, <1>3, Zenon
<1> QED BY <1>2, <1>4 DEF Make

LEMMA SizesFacts ==
    /\ Len(sizesAsc) \in Nat \ {0} /\ DOMAIN sizesAsc = 1 .. Len(sizesAsc)
    /\ \A n \in 1 .. Len(sizesAsc) : sizesAsc[n] \in Nat
BY SlicePoolsAssumption

\* What GetBucket finds is a bucket of enough capacity.
LEMMA GetBucketIs ==
    ASSUME NEW capacity \in Nat
    PROVE  \/ GetBucket(capacity) = 0
           \/ GetBucket(capacity) \in DOMAIN sizesAsc /\ sizesAsc[GetBucket(capacity)] >= capacity
<1> USE SizesFacts
<1> DEFINE none == capacity > sizesAsc[Len(sizesAsc)] \/ (poolKind = "bytes" /\ capacity < 1)
<1>1. CASE none BY <1>1 DEF GetBucket
<1>2. CASE ~none
    <2> DEFINE enough == {n \in DOMAIN sizesAsc : sizesAsc[n] >= capacity}
               Is(n) == sizesAsc[n] >= capacity /\ \A m \in 1 .. n - 1 : sizesAsc[m] < capacity
    <2>1. Len(sizesAsc) \in enough BY <1>2
    <2>2. enough \subseteq Nat OBVIOUS
    <2>3. PICK n \in enough : \A m \in enough : n <= m BY <2>1, <2>2, LeastExists
    <2>4. Is(n)
        <3> SUFFICES ASSUME NEW m \in 1 .. n - 1 PROVE sizesAsc[m] < capacity
            BY <2>3
        <3>1. m \in DOMAIN sizesAsc /\ ~(n <= m) BY <2>3
        <3>2. m \notin enough BY <2>3, <3>1
        <3> QED BY <3>1, <3>2
    <2>5. n \in DOMAIN sizesAsc OBVIOUS
    <2>6. GetBucket(capacity) = CHOOSE b \in DOMAIN sizesAsc : Is(b) BY <1>2 DEF GetBucket
    <2> HIDE DEF Is
    <2>7. GetBucket(capacity) \in DOMAIN sizesAsc /\ Is(GetBucket(capacity))
        BY <2>4, <2>5, <2>6, Zenon
    <2> QED BY <2>7 DEF Is
<1> QED BY <1>1, <1>2

\* What PutBucket finds is a bucket of no more capacity.
LEMMA PutBucketIs ==
    ASSUME NEW capacity \in Nat
    PROVE  \/ PutBucket(capacity) = 0
           \/ PutBucket(capacity) \in DOMAIN sizesAsc /\ sizesAsc[PutBucket(capacity)] <= capacity
<1> USE SizesFacts
<1> DEFINE fit == {n \in DOMAIN sizesAsc : sizesAsc[n] <= capacity}
           below == {Len(sizesAsc) - n : n \in fit}
<1>1. CASE capacity > sizesAsc[Len(sizesAsc)] \/ fit = {} BY <1>1 DEF PutBucket
<1>2. CASE ~(capacity > sizesAsc[Len(sizesAsc)] \/ fit = {})
    <2>1. below # {} /\ below \subseteq Nat BY <1>2
    <2>2. PICK d \in below : \A b \in below : d <= b BY <2>1, LeastExists, Zenon
    <2>3. PICK n \in fit : d = Len(sizesAsc) - n OBVIOUS
    <2>4. \A m \in fit : m <= n
        <3> SUFFICES ASSUME NEW m \in fit PROVE m <= n
            OBVIOUS
        <3>1. Len(sizesAsc) - m \in below OBVIOUS
        <3>2. d <= Len(sizesAsc) - m BY <2>2, <3>1
        <3> QED BY <2>3, <3>2
    <2>5. PutBucket(capacity) = CHOOSE b \in fit : \A m \in fit : m <= b BY <1>2 DEF PutBucket
    <2>6. PutBucket(capacity) \in fit BY <2>4, <2>5
    <2> QED BY <2>6
<1> QED BY <1>1, <1>2

\* What a Get takes from bucket n, and what it leaves.
LEMMA GotIs ==
    ASSUME NEW kind, GoodBuckets(buckets, kind), NEW capacity \in Nat,
           NEW n, n = 0 \/ n \in DOMAIN sizesAsc
    PROVE  /\ Got(n, capacity) \in Seq(Cell)
           /\ n = 0 => Len(Got(n, capacity)) = capacity
           /\ n # 0 /\ kind # "array" => Len(Got(n, capacity)) >= sizesAsc[n]
           /\ GoodBuckets(Without(n), kind)
<1>0. 0 \notin DOMAIN sizesAsc BY SizesFacts
<1>1. CASE n = 0 BY <1>0, <1>1, MakeIs DEF Got, Without
<1>2. CASE n # 0 /\ buckets[n] = <<>>
    <2>1. sizesAsc[n] \in Nat BY <1>2, SizesFacts
    <2>2. Got(n, capacity) = Make(sizesAsc[n]) /\ Without(n) = buckets BY <1>2 DEF Got, Without
    <2> QED BY <1>2, <2>1, <2>2, MakeIs
<1>3. CASE n # 0 /\ buckets[n] # <<>>
    <2>1. n \in DOMAIN sizesAsc /\ buckets[n] \in Seq(Fitting(n, kind)) BY <1>3 DEF GoodBuckets
    <2>2. Head(buckets[n]) \in Fitting(n, kind) /\ Tail(buckets[n]) \in Seq(Fitting(n, kind))
        BY <1>3, <2>1, HeadTailProperties
    <2>3. Got(n, capacity) = Head(buckets[n]) /\ Without(n) = [buckets EXCEPT ![n] = Tail(buckets[n])]
        BY <1>3 DEF Got, Without
    <2>4. GoodBuckets(Without(n), kind) BY <2>1, <2>2, <2>3 DEF GoodBuckets
    <2> QED BY <1>3, <2>2, <2>3, <2>4 DEF Fitting
<1> QED BY <1>1, <1>2, <1>3

LEMMA WithGood ==
    ASSUME NEW kind, NEW p, GoodBuckets(p, kind), NEW n, NEW cells,
           n # 0 => n \in DOMAIN sizesAsc /\ cells \in Fitting(n, kind)
    PROVE  GoodBuckets(With(p, n, cells), kind)
<1>1. CASE n = 0 \/ Len(p[n]) >= BucketSize BY <1>1 DEF With
<1>2. CASE ~(n = 0 \/ Len(p[n]) >= BucketSize)
    <2>1. n \in DOMAIN sizesAsc /\ p[n] \in Seq(Fitting(n, kind)) BY <1>2 DEF GoodBuckets
    <2>2. Append(p[n], cells) \in Seq(Fitting(n, kind)) BY <1>2, <2>1, AppendProperties
    <2>3. With(p, n, cells) = [p EXCEPT ![n] = Append(p[n], cells)] BY <1>2 DEF With
    <2> QED BY <2>1, <2>2, <2>3 DEF GoodBuckets
<1> QED BY <1>1, <1>2

\* PutBucket sorts what it can where it fits.
LEMMA PutGood ==
    ASSUME NEW kind, NEW p, GoodBuckets(p, kind), NEW cells \in Seq(Cell)
    PROVE  GoodBuckets(With(p, PutBucket(Len(cells)), cells), kind)
<1>1. PICK n : n = PutBucket(Len(cells)) OBVIOUS
<1>2. n = 0 \/ (n \in DOMAIN sizesAsc /\ sizesAsc[n] <= Len(cells))
    <2>1. PICK m \in Nat : m = Len(cells) OBVIOUS
    <2>2. n = PutBucket(m) BY <1>1, <2>1
    <2>3. n = 0 \/ (n \in DOMAIN sizesAsc /\ sizesAsc[n] <= m) BY <2>2, PutBucketIs
    <2> QED BY <2>1, <2>3
<1>3. n # 0 => n \in DOMAIN sizesAsc /\ cells \in Fitting(n, kind)
    BY <1>2, SizesFacts DEF Fitting
<1> QED BY <1>1, <1>3, WithGood

\* A client's new slices are good, the others untouched.
LEMMA SlicesUpdate ==
    ASSUME NEW kind, GoodSlices(slice, kind), NEW c \in SliceClient, NEW new \in Seq(GoodSlice(c, kind)),
           slice' = [slice EXCEPT ![c] = new]
    PROVE  GoodSlices(slice', kind)
<1>1. DOMAIN slice' = SliceClient BY DEF GoodSlices
<1>2. ASSUME NEW d \in SliceClient PROVE slice'[d] \in Seq(GoodSlice(d, kind))
    <2>1. CASE d = c BY <2>1 DEF GoodSlices
    <2>2. CASE d # c BY <2>2 DEF GoodSlices
    <2> QED BY <2>1, <2>2
<1> QED BY <1>1, <1>2 DEF GoodSlices

\* A slice of length zero shows nothing.
LEMMA EmptyIsGood ==
    ASSUME NEW c, NEW kind, NEW cells \in Seq(Cell)
    PROVE  <<[cells |-> cells, len |-> 0]>> \in Seq(GoodSlice(c, kind))
<1>1. PICK r : r = [cells |-> cells, len |-> 0] OBVIOUS
<1>2. r \in [cells : Seq(Cell), len : Nat] /\ r.len = 0 /\ Len(r.cells) >= 0 BY <1>1
<1>3. r \in GoodSlice(c, kind) BY <1>2 DEF GoodSlice
<1> QED BY <1>1, <1>3

\* One more element, of c, behind those of a good slice; what is beyond it does
\* not matter.
LEMMA GrownIsGood ==
    ASSUME NEW c \in SliceClient, NEW kind, NEW s \in GoodSlice(c, kind), NEW new \in Seq(Cell),
           Len(new) >= s.len + 1, new[s.len + 1] = c, \A k \in 1 .. s.len : new[k] = s.cells[k]
    PROVE  [cells |-> new, len |-> s.len + 1] \in GoodSlice(c, kind)
<1>1. s.len \in Nat /\ \A k \in 1 .. s.len : s.cells[k] \in Own(c, kind) BY DEF GoodSlice
<1>2. PICK r : r = [cells |-> new, len |-> s.len + 1] OBVIOUS
<1>3. /\ r \in [cells : Seq(Cell), len : Nat] /\ r.len = s.len + 1 /\ r.cells = new
      /\ r.len <= Len(r.cells)
    BY <1>1, <1>2
<1>4. c \in Own(c, kind) BY DEF Own
<1>5. ASSUME NEW k \in 1 .. s.len + 1 PROVE new[k] \in Own(c, kind)
    <2>1. CASE k = s.len + 1 BY <1>4, <2>1
    <2>2. CASE k # s.len + 1
        <3>1. k \in 1 .. s.len BY <1>1, <2>2
        <3> QED BY <1>1, <3>1
    <2> QED BY <2>1, <2>2
<1>6. r \in GoodSlice(c, kind) BY <1>3, <1>5 DEF GoodSlice
<1> QED BY <1>2, <1>6

\* The cells of a slice, one more, and any others.
LEMMA ExtendedCells ==
    ASSUME NEW a \in Seq(Cell), NEW c \in SliceClient, NEW b \in Seq(Cell)
    PROVE  LET new == a \o <<c>> \o b
           IN  /\ new \in Seq(Cell) /\ Len(new) >= Len(a) + 1 /\ new[Len(a) + 1] = c
               /\ \A k \in 1 .. Len(a) : new[k] = a[k]
<1>1. <<c>> \in Seq(Cell) /\ Len(<<c>>) = 1 /\ <<c>>[1] = c BY DEF Cell
<1>2. PICK one \in Seq(Cell) : one = <<c>> BY <1>1
<1>3. PICK q : q = a \o one OBVIOUS
<1>4. /\ q \in Seq(Cell) /\ Len(q) = Len(a) + 1 /\ q[Len(a) + 1] = c
      /\ \A k \in 1 .. Len(a) : q[k] = a[k]
    <2>1. Len(one) = 1 /\ one[1] = c BY <1>1, <1>2
    <2>2. /\ q \in Seq(Cell) /\ Len(q) = Len(a) + Len(one)
          /\ \A k \in 1 .. Len(a) + Len(one) : q[k] = IF k <= Len(a) THEN a[k] ELSE one[k - Len(a)]
        BY <1>3, ConcatProperties
    <2>3. Len(a) \in Nat /\ (Len(a) + 1) - Len(a) = 1 OBVIOUS
    <2>4. q[Len(a) + 1] = one[(Len(a) + 1) - Len(a)] BY <2>1, <2>2, <2>3
    <2> QED BY <2>1, <2>2, <2>3, <2>4
<1>5. PICK new : new = q \o b OBVIOUS
<1>6. new \in Seq(Cell) /\ Len(new) = Len(q) + Len(b) /\ \A k \in 1 .. Len(q) : new[k] = q[k]
    <2>1. q \in Seq(Cell) BY <1>4
    <2>2. /\ new \in Seq(Cell) /\ Len(new) = Len(q) + Len(b)
          /\ \A k \in 1 .. Len(q) + Len(b) : new[k] = IF k <= Len(q) THEN q[k] ELSE b[k - Len(q)]
        BY <1>5, <2>1, ConcatProperties
    <2>3. Len(q) \in Nat /\ Len(b) \in Nat BY <2>1
    <2> QED BY <2>2, <2>3
<1>7. Len(a) \in Nat /\ Len(b) \in Nat OBVIOUS
<1>8. /\ new \in Seq(Cell) /\ Len(new) >= Len(a) + 1 /\ new[Len(a) + 1] = c
      /\ \A k \in 1 .. Len(a) : new[k] = a[k]
    BY <1>4, <1>6, <1>7
<1> QED BY <1>2, <1>3, <1>5, <1>8

LEMMA SlicePoolsInitInv == SlicePoolsInit => SlicePoolsInv
<1> SUFFICES ASSUME SlicePoolsInit PROVE SlicePoolsInv
    OBVIOUS
<1> USE DEF SlicePoolsInit
<1>1. GoodSlices(slice, poolKind) BY DEF GoodSlices
<1>2. ASSUME NEW n \in DOMAIN sizesAsc PROVE buckets[n] \in Seq(Fitting(n, poolKind))
    <2>1. sizesAsc[n] \in Nat BY SizesFacts
    <2>2. PICK cells : cells = Make(sizesAsc[n]) OBVIOUS
    <2>3. cells \in Seq(Cell) /\ Len(cells) = sizesAsc[n] BY <2>1, <2>2, MakeIs
    <2>4. cells \in Fitting(n, poolKind) BY <2>1, <2>3 DEF Fitting
    <2>5. buckets[n] = [k \in 1 .. BucketSize |-> cells] BY <2>2
    <2>6. PICK T : T = Fitting(n, poolKind) OBVIOUS
    <2>7. cells \in T /\ BucketSize \in Nat BY <2>4, <2>6, SlicePoolsAssumption
    <2>8. [k \in 1 .. BucketSize |-> cells] \in Seq(T) BY <2>7
    <2> QED BY <2>5, <2>6, <2>8
<1>3. DOMAIN buckets = DOMAIN sizesAsc OBVIOUS
<1> QED BY <1>1, <1>2, <1>3 DEF SlicePoolsInv, GoodBuckets

\* The slice a client is at is good.
LEMMA FirstIsGood ==
    ASSUME SlicePoolsInv, NEW c \in SliceClient, NEW j \in 1 .. Len(slice[c])
    PROVE  /\ slice[c] \in Seq(GoodSlice(c, poolKind)) /\ slice[c][j] \in GoodSlice(c, poolKind)
           /\ slice[c][j].cells \in Seq(Cell) /\ slice[c][j].len \in Nat
           /\ slice[c][j].len <= Len(slice[c][j].cells)
           /\ \A k \in 1 .. slice[c][j].len : slice[c][j].cells[k] \in Own(c, poolKind)
<1>1. slice[c] \in Seq(GoodSlice(c, poolKind)) BY DEF SlicePoolsInv, GoodSlices
<1>2. slice[c][j] \in GoodSlice(c, poolKind) BY <1>1
<1> QED BY <1>1, <1>2 DEF GoodSlice

LEMMA GetSliceInv ==
    ASSUME SlicePoolsInv, NEW c \in SliceClient, NEW capacity \in Nat,
           GetSlice(c, capacity) \/ OwnSlice(c, capacity)
    PROVE  SlicePoolsInv'
<1> USE DEF SlicePoolsInv
<1>1. CASE GetSlice(c, capacity)
    <2>1. PICK n : n = IF poolKind = "array" THEN 1 ELSE GetBucket(capacity) OBVIOUS
    <2>2. n = 0 \/ n \in DOMAIN sizesAsc BY <2>1, GetBucketIs, SizesFacts
    <2>3. PICK cells : cells = Got(n, capacity) OBVIOUS
    <2>4. cells \in Seq(Cell) /\ GoodBuckets(Without(n), poolKind) BY <2>2, <2>3, GotIs
    <2>5. /\ slice' = [slice EXCEPT ![c] = <<[cells |-> cells, len |-> 0]>>]
          /\ buckets' = Without(n) /\ poolKind' = poolKind
        BY <1>1, <2>1, <2>3 DEF GetSlice
    <2>6. GoodSlices(slice', poolKind) BY <2>4, <2>5, EmptyIsGood, SlicesUpdate
    <2> QED BY <2>4, <2>5, <2>6
<1>2. CASE OwnSlice(c, capacity)
    <2>1. PICK cells : cells = Make(capacity) OBVIOUS
    <2>2. cells \in Seq(Cell) BY <2>1, MakeIs
    <2>3. /\ slice' = [slice EXCEPT ![c] = <<[cells |-> cells, len |-> 0]>>]
          /\ buckets' = buckets /\ poolKind' = poolKind
        BY <1>2, <2>1 DEF OwnSlice
    <2>4. GoodSlices(slice', poolKind) BY <2>2, <2>3, EmptyIsGood, SlicesUpdate
    <2> QED BY <2>3, <2>4
<1> QED BY <1>1, <1>2

LEMMA PutBytesInv == ASSUME SlicePoolsInv, NEW c \in SliceClient, PutBytes(c) PROVE SlicePoolsInv'
<1>1. slice[c] \in Seq(GoodSlice(c, poolKind)) /\ slice[c] # <<>>
    BY DEF SlicePoolsInv, GoodSlices, PutBytes
<1>2. PICK q \in Seq(GoodSlice(c, poolKind)) : q = slice[c] BY <1>1
<1>3. Len(q) \in 1 .. Len(q) BY <1>1, <1>2
<1>4. PICK cells : cells = q[Len(q)].cells OBVIOUS
<1>5. cells \in Seq(Cell) BY <1>2, <1>3, <1>4, FirstIsGood
<1>6. /\ buckets' = With(buckets, PutBucket(Len(cells)), cells) /\ poolKind' = poolKind
      /\ slice' = [slice EXCEPT ![c] = SubSeq(q, 1, Len(q) - 1)]
    BY <1>2, <1>4 DEF PutBytes
<1>7. SubSeq(q, 1, Len(q) - 1) \in Seq(GoodSlice(c, poolKind)) BY <1>3
<1>8. GoodBuckets(buckets', poolKind) BY <1>5, <1>6, PutGood DEF SlicePoolsInv
<1>9. GoodSlices(slice', poolKind) BY <1>6, <1>7, SlicesUpdate DEF SlicePoolsInv
<1> QED BY <1>6, <1>8, <1>9 DEF SlicePoolsInv

LEMMA PutElemsInv == ASSUME SlicePoolsInv, NEW c \in SliceClient, PutElems(c) PROVE SlicePoolsInv'
<1>1. slice[c] \in Seq(GoodSlice(c, poolKind)) /\ slice[c] # <<>> /\ poolKind = "array"
    BY DEF SlicePoolsInv, GoodSlices, PutElems
<1>2. PICK s : s = slice[c][1] OBVIOUS
<1>3. s.cells \in Seq(Cell)
    <2>1. 1 \in 1 .. Len(slice[c]) BY <1>1
    <2> QED BY <1>2, <2>1, FirstIsGood
<1>4. PICK cleared : cleared = [k \in DOMAIN s.cells |-> IF k <= s.len THEN EmptyElem ELSE s.cells[k]]
    OBVIOUS
<1>5. cleared \in Seq(Cell) BY <1>3, <1>4 DEF Cell
<1>6. /\ buckets' = buckets \/ buckets' = With(buckets, 1, cleared)
      /\ slice' = [slice EXCEPT ![c] = <<>>] /\ poolKind' = poolKind
    BY <1>2, <1>4 DEF PutElems
<1>7. 1 \in DOMAIN sizesAsc /\ cleared \in Fitting(1, poolKind) BY <1>1, <1>5, SizesFacts DEF Fitting
<1>8. GoodBuckets(With(buckets, 1, cleared), poolKind) BY <1>7, WithGood DEF SlicePoolsInv
<1>9. GoodBuckets(buckets', poolKind) BY <1>6, <1>8 DEF SlicePoolsInv
<1>10. <<>> \in Seq(GoodSlice(c, poolKind)) OBVIOUS
<1>11. GoodSlices(slice', poolKind) BY <1>6, <1>10, SlicesUpdate DEF SlicePoolsInv
<1> QED BY <1>6, <1>9, <1>11 DEF SlicePoolsInv

\* An action that puts a good slice in the place of the first one.
LEMMA FirstReplaced ==
    ASSUME SlicePoolsInv, NEW c \in SliceClient, slice[c] # <<>>,
           NEW r \in GoodSlice(c, poolKind), slice' = [slice EXCEPT ![c] = [slice[c] EXCEPT ![1] = r]],
           UNCHANGED <<poolKind, buckets>>
    PROVE  SlicePoolsInv'
<1>1. PICK q \in Seq(GoodSlice(c, poolKind)) : q = slice[c] BY DEF SlicePoolsInv, GoodSlices
<1>2. 1 \in 1 .. Len(q) BY <1>1
<1>3. PICK new : new = [q EXCEPT ![1] = r] OBVIOUS
<1>4. new \in Seq(GoodSlice(c, poolKind)) BY <1>2, <1>3, ExceptSeq
<1>5. slice' = [slice EXCEPT ![c] = new] BY <1>1, <1>3
<1>6. GoodSlices(slice', poolKind) BY <1>4, <1>5, SlicesUpdate DEF SlicePoolsInv
<1> QED BY <1>6 DEF SlicePoolsInv

LEMMA AppendElemInv == ASSUME SlicePoolsInv, NEW c \in SliceClient, AppendElem(c) PROVE SlicePoolsInv'
<1>1. slice[c] # <<>> /\ slice[c] \in Seq(GoodSlice(c, poolKind))
    BY DEF AppendElem, SlicePoolsInv, GoodSlices
<1>2. PICK s : s = slice[c][1] OBVIOUS
<1>3. s \in GoodSlice(c, poolKind) /\ s.cells \in Seq(Cell) /\ s.len \in Nat /\ s.len <= Len(s.cells)
    <2>1. 1 \in 1 .. Len(slice[c]) BY <1>1
    <2> QED BY <1>2, <2>1, FirstIsGood
<1>4. PICK new : new = IF s.len < Len(s.cells) THEN [s.cells EXCEPT ![s.len + 1] = c]
                       ELSE s.cells \o <<c>> \o Make(s.len - 1)
    OBVIOUS
<1>5. /\ new \in Seq(Cell) /\ Len(new) >= s.len + 1 /\ new[s.len + 1] = c
      /\ \A k \in 1 .. s.len : new[k] = s.cells[k]
    <2>1. CASE s.len < Len(s.cells)
        <3>1. s.len + 1 \in 1 .. Len(s.cells) /\ c \in Cell BY <1>3, <2>1 DEF Cell
        <3>2. new = [s.cells EXCEPT ![s.len + 1] = c] BY <1>4, <2>1
        <3>3. new \in Seq(Cell) /\ Len(new) = Len(s.cells) BY <1>3, <3>1, <3>2, ExceptSeq
        <3>4. new[s.len + 1] = c /\ \A k \in 1 .. s.len : new[k] = s.cells[k] BY <1>3, <3>1, <3>2
        <3> QED BY <1>3, <2>1, <3>3, <3>4
    <2>2. CASE ~(s.len < Len(s.cells))
        <3>1. s.len = Len(s.cells) BY <1>3, <2>2
        <3>2. new = s.cells \o <<c>> \o Make(s.len - 1) BY <1>4, <2>2
        <3>3. Make(s.len - 1) \in Seq(Cell) BY <1>3, MakeIs
        <3>4. /\ new \in Seq(Cell) /\ Len(new) >= Len(s.cells) + 1 /\ new[Len(s.cells) + 1] = c
              /\ \A k \in 1 .. Len(s.cells) : new[k] = s.cells[k]
            <4>1. PICK a \in Seq(Cell), b \in Seq(Cell) : a = s.cells /\ b = Make(s.len - 1)
                BY <1>3, <3>3
            <4>2. new = a \o <<c>> \o b BY <3>2, <4>1
            <4>3. LET x == a \o <<c>> \o b
                  IN  /\ x \in Seq(Cell) /\ Len(x) >= Len(a) + 1 /\ x[Len(a) + 1] = c
                      /\ \A k \in 1 .. Len(a) : x[k] = a[k]
                BY ExtendedCells, Zenon
            <4> QED BY <4>1, <4>2, <4>3, Zenon
        <3> QED BY <3>1, <3>4
    <2> QED BY <2>1, <2>2
<1>6. PICK r : r = [cells |-> new, len |-> s.len + 1] OBVIOUS
<1>7. r \in GoodSlice(c, poolKind) BY <1>3, <1>5, <1>6, GrownIsGood
<1>8. /\ slice' = [slice EXCEPT ![c] = [slice[c] EXCEPT ![1] = r]]
      /\ UNCHANGED <<poolKind, buckets>>
    BY <1>2, <1>4, <1>6 DEF AppendElem
<1> QED BY <1>1, <1>7, <1>8, FirstReplaced

LEMMA AppendByteInv == ASSUME SlicePoolsInv, NEW c \in SliceClient, AppendByte(c) PROVE SlicePoolsInv'
<1>1. Len(slice[c]) = 1 BY DEF AppendByte
<1>2. PICK s : s = slice[c][1] OBVIOUS
<1>3. s \in GoodSlice(c, poolKind) /\ s.cells \in Seq(Cell) /\ s.len \in Nat
    BY <1>1, <1>2, FirstIsGood
<1>4. s.len = Len(s.cells) BY <1>2 DEF AppendByte
<1>5. PICK twice, n, new :
        /\ twice \in Nat /\ twice = 2 * Len(s.cells)
        /\ n = GetBucket(twice) /\ new = Got(n, twice)
    BY <1>3
<1>6. n = 0 \/ n \in DOMAIN sizesAsc BY <1>5, GetBucketIs
<1>7. new \in Seq(Cell) /\ GoodBuckets(Without(n), poolKind) BY <1>5, <1>6, GotIs DEF SlicePoolsInv
<1>8. PICK rest : rest = SubSeq(new, s.len + 2, Len(new)) OBVIOUS
<1>9. rest \in Seq(Cell) BY <1>3, <1>7, <1>8
<1>10. PICK cells : cells = s.cells \o <<c>> \o rest OBVIOUS
<1>11. /\ cells \in Seq(Cell) /\ Len(cells) >= s.len + 1 /\ cells[s.len + 1] = c
       /\ \A k \in 1 .. s.len : cells[k] = s.cells[k]
    BY <1>3, <1>4, <1>9, <1>10, ExtendedCells
<1>12. PICK grown : grown = [cells |-> cells, len |-> s.len + 1] OBVIOUS
<1>13. grown \in GoodSlice(c, poolKind) BY <1>3, <1>11, <1>12, GrownIsGood
<1>14. poolKind' = poolKind BY DEF AppendByte
<1>15. CASE poolKind = "checked"
    <2>1. slice' = [slice EXCEPT ![c] = <<grown, s>>] /\ buckets' = Without(n)
        BY <1>2, <1>5, <1>8, <1>10, <1>12, <1>15 DEF AppendByte
    <2>2. <<grown, s>> \in Seq(GoodSlice(c, poolKind)) BY <1>3, <1>13
    <2>3. GoodSlices(slice', poolKind) BY <2>1, <2>2, SlicesUpdate DEF SlicePoolsInv
    <2> QED BY <1>7, <1>14, <2>1, <2>3 DEF SlicePoolsInv
<1>16. CASE poolKind # "checked"
    <2>1. /\ slice' = [slice EXCEPT ![c] = <<grown>>]
          /\ buckets' = With(Without(n), PutBucket(Len(s.cells)), s.cells)
        BY <1>2, <1>5, <1>8, <1>10, <1>12, <1>16 DEF AppendByte
    <2>2. <<grown>> \in Seq(GoodSlice(c, poolKind)) BY <1>13
    <2>3. GoodSlices(slice', poolKind) BY <2>1, <2>2, SlicesUpdate DEF SlicePoolsInv
    <2>4. GoodBuckets(buckets', poolKind) BY <1>3, <1>7, <2>1, PutGood
    <2> QED BY <1>14, <2>3, <2>4 DEF SlicePoolsInv
<1> QED BY <1>15, <1>16

LEMMA TruncateInv == ASSUME SlicePoolsInv, NEW c \in SliceClient, Truncate(c) PROVE SlicePoolsInv'
<1>1. slice[c] # <<>> /\ slice[c] \in Seq(GoodSlice(c, poolKind))
    BY DEF Truncate, SlicePoolsInv, GoodSlices
<1>2. PICK s : s = slice[c][1] OBVIOUS
<1>3. /\ s \in [cells : Seq(Cell), len : Nat] /\ s.cells \in Seq(Cell) /\ s.len \in Nat
      /\ s.len <= Len(s.cells) /\ \A k \in 1 .. s.len : s.cells[k] \in Own(c, poolKind)
    <2>1. 1 \in 1 .. Len(slice[c]) BY <1>1
    <2> QED BY <1>2, <2>1, FirstIsGood DEF GoodSlice
<1>4. s.len > 0 BY <1>2 DEF Truncate
<1>5. PICK r : r = [s EXCEPT !.len = s.len - 1] OBVIOUS
<1>6. r \in [cells : Seq(Cell), len : Nat] /\ r.len = s.len - 1 /\ r.cells = s.cells
    BY <1>3, <1>4, <1>5
<1>7. r \in GoodSlice(c, poolKind) BY <1>3, <1>4, <1>6 DEF GoodSlice
<1>8. /\ slice' = [slice EXCEPT ![c] = [slice[c] EXCEPT ![1] = r]]
      /\ UNCHANGED <<poolKind, buckets>>
    BY <1>2, <1>5 DEF Truncate
<1> QED BY <1>1, <1>7, <1>8, FirstReplaced

LEMMA GrowInv == ASSUME SlicePoolsInv, NEW c \in SliceClient, NEW n \in Nat, grow(c, n) PROVE SlicePoolsInv'
<1>1. slice[c] # <<>> /\ slice[c] \in Seq(GoodSlice(c, poolKind)) /\ poolKind = "array"
    BY DEF grow, SlicePoolsInv, GoodSlices
<1>2. PICK old : old = slice[c][1].cells OBVIOUS
<1>3. old \in Seq(Cell)
    <2>1. 1 \in 1 .. Len(slice[c]) BY <1>1
    <2> QED BY <1>2, <2>1, FirstIsGood
<1>4. PICK cells : cells = IF Len(old) < n THEN Make(n)
                           ELSE [k \in DOMAIN old |-> IF k <= n THEN EmptyElem ELSE old[k]]
    OBVIOUS
<1>5. cells \in Seq(Cell) /\ Len(cells) >= n /\ \A k \in 1 .. n : cells[k] = EmptyElem
    <2>1. CASE Len(old) < n
        <3>1. cells = Make(n) BY <1>4, <2>1
        <3>2. Make(n) \in Seq(Cell) /\ Len(Make(n)) = n /\ \A k \in 1 .. n : Make(n)[k] = EmptyElem
            BY MakeIs, Zenon
        <3> QED BY <3>1, <3>2
    <2>2. CASE ~(Len(old) < n)
        <3>1. cells = [k \in 1 .. Len(old) |-> IF k <= n THEN EmptyElem ELSE old[k]] BY <1>3, <1>4, <2>2
        <3>2. \A k \in 1 .. Len(old) : (IF k <= n THEN EmptyElem ELSE old[k]) \in Cell
            BY <1>3 DEF Cell
        <3>3. cells \in Seq(Cell) /\ Len(cells) = Len(old) BY <1>3, <3>1, <3>2
        <3> QED BY <1>3, <2>2, <3>1, <3>3
    <2> QED BY <2>1, <2>2
<1>6. PICK r : r = [cells |-> cells, len |-> n] OBVIOUS
<1>7. r \in [cells : Seq(Cell), len : Nat] /\ r.len = n /\ r.cells = cells BY <1>5, <1>6
<1>8. EmptyElem \in Own(c, poolKind) BY <1>1 DEF Own
<1>9. r \in GoodSlice(c, poolKind) BY <1>5, <1>7, <1>8 DEF GoodSlice
<1>10. /\ slice' = [slice EXCEPT ![c] = [slice[c] EXCEPT ![1] = r]]
       /\ UNCHANGED <<poolKind, buckets>>
    BY <1>2, <1>4, <1>6 DEF grow
<1> QED BY <1>1, <1>9, <1>10, FirstReplaced

LEMMA SlicePoolsStep == SlicePoolsInv /\ [SlicePoolsNext]_slicePoolsVars => SlicePoolsInv'
<1> SUFFICES ASSUME SlicePoolsInv, [SlicePoolsNext]_slicePoolsVars PROVE SlicePoolsInv'
    OBVIOUS
<1>1. CASE UNCHANGED slicePoolsVars BY <1>1 DEF slicePoolsVars, SlicePoolsInv
<1>2. CASE SlicePoolsNext
    <2>1. PICK c \in SliceClient :
            \/ \E n \in 0 .. sizesAsc[Len(sizesAsc)] + 1 : GetSlice(c, n) \/ OwnSlice(c, n)
            \/ PutBytes(c) \/ PutElems(c) \/ Truncate(c) \/ AppendElem(c) \/ AppendByte(c)
            \/ \E n \in 0 .. MaxCap : grow(c, n)
        BY <1>2 DEF SlicePoolsNext
    <2>2. \A n \in 0 .. sizesAsc[Len(sizesAsc)] + 1 : n \in Nat OBVIOUS
    <2>3. CASE \E n \in 0 .. sizesAsc[Len(sizesAsc)] + 1 : GetSlice(c, n) \/ OwnSlice(c, n)
        BY <2>2, <2>3, GetSliceInv, Zenon
    <2>4. \A n \in 0 .. MaxCap : n \in Nat OBVIOUS
    <2>5. CASE \E n \in 0 .. MaxCap : grow(c, n) BY <2>4, <2>5, GrowInv, Zenon
    <2> QED BY <2>1, <2>3, <2>5, PutBytesInv, PutElemsInv, TruncateInv, AppendElemInv, AppendByteInv, Zenon
<1> QED BY <1>1, <1>2

\* What a client of a slice pool sees in its slices it has written itself, and
\* a bucket has only arrays of its capacity or more, for any clients and any
\* capacities: no byte of the last user shows, whatever slices are put back.
THEOREM SlicesAreClean == SlicePoolsSpec => []SlicesFitAndOwn
<1>1. SlicePoolsInv => SlicesFitAndOwn
    <2> SUFFICES ASSUME SlicePoolsInv PROVE SlicesFitAndOwn
        OBVIOUS
    <2>1. ASSUME poolKind # "array", NEW n \in DOMAIN buckets, NEW k \in DOMAIN buckets[n]
          PROVE  Len(buckets[n][k]) >= sizesAsc[n]
        <3>1. buckets[n] \in Seq(Fitting(n, poolKind)) BY <2>1 DEF SlicePoolsInv, GoodBuckets
        <3>2. buckets[n][k] \in Fitting(n, poolKind) BY <2>1, <3>1
        <3> QED BY <2>1, <3>2 DEF Fitting
    <2>2. ASSUME NEW c \in SliceClient, NEW j \in DOMAIN slice[c], NEW k \in 1 .. slice[c][j].len
          PROVE  slice[c][j].cells[k] \in Own(c, poolKind)
        <3>1. slice[c] \in Seq(GoodSlice(c, poolKind)) BY DEF SlicePoolsInv, GoodSlices
        <3>2. j \in 1 .. Len(slice[c]) BY <3>1
        <3> QED BY <3>2, FirstIsGood
    <2> QED BY <2>1, <2>2 DEF SlicesFitAndOwn, Own
<1> QED BY SlicePoolsInitInv, SlicePoolsStep, <1>1, PTL DEF SlicePoolsSpec

\* A slice from a bucketized pool has the capacity that was asked for, be it
\* from a bucket, put there by whom ever, or made because there was none.
THEOREM GetsAreLargeEnough ==
    SlicePoolsSpec =>
        [][\A c \in SliceClient, capacity \in Nat :
            poolKind # "array" /\ GetSlice(c, capacity) => Len(slice'[c][1].cells) >= capacity]_slicePoolsVars
<1>1. ASSUME SlicePoolsInv, NEW c \in SliceClient, NEW capacity \in Nat, poolKind # "array",
             GetSlice(c, capacity)
      PROVE  Len(slice'[c][1].cells) >= capacity
    <2>1. PICK n, cells : n = GetBucket(capacity) /\ cells = Got(n, capacity) OBVIOUS
    <2>2. n = 0 \/ (n \in DOMAIN sizesAsc /\ sizesAsc[n] >= capacity) BY <2>1, GetBucketIs
    <2>3. 0 \notin DOMAIN sizesAsc /\ \A m \in DOMAIN sizesAsc : sizesAsc[m] \in Nat BY SizesFacts
    <2>4. /\ cells \in Seq(Cell)
          /\ n = 0 => Len(cells) = capacity
          /\ n # 0 => Len(cells) >= sizesAsc[n]
        BY <1>1, <2>1, <2>2, GotIs DEF SlicePoolsInv
    <2>5. Len(cells) >= capacity BY <2>2, <2>3, <2>4
    <2>6. slice' = [slice EXCEPT ![c] = <<[cells |-> cells, len |-> 0]>>] /\ DOMAIN slice = SliceClient
        BY <1>1, <2>1 DEF GetSlice, SlicePoolsInv, GoodSlices
    <2>7. PICK r : r = [cells |-> cells, len |-> 0] OBVIOUS
    <2>8. slice'[c] = <<r>> /\ <<r>>[1] = r /\ r.cells = cells BY <2>6, <2>7
    <2> QED BY <2>5, <2>8
<1>2. SlicePoolsInv /\ [SlicePoolsNext]_slicePoolsVars
      => [\A c \in SliceClient, capacity \in Nat :
            poolKind # "array" /\ GetSlice(c, capacity) => Len(slice'[c][1].cells) >= capacity]_slicePoolsVars
    BY <1>1
<1> QED BY SlicePoolsInitInv, SlicePoolsStep, <1>2, PTL DEF SlicePoolsSpec

-----------------------------------------------------------------------------
(* Ident.                                                                  *)

\* The n-th of a finite set of numbers.
IsNth(k, n, S) == k \in S /\ Cardinality({j \in S : j < k}) = n - 1

LEMMA LowerFinite ==
    ASSUME NEW S, IsFiniteSet(S), NEW k
    PROVE  IsFiniteSet({j \in S : j < k}) /\ Cardinality({j \in S : j < k}) \in Nat
<1>1. {j \in S : j < k} \in SUBSET S OBVIOUS
<1> QED BY <1>1, FS_Subset, FS_CardinalityType

\* After the n-th there is another one, while n are not all.
LEMMA NthHasNext ==
    ASSUME NEW S, S \subseteq Nat, IsFiniteSet(S), NEW n \in Nat \ {0}, n < Cardinality(S),
           NEW k, IsNth(k, n, S)
    PROVE  \E l : IsNth(l, n + 1, S)
<1> DEFINE low == {j \in S : j < k}  high == {j \in S : j > k}
<1>1. k \in S /\ IsFiniteSet(low) /\ Cardinality(low) = n - 1 BY LowerFinite DEF IsNth
<1>2. IsFiniteSet(low \cup {k}) /\ Cardinality(low \cup {k}) = n
    <2>1. k \in Nat /\ k \notin low BY <1>1
    <2> HIDE DEF low
    <2>2. IsFiniteSet(low \cup {k}) /\ Cardinality(low \cup {k}) = Cardinality(low) + 1
        BY <1>1, <2>1, FS_AddElement
    <2> QED BY <1>1, <2>2
<1>3. high # {}
    <2> SUFFICES ASSUME high = {} PROVE FALSE
        OBVIOUS
    <2>1. ASSUME NEW j \in S PROVE j \in low \cup {k}
        <3>1. j \in Nat /\ k \in Nat /\ ~(j > k) BY <1>1
        <3> QED BY <3>1
    <2>2. S = low \cup {k} BY <1>1, <2>1
    <2> QED BY <1>2, <2>2
<1>4. PICK l \in high : \A m \in high : l <= m
    <2>1. high \subseteq Nat OBVIOUS
    <2> QED BY <1>3, <2>1, LeastExists
<1>5. {j \in S : j < l} = low \cup {k}
    <2>1. ASSUME NEW j \in S PROVE j < l <=> j < k \/ j = k
        <3>1. j \in Nat /\ k \in Nat /\ l \in Nat /\ k < l BY <1>1, <1>4
        <3>2. j > k => l <= j BY <1>4
        <3> QED BY <3>1, <3>2
    <2> QED BY <1>1, <2>1
<1>6. IsNth(l, n + 1, S) BY <1>2, <1>4, <1>5 DEF IsNth
<1> QED BY <1>6

\* By the least n for which there is none.
LEMMA NthExists ==
    ASSUME NEW S, S \subseteq Nat, IsFiniteSet(S), NEW n \in 1 .. Cardinality(S)
    PROVE  \E k : IsNth(k, n, S)
<1>1. Cardinality(S) \in Nat BY FS_CardinalityType
<1> DEFINE bad == {m \in 1 .. Cardinality(S) : ~\E k : IsNth(k, m, S)}
<1>2. bad = {}
    <2> SUFFICES ASSUME bad # {} PROVE FALSE
        OBVIOUS
    <2>1. bad \subseteq Nat BY <1>1
    <2>2. PICK m \in bad : \A b \in bad : m <= b BY <2>1, LeastExists
    <2>3. m \in 1 .. Cardinality(S) /\ ~\E k : IsNth(k, m, S) OBVIOUS
    <2>4. CASE m = 1
        <3>1. S # {} BY <1>1, <2>3, FS_EmptySet
        <3>2. PICK k \in S : \A j \in S : k <= j BY <3>1, LeastExists
        <3>3. {j \in S : j < k} = {}
            <4>1. \A j \in S : j \in Nat /\ k \in Nat /\ k <= j BY <3>2
            <4>2. \A j \in S : ~(j < k) BY <4>1
            <4> QED BY <4>2, Zenon
        <3>4. Cardinality({j \in S : j < k}) = 1 - 1
            <4>1. Cardinality({}) = 1 - 1 BY FS_EmptySet
            <4> QED BY <3>3, <4>1, Zenon
        <3>5. IsNth(k, 1, S) BY <3>4, Zenon DEF IsNth
        <3> QED BY <2>3, <2>4, <3>5
    <2>5. CASE m # 1
        <3>1. m - 1 \in 1 .. Cardinality(S) /\ m - 1 \in Nat \ {0} /\ m - 1 < Cardinality(S) /\ ~(m <= m - 1)
              /\ (m - 1) + 1 = m
            BY <1>1, <2>3, <2>5
        <3>2. m - 1 \notin bad BY <2>2, <3>1
        <3>3. PICK k : IsNth(k, m - 1, S) BY <3>1, <3>2
        <3>4. \E l : IsNth(l, (m - 1) + 1, S) BY <3>1, <3>3, NthHasNext
        <3> QED BY <2>3, <3>1, <3>4
    <2> QED BY <2>4, <2>5
<1> QED BY <1>2

\* First takes different members of the set for different numbers.
LEMMA FirstIs ==
    ASSUME NEW S, S \subseteq Nat, IsFiniteSet(S), NEW N \in Nat, N <= Cardinality(S)
    PROVE  /\ \A n \in 1 .. N : First(S, n) \in S
           /\ \A m, n \in 1 .. N : First(S, m) = First(S, n) => m = n
<1>1. Cardinality(S) \in Nat BY FS_CardinalityType
<1>2. ASSUME NEW n \in 1 .. N
      PROVE  First(S, n) \in S /\ Cardinality({j \in S : j < First(S, n)}) = n - 1
    <2>1. n \in 1 .. Cardinality(S) BY <1>1
    <2>2. PICK k : IsNth(k, n, S) BY <2>1, NthExists
    <2>3. k \in S /\ Cardinality({j \in S : j < k}) = n - 1 BY <2>2 DEF IsNth
    <2> QED BY <2>3, Zenon DEF First
<1>3. ASSUME NEW m \in 1 .. N, NEW n \in 1 .. N, First(S, m) = First(S, n) PROVE m = n
    <2>1. m - 1 = n - 1 BY <1>2, <1>3
    <2> QED BY <2>1
<1> QED BY <1>2, <1>3

IdentTypeOK ==
    /\ idData \in [IDs -> BytesObj \cup {NoBytes}] /\ noFinalize \in [IDs -> BOOLEAN]
    /\ liveIDs \subseteq IDs /\ freeBytes \subseteq BytesObj
    /\ bytesRef \in [BytesObj -> Nat]
    /\ DOMAIN bytesText = BytesObj /\ DOMAIN madeOf = IDs

\* No two IDs have the same bytes, and none has those the client fills in.
BytesApart ==
    /\ \A i, j \in liveIDs : idData[i] = idData[j] => i = j
    /\ clientBytes \subseteq BytesObj \ freeBytes
    /\ \A i \in liveIDs : idData[i] \notin clientBytes

BytesInv == IdentTypeOK /\ IDsKeepTheirBytes /\ BytesApart

\* The IDs in tags ts.
IDsIn(ts) == {ts[k][1] : k \in DOMAIN ts} \cup {ts[k][2] : k \in DOMAIN ts}

\* An ID is finalized by one: the context, the tags it is in, or the client.
OneFinalizer ==
    /\ DOMAIN tagsValues = TagsVar /\ DOMAIN tagsNoFinalize = TagsVar
    /\ \A t \in TagsVar : tagsValues[t] \in Seq(IDs \X IDs)
    /\ ctxIDs \subseteq liveIDs
    /\ \A t \in TagsVar : IDsIn(tagsValues[t]) \subseteq liveIDs \ ctxIDs
    /\ \A t, u \in TagsVar : t # u => IDsIn(tagsValues[t]) \cap IDsIn(tagsValues[u]) = {}

IdentInv == BytesInv /\ OneFinalizer

LEMMA IDsFinite ==
    ASSUME IdentTypeOK
    PROVE  /\ FreeIDs \subseteq Nat /\ IsFiniteSet(FreeIDs) /\ FreeIDs \subseteq IDs
           /\ freeBytes \subseteq Nat /\ IsFiniteSet(freeBytes)
<1>1. IsFiniteSet(IDs) /\ IsFiniteSet(BytesObj) /\ IDs \subseteq Nat /\ BytesObj \subseteq Nat
    BY IdentAssumption, FS_Interval DEF IDs, BytesObj
<1>2. FreeIDs \in SUBSET IDs /\ freeBytes \in SUBSET BytesObj BY DEF FreeIDs, IdentTypeOK
<1> QED BY <1>1, <1>2, FS_Subset

\* What MakeIDs has done when it made the IDs ids of the bytes data.
Made(N, ids, data, texts) ==
    /\ \A k \in 1 .. N : ids[k] \in FreeIDs /\ data[k] \in freeBytes
    /\ \A k, l \in 1 .. N : (ids[k] = ids[l] => k = l) /\ (data[k] = data[l] => k = l)
    /\ \A k \in 1 .. N : /\ idData'[ids[k]] = data[k] /\ madeOf'[ids[k]] = texts[k]
                         /\ bytesText'[data[k]] = texts[k]
                         /\ bytesRef'[data[k]] = bytesRef[data[k]] + 1
    /\ \A i \in liveIDs : idData'[i] = idData[i] /\ madeOf'[i] = madeOf[i]
    /\ \A b \in BytesObj \ freeBytes : bytesText'[b] = bytesText[b] /\ bytesRef'[b] = bytesRef[b]
    /\ liveIDs' = liveIDs \cup {ids[k] : k \in 1 .. N}
    /\ freeBytes' = freeBytes \ {data[k] : k \in 1 .. N}
    /\ idData' \in [IDs -> BytesObj \cup {NoBytes}] /\ bytesRef' \in [BytesObj -> Nat]
    /\ DOMAIN bytesText' = BytesObj /\ DOMAIN madeOf' = IDs

\* A sequence without repetitions finds its elements again.
LEMMA FoundAgain ==
    ASSUME NEW N, NEW seq, DOMAIN seq = 1 .. N, \A k, l \in 1 .. N : seq[k] = seq[l] => k = l,
           NEW k \in 1 .. N
    PROVE  (CHOOSE l \in DOMAIN seq : seq[l] = seq[k]) = k
<1>1. \E l \in DOMAIN seq : seq[l] = seq[k] OBVIOUS
<1>2. PICK j : j = CHOOSE l \in DOMAIN seq : seq[l] = seq[k] OBVIOUS
<1>3. j \in 1 .. N /\ seq[j] = seq[k] BY <1>1, <1>2, Zenon
<1> QED BY <1>2, <1>3

LEMMA MakeIDsIs ==
    ASSUME IdentTypeOK, NEW texts, NEW N \in Nat, DOMAIN texts = 1 .. N, Len(texts) = N, MakeIDs(texts)
    PROVE  Made(N, [k \in 1 .. N |-> First(FreeIDs, k)], [k \in 1 .. N |-> First(freeBytes, k)], texts)
<1> DEFINE of(seq, x) == CHOOSE k \in DOMAIN seq : seq[k] = x
           In(seq, x) == \E k \in DOMAIN seq : seq[k] = x
<1>1. PICK ids, data : /\ ids = [k \in 1 .. N |-> First(FreeIDs, k)]
                       /\ data = [k \in 1 .. N |-> First(freeBytes, k)]
    OBVIOUS
<1>2. /\ N <= Cardinality(FreeIDs) /\ N <= Cardinality(freeBytes)
      /\ idData' = [i \in IDs |-> IF In(ids, i) THEN data[of(ids, i)] ELSE idData[i]]
      /\ madeOf' = [i \in IDs |-> IF In(ids, i) THEN texts[of(ids, i)] ELSE madeOf[i]]
      /\ liveIDs' = liveIDs \cup {ids[k] : k \in 1 .. N}
      /\ bytesRef' = [b \in BytesObj |-> IF In(data, b) THEN bytesRef[b] + 1 ELSE bytesRef[b]]
      /\ bytesText' = [b \in BytesObj |-> IF In(data, b) THEN texts[of(data, b)] ELSE bytesText[b]]
      /\ freeBytes' = freeBytes \ {data[k] : k \in 1 .. N}
    <2>1. Cardinality(FreeIDs) >= N /\ Cardinality(freeBytes) >= N BY DEF MakeIDs
    <2>2. Cardinality(FreeIDs) \in Nat /\ Cardinality(freeBytes) \in Nat BY IDsFinite, FS_CardinalityType
    <2>3. N <= Cardinality(FreeIDs) /\ N <= Cardinality(freeBytes) BY <2>1, <2>2
    <2> QED BY <1>1, <2>3 DEF MakeIDs
<1>3. DOMAIN ids = 1 .. N /\ DOMAIN data = 1 .. N BY <1>1
<1>4. /\ \A k \in 1 .. N : ids[k] \in FreeIDs
      /\ \A k, l \in 1 .. N : ids[k] = ids[l] => k = l
    <2>1. \A k \in 1 .. N : ids[k] = First(FreeIDs, k) BY <1>1
    <2>2. /\ \A k \in 1 .. N : First(FreeIDs, k) \in FreeIDs
          /\ \A k, l \in 1 .. N : First(FreeIDs, k) = First(FreeIDs, l) => k = l
        BY <1>2, IDsFinite, FirstIs
    <2> QED BY <2>1, <2>2
<1>5. /\ \A k \in 1 .. N : data[k] \in freeBytes
      /\ \A k, l \in 1 .. N : data[k] = data[l] => k = l
    <2>1. \A k \in 1 .. N : data[k] = First(freeBytes, k) BY <1>1
    <2>2. /\ \A k \in 1 .. N : First(freeBytes, k) \in freeBytes
          /\ \A k, l \in 1 .. N : First(freeBytes, k) = First(freeBytes, l) => k = l
        BY <1>2, IDsFinite, FirstIs
    <2> QED BY <2>1, <2>2
<1>6. \A k \in 1 .. N : In(ids, ids[k]) /\ of(ids, ids[k]) = k BY <1>3, <1>4, FoundAgain
<1>7. \A k \in 1 .. N : In(data, data[k]) /\ of(data, data[k]) = k BY <1>3, <1>5, FoundAgain
<1>8. \A i \in liveIDs : ~In(ids, i) BY <1>3, <1>4 DEF FreeIDs
<1>9. \A b \in BytesObj \ freeBytes : ~In(data, b) BY <1>3, <1>5
<1>10. \A x : In(ids, x) => of(ids, x) \in 1 .. N BY <1>3, Zenon
<1> HIDE DEF In, of
<1>11. ASSUME NEW k \in 1 .. N
       PROVE  /\ idData'[ids[k]] = data[k] /\ madeOf'[ids[k]] = texts[k]
              /\ bytesText'[data[k]] = texts[k] /\ bytesRef'[data[k]] = bytesRef[data[k]] + 1
    <2>1. ids[k] \in IDs /\ data[k] \in BytesObj BY <1>4, <1>5, IDsFinite DEF IdentTypeOK
    <2> QED BY <1>2, <1>6, <1>7, <2>1
<1>12. \A i \in liveIDs : idData'[i] = idData[i] /\ madeOf'[i] = madeOf[i]
    <2>1. liveIDs \subseteq IDs BY DEF IdentTypeOK
    <2> QED BY <1>2, <1>8, <2>1
<1>13. \A b \in BytesObj \ freeBytes : bytesText'[b] = bytesText[b] /\ bytesRef'[b] = bytesRef[b]
    BY <1>2, <1>9
<1>14. idData' \in [IDs -> BytesObj \cup {NoBytes}]
    <2>1. ASSUME NEW i \in IDs
          PROVE  (IF In(ids, i) THEN data[of(ids, i)] ELSE idData[i]) \in BytesObj \cup {NoBytes}
        <3>1. CASE In(ids, i) BY <1>5, <1>10, <3>1 DEF IdentTypeOK
        <3>2. CASE ~In(ids, i) BY <3>2 DEF IdentTypeOK
        <3> QED BY <3>1, <3>2
    <2> QED BY <1>2, <2>1
<1>15. bytesRef' \in [BytesObj -> Nat] BY <1>2 DEF IdentTypeOK
<1>16. DOMAIN bytesText' = BytesObj /\ DOMAIN madeOf' = IDs BY <1>2
<1>17. Made(N, ids, data, texts)
    <2>1. /\ liveIDs' = liveIDs \cup {ids[k] : k \in 1 .. N}
          /\ freeBytes' = freeBytes \ {data[k] : k \in 1 .. N}
        BY <1>2
    <2>2. \A k \in 1 .. N : ids[k] \in FreeIDs /\ data[k] \in freeBytes BY <1>4, <1>5
    <2>3. \A k, l \in 1 .. N : (ids[k] = ids[l] => k = l) /\ (data[k] = data[l] => k = l)
        BY <1>4, <1>5, Zenon
    <2>4. \A k \in 1 .. N : /\ idData'[ids[k]] = data[k] /\ madeOf'[ids[k]] = texts[k]
                           /\ bytesText'[data[k]] = texts[k]
                           /\ bytesRef'[data[k]] = bytesRef[data[k]] + 1
        BY <1>11
    <2> QED BY <1>12, <1>13, <1>14, <1>15, <1>16, <2>1, <2>2, <2>3, <2>4, Zenon DEF Made
<1> QED BY <1>1, <1>17

\* New IDs have bytes that nobody had.
LEMMA MadeKeeps ==
    ASSUME BytesInv, NEW N, NEW ids, NEW data, NEW texts, Made(N, ids, data, texts),
           UNCHANGED <<noFinalize, clientBytes>>
    PROVE  BytesInv'
<1>1. /\ \A k \in 1 .. N : ids[k] \in FreeIDs /\ data[k] \in freeBytes
      /\ \A k, l \in 1 .. N : (ids[k] = ids[l] => k = l) /\ (data[k] = data[l] => k = l)
      /\ \A k \in 1 .. N : /\ idData'[ids[k]] = data[k] /\ madeOf'[ids[k]] = texts[k]
                           /\ bytesText'[data[k]] = texts[k]
                           /\ bytesRef'[data[k]] = bytesRef[data[k]] + 1
      /\ \A i \in liveIDs : idData'[i] = idData[i] /\ madeOf'[i] = madeOf[i]
      /\ \A b \in BytesObj \ freeBytes : bytesText'[b] = bytesText[b] /\ bytesRef'[b] = bytesRef[b]
      /\ liveIDs' = liveIDs \cup {ids[k] : k \in 1 .. N}
      /\ freeBytes' = freeBytes \ {data[k] : k \in 1 .. N}
    BY DEF Made
<1>2. freeBytes \subseteq BytesObj /\ liveIDs \subseteq IDs /\ FreeIDs \subseteq IDs /\ bytesRef \in [BytesObj -> Nat]
    BY DEF BytesInv, IdentTypeOK, FreeIDs
<1>3. IdentTypeOK'
    <2>1. liveIDs' \subseteq IDs BY <1>1, <1>2
    <2>2. freeBytes' \subseteq BytesObj BY <1>1, <1>2
    <2> QED BY <2>1, <2>2 DEF Made, BytesInv, IdentTypeOK
<1>4. ASSUME NEW i \in liveIDs'
      PROVE  \/ i \in liveIDs /\ idData'[i] = idData[i] /\ madeOf'[i] = madeOf[i]
             \/ \E k \in 1 .. N : i = ids[k] /\ idData'[i] = data[k] /\ madeOf'[i] = texts[k]
    BY <1>1
<1>5. ASSUME NEW i \in liveIDs
      PROVE  /\ idData[i] \in BytesObj \ freeBytes
             /\ bytesText[idData[i]] = madeOf[i] /\ bytesRef[idData[i]] >= 1
             /\ \A k \in 1 .. N : idData[i] # data[k]
    BY <1>1 DEF BytesInv, IDsKeepTheirBytes
<1>6. IDsKeepTheirBytes'
    <2> SUFFICES ASSUME NEW i \in liveIDs'
                 PROVE  /\ idData'[i] \in BytesObj \ freeBytes'
                        /\ bytesText'[idData'[i]] = madeOf'[i] /\ bytesRef'[idData'[i]] >= 1
        BY DEF IDsKeepTheirBytes, BytesObj
    <2>1. CASE i \in liveIDs /\ idData'[i] = idData[i] /\ madeOf'[i] = madeOf[i]
        <3>1. idData[i] \notin freeBytes' BY <1>1, <1>5, <2>1
        <3> QED BY <1>1, <1>5, <2>1, <3>1
    <2>2. ASSUME NEW k \in 1 .. N, i = ids[k], idData'[i] = data[k], madeOf'[i] = texts[k]
          PROVE  /\ idData'[i] \in BytesObj \ freeBytes'
                 /\ bytesText'[idData'[i]] = madeOf'[i] /\ bytesRef'[idData'[i]] >= 1
        <3>1. data[k] \in BytesObj /\ bytesRef[data[k]] \in Nat BY <1>1, <1>2
        <3>2. data[k] \notin freeBytes' BY <1>1
        <3> QED BY <1>1, <2>2, <3>1, <3>2
    <2> QED BY <1>4, <2>1, <2>2
<1>7. ASSUME NEW i \in liveIDs', NEW j \in liveIDs', idData'[i] = idData'[j] PROVE i = j
    <2>1. \A d, e \in liveIDs : idData[d] = idData[e] => d = e BY DEF BytesInv, BytesApart
    <2>2. CASE i \in liveIDs /\ j \in liveIDs BY <1>1, <1>7, <2>1, <2>2
    <2>3. CASE i \in liveIDs /\ j \notin liveIDs BY <1>1, <1>4, <1>5, <1>7, <2>3
    <2>4. CASE i \notin liveIDs /\ j \in liveIDs BY <1>1, <1>4, <1>5, <1>7, <2>4
    <2>5. CASE i \notin liveIDs /\ j \notin liveIDs BY <1>1, <1>4, <1>7, <2>5
    <2> QED BY <2>2, <2>3, <2>4, <2>5
<1>8. clientBytes' \subseteq BytesObj \ freeBytes' BY <1>1 DEF BytesInv, BytesApart
<1>9. ASSUME NEW i \in liveIDs' PROVE idData'[i] \notin clientBytes'
    <2>1. clientBytes \cap freeBytes = {} /\ \A d \in liveIDs : idData[d] \notin clientBytes
        BY DEF BytesInv, BytesApart
    <2> QED BY <1>1, <1>4, <2>1
<1>10. BytesApart'
    <2>1. BytesObj' = BytesObj BY DEF BytesObj
    <2> QED BY <1>7, <1>8, <1>9, <2>1, Zenon DEF BytesApart
<1> QED BY <1>3, <1>6, <1>10 DEF BytesInv

\* Finalizing gives back the bytes of IDs that are live, and of no others.
LEMMA FinalizeKeeps ==
    ASSUME BytesInv, NEW S, S \subseteq liveIDs, FinalizeIDs(S), UNCHANGED <<noFinalize, clientBytes>>
    PROVE  /\ BytesInv' /\ liveIDs' = liveIDs \ {i \in S : ~noFinalize[i]}
<1>1. PICK F : F = {i \in S : ~noFinalize[i]} OBVIOUS
<1>2. /\ bytesRef' = [b \in BytesObj |-> bytesRef[b] - Cardinality({i \in F : idData[i] = b})]
      /\ freeBytes' = freeBytes \cup {idData[i] : i \in F}
      /\ bytesText' = [b \in BytesObj |-> IF \E i \in F : idData[i] = b THEN NoText ELSE bytesText[b]]
      /\ liveIDs' = liveIDs \ F
      /\ madeOf' = [i \in IDs |-> IF i \in F THEN NoText ELSE madeOf[i]]
      /\ idData' = [i \in IDs |-> IF i \in F THEN NoBytes ELSE idData[i]]
    BY <1>1 DEF FinalizeIDs
<1>3. F \subseteq liveIDs /\ liveIDs \subseteq IDs BY <1>1 DEF BytesInv, IdentTypeOK
<1>4. \A i, j \in liveIDs : idData[i] = idData[j] => i = j BY DEF BytesInv, BytesApart
<1>5. \A i \in liveIDs : /\ idData[i] \in BytesObj \ freeBytes /\ idData[i] \notin clientBytes
                          /\ bytesText[idData[i]] = madeOf[i] /\ bytesRef[idData[i]] >= 1
    BY DEF BytesInv, IDsKeepTheirBytes, BytesApart
<1>6. ASSUME NEW b \in BytesObj, NEW i \in F, idData[i] = b PROVE bytesRef'[b] = bytesRef[b] - 1
    <2>1. {j \in F : idData[j] = b} = {i} BY <1>3, <1>4, <1>6
    <2>2. Cardinality({i}) = 1 BY FS_Singleton
    <2> QED BY <1>2, <2>1, <2>2
<1>7. ASSUME NEW b \in BytesObj, ~\E i \in F : idData[i] = b PROVE bytesRef'[b] = bytesRef[b]
    <2>1. {j \in F : idData[j] = b} = {} BY <1>7
    <2>2. bytesRef'[b] = bytesRef[b] - 0 BY <1>2, <2>1, FS_EmptySet
    <2>3. bytesRef[b] \in Nat BY DEF BytesInv, IdentTypeOK
    <2> QED BY <2>2, <2>3
<1>8. bytesRef' \in [BytesObj -> Nat]
    <2>1. ASSUME NEW b \in BytesObj PROVE bytesRef'[b] \in Nat
        <3>1. bytesRef[b] \in Nat BY DEF BytesInv, IdentTypeOK
        <3>2. CASE \E i \in F : idData[i] = b
            <4>1. PICK i \in F : idData[i] = b BY <3>2
            <4>2. bytesRef[b] >= 1 BY <1>3, <1>5, <4>1
            <4>3. bytesRef'[b] = bytesRef[b] - 1 BY <1>6, <4>1
            <4> QED BY <3>1, <4>2, <4>3
        <3>3. CASE ~\E i \in F : idData[i] = b BY <1>7, <3>1, <3>3
        <3> QED BY <3>2, <3>3
    <2>2. bytesRef' = [b \in BytesObj |-> bytesRef'[b]] BY <1>2
    <2> QED BY <2>1, <2>2
<1>9. IdentTypeOK'
    <2>1. idData' \in [IDs -> BytesObj \cup {NoBytes}] BY <1>2 DEF BytesInv, IdentTypeOK
    <2>2. liveIDs' \subseteq IDs /\ freeBytes' \subseteq BytesObj
        BY <1>2, <1>3, <1>5 DEF BytesInv, IdentTypeOK
    <2>3. DOMAIN bytesText' = BytesObj /\ DOMAIN madeOf' = IDs BY <1>2
    <2> QED BY <1>8, <2>1, <2>2, <2>3 DEF BytesInv, IdentTypeOK, IDs, BytesObj
<1>10. ASSUME NEW i \in liveIDs'
       PROVE  /\ i \in liveIDs /\ idData'[i] = idData[i] /\ madeOf'[i] = madeOf[i]
              /\ idData[i] \in BytesObj \ freeBytes'
              /\ bytesText'[idData[i]] = bytesText[idData[i]] /\ bytesRef'[idData[i]] = bytesRef[idData[i]]
    <2>1. i \in liveIDs /\ i \notin F /\ i \in IDs BY <1>2, <1>3
    <2>2. ~\E j \in F : idData[j] = idData[i] BY <1>3, <1>4, <2>1
    <2>3. idData[i] \in BytesObj \ freeBytes' BY <1>2, <1>5, <2>1, <2>2
    <2>4. bytesRef'[idData[i]] = bytesRef[idData[i]] BY <1>7, <2>2, <2>3
    <2> QED BY <1>2, <2>1, <2>2, <2>3, <2>4
<1>11. IDsKeepTheirBytes' BY <1>5, <1>10 DEF IDsKeepTheirBytes, BytesObj
<1>12. BytesApart'
    <2>1. clientBytes \subseteq BytesObj \ freeBytes BY DEF BytesInv, BytesApart
    <2>2. clientBytes \subseteq BytesObj \ freeBytes' BY <1>2, <1>3, <1>5, <2>1
    <2>3. \A i, j \in liveIDs' : idData'[i] = idData'[j] => i = j BY <1>4, <1>10
    <2>4. \A i \in liveIDs' : idData'[i] \notin clientBytes BY <1>5, <1>10
    <2> QED BY <2>2, <2>3, <2>4 DEF BytesApart, BytesObj
<1> QED BY <1>1, <1>2, <1>9, <1>11, <1>12 DEF BytesInv

LEMMA IdentInitInv == IdentInit => IdentInv
<1> SUFFICES ASSUME IdentInit PROVE IdentInv
    OBVIOUS
<1> USE DEF IdentInit
<1>1. IdentTypeOK BY DEF IdentTypeOK
<1>2. IDsKeepTheirBytes BY DEF IDsKeepTheirBytes
<1>3. BytesApart BY DEF BytesApart
<1>4. \A t \in TagsVar : tagsValues[t] = <<>> /\ tagsValues[t] \in Seq(IDs \X IDs) OBVIOUS
<1>5. IDsIn(<<>>) = {} BY DEF IDsIn
<1>6. OneFinalizer BY <1>4, <1>5 DEF OneFinalizer
<1> QED BY <1>1, <1>2, <1>3, <1>6 DEF IdentInv, BytesInv

\* The client's own IDs are in no tags and not with the context.
LEMMA ClientIDsAre ==
    ASSUME NEW id \in ClientIDs
    PROVE  id \in liveIDs /\ id \notin ctxIDs /\ \A t \in TagsVar : id \notin IDsIn(tagsValues[t])
BY DEF ClientIDs, TagIDs, IDsIn

\* IDs come, and IDs go that nobody else will finalize.
LEMMA OthersKeepIDs ==
    ASSUME OneFinalizer, UNCHANGED <<ctxIDs, tagsValues, tagsNoFinalize>>,
           \A id \in liveIDs : id \in liveIDs' \/ id \in ClientIDs
    PROVE  OneFinalizer'
<1>1. ctxIDs' \subseteq liveIDs' BY ClientIDsAre DEF OneFinalizer
<1>2. ASSUME NEW t \in TagsVar PROVE IDsIn(tagsValues'[t]) \subseteq liveIDs' \ ctxIDs'
    <2>1. IDsIn(tagsValues[t]) \subseteq liveIDs \ ctxIDs BY DEF OneFinalizer
    <2> QED BY <2>1, ClientIDsAre
<1> QED BY <1>1, <1>2 DEF OneFinalizer, IDs

LEMMA GetBytesInv == ASSUME IdentInv, NEW text, GetBytes(text) PROVE IdentInv'
<1> DEFINE b == First(freeBytes, 1)
<1>1. b \in freeBytes
    <2>1. freeBytes # {} BY DEF GetBytes
    <2>2. IsFiniteSet(freeBytes) /\ freeBytes \subseteq Nat BY IDsFinite DEF IdentInv, BytesInv
    <2>3. 1 <= Cardinality(freeBytes)
        <3>1. Cardinality(freeBytes) \in Nat /\ Cardinality(freeBytes) # 0 BY <2>1, <2>2, FS_CardinalityType, FS_EmptySet
        <3> QED BY <3>1
    <2>4. \A n \in 1 .. 1 : First(freeBytes, n) \in freeBytes BY <2>2, <2>3, FirstIs
    <2> QED BY <2>4
<1>2. /\ freeBytes' = freeBytes \ {b} /\ clientBytes' = clientBytes \cup {b}
      /\ bytesText' = [bytesText EXCEPT ![b] = text]
      /\ UNCHANGED <<idData, noFinalize, liveIDs, madeOf, bytesRef, ctxIDs, tagsValues, tagsNoFinalize>>
    BY DEF GetBytes
<1> HIDE DEF b
<1>3. IdentTypeOK' BY <1>2 DEF IdentInv, BytesInv, IdentTypeOK
<1>4. \A id \in liveIDs : idData[id] # b BY <1>1 DEF IdentInv, BytesInv, IDsKeepTheirBytes
<1>5. IDsKeepTheirBytes'
    <2>1. DOMAIN bytesText = BytesObj BY DEF IdentInv, BytesInv, IdentTypeOK
    <2> QED BY <1>2, <1>4, <2>1 DEF IdentInv, BytesInv, IDsKeepTheirBytes
<1>6. BytesApart'
    <2>1. b \in BytesObj BY <1>1 DEF IdentInv, BytesInv, IdentTypeOK
    <2> QED BY <1>2, <1>4, <2>1 DEF IdentInv, BytesInv, BytesApart
<1>7. OneFinalizer' BY <1>2 DEF IdentInv, OneFinalizer
<1> QED BY <1>3, <1>5, <1>6, <1>7 DEF IdentInv, BytesInv

\* There is a first ID while there is a free one.
LEMMA FirstFree ==
    ASSUME IdentTypeOK, FreeIDs # {} PROVE First(FreeIDs, 1) \in IDs \ liveIDs
<1>1. IsFiniteSet(FreeIDs) /\ FreeIDs \subseteq Nat BY IDsFinite
<1>2. Cardinality(FreeIDs) \in Nat /\ Cardinality(FreeIDs) # 0 BY <1>1, FS_CardinalityType, FS_EmptySet
<1>3. 1 <= Cardinality(FreeIDs) BY <1>2
<1>4. \A n \in 1 .. 1 : First(FreeIDs, n) \in FreeIDs BY <1>1, <1>3, FirstIs
<1>5. First(FreeIDs, 1) \in FreeIDs BY <1>4
<1> QED BY <1>5 DEF FreeIDs

\* New IDs go to the context, if anywhere.
LEMMA NewIDsOwned ==
    ASSUME OneFinalizer, NEW new, new \cap liveIDs = {}, liveIDs' = liveIDs \cup new,
           UNCHANGED <<tagsValues, tagsNoFinalize>>, ctxIDs' = ctxIDs \/ ctxIDs' = ctxIDs \cup new
    PROVE  OneFinalizer'
<1>1. ctxIDs' \subseteq liveIDs' BY DEF OneFinalizer
<1>2. ASSUME NEW t \in TagsVar PROVE IDsIn(tagsValues'[t]) \subseteq liveIDs' \ ctxIDs'
    <2>1. IDsIn(tagsValues[t]) \subseteq liveIDs \ ctxIDs BY DEF OneFinalizer
    <2> QED BY <2>1
<1> QED BY <1>1, <1>2 DEF OneFinalizer, IDs

LEMMA BinaryIDInv ==
    ASSUME ~SharedBytes, IdentInv, NEW b, NEW fromPool \in BOOLEAN, NEW ctx \in BOOLEAN, BinaryID(b, fromPool, ctx)
    PROVE  IdentInv'
<1>0. PICK id : id = First(FreeIDs, 1) OBVIOUS
<1>1. id \in IDs \ liveIDs BY <1>0, FirstFree DEF BinaryID, IdentInv, BytesInv
<1>2. /\ b \in clientBytes /\ clientBytes' = clientBytes \ {b}
      /\ bytesRef' = [bytesRef EXCEPT ![b] = bytesRef[b] + 1]
      /\ idData' = [idData EXCEPT ![id] = b]
      /\ noFinalize' = [noFinalize EXCEPT ![id] = noFinalize[id] /\ fromPool]
      /\ liveIDs' = liveIDs \cup {id} /\ madeOf' = [madeOf EXCEPT ![id] = bytesText[b]]
      /\ ctxIDs' = ctxIDs \/ ctxIDs' = ctxIDs \cup {id}
      /\ UNCHANGED <<bytesText, freeBytes, tagsValues, tagsNoFinalize>>
    BY <1>0 DEF BinaryID
<1>3. b \in BytesObj \ freeBytes BY <1>2 DEF IdentInv, BytesInv, BytesApart
<1>4. IdentTypeOK' BY <1>1, <1>2, <1>3 DEF IdentInv, BytesInv, IdentTypeOK
<1>5. /\ idData'[id] = b /\ madeOf'[id] = bytesText[b] /\ bytesRef'[b] >= 1
      /\ \A j \in liveIDs : /\ idData'[j] = idData[j] /\ madeOf'[j] = madeOf[j] /\ idData[j] # b
                             /\ bytesRef'[idData[j]] = bytesRef[idData[j]]
    <2>1. /\ DOMAIN idData = IDs /\ DOMAIN madeOf = IDs /\ liveIDs \subseteq IDs
          /\ DOMAIN bytesRef = BytesObj /\ bytesRef[b] \in Nat
        BY <1>3 DEF IdentInv, BytesInv, IdentTypeOK
    <2>2. \A j \in liveIDs : idData[j] # b /\ idData[j] \in BytesObj
        BY <1>2 DEF IdentInv, BytesInv, BytesApart, IDsKeepTheirBytes
    <2>3. bytesRef'[b] = bytesRef[b] + 1 BY <1>2, <1>3, <2>1
    <2> QED BY <1>1, <1>2, <2>1, <2>2, <2>3
<1>6. IDsKeepTheirBytes' BY <1>2, <1>3, <1>5 DEF IdentInv, BytesInv, IDsKeepTheirBytes
<1>7. BytesApart' BY <1>1, <1>2, <1>3, <1>5 DEF IdentInv, BytesInv, BytesApart
<1>8. OneFinalizer' BY <1>1, <1>2, NewIDsOwned DEF IdentInv
<1> QED BY <1>4, <1>6, <1>7, <1>8 DEF IdentInv, BytesInv

\* StringID and Clone: one pooled ID.
LEMMA OneMadeInv ==
    ASSUME IdentInv, NEW text, MakeIDs(<<text>>),
           UNCHANGED <<noFinalize, clientBytes, tagsValues, tagsNoFinalize>>,
           ctxIDs' = ctxIDs \/ ctxIDs' = ctxIDs \cup {First(FreeIDs, 1)}
    PROVE  IdentInv'
<1>1. PICK ids, data : /\ ids = [k \in 1 .. 1 |-> First(FreeIDs, k)]
                       /\ data = [k \in 1 .. 1 |-> First(freeBytes, k)]
    OBVIOUS
<1>2. PICK texts : texts = <<text>> OBVIOUS
<1>3. DOMAIN texts = 1 .. 1 /\ Len(texts) = 1 BY <1>2
<1>4. Made(1, ids, data, texts) BY <1>1, <1>2, <1>3, MakeIDsIs DEF IdentInv, BytesInv
<1>5. BytesInv' BY <1>4, MadeKeeps DEF IdentInv
<1>6. PICK new : new = {First(FreeIDs, 1)} OBVIOUS
<1>7. /\ liveIDs' = liveIDs \cup new /\ new \cap liveIDs = {}
    <2>1. ids[1] = First(FreeIDs, 1) /\ 1 .. 1 = {1} BY <1>1
    <2>2. ids[1] \in FreeIDs /\ liveIDs' = liveIDs \cup {ids[k] : k \in 1 .. 1} BY <1>4, <2>1 DEF Made
    <2>3. {ids[k] : k \in 1 .. 1} = {ids[1]} BY <2>1
    <2> QED BY <1>6, <2>1, <2>2, <2>3 DEF FreeIDs
<1>8. OneFinalizer' BY <1>6, <1>7, NewIDsOwned DEF IdentInv
<1> QED BY <1>5, <1>8 DEF IdentInv

LEMMA AppendTagInv ==
    ASSUME IdentInv, NEW t \in TagsVar, NEW name, NEW value, AppendTag(t, name, value)
    PROVE  IdentInv'
<1>1. /\ name \in ClientIDs /\ value \in ClientIDs
      /\ tagsValues' = [tagsValues EXCEPT ![t] = Append(tagsValues[t], <<name, value>>)]
      /\ UNCHANGED <<idData, noFinalize, liveIDs, madeOf, bytesRef, bytesText, freeBytes,
                     clientBytes, ctxIDs, tagsNoFinalize>>
    BY DEF AppendTag
<1>2. BytesInv' BY <1>1 DEF IdentInv, BytesInv, IdentTypeOK, IDsKeepTheirBytes, BytesApart
<1>3. name \in IDs /\ value \in IDs BY <1>1, ClientIDsAre DEF IdentInv, BytesInv, IdentTypeOK
<1>4. PICK ts \in Seq(IDs \X IDs) : ts = tagsValues[t]
    <2>1. tagsValues[t] \in Seq(IDs \X IDs) BY DEF IdentInv, OneFinalizer
    <2> QED BY <2>1
<1>5. PICK new : new = Append(ts, <<name, value>>) OBVIOUS
<1>6. new \in Seq(IDs \X IDs) /\ IDsIn(new) = IDsIn(ts) \cup {name, value}
    <2>1. PICK p \in IDs \X IDs : p = <<name, value>> BY <1>3
    <2>2. /\ new \in Seq(IDs \X IDs) /\ Len(new) = Len(ts) + 1
          /\ \A k \in 1 .. Len(ts) : new[k] = ts[k]
          /\ new[Len(ts) + 1] = p
        BY <1>5, <2>1, AppendProperties
    <2>3. /\ DOMAIN new = 1 .. Len(ts) + 1 /\ DOMAIN ts = 1 .. Len(ts)
          /\ 1 .. Len(ts) + 1 = (1 .. Len(ts)) \cup {Len(ts) + 1}
        BY <2>2
    <2>4. p[1] = name /\ p[2] = value BY <2>1
    <2>5. \A k \in DOMAIN ts : k \in DOMAIN new /\ new[k] = ts[k] BY <2>2, <2>3
    <2>6. \A k \in DOMAIN new : (k \in DOMAIN ts /\ new[k] = ts[k]) \/ new[k] = p BY <2>2, <2>3
    <2>7. \E k \in DOMAIN new : new[k] = p BY <2>2, <2>3
    <2>8. ASSUME NEW x PROVE x \in IDsIn(new) <=> x \in IDsIn(ts) \cup {name, value}
        <3>1. x \in IDsIn(ts) <=> \E k \in DOMAIN ts : x = ts[k][1] \/ x = ts[k][2] BY Zenon DEF IDsIn
        <3>2. x \in IDsIn(new) <=> \E k \in DOMAIN new : x = new[k][1] \/ x = new[k][2] BY Zenon DEF IDsIn
        <3>3. ASSUME x \in IDsIn(new) PROVE x \in IDsIn(ts) \cup {name, value}
            BY <2>4, <2>6, <3>1, <3>2, <3>3
        <3>4. ASSUME x \in IDsIn(ts) \cup {name, value} PROVE x \in IDsIn(new)
            BY <2>4, <2>5, <2>7, <3>1, <3>2, <3>4
        <3> QED BY <3>3, <3>4
    <2> QED BY <2>2, <2>8
<1>7. DOMAIN tagsValues = TagsVar BY DEF IdentInv, OneFinalizer
<1>8. tagsValues'[t] = new /\ \A u \in TagsVar : u # t => tagsValues'[u] = tagsValues[u]
    BY <1>1, <1>4, <1>5, <1>7
<1>9. \A u \in TagsVar : name \notin IDsIn(tagsValues[u]) /\ value \notin IDsIn(tagsValues[u])
    BY <1>1, ClientIDsAre
<1>10. {name, value} \subseteq liveIDs \ ctxIDs BY <1>1, ClientIDsAre
<1>11. DOMAIN tagsValues' = TagsVar /\ \A u \in TagsVar : tagsValues'[u] \in Seq(IDs \X IDs)
    <2>1. DOMAIN tagsValues' = TagsVar BY <1>1, <1>7
    <2>2. \A u \in TagsVar : tagsValues[u] \in Seq(IDs \X IDs) BY DEF IdentInv, OneFinalizer
    <2> QED BY <1>6, <1>8, <2>1, <2>2, Zenon
<1>12. \A u \in TagsVar : IDsIn(tagsValues[u]) \subseteq liveIDs \ ctxIDs BY DEF IdentInv, OneFinalizer
<1>13. ASSUME NEW u \in TagsVar PROVE IDsIn(tagsValues'[u]) \subseteq liveIDs \ ctxIDs
    BY <1>4, <1>6, <1>8, <1>10, <1>12
<1>14. ASSUME NEW u \in TagsVar, NEW w \in TagsVar, u # w
       PROVE  IDsIn(tagsValues'[u]) \cap IDsIn(tagsValues'[w]) = {}
    <2>1. \A x, y \in TagsVar : x # y => IDsIn(tagsValues[x]) \cap IDsIn(tagsValues[y]) = {}
        BY DEF IdentInv, OneFinalizer
    <2>5. ASSUME NEW x \in TagsVar, x # t PROVE IDsIn(new) \cap IDsIn(tagsValues'[x]) = {}
        <3>1. PICK A, B : A = IDsIn(ts) /\ B = IDsIn(tagsValues[x]) OBVIOUS
        <3>2. A \cap B = {} BY <1>4, <2>1, <2>5, <3>1, Zenon
        <3>3. name \notin B /\ value \notin B BY <1>9, <3>1, Zenon
        <3>4. (A \cup {name, value}) \cap B = {} BY <3>2, <3>3
        <3>5. IDsIn(new) = A \cup {name, value} /\ IDsIn(tagsValues'[x]) = B
            BY <1>6, <1>8, <2>5, <3>1, Zenon
        <3> QED BY <3>4, <3>5, Zenon
    <2>2. CASE u = t
        <3>1. IDsIn(new) \cap IDsIn(tagsValues'[w]) = {} BY <1>14, <2>2, <2>5, Zenon
        <3> QED BY <1>8, <2>2, <3>1, Zenon
    <2>3. CASE w = t
        <3>1. IDsIn(new) \cap IDsIn(tagsValues'[u]) = {} BY <1>14, <2>3, <2>5, Zenon
        <3> QED BY <1>8, <2>3, <3>1
    <2>4. CASE u # t /\ w # t BY <1>8, <1>14, <2>1, <2>4
    <2> QED BY <2>2, <2>3, <2>4
<1>15. OneFinalizer'
    <2>1. ctxIDs \subseteq liveIDs /\ DOMAIN tagsNoFinalize = TagsVar BY DEF IdentInv, OneFinalizer
    <2> QED BY <1>1, <1>11, <1>13, <1>14, <2>1 DEF OneFinalizer, IDs
<1> QED BY <1>2, <1>15 DEF IdentInv

LEMMA CloneTagsInv ==
    ASSUME IdentInv, NEW t \in TagsVar, NEW u \in TagsVar, CloneTags(t, u)
    PROVE  IdentInv'
<1>1. PICK ts \in Seq(IDs \X IDs) : ts = tagsValues[t]
    <2>1. tagsValues[t] \in Seq(IDs \X IDs) BY DEF IdentInv, OneFinalizer
    <2> QED BY <2>1
<1>2. PICK L \in Nat, N \in Nat : L = Len(ts) /\ N = 2 * Len(ts) OBVIOUS
<1>3. PICK texts : /\ MakeIDs(texts)
                   /\ texts = [k \in 1 .. N |-> bytesText[idData[tagsValues[t][(k + 1) \div 2][2 - (k % 2)]]]]
    <2> DEFINE flat == [k \in 1 .. N |-> tagsValues[t][(k + 1) \div 2][2 - (k % 2)]]
               texts == [k \in DOMAIN flat |-> bytesText[idData[flat[k]]]]
    <2>1. MakeIDs(texts) BY <1>1, <1>2 DEF CloneTags
    <2>2. texts = [k \in 1 .. N |-> bytesText[idData[tagsValues[t][(k + 1) \div 2][2 - (k % 2)]]]]
        OBVIOUS
    <2> HIDE DEF texts, flat
    <2> QED BY <2>1, <2>2
<1>4. DOMAIN texts = 1 .. N /\ Len(texts) = N BY <1>3
<1>5. PICK ids, data : /\ ids = [k \in 1 .. N |-> First(FreeIDs, k)]
                       /\ data = [k \in 1 .. N |-> First(freeBytes, k)]
    OBVIOUS
<1>6. Made(N, ids, data, texts) BY <1>3, <1>4, <1>5, MakeIDsIs DEF IdentInv, BytesInv
<1>7. PICK new : new = [k \in 1 .. L |-> <<First(FreeIDs, 2 * k - 1), First(FreeIDs, 2 * k)>>] OBVIOUS
<1>8. /\ tagsValues' = [tagsValues EXCEPT ![u] = new] /\ tagsValues[u] = <<>>
      /\ UNCHANGED <<noFinalize, clientBytes, ctxIDs, tagsNoFinalize>>
    <2>1. DOMAIN tagsValues[t] = 1 .. L BY <1>1, <1>2
    <2> QED BY <1>7, <2>1 DEF CloneTags
<1>9. BytesInv' BY <1>6, <1>8, MadeKeeps DEF IdentInv
<1>10. /\ \A k \in 1 .. N : ids[k] \in IDs \ liveIDs /\ ids[k] \in liveIDs'
       /\ liveIDs \subseteq liveIDs'
    BY <1>6 DEF Made, FreeIDs
<1>11. ASSUME NEW k \in 1 .. L
       PROVE  /\ new[k] = <<First(FreeIDs, 2 * k - 1), First(FreeIDs, 2 * k)>>
              /\ First(FreeIDs, 2 * k - 1) \in IDs \ liveIDs /\ First(FreeIDs, 2 * k - 1) \in liveIDs'
              /\ First(FreeIDs, 2 * k) \in IDs \ liveIDs /\ First(FreeIDs, 2 * k) \in liveIDs'
    <2>1. 2 * k - 1 \in 1 .. N /\ 2 * k \in 1 .. N BY <1>2
    <2>2. ids[2 * k - 1] = First(FreeIDs, 2 * k - 1) /\ ids[2 * k] = First(FreeIDs, 2 * k) BY <1>5, <2>1
    <2>3. new[k] = <<First(FreeIDs, 2 * k - 1), First(FreeIDs, 2 * k)>> BY <1>7
    <2> QED BY <1>10, <2>1, <2>2, <2>3
<1>12. new \in Seq(IDs \X IDs) /\ DOMAIN new = 1 .. L
    <2>1. PICK T : T = IDs \X IDs OBVIOUS
    <2>2. ASSUME NEW k \in 1 .. L PROVE new[k] \in T
        <3>1. PICK a \in IDs, b \in IDs : new[k] = <<a, b>> BY <1>11
        <3> QED BY <2>1, <3>1
    <2>3. new = [k \in 1 .. L |-> new[k]] BY <1>7
    <2>4. new \in Seq(T) BY <2>2, <2>3
    <2> QED BY <1>7, <2>1, <2>4
<1>13. \A x \in IDsIn(new) : x \in liveIDs' /\ x \notin liveIDs
    <2>1. \A k \in 1 .. L : /\ new[k][1] \in liveIDs' /\ new[k][1] \notin liveIDs
                            /\ new[k][2] \in liveIDs' /\ new[k][2] \notin liveIDs
        BY <1>11
    <2> QED BY <1>12, <2>1, Zenon DEF IDsIn
<1>14. DOMAIN tagsValues = TagsVar BY DEF IdentInv, OneFinalizer
<1>15. /\ DOMAIN tagsValues' = TagsVar /\ tagsValues'[u] = new
       /\ \A w \in TagsVar : w # u => tagsValues'[w] = tagsValues[w]
    BY <1>8, <1>14
<1>16. /\ ctxIDs \subseteq liveIDs /\ DOMAIN tagsNoFinalize = TagsVar
       /\ \A w \in TagsVar : tagsValues[w] \in Seq(IDs \X IDs)
       /\ \A w \in TagsVar : IDsIn(tagsValues[w]) \subseteq liveIDs \ ctxIDs
       /\ \A w, x \in TagsVar : w # x => IDsIn(tagsValues[w]) \cap IDsIn(tagsValues[x]) = {}
    BY DEF IdentInv, OneFinalizer
<1>17. \A w \in TagsVar : tagsValues'[w] \in Seq(IDs \X IDs) BY <1>12, <1>15, <1>16, Zenon
<1>18. ASSUME NEW w \in TagsVar PROVE IDsIn(tagsValues'[w]) \subseteq liveIDs' \ ctxIDs
    <2>1. CASE w = u BY <1>13, <1>15, <1>16, <2>1
    <2>2. CASE w # u BY <1>10, <1>15, <1>16, <2>2
    <2> QED BY <2>1, <2>2
<1>19. ASSUME NEW w \in TagsVar, NEW x \in TagsVar, w # x
       PROVE  IDsIn(tagsValues'[w]) \cap IDsIn(tagsValues'[x]) = {}
    <2>1. CASE w = u BY <1>13, <1>15, <1>16, <1>19, <2>1
    <2>2. CASE x = u BY <1>13, <1>15, <1>16, <1>19, <2>2
    <2>3. CASE w # u /\ x # u BY <1>15, <1>16, <1>19, <2>3
    <2> QED BY <2>1, <2>2, <2>3
<1>20. OneFinalizer'
    <2>1. ctxIDs' \subseteq liveIDs' BY <1>8, <1>10, <1>16
    <2> QED BY <1>8, <1>15, <1>16, <1>17, <1>18, <1>19, <2>1 DEF OneFinalizer, IDs
<1> QED BY <1>9, <1>20 DEF IdentInv

\* What an ID's one finalizer does to it concerns no other.
LEMMA FinalizingInv ==
    ASSUME IdentInv, CloseContext \/ (\E id \in IDs : FinalizeID(id)) \/ \E t \in TagsVar : TagsFinalize(t)
    PROVE  IdentInv'
<1>0. /\ ctxIDs \subseteq liveIDs /\ DOMAIN tagsNoFinalize = TagsVar /\ DOMAIN tagsValues = TagsVar
      /\ \A w \in TagsVar : tagsValues[w] \in Seq(IDs \X IDs)
      /\ \A w \in TagsVar : IDsIn(tagsValues[w]) \subseteq liveIDs \ ctxIDs
      /\ \A w, x \in TagsVar : w # x => IDsIn(tagsValues[w]) \cap IDsIn(tagsValues[x]) = {}
    BY DEF IdentInv, OneFinalizer
<1>1. ASSUME CloseContext PROVE IdentInv'
    <2>1. /\ FinalizeIDs(ctxIDs) /\ ctxIDs' = {}
          /\ UNCHANGED <<noFinalize, clientBytes, tagsValues, tagsNoFinalize>>
        BY <1>1 DEF CloseContext
    <2>2. BytesInv' /\ liveIDs' = liveIDs \ {i \in ctxIDs : ~noFinalize[i]}
        BY <1>0, <2>1, FinalizeKeeps DEF IdentInv
    <2>3. ASSUME NEW w \in TagsVar PROVE IDsIn(tagsValues'[w]) \subseteq liveIDs' \ ctxIDs'
        BY <1>0, <2>1, <2>2
    <2>4. OneFinalizer' BY <1>0, <2>1, <2>3 DEF OneFinalizer, IDs
    <2> QED BY <2>2, <2>4 DEF IdentInv
<1>2. ASSUME NEW id \in IDs, FinalizeID(id) PROVE IdentInv'
    <2>1. /\ id \in ClientIDs /\ FinalizeIDs({id})
          /\ UNCHANGED <<noFinalize, clientBytes, ctxIDs, tagsValues, tagsNoFinalize>>
        BY <1>2 DEF FinalizeID
    <2>2. {id} \subseteq liveIDs BY <2>1, ClientIDsAre
    <2>3. BytesInv' /\ liveIDs' = liveIDs \ {i \in {id} : ~noFinalize[i]}
        BY <2>1, <2>2, FinalizeKeeps DEF IdentInv
    <2>4. \A d \in liveIDs : d \in liveIDs' \/ d \in ClientIDs BY <2>1, <2>3
    <2>5. OneFinalizer' BY <2>1, <2>4, OthersKeepIDs DEF IdentInv
    <2> QED BY <2>3, <2>5 DEF IdentInv
<1>3. ASSUME NEW t \in TagsVar, TagsFinalize(t) PROVE IdentInv'
    <2>1. /\ FinalizeIDs(IDsIn(tagsValues[t])) /\ tagsValues' = [tagsValues EXCEPT ![t] = <<>>]
          /\ UNCHANGED <<noFinalize, clientBytes, ctxIDs, tagsNoFinalize>>
        <3>1. TagIDs(t) = IDsIn(tagsValues[t]) BY DEF TagIDs, IDsIn
        <3> QED BY <1>3, <3>1 DEF TagsFinalize
    <2>2. IDsIn(tagsValues[t]) \subseteq liveIDs BY <1>0
    <2>3. BytesInv' /\ liveIDs' = liveIDs \ {i \in IDsIn(tagsValues[t]) : ~noFinalize[i]}
        BY <2>1, <2>2, FinalizeKeeps DEF IdentInv
    <2>4. /\ DOMAIN tagsValues' = TagsVar /\ tagsValues'[t] = <<>>
          /\ \A w \in TagsVar : w # t => tagsValues'[w] = tagsValues[w]
        BY <1>0, <2>1
    <2>5. IDsIn(<<>>) = {} /\ <<>> \in Seq(IDs \X IDs) BY DEF IDsIn
    <2>6. \A w \in TagsVar : tagsValues'[w] \in Seq(IDs \X IDs) BY <1>0, <2>4, <2>5, Zenon
    <2>7. ctxIDs \subseteq liveIDs' BY <1>0, <2>3
    <2>8. ASSUME NEW w \in TagsVar PROVE IDsIn(tagsValues'[w]) \subseteq liveIDs' \ ctxIDs
        <3>1. CASE w = t BY <2>4, <2>5, <3>1
        <3>2. CASE w # t
            <4>1. IDsIn(tagsValues[w]) \cap IDsIn(tagsValues[t]) = {} BY <1>0, <3>2
            <4> QED BY <1>0, <2>3, <2>4, <3>2, <4>1
        <3> QED BY <3>1, <3>2
    <2>9. \A w, x \in TagsVar : w # x => IDsIn(tagsValues'[w]) \cap IDsIn(tagsValues'[x]) = {}
        BY <1>0, <2>4, <2>5
    <2>10. OneFinalizer' BY <1>0, <2>1, <2>4, <2>6, <2>7, <2>8, <2>9 DEF OneFinalizer, IDs
    <2> QED BY <2>3, <2>10 DEF IdentInv
<1> QED BY <1>1, <1>2, <1>3

LEMMA MarkingInv ==
    ASSUME IdentInv,
           (\E id \in IDs : PutID(id) \/ NoFinalizeID(id)) \/ \E t \in TagsVar : TagsNoFinalize(t)
    PROVE  IdentInv'
<1>1. ASSUME NEW id \in IDs, PutID(id) PROVE IdentInv'
    <2>1. /\ id \in ClientIDs /\ liveIDs' = liveIDs \ {id}
          /\ UNCHANGED <<idData, noFinalize, madeOf, bytesRef, bytesText, freeBytes,
                         clientBytes, ctxIDs, tagsValues, tagsNoFinalize>>
        BY <1>1 DEF PutID
    <2>2. BytesInv' BY <2>1 DEF IdentInv, BytesInv, IdentTypeOK, IDsKeepTheirBytes, BytesApart
    <2>3. OneFinalizer' BY <2>1, OthersKeepIDs DEF IdentInv
    <2> QED BY <2>2, <2>3 DEF IdentInv
<1>2. ASSUME NEW id \in IDs, NoFinalizeID(id) PROVE IdentInv'
    <2>1. /\ noFinalize' = [noFinalize EXCEPT ![id] = TRUE]
          /\ UNCHANGED <<idData, liveIDs, madeOf, bytesRef, bytesText, freeBytes,
                         clientBytes, ctxIDs, tagsValues, tagsNoFinalize>>
        BY <1>2 DEF NoFinalizeID
    <2>2. BytesInv' BY <2>1 DEF IdentInv, BytesInv, IdentTypeOK, IDsKeepTheirBytes, BytesApart
    <2>3. OneFinalizer' BY <2>1, OthersKeepIDs DEF IdentInv
    <2> QED BY <2>2, <2>3 DEF IdentInv
<1>3. ASSUME NEW t \in TagsVar, TagsNoFinalize(t) PROVE IdentInv'
    <2>1. /\ tagsNoFinalize' = [tagsNoFinalize EXCEPT ![t] = TRUE]
          /\ noFinalize' = [i \in IDs |-> noFinalize[i] \/ i \in TagIDs(t)]
          /\ UNCHANGED <<idData, liveIDs, madeOf, bytesRef, bytesText, freeBytes,
                         clientBytes, ctxIDs, tagsValues>>
        BY <1>3 DEF TagsNoFinalize
    <2>2. noFinalize' \in [IDs -> BOOLEAN] BY <2>1
    <2>3. BytesInv' BY <2>1, <2>2 DEF IdentInv, BytesInv, IdentTypeOK, IDsKeepTheirBytes, BytesApart
    <2>4. DOMAIN tagsNoFinalize' = TagsVar BY <2>1 DEF IdentInv, OneFinalizer
    <2>5. OneFinalizer' BY <2>1, <2>4 DEF IdentInv, OneFinalizer
    <2> QED BY <2>3, <2>5 DEF IdentInv
<1> QED BY <1>1, <1>2, <1>3

LEMMA IdentStep == ASSUME ~SharedBytes, IdentInv, [IdentNext]_identVars PROVE IdentInv'
<1>1. CASE UNCHANGED identVars
    BY <1>1 DEF identVars, IdentInv, BytesInv, IdentTypeOK, IDsKeepTheirBytes, BytesApart, OneFinalizer
<1>2. ASSUME NEW text, NEW ctx, StringID(text, ctx) PROVE IdentInv'
    BY <1>2, OneMadeInv DEF StringID
<1>3. ASSUME NEW id, Clone(id) PROVE IdentInv' BY <1>3, OneMadeInv DEF Clone
<1> QED
    BY <1>1, <1>2, <1>3, GetBytesInv, BinaryIDInv, AppendTagInv, CloneTagsInv, FinalizingInv, MarkingInv, Zenon
    DEF IdentNext

\* While the client makes no two IDs of the same bytes, an ID that was not
\* finalized reads the text it was made of, from bytes that are its own, for
\* any number of IDs, bytes, tags and texts, and whichever of the context,
\* the tags and the client finalizes the others.
THEOREM IDsReadTheirText == ~SharedBytes /\ IdentSpec => []IDsKeepTheirBytes
<1> SUFFICES ASSUME ~SharedBytes PROVE IdentSpec => []IDsKeepTheirBytes
    OBVIOUS
<1>1. IdentInv /\ [IdentNext]_identVars => IdentInv' BY IdentStep
<1>2. IdentInv => IDsKeepTheirBytes BY DEF IdentInv, BytesInv
<1> QED BY IdentInitInv, <1>1, <1>2, PTL DEF IdentSpec

=============================================================================
