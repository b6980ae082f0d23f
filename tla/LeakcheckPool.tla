---------------------------- MODULE LeakcheckPool ----------------------------
(***************************************************************************)
(* generics/leakcheckpool/pool.go: a pool that keeps a list of what was    *)
(* taken from it and not put back.  Every operation holds the mutex.       *)
(***************************************************************************)
EXTENDS Integers, Sequences, FiniteSets

CONSTANTS
    Elem,        \* elements, as pairs of a value and a number: EqualsFn compares values
    MaxGets,     \* bound on the Gets
    DisallowUntrackedPuts

ASSUME LeakcheckAssumption == MaxGets \in Nat /\ DisallowUntrackedPuts \in BOOLEAN

VARIABLES
    NumGets, NumPuts, PendingItems,
    outstanding,  \* elements the clients have
    tracked,      \* history: every Put was of an element that was outstanding
    putPanicked
leakcheckVars == <<NumGets, NumPuts, PendingItems, outstanding, tracked, putPanicked>>

EqualsFn(a, b) == a[1] = b[1]

LeakcheckInit ==
    /\ NumGets = 0 /\ NumPuts = 0 /\ PendingItems = <<>>
    /\ outstanding = {} /\ tracked = TRUE /\ putPanicked = FALSE

\* The backing pool returns any element nobody has.
LeakcheckGet(e) ==
    /\ ~putPanicked /\ NumGets < MaxGets /\ e \notin outstanding
    /\ NumGets' = NumGets + 1
    /\ PendingItems' = Append(PendingItems, e)
    /\ outstanding' = outstanding \cup {e}
    /\ UNCHANGED <<NumPuts, tracked, putPanicked>>

\* Faulty variant: removes every item that is equal.
RemovePending_All(e) == SelectSeq(PendingItems, LAMBDA f : ~EqualsFn(f, e))

\* The first item that is equal is removed, if there is one.
RemovePending(e) ==
    LET equal == {n \in DOMAIN PendingItems : EqualsFn(PendingItems[n], e)}
        first == CHOOSE n \in equal : \A m \in equal : n <= m
    IN IF equal = {} THEN PendingItems
       ELSE SubSeq(PendingItems, 1, first - 1) \o SubSeq(PendingItems, first + 1, Len(PendingItems))

LeakcheckPut(e) ==
    /\ ~putPanicked /\ NumPuts < MaxGets
    /\ IF RemovePending(e) = PendingItems /\ DisallowUntrackedPuts
       THEN putPanicked' = TRUE /\ UNCHANGED <<NumGets, NumPuts, PendingItems, outstanding, tracked>>
       ELSE /\ NumPuts' = NumPuts + 1 /\ PendingItems' = RemovePending(e)
            /\ outstanding' = outstanding \ {e}
            /\ tracked' = (tracked /\ e \in outstanding)
            /\ UNCHANGED <<NumGets, putPanicked>>

LeakcheckNext == \E e \in Elem : LeakcheckGet(e) \/ LeakcheckPut(e)

LeakcheckSpec == LeakcheckInit /\ [][LeakcheckNext]_leakcheckVars

\* Check succeeds.
Check == NumGets = NumPuts /\ PendingItems = <<>>

\* While clients put back what they took, the items pending are those they
\* still have, up to EqualsFn: Check fails for every leak and for nothing
\* else, and no Put panics.
LeaksFound ==
    tracked =>
        /\ \A v \in {e[1] : e \in Elem} :
            Cardinality({n \in DOMAIN PendingItems : PendingItems[n][1] = v})
            = Cardinality({e \in outstanding : e[1] = v})
        /\ Check <=> outstanding = {}

=============================================================================
