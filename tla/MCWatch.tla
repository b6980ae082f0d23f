------------------------------- MODULE MCWatch -------------------------------
(***************************************************************************)
(* A watchable with several watchers, a Source that a Value follows, and a *)
(* hash map, which has nothing to do with either: a behaviour is of one of *)
(* the three, picked at the start.                                         *)
(***************************************************************************)
EXTENDS Value, HashMap, TLC

VARIABLE system

\* Every hash function is one of these up to the names of the keys, which are
\* numbers here.
MCHashFns == {f \in [Key -> Hash] : \A k, l \in Key : k < l => f[k] <= f[l]}

watchVars == <<system, vars, hashMapVars>>

InValue == system = "value" /\ UNCHANGED <<system, hashMapVars>>

WatchInit ==
    /\ system \in {"watchable", "value", "map"}
    /\ Init /\ HashMapInit
    /\ system # "map" => \A k \in Key : hash[k] = 0

WatchNext ==
    \/ system = "watchable" /\ WatchableNext /\ UNCHANGED <<system, sourceVars, valueVars, hashMapVars>>
    \/ InValue /\ Next
    \/ system = "map" /\ HashMapNext /\ UNCHANGED <<system, vars>>

\* Goroutines and calls under way go on (Poll returns, the timeout passes);
\* nobody has to call Watch, Unwatch or Close.
WatchSpec ==
    /\ WatchInit /\ [][WatchNext]_watchVars
    /\ WF_watchVars(InValue /\ ~panicked /\ Source)
    /\ WF_watchVars(InValue /\ ~panicked /\ WatchCall)
    /\ \A c \in Chan : WF_watchVars(InValue /\ ~panicked /\ watchUpdates(c))

=============================================================================
