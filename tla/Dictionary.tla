------------------------------ MODULE Dictionary ------------------------------
(***************************************************************************)
(* What the comments of generics/hashmap/map.go promise: a dictionary.     *)
(* dict[k] is the value of the identifier k, NoVal when it has none.       *)
(***************************************************************************)
CONSTANTS Key, Val, NoVal

VARIABLE dict

Init == dict = [k \in Key |-> NoVal]

Set(k, v) == dict' = [dict EXCEPT ![k] = v]

Delete(k) == dict' = [dict EXCEPT ![k] = NoVal]

Clear == dict' = [k \in Key |-> NoVal]

Next ==
    \/ \E k \in Key, v \in Val : Set(k, v)
    \/ \E k \in Key : Delete(k)
    \/ Clear

Spec == Init /\ [][Next]_dict

=============================================================================
