----------------------------- MODULE MultiError -----------------------------
(***************************************************************************)
(* The MultiError of errors/errors.go: a value with the last error and a   *)
(* slice of the earlier ones.  The slices live in arrays that values may   *)
(* share, since assignment copies the slice and not what it points to.     *)
(*                                                                         *)
(* The n-th error added through variable v is <<v, n>>.                    *)
(***************************************************************************)
EXTENDS Integers, Sequences

CONSTANTS
    MultiErrorVar,  \* program variables of type MultiError
    Live,           \* the variables errors are added to
    MaxErrors,      \* bound on the errors of a value
    NoErr           \* nil

ASSUME MultiErrorAssumption ==
    /\ Live \subseteq MultiErrorVar /\ MaxErrors \in Nat
    /\ NoErr \notin MultiErrorVar \X Nat

VARIABLES
    arrays,  \* the backing arrays, as the sequences of their cells
    multi,   \* the values: err, and the array and the length of errors
    added    \* history: the errors added to the value
multiErrorVars == <<arrays, multi, added>>

NewMultiError == [err |-> NoErr, array |-> 0, len |-> 0]

MultiErrorInit ==
    /\ arrays = <<>>
    /\ multi = [v \in MultiErrorVar |-> NewMultiError]
    /\ added = [v \in MultiErrorVar |-> <<>>]

Cap(m) == IF m.array = 0 THEN 0 ELSE Len(arrays[m.array])

Cells(m) == IF m.array = 0 THEN <<>> ELSE SubSeq(arrays[m.array], 1, m.len)

\* append(m.errors, m.err): into the array while it has room, else into a new
\* one of twice the size.
Appended(m) ==
    IF m.len < Cap(m)
    THEN [arrays |-> [arrays EXCEPT ![m.array][m.len + 1] = m.err], array |-> m.array]
    ELSE [arrays |-> Append(arrays, Cells(m) \o <<m.err>> \o [n \in 1 .. m.len - 1 |-> NoErr]),
          array  |-> Len(arrays) + 1]

\* Faulty variant: the errors before the last stay where they are.
Add_Overwrites(v) ==
    LET m == multi[v]
        e == <<v, Len(added[v]) + 1>>
    IN /\ v \in Live /\ Len(added[v]) < MaxErrors
       /\ IF m.err = NoErr \/ m.len = Cap(m)
          THEN arrays' = Append(arrays, Cells(m) \o <<m.err>>) /\ multi' = [multi EXCEPT ![v] = [err |-> e, array |-> Len(arrays) + 1, len |-> m.len + 1]]
          ELSE arrays' = arrays /\ multi' = [multi EXCEPT ![v].err = e]
       /\ added' = [added EXCEPT ![v] = Append(@, e)]

\* v = v.Add(err)
Add(v) ==
    LET m == multi[v]
        e == <<v, Len(added[v]) + 1>>
        a == Appended(m)
    IN /\ v \in Live /\ Len(added[v]) < MaxErrors
       /\ IF m.err = NoErr
          THEN multi' = [multi EXCEPT ![v].err = e] /\ UNCHANGED arrays
          ELSE /\ arrays' = a.arrays
               /\ multi' = [multi EXCEPT ![v] = [err |-> e, array |-> a.array, len |-> m.len + 1]]
       /\ added' = [added EXCEPT ![v] = Append(@, e)]

\* w = v, or w = v.FinalError(), or w = v.Add(nil)
Copy(v, w) ==
    /\ v \in Live
    /\ multi' = [multi EXCEPT ![w] = multi[v]]
    /\ added' = [added EXCEPT ![w] = added[v]]
    /\ UNCHANGED arrays

MultiErrorNext == \E v, w \in MultiErrorVar : Add(v) \/ Copy(v, w)

MultiErrorSpec == MultiErrorInit /\ [][MultiErrorNext]_multiErrorVars

-----------------------------------------------------------------------------

Empty(m) == m.err = NoErr
NumErrors(m) == IF m.err = NoErr THEN 0 ELSE m.len + 1

\* The errors Error() prints, in order.
Listed(m) == IF m.err = NoErr THEN <<>> ELSE Append(Cells(m), m.err)

\* A MultiError keeps the errors that were added to it, in order, whatever is
\* added to the values it was copied from or to: "MultiError is an immutable
\* error".
MultiErrorImmutable ==
    \A v \in MultiErrorVar :
        /\ Listed(multi[v]) = added[v]
        /\ NumErrors(multi[v]) = Len(added[v]) /\ (Empty(multi[v]) <=> added[v] = <<>>)

=============================================================================
