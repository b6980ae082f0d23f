------------------------------- MODULE Errors -------------------------------
(***************************************************************************)
(* The typed errors of errors/errors.go.  An error is the sequence of its  *)
(* layers from the outermost in; nil is the empty sequence.  A layer is    *)
(* "leaf" (any error that contains no other), "renamed" (NewRenamedError,  *)
(* Wrap, Wrapf), "invalidParams", "retryable" or "nonRetryable".           *)
(***************************************************************************)
EXTENDS Integers, Sequences

Layer == {"renamed", "invalidParams", "retryable", "nonRetryable"}

\* NewRetryableError, NewRenamedError, ...
NewError(layer, inner) == <<layer>> \o inner

\* A leaf contains nothing.
InnerError(err) == IF err[1] = "leaf" THEN <<>> ELSE Tail(err)

\* GetInnerRetryableError, ...: what the first layer of that kind contains.
GetInner(layer, err) ==
    LET inner[i \in 1 .. Len(err) + 1] ==
            IF i > Len(err) THEN <<>>
            ELSE IF err[i] = layer THEN InnerError(SubSeq(err, i, Len(err)))
            ELSE inner[i + 1]
    IN inner[1]

IsInvalidParams(err) == GetInner("invalidParams", err) # <<>>
IsRetryableError(err) == GetInner("retryable", err) # <<>>
IsNonRetryableError(err) == GetInner("nonRetryable", err) # <<>>

\* The first of a sequence of errors that is not nil.
FirstError(errs) ==
    LET some == SelectSeq(errs, LAMBDA e : e # <<>>) IN IF some = <<>> THEN <<>> ELSE some[1]

=============================================================================
