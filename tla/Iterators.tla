----------------------------- MODULE Iterators -----------------------------
(***************************************************************************)
(* Iterators over identifiers and tags (ident/iterator.go,                 *)
(* ident/tag_iterator.go): over a slice of IDs, of strings or of tags, the *)
(* last with a pool of iterators or without, and over nothing; the matcher *)
(* of ident/tag_iterator_matcher.go.  An element is a model value; indices *)
(* are zero-based as in the code.                                          *)
(***************************************************************************)
EXTENDS Integers, Sequences

CONSTANTS
    IterObj,       \* the iterator objects
    Tag,
    NoTag,      \* nil, Tag{}
    MaxTags     \* bound on the length of a slice
ASSUME IteratorsAssumption == NoTag \notin Tag /\ MaxTags \in Nat

VARIABLES
    iterPooled, \* the iterators have a pool
    iter,       \* iter[k]: backingSlice, currentIdx and current element
    iterFree,   \* iterators not in use: in the pool, or never made
    returned       \* returned[k]: the elements Next has returned since the Reset,
                \* of k or of what k is a duplicate of
iteratorsVars == <<iterPooled, iter, iterFree, returned>>

ResetIter(tags) == [backingSlice |-> tags, currentIdx |-> -1, current |-> NoTag]

IteratorsInit ==
    /\ iterPooled \in BOOLEAN
    /\ iter = [k \in IterObj |-> ResetIter(<<>>)]
    /\ iterFree = IterObj
    /\ returned = [k \in IterObj |-> <<>>]

LenIter(it) == Len(it.backingSlice)
HasNext(it) == it.currentIdx + 1 < LenIter(it)
NextIter(it) ==
    [it EXCEPT !.currentIdx = @ + 1,
               !.current = IF HasNext(it) THEN it.backingSlice[it.currentIdx + 2] ELSE NoTag]
Current(it) == it.current
CurrentIndex(it) == IF it.currentIdx >= 0 THEN it.currentIdx ELSE 0
Remaining(it) == LET r == LenIter(it) - 1 - it.currentIdx IN IF r >= 0 THEN r ELSE 0
ClosedIter == [backingSlice |-> <<>>, currentIdx |-> 0, current |-> NoTag]

\* n times Next, n at most the bound on currentIdx.
NextN(it, n) == LET f[k \in 0 .. n] == IF k = 0 THEN it ELSE NextIter(f[k - 1]) IN f[n]

\* Faulty variant: the pooled duplicate is one element behind.
DuplicateOf_Behind(it) ==
    IF iterPooled /\ it.currentIdx >= 0 THEN NextN(ResetIter(it.backingSlice), it.currentIdx) ELSE it

\* A pooled iterator is reset to the slice and moved on, another is copied.
DuplicateOf(it) ==
    IF iterPooled THEN NextN(ResetIter(it.backingSlice), it.currentIdx + 1) ELSE it

\* tagIterMatcher.Matches: duplicates of both, side by side to the end.
Matches(exp, obs) ==
    LET f[n \in 0 .. MaxTags + 1] ==
            LET e == NextN(DuplicateOf(exp), n)
                o == NextN(DuplicateOf(obs), n)
            IN IF ~HasNext(e) THEN ~HasNext(o)
               ELSE HasNext(o) /\ NextIter(e).current = NextIter(o).current /\ f[n + 1]
    IN f[0]

\* NewTagsIterator, of an iterator without a pool.
New(k, tags) ==
    /\ k \in iterFree /\ ~iterPooled
    /\ iter' = [iter EXCEPT ![k] = ResetIter(tags)]
    /\ returned' = [returned EXCEPT ![k] = <<>>]
    /\ iterFree' = iterFree \ {k}
    /\ UNCHANGED iterPooled

\* TagsIterator, GetTagsIterator: a pooled iterator as PutTagsIterator left it.
TagsIterator(k) ==
    /\ k \in iterFree /\ iterPooled
    /\ iterFree' = iterFree \ {k}
    /\ UNCHANGED <<iterPooled, iter, returned>>

Next_(k) ==
    /\ k \notin iterFree /\ iter[k].currentIdx <= LenIter(iter[k])
    /\ iter' = [iter EXCEPT ![k] = NextIter(@)]
    /\ returned' = IF HasNext(iter[k]) THEN [returned EXCEPT ![k] = Append(@, NextIter(iter[k]).current)] ELSE returned
    /\ UNCHANGED <<iterPooled, iterFree>>

Duplicate(k, d) ==
    /\ k \notin iterFree /\ d \in iterFree
    /\ iter' = [iter EXCEPT ![d] = DuplicateOf(iter[k])]
    /\ returned' = [returned EXCEPT ![d] = returned[k]]
    /\ iterFree' = iterFree \ {d}
    /\ UNCHANGED iterPooled

\* The tag iterator is reused; what it iterates over is not touched.
Reset(k, tags) ==
    /\ k \notin iterFree
    /\ iter' = [iter EXCEPT ![k] = ResetIter(tags)]
    /\ returned' = [returned EXCEPT ![k] = <<>>]
    /\ UNCHANGED <<iterPooled, iterFree>>

\* Close, then PutTagsIterator, which resets, of a pooled iterator.
CloseIter(k) ==
    /\ k \notin iterFree
    /\ iter' = [iter EXCEPT ![k] = IF iterPooled THEN ResetIter(<<>>) ELSE ClosedIter]
    /\ returned' = [returned EXCEPT ![k] = <<>>]
    /\ iterFree' = iterFree \cup {k}
    /\ UNCHANGED iterPooled

TagSlices == UNION {[1 .. n -> Tag] : n \in 0 .. MaxTags}

IteratorsNext ==
    \E k \in IterObj :
        \/ \E tags \in TagSlices : New(k, tags) \/ Reset(k, tags)
        \/ TagsIterator(k) \/ Next_(k) \/ CloseIter(k)
        \/ \E d \in IterObj : Duplicate(k, d)

IteratorsSpec == IteratorsInit /\ [][IteratorsNext]_iteratorsVars

-----------------------------------------------------------------------------
(* Properties.                                                             *)

\* At every moment an iterator in use has returned a prefix of its slice, its
\* Current, CurrentIndex and Remaining agree with it, and Remaining is the
\* number of times Next will still succeed, whether it was made, reset, taken
\* from the pool or duplicated halfway or at the end; two iterators match just
\* when they have the same elements left.
IteratorsComplete ==
    LET rest(k) == SubSeq(iter[k].backingSlice, Len(returned[k]) + 1, LenIter(iter[k])) IN
    \A k \in IterObj \ iterFree :
        /\ returned[k] \o rest(k) = iter[k].backingSlice
        /\ Remaining(iter[k]) = Len(rest(k))
        /\ Current(iter[k]) # NoTag => /\ Current(iter[k]) = returned[k][Len(returned[k])]
                                       /\ CurrentIndex(iter[k]) = Len(returned[k]) - 1
        /\ Current(iter[k]) = NoTag => returned[k] = <<>> \/ rest(k) = <<>>
        /\ \A d \in IterObj \ iterFree : Matches(iter[k], iter[d]) <=> rest(k) = rest(d)

=============================================================================
