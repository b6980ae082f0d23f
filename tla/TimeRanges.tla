----------------------------- MODULE TimeRanges -----------------------------
(***************************************************************************)
(* time/range.go and time/ranges.go: half-open ranges of time, and sorted  *)
(* lists of disjoint ranges.                                               *)
(*                                                                         *)
(* A time is a natural number, a Range its start and end.  A Ranges value  *)
(* is the sequence of its list; every operation works on a clone, so that  *)
(* values can be modelled as such.  The loops over the list are given by   *)
(* the place where they stop.                                              *)
(***************************************************************************)
EXTENDS Integers, Sequences

Lists == INSTANCE SequencesExt

CONSTANTS
    RangesVar,  \* program variables of type Ranges
    Horizon     \* the latest time

ASSUME TimeRangesAssumption == Horizon \in Nat

Time == 0 .. Horizon
Range_ == {r \in [start : Time, end : Time] : r.start <= r.end}

VARIABLE ranges   \* ranges[v]: the list of v
rangesVars == <<ranges>>

RangesTypeOK == ranges \in [RangesVar -> Seq(Range_)]

RangesInit == ranges = [v \in RangesVar |-> <<>>]

-----------------------------------------------------------------------------
(* Range.                                                                  *)

MinTime(s, t) == IF s < t THEN s ELSE t
MaxTime(s, t) == IF s > t THEN s ELSE t

ZeroRange == [start |-> 0, end |-> 0]

IsEmpty(r) == r.start = r.end
Before(r, o) == r.end <= o.start
Contains(r, o) == r.start <= o.start /\ r.end >= o.end
Overlaps(r, o) == r.end > o.start /\ r.start < o.end
Merge(r, o) == [start |-> MinTime(r.start, o.start), end |-> MaxTime(r.end, o.end)]

\* The intersection; the zero range when there is none.
Intersect(r, o) ==
    IF Overlaps(r, o)
    THEN [start |-> IF r.start < o.start THEN o.start ELSE r.start,
          end   |-> IF r.end > o.end THEN o.end ELSE r.end]
    ELSE ZeroRange

Since(r, t) ==
    CASE t < r.start -> r
      [] t > r.end   -> ZeroRange
      [] OTHER       -> [start |-> t, end |-> r.end]

\* What is left of r: up to two ranges.
Subtract(r, o) ==
    LET left     == [start |-> r.start, end |-> o.start]
        right    == [start |-> o.end, end |-> r.end]
        Keep(x)  == IF IsEmpty(x) THEN <<>> ELSE <<x>>
    IN IF ~Overlaps(r, o) THEN <<r>>
       ELSE IF Contains(o, r) THEN <<>>
       ELSE IF Contains(r, o) THEN Keep(left) \o Keep(right)
       ELSE IF r.start <= o.start THEN Keep(left)
       ELSE Keep(right)

-----------------------------------------------------------------------------
(* Ranges.                                                                 *)

\* The first i from e on at which P holds, Len(list) + 1 if there is none.
FirstFrom(list, e, P(_)) ==
    CHOOSE i \in e .. Len(list) + 1 :
        /\ i = Len(list) + 1 \/ P(i)
        /\ \A j \in e .. i - 1 : ~P(j)

findFirstNotBefore(list, r) == FirstFrom(list, 1, LAMBDA i : ~Before(list[i], r))

\* Ranges.Overlaps looks at one range only.
RangesOverlaps(list, r) ==
    LET e == findFirstNotBefore(list, r)
    IN ~IsEmpty(r) /\ e <= Len(list) /\ Overlaps(list[e], r)

\* Faulty variant: only the first range that overlaps is merged.
addRangeInPlace_MergeOne(list, r) ==
    IF IsEmpty(r) THEN list ELSE
    LET e == findFirstNotBefore(list, r)
    IN IF e <= Len(list) /\ Overlaps(list[e], r)
       THEN [list EXCEPT ![e] = Merge(r, list[e])]
       ELSE SubSeq(list, 1, e - 1) \o <<r>> \o SubSeq(list, e, Len(list))

\* Ranges that overlap r, as it grows, are merged into it and removed; the
\* result goes before the first that does not.
addRangeInPlace(list, r) ==
    IF IsEmpty(r) THEN list ELSE
    LET e == findFirstNotBefore(list, r)
        merged[i \in e .. Len(list) + 1] == IF i = e THEN r ELSE Merge(merged[i - 1], list[i - 1])
        stop == FirstFrom(list, e, LAMBDA i : ~Overlaps(list[i], merged[i]))
    IN SubSeq(list, 1, e - 1) \o <<merged[stop]>> \o SubSeq(list, stop, Len(list))

\* Each range that overlaps r is replaced by what Subtract leaves of it.
removeRangeInPlace(list, r) ==
    IF IsEmpty(r) THEN list ELSE
    LET e    == findFirstNotBefore(list, r)
        stop == FirstFrom(list, e, LAMBDA i : ~Overlaps(list[i], r))
        left == [i \in 1 .. stop - e |-> Subtract(list[e + i - 1], r)]
    IN SubSeq(list, 1, e - 1) \o Lists!FlattenSeq(left) \o SubSeq(list, stop, Len(list))

\* What a loop over Iter() visits: Next goes from the front to the end, where it
\* answers false (and would start over).
Iter(list) == list

\* The value of v becomes w.AddRange(r), w.RemoveRange(r), ...
AddRange(v, w, r) == ranges' = [ranges EXCEPT ![v] = addRangeInPlace(ranges[w], r)]

RemoveRange(v, w, r) == ranges' = [ranges EXCEPT ![v] = removeRangeInPlace(ranges[w], r)]

\* What list is when those of other have been added, or removed, one by one.
AddedAll(list, other) ==
    LET added[i \in 0 .. Len(other)] == IF i = 0 THEN list ELSE addRangeInPlace(added[i - 1], other[i])
    IN added[Len(other)]

RemovedAll(list, other) ==
    LET left[i \in 0 .. Len(other)] == IF i = 0 THEN list ELSE removeRangeInPlace(left[i - 1], other[i])
    IN left[Len(other)]

\* ... w.AddRanges(x), w.RemoveRanges(x).
AddRanges(v, w, x) == ranges' = [ranges EXCEPT ![v] = AddedAll(ranges[w], Iter(ranges[x]))]

RemoveRanges(v, w, x) == ranges' = [ranges EXCEPT ![v] = RemovedAll(ranges[w], Iter(ranges[x]))]

RangesNext ==
    \E v, w \in RangesVar :
        \/ \E r \in Range_ : AddRange(v, w, r) \/ RemoveRange(v, w, r)
        \/ \E x \in RangesVar : AddRanges(v, w, x) \/ RemoveRanges(v, w, x)

RangesSpec == RangesInit /\ [][RangesNext]_rangesVars

-----------------------------------------------------------------------------
(* Properties.                                                             *)

In(r) == {t \in Time : r.start <= t /\ t < r.end}
InList(list) == UNION {In(list[i]) : i \in DOMAIN list}

\* Every operation on lists is the operation on the sets of instants they
\* stand for: adding is union, removing is difference, and Overlaps, Intersect,
\* Since and Subtract of their ranges answer as those sets do.  This needs the
\* ranges not empty, sorted and disjoint whatever was added and removed: the
\* searches stop at the first range that is not before theirs.
RangesAreSets ==
    \A v \in RangesVar : LET list == ranges[v] IN
        /\ \A i \in DOMAIN list : list[i].start < list[i].end
        /\ \A i \in 1 .. Len(list) - 1 : list[i].end <= list[i + 1].start
        /\ \A r \in Range_ :
            /\ InList(addRangeInPlace(list, r)) = InList(list) \cup In(r)
            /\ InList(removeRangeInPlace(list, r)) = InList(list) \ In(r)
            /\ RangesOverlaps(list, r) <=> InList(list) \cap In(r) # {}
            /\ \A i \in DOMAIN list :
                /\ In(Intersect(list[i], r)) = In(list[i]) \cap In(r)
                /\ In(Since(list[i], r.start)) = {t \in In(list[i]) : t >= r.start}
                /\ InList(Subtract(list[i], r)) = In(list[i]) \ In(r)
        /\ \A x \in RangesVar :
            /\ InList(AddedAll(list, ranges[x])) = InList(list) \cup InList(ranges[x])
            /\ InList(RemovedAll(list, ranges[x])) = InList(list) \ InList(ranges[x])

=============================================================================
