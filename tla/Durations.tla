----------------------------- MODULE Durations -----------------------------
(***************************************************************************)
(* time/duration.go, time/unit.go and the conversions of time/time.go:     *)
(* durations as signed integers of Width bits that wrap, their extended    *)
(* text ("-1d3h"), units and normalized counts.                            *)
(*                                                                         *)
(* A text is its sign and its lexemes: maximal runs of digits (a number)   *)
(* and of other characters (a unit).  The values of the units are scaled   *)
(* to Width by the constants.                                              *)
(***************************************************************************)
EXTENDS Integers, Sequences, FiniteSets

CONSTANTS
    Width,           \* bits of a duration
    unitsToDuration, \* the value of each printed unit
    durationUnits,   \* the value of each unit that is parsed
    Number,          \* numbers that occur in texts
    BadUnit          \* a unit no table has

ASSUME DurationsAssumption ==
    /\ Width \in Nat \ {0}
    \* arithmetic that TLC evaluates and a proof takes from here
    /\ 2 ^ (Width - 1) \in Nat \ {0} /\ 2 ^ Width = 2 * 2 ^ (Width - 1)
    /\ IsFiniteSet(DOMAIN unitsToDuration)
    /\ \A u \in DOMAIN unitsToDuration :
        /\ unitsToDuration[u] \in 1 .. 2 ^ (Width - 1) - 1
        /\ u \in DOMAIN durationUnits /\ durationUnits[u] = unitsToDuration[u]
    \* durationsToUnit is the inverse; nanoseconds are what durations count
    /\ \A u, v \in DOMAIN unitsToDuration : unitsToDuration[u] = unitsToDuration[v] => u = v
    /\ "ns" \in DOMAIN unitsToDuration /\ unitsToDuration["ns"] = 1
    /\ "s" \in DOMAIN durationUnits
    /\ \A u \in DOMAIN durationUnits : durationUnits[u] \in Nat
    /\ Number \subseteq Nat

VARIABLE
    dur,     \* a duration of the program
    durErr   \* the last operation that returned it failed
durationsVars == <<dur, durErr>>

Unit == DOMAIN unitsToDuration
MinInt == -(2 ^ (Width - 1))
Int_ == MinInt .. 2 ^ (Width - 1) - 1

Wrap(n) == ((n + 2 ^ (Width - 1)) % (2 ^ Width)) + MinInt
Negate(d) == Wrap(-d)

\* Division of integers truncates.
Quotient(d, u) == IF d < 0 THEN -((-d) \div u) ELSE d \div u

-----------------------------------------------------------------------------
(* Text.                                                                   *)

Lexeme == ({"number"} \X Number) \cup ({"unit"} \X (DOMAIN durationUnits \cup {BadUnit}))

\* Runs are maximal, so numbers and units alternate.
Text ==
    [neg : BOOLEAN,
     lex : {lex \in UNION {[1 .. n -> Lexeme] : n \in 0 .. 4} : \A i \in 1 .. Len(lex) - 1 : lex[i][1] # lex[i + 1][1]}]

\* Faulty variant: the last number and unit count alone.
ParseExtendedDuration_LastWins(text) ==
    LET lex == text.lex
        total == Wrap(lex[Len(lex) - 1][2] * durationUnits[lex[Len(lex)][2]])
    IN IF Len(lex) % 2 = 1 \/ \E i \in DOMAIN lex : (i % 2 = 1) # (lex[i][1] = "number") \/ lex[i] = <<"unit", BadUnit>>
       THEN [d |-> 0, err |-> TRUE]
       ELSE [d |-> IF lex = <<>> THEN 0 ELSE IF text.neg THEN Negate(total) ELSE total, err |-> lex = <<>> /\ ~text.neg]

\* The numbers times their units, added up with wrap-around.
Total(lex) ==
    LET sum[i \in 0 .. Len(lex) \div 2] ==
            IF i = 0 THEN 0 ELSE Wrap(sum[i - 1] + lex[2 * i - 1][2] * durationUnits[lex[2 * i][2]])
    IN sum[Len(lex) \div 2]

\* A number and a known unit, any number of times.
WellFormed(lex) ==
    \A i \in DOMAIN lex : IF i % 2 = 1 THEN lex[i][1] = "number" /\ i < Len(lex) ELSE lex[i][2] \in DOMAIN durationUnits

\* The text without characters is an error, the sign alone is zero.
ParseExtendedDuration(text) ==
    IF ~WellFormed(text.lex) \/ (text.lex = <<>> /\ ~text.neg)
    THEN [d |-> 0, err |-> TRUE]
    ELSE [d |-> IF text.neg THEN Negate(Total(text.lex)) ELSE Total(text.lex), err |-> FALSE]

\* The printed units from the longest to the shortest.
unitsByDurationDesc ==
    CHOOSE s \in [1 .. Cardinality(Unit) -> Unit] :
        \A i, j \in DOMAIN s : i < j => unitsToDuration[s[i]] > unitsToDuration[s[j]]

\* Whole units u are written, if there are any, and the rest goes on.
WriteUnit(b, u) ==
    LET v == unitsToDuration[u] IN
    IF b.rest < v THEN b
    ELSE [rest |-> b.rest % v, lex |-> b.lex \o <<<<"number", b.rest \div v>>, <<"unit", u>>>>]

\* From the longest unit down.
ToExtendedString(d) ==
    LET written[i \in 0 .. Cardinality(Unit)] ==
            IF i = 0 THEN [rest |-> IF d < 0 THEN Negate(d) ELSE d, lex |-> <<>>]
            ELSE WriteUnit(written[i - 1], unitsByDurationDesc[i])
    IN IF d = 0 THEN [neg |-> FALSE, lex |-> <<<<"number", 0>>, <<"unit", "s">>>>]
       ELSE [neg |-> d < 0, lex |-> written[Cardinality(Unit)].lex]

-----------------------------------------------------------------------------
(* Units and normalized counts.                                            *)

UnitOf(d) == {u \in Unit : unitsToDuration[u] = d}

Fits(u, n) == n >= unitsToDuration[u] /\ n % unitsToDuration[u] = 0
LongestFit(n) ==
    CHOOSE u \in Unit : Fits(u, n) /\ \A v \in Unit : Fits(v, n) => unitsToDuration[v] <= unitsToDuration[u]

\* The longest unit the duration is a multiple of, and how many.
MaxUnitForDuration(d) ==
    LET n == IF d < 0 THEN Negate(d) ELSE d
        q == n \div unitsToDuration[LongestFit(n)]
    IN IF \A u \in Unit : ~Fits(u, n) THEN <<0, "ns">>
       ELSE <<IF d < 0 THEN Negate(q) ELSE q, LongestFit(n)>>

\* Unit.Count; an error, here -1, for a negative duration.
Count(u, d) == IF d < 0 THEN -1 ELSE d \div unitsToDuration[u]

ToNormalizedDuration(d, u) == Quotient(d, u)
FromNormalizedDuration(n, u) == Wrap(n * u)

\* Truncate rounds towards the zero time, which is before every time t.
Ceil(t, d) == IF t % d = 0 THEN t ELSE (t \div d + 1) * d

-----------------------------------------------------------------------------

DurationsInit == dur \in Int_ /\ durErr = FALSE

\* dur, err = ParseExtendedDuration(text)
ParseText(text) ==
    LET p == ParseExtendedDuration(text) IN dur' = p.d /\ durErr' = p.err

\* dur, err = DurationFromUnit(u)
DurationFromUnit(u) ==
    /\ dur' = IF u \in Unit THEN unitsToDuration[u] ELSE 0
    /\ durErr' = (u \notin Unit)

DurationsNext ==
    \/ \E text \in Text : ParseText(text)
    \/ \E u \in Unit \cup {BadUnit} : DurationFromUnit(u)

DurationsSpec == DurationsInit /\ [][DurationsNext]_durationsVars

-----------------------------------------------------------------------------
(* Properties.                                                             *)

\* What ToExtendedString writes, ParseExtendedDuration reads back, for every
\* duration but the least: its negation is itself, no unit fits, and the text
\* is a sign, which is read as zero.
TextRoundTrips ==
    ParseExtendedDuration(ToExtendedString(dur)) = [d |-> IF dur = MinInt THEN 0 ELSE dur, err |-> FALSE]

\* Durations are converted to text and to counts of units without loss beyond
\* the unit: TextRoundTrips; MaxUnitForDuration is exact and no longer unit
\* divides the duration (the least one excepted); normalized counts lose less
\* than a unit, towards zero; Ceil is the first multiple from t on.
DurationsExact ==
    LET max == MaxUnitForDuration(dur) IN
    /\ TextRoundTrips
    /\ dur # MinInt =>
        /\ max[1] * unitsToDuration[max[2]] = dur
        /\ \A u \in Unit : dur # 0 /\ dur % unitsToDuration[u] = 0 => unitsToDuration[u] <= unitsToDuration[max[2]]
    /\ \A u \in Unit :
        LET v    == unitsToDuration[u]
            back == FromNormalizedDuration(ToNormalizedDuration(dur, v), v)
        IN /\ dur >= 0 => back <= dur /\ dur - back < v /\ Count(u, dur) * v = back
           /\ dur < 0  => back >= dur /\ back - dur < v
           /\ dur >= 0 => Ceil(dur, v) % v = 0 /\ Ceil(dur, v) \in dur .. dur + v - 1
    /\ \A u \in UnitOf(dur) : max = <<1, u>>

=============================================================================
