---------------------------- MODULE LibraryProofs ----------------------------
(***************************************************************************)
(* Theorems about components of the library that have no concurrency of    *)
(* their own: the polling loops, the loggers, the MultiError, retry, the   *)
(* tracebacks and the iterators.                                           *)
(***************************************************************************)
EXTENDS Polling, Logging, MultiError, Retry, Debugger, Iterators, SequenceTheorems,
        NaturalsInduction, WellFoundedInduction, TLAPS

-----------------------------------------------------------------------------
(* Polling.                                                                *)

PollingTypeOK ==
    /\ now \in Nat /\ timeout \in Nat \cup {-1} /\ wakeAt \in Nat /\ opened \in Nat
    /\ filledAt \in Nat \cup {-1}
    /\ file \in {"absent", "blank", "id"}
    /\ ppc \in {"check", "sleep", "found", "failed"}

\* Since when an ID in the file should have been found: the start, or one
\* interval after it was written.
FindBy == IF filledAt = -1 THEN 0 ELSE filledAt + Interval

\* The time that the intervals after the descriptors opened so far take.
Spent == opened * Interval

\* The loop sleeps past nothing: it is awake no later than Late after the
\* time set, an ID that is there has been there for no check, and every
\* descriptor opened has an interval of its own before the next check.
PollingInv ==
    /\ PollingTypeOK
    /\ wakeAt <= now + Interval
    /\ ppc = "check" => now >= wakeAt
    /\ ppc \in {"check", "sleep"} =>
        /\ now <= wakeAt + Late
        /\ file = "id" => wakeAt <= FindBy
        /\ Spent <= wakeAt
    /\ Spent <= now + Interval
    /\ ppc = "failed" => now >= timeout /\ (file = "id" => Late + FindBy >= timeout)

LEMMA PollingInitInv == PollingInit => PollingInv
<1> SUFFICES ASSUME PollingInit PROVE PollingInv
    OBVIOUS
<1> USE PollingAssumption DEF PollingInit
<1>1. PollingTypeOK BY DEF PollingTypeOK
<1>2. Spent = 0 BY DEF Spent
<1> QED BY <1>1, <1>2 DEF PollingInv, FindBy

LEMMA PollingNextInv == PollingInv /\ [PollingNext]_pollingVars => PollingInv'
<1> SUFFICES ASSUME PollingInv, [PollingNext]_pollingVars PROVE PollingInv'
    OBVIOUS
<1> USE PollingAssumption DEF PollingInv, PollingTypeOK, FindBy
<1>1. Spent \in Nat BY DEF Spent
<1>2. CASE PollCheck
    <2>1. Spent' \in Nat /\ Spent' <= Spent + Interval
        <3>1. (opened + 1) * Interval = opened * Interval + Interval OBVIOUS
        <3> QED BY <1>2, <3>1 DEF PollCheck, Spent
    <2> QED BY <1>1, <1>2, <2>1 DEF PollCheck
<1>3. ASSUME opened' = opened PROVE Spent' = Spent BY <1>3 DEF Spent
<1>4. CASE PollTimeout BY <1>1, <1>3, <1>4 DEF PollTimeout
<1>5. CASE PollWake BY <1>1, <1>3, <1>5 DEF PollWake
<1>6. CASE Tick BY <1>1, <1>3, <1>6 DEF Tick
<1>7. ASSUME NEW f \in {"absent", "blank", "id"}, FileChanges(f), ppc \in {"check", "sleep"}
      PROVE  PollingInv'
    BY <1>1, <1>3, <1>7 DEF FileChanges
<1>8. CASE UNCHANGED pollingVars BY <1>1, <1>3, <1>8 DEF pollingVars
<1> QED BY <1>2, <1>4, <1>5, <1>6, <1>7, <1>8 DEF PollingNext, PollLoop

\* The file resolver and WaitUntil give up no earlier than their timeout, miss
\* no ID that was there in time but for the delay of a wake-up, and open the
\* file at most once in an interval, for any interval, timeout and delay.
THEOREM PollsFindInTime == PollingSpec => []PollFindsInTime
<1>1. PollingInv => PollFindsInTime BY DEF PollingInv, PollFindsInTime, FindBy, Spent
<1> QED BY PollingInitInv, PollingNextInv, <1>1, PTL DEF PollingSpec

-----------------------------------------------------------------------------
(* Logging.                                                                *)

Cell == Field \cup {NoField}
Logger == [array : LoggerVar \cup {NullLogger}, len : Nat, levels : Seq(Level)]

\* Logger l has the fields s in arrays c.
Has(l, s, c) ==
    IF l.array = NullLogger THEN s = <<>>
    ELSE /\ l.len = Len(s) /\ l.len <= Len(c[l.array])
         /\ \A k \in 1 .. l.len : c[l.array][k] = s[k]

LoggingTypeOK ==
    /\ fieldArrays \in [LoggerVar -> Seq(Cell)]
    /\ logger \in [LoggerVar -> Logger]
    /\ given \in [LoggerVar -> Seq(Field)]

\* Every logger has what it was made with; LoggersKeepTheirFields says so of
\* the sequences.
LoggingInv == LoggingTypeOK /\ \A v \in LoggerVar : Has(logger[v], given[v], fieldArrays)

LEMMA LoggingInitInv == LoggingInit => LoggingInv
<1> SUFFICES ASSUME LoggingInit PROVE LoggingInv
    OBVIOUS
<1>1. fieldArrays \in [LoggerVar -> Seq(Cell)] /\ given \in [LoggerVar -> Seq(Field)]
    <2>1. <<>> \in Seq(Cell) /\ <<>> \in Seq(Field) OBVIOUS
    <2> QED BY <2>1 DEF LoggingInit
<1>2. logger \in [LoggerVar -> [array : LoggerVar \cup {NullLogger}, len : {0}, levels : {<<>>}]]
    BY DEF LoggingInit
<1>3. logger \in [LoggerVar -> Logger]
    <2>1. <<>> \in Seq(Level) OBVIOUS
    <2>2. [array : LoggerVar \cup {NullLogger}, len : {0}, levels : {<<>>}] \subseteq Logger
        <3> SUFFICES ASSUME NEW r \in [array : LoggerVar \cup {NullLogger}, len : {0}, levels : {<<>>}]
                     PROVE  r \in Logger
            OBVIOUS
        <3>1. PICK a \in LoggerVar \cup {NullLogger} : r = [array |-> a, len |-> 0, levels |-> <<>>]
            OBVIOUS
        <3> QED BY <2>1, <3>1 DEF Logger
    <2> QED BY <1>2, <2>2
<1>4. \A v \in LoggerVar : Has(logger[v], given[v], fieldArrays)
    <2> SUFFICES ASSUME NEW v \in LoggerVar PROVE Has(logger[v], given[v], fieldArrays)
        OBVIOUS
    <2>1. logger[v].len = 0 /\ given[v] = <<>> BY <1>2 DEF LoggingInit
    <2>2. logger[v].array # NullLogger => Len(fieldArrays[logger[v].array]) \in Nat BY <1>1, <1>2
    <2> QED BY <2>1, <2>2 DEF Has
<1> QED BY <1>1, <1>3, <1>4 DEF LoggingInv, LoggingTypeOK

\* What a logger has is what it prints.
LEMMA HasFields ==
    ASSUME LoggingTypeOK, NEW v \in LoggerVar, Has(logger[v], given[v], fieldArrays)
    PROVE  LogFields(logger[v]) = given[v]
<1>1. PICK l \in Logger, s \in Seq(Field) : l = logger[v] /\ s = given[v] BY DEF LoggingTypeOK
<1>2. CASE l.array = NullLogger BY <1>1, <1>2 DEF LogFields, Has
<1>3. CASE l.array # NullLogger
    <2>1. PICK c \in Seq(Cell) : c = fieldArrays[l.array]
        BY <1>1, <1>3 DEF LoggingTypeOK, Logger
    <2>2. l.len = Len(s) /\ l.len <= Len(c) /\ \A k \in 1 .. l.len : c[k] = s[k]
        BY <1>1, <1>3, <2>1 DEF Has
    <2>3. l.len \in Nat BY DEF Logger
    <2>4. /\ SubSeq(c, 1, l.len) \in Seq(Cell) /\ Len(SubSeq(c, 1, l.len)) = l.len
          /\ \A k \in 1 .. l.len : SubSeq(c, 1, l.len)[k] = c[k]
        BY <2>2, <2>3
    <2>5. SubSeq(c, 1, l.len) = s
        <3>1. PICK q \in Seq(Cell) : q = SubSeq(c, 1, l.len) BY <2>4
        <3>2. s \in Seq(Cell) BY DEF Cell
        <3>3. Len(q) = Len(s) /\ \A k \in 1 .. Len(s) : q[k] = s[k] BY <2>2, <2>4, <3>1
        <3>4. q = s BY <3>2, <3>3, SeqEqual
        <3> QED BY <3>1, <3>4
    <2> QED BY <1>1, <1>3, <2>1, <2>5 DEF LogFields
<1> QED BY <1>2, <1>3

\* An array that fields were appended to begins with all of them.
LEMMA GrownHas ==
    ASSUME NEW old \in Seq(Field), NEW fs \in Seq(Field), NEW g, g = Grown(old, fs)
    PROVE  /\ g \in Seq(Cell) /\ Len(g) >= Len(old \o fs)
           /\ \A k \in 1 .. Len(old \o fs) : g[k] = (old \o fs)[k]
<1>1. PICK s \in Seq(Cell) : s = old \o fs
    <2>3. old \o fs \in Seq(Field) OBVIOUS
    <2>1. PICK s \in Seq(Field) : s = old \o fs BY <2>3
    <2>2. s \in Seq(Cell) BY DEF Cell
    <2> QED BY <2>1, <2>2
<1>2. PICK n \in Nat, m \in Nat : n = Len(old) + Len(fs) /\ m = Len(old) + 1 OBVIOUS
<1>3. PICK size \in Nat : /\ size >= n
                          /\ size = IF n <= m THEN m ELSE IF n > 2 * m THEN n ELSE 2 * m
    BY <1>2
<1>4. PICK z \in Nat : z = size - n BY <1>3
<1>5. PICK spare \in Seq(Cell) : spare = [k \in 1 .. z |-> NoField]
    <2>1. NoField \in Cell BY DEF Cell
    <2>2. [k \in 1 .. z |-> NoField] \in Seq(Cell) BY <2>1
    <2> QED BY <2>2
<1>6. g = s \o spare BY <1>1, <1>2, <1>3, <1>4, <1>5 DEF Grown
<1>7. /\ s \o spare \in Seq(Cell) /\ Len(s \o spare) = Len(s) + Len(spare)
      /\ \A k \in 1 .. Len(s) : (s \o spare)[k] = s[k]
    BY ConcatProperties
<1>8. Len(s) + Len(spare) >= Len(s) OBVIOUS
<1> QED BY <1>1, <1>6, <1>7, <1>8

\* A logger that shares the array of another one, in a wrapper or not, has
\* the same fields.
LEMMA ShareStep ==
    ASSUME LoggingInv, NEW v \in LoggerVar, NEW w \in LoggerVar, NEW l \in Logger,
           l.array = logger[w].array, l.len = logger[w].len,
           logger' = [logger EXCEPT ![v] = l], given' = [given EXCEPT ![v] = given[w]], Keep(fieldArrays)
    PROVE  LoggingInv'
<1> USE DEF LoggingInv
<1>1. logger' \in [LoggerVar -> Logger] /\ given' \in [LoggerVar -> Seq(Field)]
    BY DEF LoggingTypeOK
<1>2. fieldArrays' \in [LoggerVar -> Seq(Cell)]
    <2>1. <<>> \in Seq(Cell) OBVIOUS
    <2> QED BY <2>1 DEF Keep, LoggingTypeOK
<1>3. \A u \in LoggerVar : logger'[u].array # NullLogger => fieldArrays'[logger'[u].array] = fieldArrays[logger'[u].array]
    BY <1>1 DEF Keep, Logger
<1>4. ASSUME NEW u \in LoggerVar PROVE Has(logger'[u], given'[u], fieldArrays')
    <2>1. PICK x \in LoggerVar : /\ logger'[u].array = logger[x].array /\ logger'[u].len = logger[x].len
                                 /\ given'[u] = given[x]
        BY DEF LoggingTypeOK
    <2>2. Has(logger[x], given[x], fieldArrays) OBVIOUS
    <2>3. CASE logger[x].array = NullLogger BY <2>1, <2>2, <2>3 DEF Has
    <2>4. CASE logger[x].array # NullLogger
        <3>1. fieldArrays'[logger'[u].array] = fieldArrays[logger[x].array] BY <1>3, <2>1, <2>4
        <3> QED BY <2>1, <2>2, <2>4, <3>1 DEF Has
    <2> QED BY <2>3, <2>4
<1> QED BY <1>1, <1>2, <1>4 DEF LoggingTypeOK

\* A logger with an array of its own has the fields that are in it, and the
\* others keep theirs.
LEMMA MakeStep ==
    ASSUME LoggingInv, NEW v \in LoggerVar, NEW array \in Seq(Cell), NEW fields \in Seq(Field),
           NEW levels \in Seq(Level), MakeLogger(v, array, fields, levels),
           Len(array) >= Len(fields), \A k \in 1 .. Len(fields) : array[k] = fields[k]
    PROVE  LoggingInv'
<1> USE DEF LoggingInv
<1>1. PICK a \in LoggerVar : /\ \A u \in LoggerVar \ {v} : logger[u].array # a
                             /\ Keep([fieldArrays EXCEPT ![a] = array])
                             /\ logger' = [logger EXCEPT ![v] = [array |-> a, len |-> Len(fields), levels |-> levels]]
    BY DEF MakeLogger
<1>2. given' = [given EXCEPT ![v] = fields] BY DEF MakeLogger
<1>3. [array |-> a, len |-> Len(fields), levels |-> levels] \in Logger BY DEF Logger
<1>4. logger' \in [LoggerVar -> Logger] /\ given' \in [LoggerVar -> Seq(Field)]
    BY <1>1, <1>2, <1>3 DEF LoggingTypeOK
<1>5. PICK c \in [LoggerVar -> Seq(Cell)] : c = [fieldArrays EXCEPT ![a] = array] BY DEF LoggingTypeOK
<1>6. fieldArrays' \in [LoggerVar -> Seq(Cell)]
    <2>1. <<>> \in Seq(Cell) OBVIOUS
    <2> QED BY <1>1, <1>5, <2>1 DEF Keep
<1>7. \A u \in LoggerVar : logger'[u].array # NullLogger => fieldArrays'[logger'[u].array] = c[logger'[u].array]
    BY <1>1, <1>4, <1>5 DEF Keep, Logger
<1>8. c[a] = array /\ \A b \in LoggerVar : b # a => c[b] = fieldArrays[b] BY <1>5 DEF LoggingTypeOK
<1>9. a # NullLogger BY LoggingAssumption
<1>10. Has(logger'[v], given'[v], fieldArrays')
    <2>1. logger'[v] = [array |-> a, len |-> Len(fields), levels |-> levels] /\ given'[v] = fields
        BY <1>1, <1>2 DEF LoggingTypeOK
    <2>2. logger'[v].array = a /\ logger'[v].len = Len(fields) BY <2>1
    <2>3. fieldArrays'[a] = array BY <1>7, <1>8, <1>9, <2>2
    <2> QED BY <1>9, <2>1, <2>2, <2>3 DEF Has
<1>11. ASSUME NEW u \in LoggerVar, u # v PROVE Has(logger'[u], given'[u], fieldArrays')
    <2>1. logger'[u] = logger[u] /\ given'[u] = given[u] /\ logger[u].array # a
        BY <1>1, <1>2, <1>11 DEF LoggingTypeOK
    <2>2. logger[u].array \in LoggerVar \cup {NullLogger} BY DEF LoggingTypeOK, Logger
    <2>3. logger[u].array # NullLogger => fieldArrays'[logger[u].array] = fieldArrays[logger[u].array]
        BY <1>7, <1>8, <2>1, <2>2
    <2>4. Has(logger[u], given[u], fieldArrays) OBVIOUS
    <2> QED BY <2>1, <2>3, <2>4 DEF Has
<1> QED BY <1>4, <1>6, <1>10, <1>11 DEF LoggingTypeOK

LEMMA LoggingNextInv == LoggingInv /\ [LoggingNext]_loggingVars => LoggingInv'
<1> SUFFICES ASSUME LoggingInv, [LoggingNext]_loggingVars PROVE LoggingInv'
    OBVIOUS
<1>0. \A w \in LoggerVar : logger[w] \in Logger /\ given[w] \in Seq(Field)
    BY DEF LoggingInv, LoggingTypeOK
<1>1. \A w \in LoggerVar : LogFields(logger[w]) = given[w] BY HasFields DEF LoggingInv
<1>2. FieldArgs \cup {<<>>} \subseteq Seq(Field)
    <2>1. \A f \in Field : <<f>> \in Seq(Field) /\ <<f, f>> \in Seq(Field) OBVIOUS
    <2>2. <<>> \in Seq(Field) OBVIOUS
    <2> QED BY <2>1, <2>2, Zenon DEF FieldArgs
<1>3. ASSUME NEW v \in LoggerVar, NEW w \in LoggerVar, AssignLogger(v, w) PROVE LoggingInv'
    BY <1>0, <1>3, ShareStep DEF AssignLogger
<1>4. ASSUME NEW v \in LoggerVar, NEW w \in LoggerVar, NEW level \in Level, NewLevelLogger(v, w, level)
      PROVE  LoggingInv'
    <2>1. PICK l : l = [logger[w] EXCEPT !.levels = <<level>> \o @] OBVIOUS
    <2>2. <<level>> \o logger[w].levels \in Seq(Level) BY <1>0 DEF Logger
    <2>3. l \in Logger /\ l.array = logger[w].array /\ l.len = logger[w].len
        BY <1>0, <2>1, <2>2 DEF Logger
    <2> QED BY <1>4, <2>1, <2>3, ShareStep DEF NewLevelLogger
<1>5. ASSUME NEW v \in LoggerVar, NEW w \in LoggerVar, NEW fs \in FieldArgs, WithFields(v, w, fs)
      PROVE  LoggingInv'
    <2>1. PICK l \in Logger, s \in Seq(Field) : l = logger[w] /\ s = given[w] /\ LogFields(l) = s
        BY <1>0, <1>1
    <2>2. fs \in Seq(Field) BY <1>2
    <2>3. CASE l.array = NullLogger
        <3>1. given[w] = <<>> BY <2>1, <2>3 DEF LogFields
        <3> QED BY <1>5, <2>1, <2>3, <3>1, ShareStep DEF WithFields
    <2>4. CASE l.array # NullLogger
        <3>1. MakeLogger(v, Grown(s, fs), s \o fs, l.levels) BY <1>5, <2>1, <2>4 DEF WithFields
        <3>6. PICK g : g = Grown(s, fs) OBVIOUS
        <3>8. s \o fs \in Seq(Field) BY <2>2
        <3>7. PICK t \in Seq(Field) : t = s \o fs BY <3>8
        <3>2. g = Grown(s, fs) /\ t = s \o fs BY <3>6, <3>7
        <3>3. g \in Seq(Cell) /\ Len(g) >= Len(t) /\ \A k \in 1 .. Len(t) : g[k] = t[k]
            BY <2>2, <3>6, <3>7, GrownHas
        <3>4. l.levels \in Seq(Level) BY DEF Logger
        <3>5. MakeLogger(v, g, t, l.levels) BY <3>1, <3>2
        <3> QED BY <3>3, <3>4, <3>5, MakeStep
    <2> QED BY <2>3, <2>4
<1>6. ASSUME NEW v \in LoggerVar, NEW fs \in FieldArgs \cup {<<>>}, NewLogger(v, fs) PROVE LoggingInv'
    <2>1. fs \in Seq(Field) /\ fs \in Seq(Cell) BY <1>2 DEF Cell
    <2>2. <<>> \in Seq(Level) OBVIOUS
    <2>3. MakeLogger(v, fs, fs, <<>>) BY <1>6 DEF NewLogger
    <2>4. Len(fs) >= Len(fs) /\ \A k \in 1 .. Len(fs) : fs[k] = fs[k]
        <3>1. Len(fs) \in Nat BY <2>1
        <3> QED BY <3>1
    <2> QED BY <2>1, <2>2, <2>3, <2>4, MakeStep
<1>7. ASSUME NEW v \in LoggerVar, NEW levels \in {<<>>} \cup {<<level>> : level \in Level},
             NEW fs \in FieldArgs \cup {<<>>}, BuildLogger(v, levels, fs)
      PROVE  LoggingInv'
    <2>1. levels \in Seq(Level)
        <3>1. \A level \in Level : <<level>> \in Seq(Level) OBVIOUS
        <3>2. <<>> \in Seq(Level) OBVIOUS
        <3> QED BY <3>1, <3>2, Zenon
    <2>2. fs \in Seq(Field) /\ <<>> \in Seq(Field) /\ <<>> \in Seq(Cell) BY <1>2
    <2>3. PICK g : g = IF fs = <<>> THEN <<>> ELSE Grown(<<>>, fs) OBVIOUS
    <2>4. MakeLogger(v, g, fs, levels) BY <1>7, <2>3 DEF BuildLogger
    <2>5. g \in Seq(Cell) /\ Len(g) >= Len(fs) /\ \A k \in 1 .. Len(fs) : g[k] = fs[k]
        <3>1. CASE fs = <<>> BY <2>2, <2>3, <3>1
        <3>2. CASE fs # <<>>
            <4>1. g = Grown(<<>>, fs) BY <2>3, <3>2
            <4>2. <<>> \o fs = fs BY <2>2
            <4>3. PICK e \in Seq(Field) : e = <<>> BY <2>2
            <4>4. PICK t \in Seq(Field) : t = fs BY <2>2
            <4>5. g = Grown(e, t) /\ e \o t = t BY <4>1, <4>2, <4>3, <4>4
            <4>6. /\ g \in Seq(Cell) /\ Len(g) >= Len(e \o t)
                  /\ \A k \in 1 .. Len(e \o t) : g[k] = (e \o t)[k]
                BY <4>5, GrownHas
            <4> QED BY <4>4, <4>5, <4>6
        <3> QED BY <3>1, <3>2
    <2> QED BY <2>1, <2>2, <2>4, <2>5, MakeStep
<1>8. ASSUME UNCHANGED <<fieldArrays, logger, given>> PROVE LoggingInv'
    BY <1>8 DEF LoggingInv, LoggingTypeOK
<1> QED BY <1>3, <1>4, <1>5, <1>6, <1>7, <1>8 DEF LoggingNext, Log, loggingVars

\* Every logger prints the fields it was made with, whatever loggers are
\* derived from it or from those it came from: WithFields copies, so that
\* nobody writes to the room that append has left.  For any variables, fields
\* and levels and any capacity of the arrays.
THEOREM LoggersPrintTheirFields == LoggingSpec => []LoggersKeepTheirFields
<1>1. LoggingInv => LoggersKeepTheirFields BY HasFields DEF LoggingInv, LoggersKeepTheirFields
<1> QED BY LoggingInitInv, LoggingNextInv, <1>1, PTL DEF LoggingSpec

-----------------------------------------------------------------------------
(* MultiError.                                                             *)

Err == (MultiErrorVar \X Nat) \cup {NoErr}

MultiErrorTypeOK ==
    /\ arrays \in Seq(Seq(Err))
    /\ multi \in [MultiErrorVar -> [err : Err, array : Nat, len : Nat]]
    /\ added \in [MultiErrorVar -> Seq(Err)]

\* The value m has its cells in the arrays, and they and err are the errors of s.
Keeps(m, s, cells) ==
    /\ m.array = 0 => m.len = 0
    /\ m.array # 0 => m.array <= Len(cells) /\ m.len <= Len(cells[m.array])
    /\ m.err = NoErr => m.array = 0 /\ s = <<>>
    /\ m.err # NoErr => /\ Len(s) = m.len + 1 /\ s[m.len + 1] = m.err
                        /\ \A k \in 1 .. m.len : s[k] = cells[m.array][k]

\* The value of w is what was added to it.
KeepsErrors(w) == Keeps(multi[w], added[w], arrays)

\* Nobody has more of the array of a live value than the value itself: what
\* is beyond its length nobody sees.
LongestInArray ==
    \A v \in Live, w \in MultiErrorVar :
        multi[w].array = multi[v].array => multi[w].len <= multi[v].len

MultiErrorInv == MultiErrorTypeOK /\ LongestInArray /\ \A w \in MultiErrorVar : KeepsErrors(w)

LEMMA MultiErrorInitInv == MultiErrorInit => MultiErrorInv
<1> SUFFICES ASSUME MultiErrorInit PROVE MultiErrorInv
    OBVIOUS
<1> USE MultiErrorAssumption DEF MultiErrorInit, NewMultiError
<1>1. MultiErrorTypeOK BY DEF MultiErrorTypeOK, Err
<1>2. LongestInArray BY DEF LongestInArray
<1>3. \A w \in MultiErrorVar : KeepsErrors(w) BY DEF KeepsErrors, Keeps
<1> QED BY <1>1, <1>2, <1>3 DEF MultiErrorInv

\* append has put the cells of v and err into array a of new, and the cells of
\* all the others are where they were.
WrittenElsewhere(v, a, new) ==
    /\ new \in Seq(Seq(Err)) /\ a \in 1 .. Len(new) /\ Len(new) >= Len(arrays)
    /\ Len(new[a]) >= multi[v].len + 1 /\ new[a][multi[v].len + 1] = multi[v].err
    /\ \A k \in 1 .. multi[v].len : new[a][k] = added[v][k]
    /\ \A w \in MultiErrorVar : multi[w].array # 0 =>
          /\ Len(new[multi[w].array]) = Len(arrays[multi[w].array])
          /\ \A k \in 1 .. multi[w].len : new[multi[w].array][k] = arrays[multi[w].array][k]
    /\ \A w \in MultiErrorVar : multi[w].array = a => multi[w].len <= multi[v].len

\* append writes where nobody looks.
LEMMA AppendedElsewhere ==
    ASSUME MultiErrorInv, NEW v \in Live, multi[v].err # NoErr,
           \A w \in Live : w = v,
           NEW a, NEW new, a = Appended(multi[v]).array, new = Appended(multi[v]).arrays
    PROVE  WrittenElsewhere(v, a, new)
<1> USE MultiErrorAssumption DEF MultiErrorInv, MultiErrorTypeOK
<1>1. PICK m \in [err : Err, array : Nat, len : Nat] : m = multi[v] OBVIOUS
<1>2. /\ m.array = 0 => m.len = 0
      /\ m.array # 0 => /\ m.array \in 1 .. Len(arrays) /\ arrays[m.array] \in Seq(Err)
                        /\ m.len <= Len(arrays[m.array])
      /\ \A k \in 1 .. m.len : added[v][k] = arrays[m.array][k]
    BY <1>1 DEF KeepsErrors, Keeps
<1>3. \A w \in MultiErrorVar :
        /\ multi[w].array \in Nat /\ multi[w].len \in Nat
        /\ multi[w].array # 0 => /\ multi[w].array \in 1 .. Len(arrays)
                                /\ multi[w].len <= Len(arrays[multi[w].array])
        /\ multi[w].array = m.array => multi[w].len <= m.len
    BY <1>1 DEF KeepsErrors, Keeps, LongestInArray
<1>4. m.err \in Err /\ m.len \in Nat /\ m.array \in Nat OBVIOUS
<1>5. CASE m.len < Cap(m)
    <2>1. m.array # 0 /\ m.len + 1 \in 1 .. Len(arrays[m.array]) BY <1>2, <1>4, <1>5 DEF Cap
    <2>2. a = m.array /\ new = [arrays EXCEPT ![m.array] = [arrays[m.array] EXCEPT ![m.len + 1] = m.err]]
        BY <1>1, <1>5 DEF Appended
    <2>3. PICK t : t = [arrays[m.array] EXCEPT ![m.len + 1] = m.err] OBVIOUS
    <2>4. /\ t \in Seq(Err) /\ Len(t) = Len(arrays[m.array]) /\ t[m.len + 1] = m.err
          /\ \A k \in 1 .. m.len : t[k] = arrays[m.array][k]
        BY <1>2, <1>4, <2>1, <2>3
    <2>5. /\ new \in Seq(Seq(Err)) /\ Len(new) = Len(arrays) /\ new[a] = t
          /\ \A b \in 1 .. Len(arrays) : b # a => new[b] = arrays[b]
        <3>1. PICK T : T = Seq(Err) OBVIOUS
        <3>2. arrays \in Seq(T) /\ t \in T /\ m.array \in 1 .. Len(arrays) BY <1>2, <2>1, <2>4, <3>1
        <3>3. new = [arrays EXCEPT ![m.array] = t] BY <2>2, <2>3
        <3>4. new \in Seq(T) /\ Len(new) = Len(arrays) BY <3>2, <3>3, ExceptSeq
        <3>5. \A b \in 1 .. Len(arrays) : new[b] = IF b = m.array THEN t ELSE arrays[b]
            BY <3>2, <3>3, ExceptSeq
        <3> QED BY <2>2, <3>1, <3>2, <3>4, <3>5
    <2>6. \A w \in MultiErrorVar : multi[w].array # 0 =>
                 /\ Len(new[multi[w].array]) = Len(arrays[multi[w].array])
                 /\ \A k \in 1 .. multi[w].len : new[multi[w].array][k] = arrays[multi[w].array][k]
        <3> SUFFICES ASSUME NEW w \in MultiErrorVar, multi[w].array # 0
                     PROVE  /\ Len(new[multi[w].array]) = Len(arrays[multi[w].array])
                            /\ \A k \in 1 .. multi[w].len : new[multi[w].array][k] = arrays[multi[w].array][k]
            OBVIOUS
        <3>1. CASE multi[w].array = a BY <1>3, <1>4, <2>2, <2>4, <2>5, <3>1
        <3>2. CASE multi[w].array # a BY <1>3, <2>5, <3>2
        <3> QED BY <3>1, <3>2
    <2>7. new \in Seq(Seq(Err)) /\ a \in 1 .. Len(new) /\ Len(new) >= Len(arrays)
        BY <1>2, <2>1, <2>2, <2>5
    <2>8. Len(new[a]) >= multi[v].len + 1 /\ new[a][multi[v].len + 1] = multi[v].err
        BY <1>1, <1>4, <2>1, <2>4, <2>5
    <2>9. \A k \in 1 .. multi[v].len : new[a][k] = added[v][k] BY <1>1, <1>2, <2>4, <2>5
    <2>10. \A w \in MultiErrorVar : multi[w].array = a => multi[w].len <= multi[v].len
        BY <1>1, <1>3, <2>2
    <2> QED BY <2>6, <2>7, <2>8, <2>9, <2>10, Zenon DEF WrittenElsewhere
<1>6. CASE ~(m.len < Cap(m))
    <2>1. PICK t : t = Cells(m) \o <<m.err>> \o [k \in 1 .. m.len - 1 |-> NoErr] OBVIOUS
    <2>2. a = Len(arrays) + 1 /\ new = Append(arrays, t)
        BY <1>1, <1>6, <2>1 DEF Appended
    <2>3. /\ Cells(m) \in Seq(Err) /\ Len(Cells(m)) = m.len
          /\ \A k \in 1 .. m.len : Cells(m)[k] = arrays[m.array][k]
        <3>1. CASE m.array = 0 BY <1>2, <3>1 DEF Cells
        <3>2. CASE m.array # 0
            <4>1. Cells(m) = SubSeq(arrays[m.array], 1, m.len) BY <3>2 DEF Cells
            <4> QED BY <1>2, <1>4, <3>2, <4>1, SMTT(40)
        <3> QED BY <3>1, <3>2
    <2>4. [k \in 1 .. m.len - 1 |-> NoErr] \in Seq(Err) /\ <<m.err>> \in Seq(Err)
        <3>1. PICK n \in Nat : 1 .. m.len - 1 = 1 .. n
            <4>1. CASE m.len = 0 
                <5>1. 1 .. m.len - 1 = 1 .. 0 BY <4>1
                <5> QED BY <5>1
            <4>2. CASE m.len # 0
                <5>1. m.len - 1 \in Nat BY <1>4, <4>2
                <5> QED BY <5>1
            <4> QED BY <4>1, <4>2
        <3>2. NoErr \in Err BY DEF Err
        <3>3. [k \in 1 .. n |-> NoErr] \in Seq(Err) BY <3>2
        <3>4. [k \in 1 .. m.len - 1 |-> NoErr] \in Seq(Err) BY <3>1, <3>3, Zenon
        <3> QED BY <1>4, <3>4
    <2>5. PICK c \in Seq(Err), p \in Seq(Err) :
            c = Cells(m) /\ p = [k \in 1 .. m.len - 1 |-> NoErr]
        BY <2>3, <2>4
    <2>6. /\ t \in Seq(Err) /\ Len(t) >= m.len + 1 /\ t[m.len + 1] = m.err
          /\ \A k \in 1 .. m.len : t[k] = c[k]
        <3>1. /\ c \o <<m.err>> \in Seq(Err) /\ Len(c \o <<m.err>>) = m.len + 1
              /\ (c \o <<m.err>>)[m.len + 1] = m.err
              /\ \A k \in 1 .. m.len : (c \o <<m.err>>)[k] = c[k]
            BY <1>4, <2>3, <2>4, <2>5, SMTT(40)
        <3>2. PICK q \in Seq(Err) : q = c \o <<m.err>> BY <3>1
        <3>3. t = q \o p BY <2>1, <2>5, <3>2
        <3>4. /\ t \in Seq(Err) /\ Len(t) = Len(q) + Len(p)
              /\ \A k \in 1 .. Len(q) : t[k] = q[k]
            BY <3>3
        <3>5. Len(q) = m.len + 1 /\ q[m.len + 1] = m.err /\ \A k \in 1 .. m.len : q[k] = c[k]
            BY <3>1, <3>2
        <3> QED BY <1>4, <3>4, <3>5
    <2>7. /\ new \in Seq(Seq(Err)) /\ Len(new) = Len(arrays) + 1 /\ new[a] = t
          /\ \A b \in 1 .. Len(arrays) : b # a /\ new[b] = arrays[b]
        BY <2>2, <2>6
    <2>8. /\ a \in 1 .. Len(new) /\ Len(new) >= Len(arrays)
          /\ Len(new[a]) >= m.len + 1 /\ new[a][m.len + 1] = m.err
          /\ \A k \in 1 .. m.len : new[a][k] = added[v][k]
        <3>1. Len(arrays) \in Nat OBVIOUS
        <3>2. \A k \in 1 .. m.len : t[k] = added[v][k] BY <1>2, <2>3, <2>5, <2>6
        <3> QED BY <2>2, <2>6, <2>7, <3>1, <3>2
    <2>9. \A w \in MultiErrorVar : multi[w].array # 0 => new[multi[w].array] = arrays[multi[w].array]
        <3>1. \A w \in MultiErrorVar : multi[w].array # 0 => multi[w].array \in 1 .. Len(arrays) BY <1>3
        <3>2. \A b \in 1 .. Len(arrays) : new[b] = arrays[b] BY <2>7
        <3> QED BY <3>1, <3>2, Zenon
    <2>10. \A w \in MultiErrorVar : multi[w].array # a
        <3>1. Len(arrays) \in Nat OBVIOUS
        <3>2. \A w \in MultiErrorVar : multi[w].array \in Nat /\ (multi[w].array # 0 => multi[w].array <= Len(arrays))
            BY <1>3
        <3>3. \A b \in Nat : (b # 0 => b <= Len(arrays)) => b # Len(arrays) + 1 BY <3>1
        <3> QED BY <2>2, <3>2, <3>3, Zenon
    <2> QED BY <1>1, <2>7, <2>8, <2>9, <2>10 DEF WrittenElsewhere
<1> QED BY <1>5, <1>6

LEMMA AddKeepsErrors ==
    ASSUME MultiErrorInv, \A u, w \in Live : u = w, NEW v \in MultiErrorVar, Add(v)
    PROVE  MultiErrorInv'
<1> USE MultiErrorAssumption DEF MultiErrorInv, MultiErrorTypeOK
<1>1. v \in Live /\ \A w \in Live : w = v BY DEF Add
<1>2. PICK m \in [err : Err, array : Nat, len : Nat] : m = multi[v] OBVIOUS
<1>3. PICK e \in Err : e = <<v, Len(added[v]) + 1>> /\ e # NoErr
    <2>1. Len(added[v]) + 1 \in Nat OBVIOUS
    <2>2. <<v, Len(added[v]) + 1>> \in MultiErrorVar \X Nat BY <2>1
    <2>3. PICK e : e = <<v, Len(added[v]) + 1>> OBVIOUS
    <2>4. e \in MultiErrorVar \X Nat BY <2>2, <2>3, Zenon
    <2>5. e \in Err /\ e # NoErr BY <2>4, Zenon DEF Err
    <2> QED BY <2>3, <2>5
<1>4. added' = [added EXCEPT ![v] = Append(added[v], e)] /\ added' \in [MultiErrorVar -> Seq(Err)]
    BY <1>3 DEF Add
<1>5. CASE m.err = NoErr
    <2>1. arrays' = arrays /\ multi' = [multi EXCEPT ![v].err = e] BY <1>2, <1>3, <1>5 DEF Add
    <2>2. m.array = 0 /\ m.len = 0 /\ added[v] = <<>> BY <1>2, <1>5 DEF KeepsErrors, Keeps
    <2>3. multi'[v] = [err |-> e, array |-> 0, len |-> 0] BY <1>2, <2>1, <2>2
    <2>4. added'[v] = <<e>> BY <1>4, <2>2
    <2>5. \A w \in MultiErrorVar : w # v => multi'[w] = multi[w] /\ added'[w] = added[w] BY <1>4, <2>1
    <2>6. MultiErrorTypeOK' BY <1>4, <2>1, <2>3
    <2>7. LongestInArray'
        <3>1. multi'[v].array = multi[v].array /\ multi'[v].len = multi[v].len
            BY <1>2, <2>2, <2>3
        <3>2. \A w \in MultiErrorVar : multi'[w].array = multi[w].array /\ multi'[w].len = multi[w].len
            BY <2>5, <3>1, Zenon
        <3> QED BY <3>2 DEF LongestInArray
    <2>8. ASSUME NEW w \in MultiErrorVar PROVE KeepsErrors(w)'
        <3>1. CASE w = v
            <4>1. PICK r, s : r = [err |-> e, array |-> 0, len |-> 0] /\ s = <<e>> OBVIOUS
            <4>2. r.err = e /\ r.array = 0 /\ r.len = 0 /\ Len(s) = 1 /\ s[1] = e BY <4>1
            <4>3. Keeps(r, s, arrays') BY <1>3, <4>2 DEF Keeps
            <4> QED BY <2>3, <2>4, <3>1, <4>1, <4>3 DEF KeepsErrors
        <3>2. CASE w # v
            <4>1. KeepsErrors(w) OBVIOUS
            <4> QED BY <2>1, <2>5, <3>2, <4>1 DEF KeepsErrors
        <3> QED BY <3>1, <3>2
    <2> QED BY <2>6, <2>7, <2>8
<1>6. CASE m.err # NoErr
    <2>1. PICK a, new : a = Appended(m).array /\ new = Appended(m).arrays OBVIOUS
    <2>2. arrays' = new /\ multi' = [multi EXCEPT ![v] = [err |-> e, array |-> a, len |-> m.len + 1]]
        BY <1>2, <1>3, <1>6, <2>1 DEF Add
    <2>3. /\ new \in Seq(Seq(Err)) /\ a \in 1 .. Len(new) /\ Len(new) >= Len(arrays)
          /\ Len(new[a]) >= m.len + 1 /\ new[a][m.len + 1] = m.err
          /\ \A k \in 1 .. m.len : new[a][k] = added[v][k]
          /\ \A w \in MultiErrorVar : multi[w].array # 0 =>
                 /\ Len(new[multi[w].array]) = Len(arrays[multi[w].array])
                 /\ \A k \in 1 .. multi[w].len : new[multi[w].array][k] = arrays[multi[w].array][k]
          /\ \A w \in MultiErrorVar : multi[w].array = a => multi[w].len <= m.len
        <3>1. a = Appended(multi[v]).array /\ new = Appended(multi[v]).arrays /\ multi[v].err # NoErr
            BY <1>2, <1>6, <2>1
        <3> HIDE DEF MultiErrorInv, MultiErrorTypeOK
        <3> HIDE MultiErrorAssumption
        <3>2. WrittenElsewhere(v, a, new) BY <1>1, <3>1, AppendedElsewhere
        <3> QED BY <1>2, <3>2 DEF WrittenElsewhere
    <2>4. /\ multi'[v] = [err |-> e, array |-> a, len |-> m.len + 1]
          /\ \A w \in MultiErrorVar : w # v => multi'[w] = multi[w] /\ added'[w] = added[w]
        BY <1>4, <2>2
    <2>5. a \in Nat \ {0} /\ m.len \in Nat /\ Len(arrays) \in Nat /\ Len(new) \in Nat
        <3>1. arrays \in Seq(Seq(Err)) OBVIOUS
        <3> HIDE DEF MultiErrorInv, MultiErrorTypeOK
        <3>2. Len(new) \in Nat BY <2>3
        <3>3. a \in Nat /\ a # 0 BY <2>3, <3>2
        <3> QED BY <3>1, <3>2, <3>3
    <2>6. MultiErrorTypeOK' BY <1>4, <2>2, <2>3, <2>4, <2>5, SMTT(40)
    <2>7. LongestInArray'
        <3> SUFFICES ASSUME NEW w \in MultiErrorVar, multi'[w].array = multi'[v].array
                     PROVE  multi'[w].len <= multi'[v].len
            BY <1>1 DEF LongestInArray
        <3>1. CASE w = v BY <2>4, <2>5, <3>1
        <3>2. CASE w # v
            <4>1. multi[w].len \in Nat /\ multi[w].len <= m.len BY <2>3, <2>4, <3>2, SMTT(40)
            <4> QED BY <2>4, <2>5, <3>2, <4>1
        <3> QED BY <3>1, <3>2
    <2>8. ASSUME NEW w \in MultiErrorVar PROVE KeepsErrors(w)'
        <3>1. CASE w = v
            <4>1. Len(added[v]) = m.len + 1 /\ added[v][m.len + 1] = m.err
                BY <1>2, <1>6 DEF KeepsErrors, Keeps
            <4>2. /\ Len(added'[v]) = m.len + 2 /\ added'[v][m.len + 2] = e
                  /\ \A k \in 1 .. m.len + 1 : added'[v][k] = added[v][k]
                BY <1>4, <2>5, <4>1
            <4>3. \A k \in 1 .. m.len + 1 : added'[v][k] = new[a][k]
                <5> SUFFICES ASSUME NEW k \in 1 .. m.len + 1 PROVE added'[v][k] = new[a][k]
                    OBVIOUS
                <5>1. CASE k = m.len + 1 BY <2>3, <4>1, <4>2, <5>1
                <5>2. CASE k # m.len + 1
                    <6>1. k \in 1 .. m.len BY <2>5, <5>2
                    <6> QED BY <2>3, <4>2, <6>1
                <5> QED BY <5>1, <5>2
            <4>4. PICK r, s : r = multi'[v] /\ s = added'[v] OBVIOUS
            <4>5. r.err = e /\ r.array = a /\ r.len = m.len + 1 BY <2>4, <4>4
            <4>6. /\ Len(s) = m.len + 2 /\ s[m.len + 2] = e
                  /\ \A k \in 1 .. m.len + 1 : s[k] = new[a][k]
                BY <4>2, <4>3, <4>4
            <4>7. (m.len + 1) + 1 = m.len + 2 /\ a # 0 /\ a <= Len(new) /\ m.len + 1 <= Len(new[a])
                BY <2>3, <2>5
            <4>8. Keeps(r, s, new) BY <1>3, <4>5, <4>6, <4>7 DEF Keeps
            <4> QED BY <2>2, <3>1, <4>4, <4>8 DEF KeepsErrors
        <3>2. CASE w # v
            <4>1. /\ multi[w].array \in Nat /\ multi[w].len \in Nat
                  /\ multi'[w] = multi[w] /\ added'[w] = added[w] BY <2>4, <3>2
            <4>2. KeepsErrors(w) OBVIOUS
            <4>3. CASE multi[w].array = 0
                <5>1. Keeps(multi[w], added[w], new) BY <4>1, <4>2, <4>3 DEF KeepsErrors, Keeps
                <5> QED BY <2>2, <4>1, <5>1 DEF KeepsErrors
            <4>4. CASE multi[w].array # 0
                <5>1. /\ Len(new[multi[w].array]) = Len(arrays[multi[w].array])
                      /\ \A k \in 1 .. multi[w].len : new[multi[w].array][k] = arrays[multi[w].array][k]
                    BY <2>3, <4>4
                <5>2. multi[w].array <= Len(new) BY <2>3, <2>5, <4>1, <4>2, <4>4 DEF KeepsErrors, Keeps
                <5>3. PICK r, s : r = multi[w] /\ s = added[w] OBVIOUS
                <5>4. Keeps(r, s, arrays) BY <4>2, <5>3 DEF KeepsErrors
                <5>5. /\ r.array <= Len(new) /\ Len(new[r.array]) = Len(arrays[r.array])
                      /\ r.array # 0
                      /\ \A k \in 1 .. r.len : new[r.array][k] = arrays[r.array][k]
                    BY <4>4, <5>1, <5>2, <5>3
                <5>6. Keeps(r, s, new) BY <5>4, <5>5 DEF Keeps
                <5> QED BY <2>2, <4>1, <5>3, <5>6 DEF KeepsErrors
            <4> QED BY <4>3, <4>4
        <3> QED BY <3>1, <3>2
    <2> QED BY <2>6, <2>7, <2>8
<1> QED BY <1>5, <1>6

LEMMA CopyKeepsErrors ==
    ASSUME MultiErrorInv, \A u, w \in Live : u = w,
           NEW v \in MultiErrorVar, NEW w \in MultiErrorVar, Copy(v, w)
    PROVE  MultiErrorInv'
<1> USE MultiErrorAssumption DEF MultiErrorInv, MultiErrorTypeOK
<1>1. /\ v \in Live /\ arrays' = arrays
      /\ multi' \in [MultiErrorVar -> [err : Err, array : Nat, len : Nat]]
      /\ added' \in [MultiErrorVar -> Seq(Err)]
      /\ \A u \in MultiErrorVar :
            /\ multi'[u] = IF u = w THEN multi[v] ELSE multi[u]
            /\ added'[u] = IF u = w THEN added[v] ELSE added[u]
    BY DEF Copy
<1>2. \A u \in Live : u = v /\ multi'[u] = multi[v] BY <1>1
<1>3. LongestInArray'
    <2> SUFFICES ASSUME NEW u \in MultiErrorVar, multi'[u].array = multi[v].array
                 PROVE  multi'[u].len <= multi[v].len
        BY <1>2 DEF LongestInArray
    <2>1. CASE u = w BY <1>1, <2>1
    <2>2. CASE u # w BY <1>1, <2>2 DEF LongestInArray
    <2> QED BY <2>1, <2>2
<1>4. ASSUME NEW u \in MultiErrorVar PROVE KeepsErrors(u)'
    <2>0. KeepsErrors(u) /\ KeepsErrors(v) OBVIOUS
    <2>1. CASE u = w
        <3>1. multi'[u] = multi[v] /\ added'[u] = added[v] BY <1>1, <2>1
        <3> QED BY <1>1, <2>0, <3>1 DEF KeepsErrors
    <2>2. CASE u # w
        <3>1. multi'[u] = multi[u] /\ added'[u] = added[u] BY <1>1, <2>2
        <3> QED BY <1>1, <2>0, <3>1 DEF KeepsErrors
    <2> QED BY <2>1, <2>2
<1> QED BY <1>1, <1>3, <1>4

\* The errors a value lists are those that were added to it.
LEMMA ListsAdded == MultiErrorInv => MultiErrorImmutable
<1> SUFFICES ASSUME MultiErrorInv, NEW v \in MultiErrorVar
             PROVE  /\ Listed(multi[v]) = added[v]
                    /\ NumErrors(multi[v]) = Len(added[v])
                    /\ (Empty(multi[v]) <=> added[v] = <<>>)
    BY DEF MultiErrorImmutable
<1> USE DEF MultiErrorInv, MultiErrorTypeOK
<1>1. PICK m \in [err : Err, array : Nat, len : Nat] : m = multi[v] OBVIOUS
<1>2. added[v] \in Seq(Err) OBVIOUS
<1>3. CASE m.err = NoErr
    <2>1. added[v] = <<>> BY <1>1, <1>3 DEF KeepsErrors, Keeps
    <2> QED BY <1>1, <1>3, <2>1 DEF Listed, NumErrors, Empty
<1>4. CASE m.err # NoErr
    <2>1. /\ Len(added[v]) = m.len + 1 /\ added[v][m.len + 1] = m.err
          /\ \A k \in 1 .. m.len : added[v][k] = arrays[m.array][k]
          /\ m.array = 0 => m.len = 0
          /\ m.array # 0 => m.array \in 1 .. Len(arrays) /\ m.len <= Len(arrays[m.array])
        BY <1>1, <1>4 DEF KeepsErrors, Keeps
    <2>2. /\ Cells(m) \in Seq(Err) /\ Len(Cells(m)) = m.len
          /\ \A k \in 1 .. m.len : Cells(m)[k] = arrays[m.array][k]
        <3>1. CASE m.array = 0 BY <2>1, <3>1 DEF Cells
        <3>2. CASE m.array # 0
            <4>1. Cells(m) = SubSeq(arrays[m.array], 1, m.len) BY <3>2 DEF Cells
            <4>2. arrays[m.array] \in Seq(Err) BY <2>1, <3>2
            <4> QED BY <2>1, <3>2, <4>1, <4>2, SMTT(40)
        <3> QED BY <3>1, <3>2
    <2>3. PICK c \in Seq(Err) : c = Cells(m) BY <2>2
    <2>4. /\ Append(c, m.err) \in Seq(Err) /\ Len(Append(c, m.err)) = m.len + 1
          /\ \A k \in 1 .. m.len + 1 : Append(c, m.err)[k] = added[v][k]
        <3>1. PICK s : s = Append(c, m.err) OBVIOUS
        <3>2. /\ s \in Seq(Err) /\ Len(s) = Len(c) + 1
              /\ \A k \in 1 .. Len(c) : s[k] = c[k]
              /\ s[Len(c) + 1] = m.err
            BY <3>1, AppendProperties
        <3>3. Len(c) = m.len /\ \A k \in 1 .. m.len : c[k] = added[v][k] BY <2>1, <2>2, <2>3
        <3>4. ASSUME NEW k \in 1 .. m.len + 1 PROVE s[k] = added[v][k]
            <4>1. CASE k = m.len + 1 BY <2>1, <3>2, <3>3, <4>1
            <4>2. CASE k # m.len + 1
                <5>1. k \in 1 .. m.len BY <4>2
                <5> QED BY <3>2, <3>3, <5>1
            <4> QED BY <4>1, <4>2
        <3> QED BY <3>1, <3>2, <3>3, <3>4
    <2>5. Append(c, m.err) = added[v] BY <1>2, <2>1, <2>4, SeqEqual
    <2>6. added[v] # <<>> BY <2>1
    <2> QED BY <1>1, <1>4, <2>1, <2>3, <2>5, <2>6 DEF Listed, NumErrors, Empty
<1> QED BY <1>3, <1>4

\* A MultiError keeps its errors in order, and so does every copy that was made
\* of it, however many errors are added after it was copied, while errors are
\* added through one variable only: copies may share its array, but never what
\* append writes to.
THEOREM MultiErrorsKeepErrors ==
    (\A v, w \in Live : v = w) /\ MultiErrorSpec => []MultiErrorImmutable
<1> SUFFICES ASSUME \A v, w \in Live : v = w PROVE MultiErrorSpec => []MultiErrorImmutable
    OBVIOUS
<1>1. MultiErrorInv /\ [MultiErrorNext]_multiErrorVars => MultiErrorInv'
    <2> SUFFICES ASSUME MultiErrorInv, [MultiErrorNext]_multiErrorVars PROVE MultiErrorInv'
        OBVIOUS
    <2>1. CASE UNCHANGED multiErrorVars
        BY <2>1 DEF multiErrorVars, MultiErrorInv, MultiErrorTypeOK, LongestInArray, KeepsErrors
    <2> QED BY <2>1, AddKeepsErrors, CopyKeepsErrors DEF MultiErrorNext
<1> QED BY MultiErrorInitInv, <1>1, ListsAdded, PTL DEF MultiErrorSpec

-----------------------------------------------------------------------------
(* Retry and the typed errors.                                             *)

LEMMA LeastExists ==
    ASSUME NEW S, S \subseteq Nat, S # {} PROVE \E n \in S : \A m \in S : n <= m
<1>1. PICK R : R = OpToRel(<, Nat) OBVIOUS
<1>2. IsWellFoundedOn(R, Nat) BY <1>1, NatLessThanWellFounded
<1>3. \A m, n \in Nat : m < n => <<m, n>> \in R BY <1>1 DEF OpToRel
<1>4. PICK n \in S : \A m \in S : ~(<<m, n>> \in R) BY <1>2, WFMin, Zenon
<1>5. \A m \in S : ~(m < n) BY <1>3, <1>4, Zenon
<1>6. \A m \in S : n <= m BY <1>5
<1> QED BY <1>6

Error == Seq(Layer \cup {"leaf"})

\* j is the first layer of e from k on that is of the kind, or past the end.
IsFirst(layer, e, k, j) ==
    /\ j \in k .. Len(e) + 1
    /\ j <= Len(e) => e[j] = layer
    /\ \A m \in k .. j - 1 : e[m] # layer

\* What the search for a layer returns from there.
InnerFrom(e, j) == IF j > Len(e) THEN <<>> ELSE InnerError(SubSeq(e, j, Len(e)))

\* One step of the search, with f for the rest of it.
Search(layer, e, f) ==
    [k \in 1 .. Len(e) + 1 |->
        IF k > Len(e) THEN <<>>
        ELSE IF e[k] = layer THEN InnerError(SubSeq(e, k, Len(e)))
        ELSE f[k + 1]]

LEMMA FirstExists ==
    ASSUME NEW layer, NEW e \in Error, NEW k \in 1 .. Len(e) + 1
    PROVE  \E j \in 1 .. Len(e) + 1 : IsFirst(layer, e, k, j)
<1> DEFINE S == {j \in k .. Len(e) + 1 : j <= Len(e) => e[j] = layer}
<1>1. Len(e) \in Nat BY DEF Error
<1>2. S \subseteq Nat /\ Len(e) + 1 \in S BY <1>1
<1>3. PICK j \in S : \A m \in S : j <= m BY <1>2, LeastExists
<1>4. ASSUME NEW m \in k .. j - 1, e[m] = layer PROVE FALSE
    <2>1. m \in S BY <1>1, <1>3, <1>4
    <2> QED BY <1>1, <1>3, <1>4, <2>1
<1>5. IsFirst(layer, e, k, j) BY <1>1, <1>3, <1>4 DEF IsFirst
<1> QED BY <1>1, <1>3, <1>5

\* The search has one result, so its recursive definition is sound.
LEMMA SearchDefined ==
    ASSUME NEW layer, NEW e \in Error
    PROVE  \E f : f = Search(layer, e, f)
<1> DEFINE D == 1 .. Len(e) + 1
<1>1. Len(e) \in Nat BY DEF Error
<1>2. PICK first \in [D -> D] : \A k \in D : IsFirst(layer, e, k, first[k])
    <2> DEFINE w == [k \in D |-> CHOOSE j \in D : IsFirst(layer, e, k, j)]
    <2>1. \A k \in D : w[k] \in D /\ IsFirst(layer, e, k, w[k]) BY FirstExists, Zenon
    <2>2. w \in [D -> D] BY <2>1, Zenon
    <2> QED BY <2>1, <2>2
<1>3. PICK f : f = [k \in D |-> InnerFrom(e, first[k])] OBVIOUS
<1>4. ASSUME NEW k \in D, k > Len(e) PROVE f[k] = <<>>
    BY <1>1, <1>2, <1>3, <1>4 DEF IsFirst, InnerFrom
<1>5. ASSUME NEW k \in D, k <= Len(e), e[k] = layer PROVE f[k] = InnerError(SubSeq(e, k, Len(e)))
    <2>1. first[k] = k BY <1>1, <1>2, <1>5 DEF IsFirst
    <2> QED BY <1>1, <1>3, <1>5, <2>1 DEF InnerFrom
<1>6. ASSUME NEW k \in D, k <= Len(e), e[k] # layer PROVE f[k] = f[k + 1]
    <2>1. k + 1 \in D BY <1>1, <1>6
    <2>2. IsFirst(layer, e, k, first[k]) /\ IsFirst(layer, e, k + 1, first[k + 1])
        BY <1>2, <2>1
    <2>3. first[k] # k BY <1>6, <2>2 DEF IsFirst
    <2>4. first[k] = first[k + 1]
        <3>1. PICK a, b \in D : a = first[k] /\ b = first[k + 1] BY <1>2, <2>1
        <3>2. IsFirst(layer, e, k, a) /\ IsFirst(layer, e, k + 1, b) /\ a # k
            BY <2>2, <2>3, <3>1, Zenon
        <3>3. /\ a \in k + 1 .. Len(e) + 1 /\ b \in k + 1 .. Len(e) + 1
              /\ a <= Len(e) => e[a] = layer
              /\ b <= Len(e) => e[b] = layer
            BY <1>1, <3>2 DEF IsFirst
        <3>4. ~(a < b)
            <4> SUFFICES ASSUME a < b PROVE FALSE
                OBVIOUS
            <4>1. a \in k + 1 .. b - 1 /\ a <= Len(e) BY <1>1, <3>3
            <4>2. e[a] # layer BY <3>2, <4>1 DEF IsFirst
            <4> QED BY <3>3, <4>1, <4>2
        <3>5. ~(b < a)
            <4> SUFFICES ASSUME b < a PROVE FALSE
                OBVIOUS
            <4>1. b \in k .. a - 1 /\ b <= Len(e) BY <1>1, <3>3
            <4>2. e[b] # layer BY <3>2, <4>1 DEF IsFirst
            <4> QED BY <3>3, <4>1, <4>2
        <3>6. a = b BY <1>1, <3>3, <3>4, <3>5
        <3> QED BY <3>1, <3>6
    <2> QED BY <1>3, <2>1, <2>4
<1> WITNESS f
<1>7. \A k \in D : f[k] = IF k > Len(e) THEN <<>>
                          ELSE IF e[k] = layer THEN InnerError(SubSeq(e, k, Len(e)))
                          ELSE f[k + 1]
    BY <1>1, <1>4, <1>5, <1>6
<1> QED BY <1>3, <1>7 DEF Search

\* The search goes through the layers in front of the first of its kind, and a
\* layer that contains an error makes it succeed, however deep it is.
LEMMA LayerFound ==
    ASSUME NEW layer \in Layer, NEW e \in Error, NEW n \in 1 .. Len(e) - 1, e[n] = layer
    PROVE  GetInner(layer, e) # <<>>
<1> DEFINE D == 1 .. Len(e) + 1
<1>1. Len(e) \in Nat BY DEF Error
<1>2. PICK f : f = Search(layer, e, f) /\ GetInner(layer, e) = f[1]
    <2>1. PICK f : f = CHOOSE g : g = Search(layer, e, g) OBVIOUS
    <2>2. f = Search(layer, e, f) BY <2>1, SearchDefined, Zenon
    <2>3. GetInner(layer, e) = f[1] BY <2>1, Zenon DEF GetInner, Search
    <2> QED BY <2>2, <2>3
<1>3. /\ \A k \in D : k <= Len(e) /\ e[k] = layer => f[k] = InnerError(SubSeq(e, k, Len(e)))
      /\ \A k \in D : k <= Len(e) /\ e[k] # layer => f[k] = f[k + 1]
    BY <1>1, <1>2 DEF Search
<1>4. PICK j \in D : IsFirst(layer, e, 1, j)
    <2>1. 1 \in D BY <1>1
    <2> QED BY <2>1, FirstExists, Zenon
<1>5. j <= n /\ j < Len(e) /\ e[j] = layer BY <1>1, <1>4 DEF IsFirst
<1>6. f[j] # <<>>
    <2>1. PICK s : s = SubSeq(e, j, Len(e)) OBVIOUS
    <2>2. s \in Error /\ Len(s) = Len(e) - j + 1 /\ s[1] = e[j]
        BY <1>1, <1>5, <2>1, SubSeqProperties DEF Error
    <2>3. s # <<>> /\ s[1] # "leaf" BY <1>1, <1>5, <2>2 DEF Layer
    <2>4. Len(Tail(s)) = Len(s) - 1 BY <2>2, <2>3, HeadTailProperties DEF Error
    <2>5. Len(Tail(s)) # 0
        <3>1. PICK l, q : l = Len(s) /\ q = Len(Tail(s)) OBVIOUS
        <3>2. q = l - 1 /\ l = Len(e) - j + 1 BY <2>2, <2>4, <3>1, Zenon
        <3>3. q # 0 BY <1>1, <1>5, <3>2
        <3> QED BY <3>1, <3>3, Zenon
    <2>6. InnerError(s) = Tail(s) BY <2>3 DEF InnerError
    <2>7. f[j] = InnerError(s)
        <3>1. j <= Len(e) BY <1>1, <1>5
        <3> HIDE DEF D
        <3> QED BY <1>3, <1>5, <2>1, <3>1, Zenon
    <2>8. Len(<<>>) = 0 OBVIOUS
    <2> QED BY <2>5, <2>6, <2>7, <2>8, Zenon
<1>7. f[1] = f[j]
    <2> SUFFICES ASSUME f[1] # f[j] PROVE FALSE
        OBVIOUS
    <2> DEFINE S == {d \in 0 .. j - 1 : f[j - d] # f[j]}
    <2>1. S \subseteq Nat /\ j - 1 \in S BY <1>1, <1>4
    <2>2. PICK d \in S : \A c \in S : d <= c BY <2>1, LeastExists
    <2>3. d # 0 BY <1>1, <1>4, <2>2
    <2>4. d - 1 \notin S BY <2>2
    <2>5. d - 1 \in 0 .. j - 1 /\ j - (d - 1) = (j - d) + 1 BY <1>1, <1>4, <2>2, <2>3
    <2>6. f[(j - d) + 1] = f[j] BY <2>4, <2>5
    <2>7. j - d \in D /\ j - d <= Len(e) /\ e[j - d] # layer
        BY <1>1, <1>4, <1>5, <2>2, <2>3 DEF IsFirst
    <2> QED BY <1>3, <2>2, <2>6, <2>7
<1> QED BY <1>2, <1>6, <1>7

RetryTypeOK ==
    /\ rpc \in {"start", "call", "failed", "slept", "done"}
    /\ attempt \in Nat /\ i \in Nat /\ metrics \in [Counters -> Nat]
    /\ err \in Error /\ opts.maxRetries \in Nat

\* Where the attempt is: the calls and retries counted so far, and the retries
\* that are left.
LoopState ==
    /\ rpc # "done" =>
        /\ metrics.success = 0 /\ metrics.errorsNotRetryable = 0 /\ metrics.errorsFinal = 0
        /\ attempt = metrics.errors
        /\ err # <<>> => ~IsNonRetryableError(err)
    /\ rpc = "start" => attempt = 0 /\ metrics.retries = 0
    /\ rpc = "call" => /\ metrics.retries = attempt /\ (attempt # 0 => i = attempt)
                       /\ opts.forever \/ attempt <= opts.maxRetries
    /\ rpc \in {"failed", "slept"} =>
        /\ attempt >= 1 /\ metrics.retries = attempt - 1 /\ i = attempt /\ err # <<>>
        /\ opts.forever \/ attempt <= opts.maxRetries + 1
    /\ rpc = "slept" => opts.forever \/ attempt <= opts.maxRetries

\* How it ended.
Outcome ==
    /\ attempt = metrics.success + metrics.errors + metrics.errorsNotRetryable
    /\ metrics.success + metrics.errorsNotRetryable <= 1
    /\ rpc = "done" =>
        /\ metrics.retries = IF attempt = 0 THEN 0 ELSE attempt - 1
        /\ ~opts.forever => attempt <= opts.maxRetries + 1
        /\ metrics.success = 1 <=> result = <<>>
        /\ metrics.errorsFinal = 1 <=> result = err /\ result # <<>> /\ ~IsNonRetryableError(err)
        /\ metrics.errorsFinal = 1 => attempt = opts.maxRetries + 1

RetryInv == RetryTypeOK /\ LoopState /\ Outcome

LEMMA RetryInitInv == RetryInit => RetryInv
<1> SUFFICES ASSUME RetryInit PROVE RetryInv
    OBVIOUS
<1>1. PICK c \in RetryConfig : opts = ConfigOptions(c) BY DEF RetryInit
<1>2. opts.maxRetries \in Nat
    BY <1>1, RetryAssumption DEF ConfigOptions, NewRetryOptions
<1>3. metrics \in [Counters -> Nat] /\ \A m \in Counters : metrics[m] = 0 BY DEF RetryInit
<1>4. <<>> \in Error BY DEF Error
<1> QED BY <1>2, <1>3, <1>4 DEF RetryInit, RetryInv, RetryTypeOK, LoopState, Outcome, Counters

\* The effect of Count_ on each counter.
LEMMA CountStep ==
    ASSUME metrics \in [Counters -> Nat], NEW names, Count_(names)
    PROVE  /\ metrics' \in [Counters -> Nat]
           /\ \A m \in Counters : metrics'[m] = IF m \in names THEN metrics[m] + 1 ELSE metrics[m]
BY DEF Count_

LEMMA RetryStepInv == RetryInv /\ [RetryNext]_retryVars => RetryInv'
<1> SUFFICES ASSUME RetryInv, [RetryNext]_retryVars PROVE RetryInv'
    OBVIOUS
<1> USE DEF Counters
<1>1. CASE ContinueFalse
    <2>1. <<"whileConditionFalse">> # err
        <3>1. \A n \in DOMAIN err : err[n] # "whileConditionFalse"
            BY DEF RetryInv, RetryTypeOK, Error, Layer
        <3> QED BY <3>1
    <2>2. result' = <<"whileConditionFalse">> /\ result' # <<>> /\ result' # err /\ rpc' = "done"
          /\ UNCHANGED <<opts, attempt, i, err, metrics>>
        BY <1>1, <2>1 DEF ContinueFalse, Finish
    <2> QED BY <1>1, <2>2 DEF ContinueFalse, RetryInv, RetryTypeOK, LoopState, Outcome
<1>2. CASE CallFn
    <2>1. /\ metrics' \in [Counters -> Nat]
          /\ metrics'.success = metrics.success /\ metrics'.errors = metrics.errors
          /\ metrics'.errorsNotRetryable = metrics.errorsNotRetryable
          /\ metrics'.errorsFinal = metrics.errorsFinal
          /\ metrics'.retries = IF rpc = "slept" THEN metrics.retries + 1 ELSE metrics.retries
        BY <1>2, CountStep DEF CallFn, RetryInv, RetryTypeOK
    <2> QED BY <1>2, <2>1 DEF CallFn, RetryInv, RetryTypeOK, LoopState, Outcome
<1>3. ASSUME NEW b, Sleep(b) PROVE RetryInv'
    BY <1>3 DEF Sleep, RetryInv, RetryTypeOK, LoopState, Outcome
<1>4. CASE GiveUp
    <2>1. /\ metrics' \in [Counters -> Nat]
          /\ metrics'.success = metrics.success /\ metrics'.errors = metrics.errors
          /\ metrics'.errorsNotRetryable = metrics.errorsNotRetryable
          /\ metrics'.errorsFinal = metrics.errorsFinal + 1
          /\ metrics'.retries = metrics.retries
        BY <1>4, CountStep DEF GiveUp, RetryInv, RetryTypeOK
    <2>2. /\ rpc = "failed" /\ ~opts.forever /\ i > opts.maxRetries
          /\ rpc' = "done" /\ result' = err /\ UNCHANGED <<opts, attempt, i, err>>
        BY <1>4 DEF GiveUp, Finish
    <2>3. /\ attempt \in Nat /\ attempt >= 1 /\ metrics.retries = attempt - 1 /\ i = attempt
          /\ attempt = metrics.errors
          /\ metrics.success = 0 /\ metrics.errorsNotRetryable = 0 /\ metrics.errorsFinal = 0
          /\ opts.maxRetries \in Nat /\ attempt <= opts.maxRetries + 1
          /\ err \in Error /\ err # <<>> /\ ~IsNonRetryableError(err)
        BY <2>2 DEF RetryInv, RetryTypeOK, LoopState
    <2>4. RetryTypeOK' BY <2>1, <2>2, <2>3 DEF RetryTypeOK
    <2>5. LoopState' BY <2>2 DEF LoopState
    <2>6. Outcome' BY <2>1, <2>2, <2>3 DEF Outcome
    <2> QED BY <2>4, <2>5, <2>6 DEF RetryInv
<1>5. ASSUME NEW e \in FnError, FnReturns(e) PROVE RetryInv'
    <2>1. e \in Error BY RetryAssumption DEF Error
    <2>2. metrics \in [Counters -> Nat] BY DEF RetryInv, RetryTypeOK
    <2>3. /\ rpc = "call" /\ attempt \in Nat /\ metrics.retries = attempt /\ i \in Nat
          /\ attempt = metrics.errors /\ (attempt # 0 => i = attempt)
          /\ metrics.success = 0 /\ metrics.errorsNotRetryable = 0 /\ metrics.errorsFinal = 0
          /\ opts.maxRetries \in Nat /\ (opts.forever \/ attempt <= opts.maxRetries)
        BY <1>5 DEF FnReturns, RetryInv, RetryTypeOK, LoopState
    <2>4. CASE e = <<>>
        <3>1. /\ metrics' \in [Counters -> Nat]
              /\ metrics'.success = metrics.success + 1 /\ metrics'.errors = metrics.errors
              /\ metrics'.errorsNotRetryable = metrics.errorsNotRetryable
              /\ metrics'.errorsFinal = metrics.errorsFinal /\ metrics'.retries = metrics.retries
            BY <1>5, <2>4, <2>2, CountStep DEF FnReturns
        <3>2. /\ rpc' = "done" /\ err' = e /\ attempt' = attempt + 1 /\ opts' = opts
              /\ result' = e /\ i' = i
            BY <1>5, <2>4 DEF FnReturns, Finish
        <3>3. RetryTypeOK' BY <2>1, <2>3, <3>1, <3>2 DEF RetryTypeOK
        <3>4. LoopState' BY <3>2 DEF LoopState
        <3>5. /\ attempt' = metrics'.success + metrics'.errors + metrics'.errorsNotRetryable
              /\ metrics'.success + metrics'.errorsNotRetryable <= 1
              /\ metrics'.success = 1 /\ metrics'.errorsFinal # 1
              /\ metrics'.retries = attempt' - 1 /\ attempt' # 0
              /\ ~opts'.forever => attempt' <= opts'.maxRetries + 1
            BY <2>3, <3>1, <3>2
        <3>6. result' = <<>> BY <2>4, <3>2
        <3>7. Outcome' BY <3>2, <3>5, <3>6 DEF Outcome
        <3> QED BY <3>3, <3>4, <3>7 DEF RetryInv
    <2>5. CASE e # <<>> /\ IsNonRetryableError(e)
        <3>1. /\ metrics' \in [Counters -> Nat]
              /\ metrics'.success = metrics.success /\ metrics'.errors = metrics.errors
              /\ metrics'.errorsNotRetryable = metrics.errorsNotRetryable + 1
              /\ metrics'.errorsFinal = metrics.errorsFinal /\ metrics'.retries = metrics.retries
            BY <1>5, <2>5, <2>2, CountStep DEF FnReturns
        <3>2. /\ rpc' = "done" /\ err' = e /\ attempt' = attempt + 1 /\ opts' = opts
              /\ result' = e /\ i' = i
            BY <1>5, <2>5 DEF FnReturns, Finish
        <3>3. RetryTypeOK' BY <2>1, <2>3, <3>1, <3>2 DEF RetryTypeOK
        <3>4. LoopState' BY <3>2 DEF LoopState
        <3>5. /\ attempt' = metrics'.success + metrics'.errors + metrics'.errorsNotRetryable
              /\ metrics'.success + metrics'.errorsNotRetryable <= 1
              /\ metrics'.success # 1 /\ metrics'.errorsFinal # 1
              /\ metrics'.retries = attempt' - 1 /\ attempt' # 0
              /\ ~opts'.forever => attempt' <= opts'.maxRetries + 1
            BY <2>3, <3>1, <3>2
        <3>6. result' # <<>> /\ IsNonRetryableError(err') BY <2>5, <3>2
        <3>7. Outcome' BY <3>2, <3>5, <3>6 DEF Outcome
        <3> QED BY <3>3, <3>4, <3>7 DEF RetryInv
    <2>6. CASE e # <<>> /\ ~IsNonRetryableError(e)
        <3>1. /\ metrics' \in [Counters -> Nat]
              /\ metrics'.success = metrics.success /\ metrics'.errors = metrics.errors + 1
              /\ metrics'.errorsNotRetryable = metrics.errorsNotRetryable
              /\ metrics'.errorsFinal = metrics.errorsFinal /\ metrics'.retries = metrics.retries
            BY <1>5, <2>6, <2>2, CountStep DEF FnReturns
        <3>2. /\ rpc' = "failed" /\ err' = e /\ attempt' = attempt + 1 /\ opts' = opts
              /\ i' = IF attempt = 0 THEN 1 ELSE i + 1
            BY <1>5, <2>6 DEF FnReturns
        <3>3. i' = attempt + 1
            <4>1. CASE attempt = 0 BY <3>2, <4>1
            <4>2. CASE attempt # 0
                <5>1. i' = i + 1 BY <3>2, <4>2, Zenon
                <5> QED BY <2>3, <4>2, <5>1
            <4> QED BY <4>1, <4>2
        <3>4. RetryTypeOK' BY <2>1, <2>3, <3>1, <3>2, <3>3 DEF RetryTypeOK
        <3>5. /\ attempt' >= 1 /\ metrics'.retries = attempt' - 1 /\ i' = attempt'
              /\ opts'.forever \/ attempt' <= opts'.maxRetries + 1
              /\ metrics'.success = 0 /\ metrics'.errorsNotRetryable = 0
              /\ metrics'.errorsFinal = 0 /\ attempt' = metrics'.errors
            BY <2>3, <3>1, <3>2, <3>3
        <3>6. err' # <<>> /\ ~IsNonRetryableError(err') BY <2>6, <3>2
        <3>7. LoopState' BY <3>2, <3>5, <3>6 DEF LoopState
        <3>8. attempt' \in Nat BY <2>3, <3>2
        <3>9. Outcome' BY <3>2, <3>5, <3>8 DEF Outcome
        <3> QED BY <3>4, <3>7, <3>9 DEF RetryInv
    <2> QED BY <2>4, <2>5, <2>6
<1>6. CASE UNCHANGED retryVars BY <1>6 DEF retryVars, RetryInv, RetryTypeOK, LoopState, Outcome
<1> QED BY <1>1, <1>2, <1>3, <1>4, <1>5, <1>6 DEF RetryNext, RetryStep, FnStep

\* The metrics of an attempt agree with the calls made, success and an error
\* with a non-retryable layer at any depth are the last call, and a retrier
\* makes one call more than its maximum of retries at most, for any options,
\* errors and condition.
THEOREM AttemptsAreAccounted == RetrySpec => []AttemptsAccounted
<1>1. RetryInv => AttemptsAccounted
    <2> SUFFICES ASSUME RetryInv PROVE AttemptsAccounted
        OBVIOUS
    <2>1. ASSUME NEW n \in DOMAIN err, err[n] = "nonRetryable" /\ n < Len(err), rpc # "done" PROVE FALSE
        <3>1. err \in Error /\ n \in 1 .. Len(err) - 1 /\ "nonRetryable" \in Layer
            BY <2>1 DEF RetryInv, RetryTypeOK, Error, Layer
        <3>2. IsNonRetryableError(err) BY <2>1, <3>1, LayerFound, Zenon DEF IsNonRetryableError
        <3> QED BY <2>1, <3>2 DEF RetryInv, LoopState
    <2> QED BY <2>1 DEF RetryInv, Outcome, AttemptsAccounted
<1> QED BY RetryInitInv, RetryStepInv, <1>1, PTL DEF RetrySpec

\* The exponentials of options o are fractions.
PowersOK(o) ==
    /\ o.initialBackoff \in Nat /\ o.maxBackoff \in Nat
    /\ \A n \in 1 .. MaxAttempts : Exponential(o, n) \in Nat \X (Nat \ {0})

BackoffInv == RetryInv /\ PowersOK(opts) /\ BackoffInRange

\* A backoff that is drawn is in range.
LEMMA BackoffNanosInRange ==
    ASSUME RetryInv, PowersOK(opts), NEW n \in 1 .. MaxAttempts, NEW b \in BackoffNanos(n),
           NEW x, x = Exponential(opts, n)
    PROVE  /\ b <= opts.maxBackoff
           /\ RoundsToLimit(n) \/ b >= opts.maxBackoff \/ 2 * b + 1 >= x[1] \div x[2]
<1>1. PICK m \in Nat : m = opts.maxBackoff BY DEF PowersOK
<1>2. PICK u \in Nat, v \in Nat \ {0} : x = <<u, v>>
    <2>1. x \in Nat \X (Nat \ {0}) BY DEF PowersOK
    <2> QED BY <2>1
<1>3. PICK w \in Int : w = MaxInt64
    <2>1. PICK h \in Nat : h = 2 ^ (IntWidth - 1) BY BackoffAssumption
    <2>2. h - 1 \in Int OBVIOUS
    <2> QED BY <2>1, <2>2 DEF MaxInt64
<1>4. PICK d \in Nat : d = u \div v
    <2>1. u \div v \in Nat OBVIOUS
    <2> QED BY <2>1
<1>5. x[1] = u /\ x[2] = v BY <1>2
<1>8. RoundsToLimit(n) <=> u = (w + 1) * v BY <1>3, <1>5 DEF RoundsToLimit
<1> DEFINE converted == IF u = (w + 1) * v THEN {w, -w - 1} ELSE {d}
           Jittered(c) == IF opts.jitter /\ c >= 2 THEN c \div 2 .. 2 * (c \div 2) - 1 ELSE {c}
           Capped(c) == IF c > m THEN m ELSE c
<1>6. CASE u > (w + 1) * v
    <2>1. b = opts.maxBackoff BY <1>3, <1>5, <1>6 DEF BackoffNanos
    <2> QED BY <1>1, <2>1
<1>7. CASE ~(u > (w + 1) * v)
    <2>1. PICK c \in converted : \E j \in Jittered(c) : b = Capped(j)
        <3>1. b \in {Capped(j) : j \in UNION {Jittered(c) : c \in converted}}
            BY <1>1, <1>3, <1>4, <1>5, <1>7, <1>8 DEF BackoffNanos
        <3> QED BY <3>1, Zenon
    <2>2. PICK j \in Jittered(c) : b = Capped(j) BY <2>1, Zenon
    <2>3. c \in Int /\ (u # (w + 1) * v => c = d) OBVIOUS
    <2>4. j \in Int /\ (c \in Nat => 2 * j + 1 >= c)
        <3> HIDE DEF converted
        <3> QED BY <2>3
    <2>5. b \in Int /\ b <= m /\ (b = m \/ b = j) BY <2>2, <2>4
    <2>6. u = (w + 1) * v \/ b >= m \/ 2 * b + 1 >= d BY <2>3, <2>4, <2>5
    <2> QED BY <1>1, <1>4, <1>5, <1>8, <2>5, <2>6
<1> QED BY <1>6, <1>7

LEMMA BackoffInitInv == RetryInit => BackoffInv
<1> SUFFICES ASSUME RetryInit PROVE BackoffInv
    OBVIOUS
<1>1. PICK c \in RetryConfig : opts = ConfigOptions(c) BY DEF RetryInit
<1>2. PowersOK(opts) BY <1>1, BackoffAssumption, Zenon DEF PowersOK
<1>3. BackoffInRange BY DEF RetryInit, BackoffInRange
<1> QED BY <1>2, <1>3, RetryInitInv DEF BackoffInv

LEMMA BackoffStepInv == BackoffInv /\ [RetryNext]_retryVars => BackoffInv'
<1> SUFFICES ASSUME BackoffInv, [RetryNext]_retryVars PROVE BackoffInv'
    OBVIOUS
<1>1. RetryInv' BY RetryStepInv DEF BackoffInv
<1>2. opts' = opts
    BY DEF RetryNext, RetryStep, FnStep, ContinueFalse, CallFn, FnReturns, Sleep, GiveUp, retryVars
<1>3. PowersOK(opts)' BY <1>2 DEF BackoffInv, PowersOK
<1>4. ASSUME NEW b \in BackoffNanos(i), Sleep(b) PROVE BackoffInRange'
    <2>1. slept' = b /\ i' = i /\ i \in 1 .. MaxAttempts
        BY <1>4, RetryAssumption DEF BackoffInv, RetryInv, RetryTypeOK, LoopState, Sleep
    <2>2. PICK x : x = Exponential(opts, i) OBVIOUS
    <2>3. /\ b <= opts.maxBackoff
          /\ RoundsToLimit(i) \/ b >= opts.maxBackoff \/ 2 * b + 1 >= x[1] \div x[2]
        BY <2>1, <2>2, BackoffNanosInRange DEF BackoffInv
    <2>4. Exponential(opts, i)' = x BY <1>2, <2>1, <2>2
    <2>5. RoundsToLimit(i)' = RoundsToLimit(i) BY <1>2, <2>1 DEF RoundsToLimit
    <2> QED BY <1>2, <2>1, <2>3, <2>4, <2>5 DEF BackoffInRange
<1>5. ASSUME UNCHANGED retryVars PROVE BackoffInRange'
    BY <1>5 DEF BackoffInv, BackoffInRange, retryVars, Exponential, RoundsToLimit
<1>6. ASSUME rpc' # "slept" PROVE BackoffInRange' BY <1>6 DEF BackoffInRange
<1>7. ASSUME NEW e, FnReturns(e) PROVE rpc' # "slept" BY <1>7 DEF FnReturns, Finish
<1>8. ASSUME ContinueFalse \/ CallFn \/ GiveUp PROVE rpc' # "slept"
    BY <1>8 DEF ContinueFalse, CallFn, GiveUp, Finish
<1>9. BackoffInRange' BY <1>4, <1>5, <1>6, <1>7, <1>8, Zenon DEF RetryNext, RetryStep, FnStep
<1> QED BY <1>1, <1>3, <1>9 DEF BackoffInv

\* The time slept before a retry is at most the maximum, and at least half of
\* the exponential as it is computed or the maximum, jittered or not, for any
\* options and any precision, unless the exponential is rounded to the first
\* number out of range, 2^63: of that case only the maximum is claimed.
THEOREM BackoffsAreInRange == RetrySpec => []BackoffInRange
<1>1. BackoffInv => BackoffInRange BY DEF BackoffInv
<1> QED BY BackoffInitInv, BackoffStepInv, <1>1, PTL DEF RetrySpec

-----------------------------------------------------------------------------
(* Debugger.                                                               *)

\* The entries of the cycles, one cycle at least.
Kept == IF entries = <<>> THEN << <<>> >> ELSE entries

\* No entry is in two cycles es, and none of them is in the pool.
InOneCycle(es) ==
    \A c, d \in 1 .. Len(es) : \A k \in 1 .. Len(es[c]), l \in 1 .. Len(es[d]) :
        es[c][k] = es[d][l] => c = d
NotPooled(es, pool) == \A c \in 1 .. Len(es) : \A k \in 1 .. Len(es[c]) : es[c][k] \notin pool

\* The cycle es of entries holds the events of cs.
Holds(es, cs, event) == Len(es) = Len(cs) /\ \A k \in 1 .. Len(es) : event[es[k]] = cs[k]

\* The cycles es are the last of cs, as many as are kept.
HoldsLast(es, cs, event) ==
    /\ Len(es) >= 1 /\ Len(es) <= tracebackCycles /\ Len(es) <= Len(cs)
    /\ Len(es) < tracebackCycles => Len(es) = Len(cs)
    /\ \A c \in 1 .. Len(es) : Holds(es[c], cs[Len(cs) - Len(es) + c], event)

TraceTypeOK ==
    /\ entries \in Seq(Seq(Entry)) /\ entryPool \subseteq Entry
    /\ \E S : cycles \in Seq(Seq(S)) /\ entryEvent \in [Entry -> S]

TraceInv ==
    /\ TraceTypeOK
    /\ InOneCycle(Kept) /\ NotPooled(Kept, entryPool) /\ HoldsLast(Kept, cycles, entryEvent)

LEMMA TraceInitInv == DebuggerInit => TraceInv
<1> SUFFICES ASSUME DebuggerInit PROVE TraceInv
    OBVIOUS
<1> USE DebuggerAssumption DEF DebuggerInit
<1>1. TraceTypeOK
    <2>1. << <<>> >> \in Seq(Seq(Nat)) /\ [e \in Entry |-> 0] \in [Entry -> Nat] OBVIOUS
    <2>2. entries \in Seq(Seq(Entry)) /\ entryPool \subseteq Entry OBVIOUS
    <2>3. cycles \in Seq(Seq(Nat)) /\ entryEvent \in [Entry -> Nat] BY <2>1
    <2> HIDE DEF DebuggerInit
    <2> QED BY <2>2, <2>3, Zenon DEF TraceTypeOK
<1>2. PICK one : one = << <<>> >> OBVIOUS
<1>3. Kept = one /\ cycles = one BY <1>2 DEF Kept
<1>4. Len(one) = 1 /\ one[1] = <<>> /\ Len(one[1]) = 0 BY <1>2
<1>5. InOneCycle(one) BY <1>4 DEF InOneCycle
<1>6. NotPooled(one, entryPool) BY <1>4 DEF NotPooled
<1>7. HoldsLast(one, one, entryEvent) BY <1>4 DEF HoldsLast, Holds
<1> QED BY <1>1, <1>3, <1>5, <1>6, <1>7 DEF TraceInv

\* Of the last m of z, c is one.
LEMMA LastIndex ==
    ASSUME NEW m \in Nat, NEW z \in Nat, m <= z, NEW c \in 1 .. m
    PROVE  z - m + c \in 1 .. z /\ (z - m + c = z <=> c = m)
OBVIOUS

\* The sequences s with x at the end of the last one.
LastWith(s, x) == [s EXCEPT ![Len(s)] = Append(@, x)]

\* The cycles es hold the last of the events cs.
EventIn(es, cs, event, pool, S) ==
    /\ es \in Seq(Seq(Entry)) /\ cs \in Seq(Seq(S)) /\ event \in [Entry -> S] /\ pool \in SUBSET Entry
    /\ InOneCycle(es) /\ NotPooled(es, pool) /\ HoldsLast(es, cs, event)

\* An event goes to the end of the last cycle, in an entry from the pool.
LEMMA EventHeld ==
    ASSUME NEW S, NEW es \in Seq(Seq(Entry)), NEW cs \in Seq(Seq(S)), NEW event \in [Entry -> S],
           NEW pool \in SUBSET Entry, NEW e \in pool, NEW n \in S,
           InOneCycle(es), NotPooled(es, pool), HoldsLast(es, cs, event)
    PROVE  EventIn(LastWith(es, e), LastWith(cs, n), [event EXCEPT ![e] = n], pool \ {e}, S)
<1>0. PICK es2, cs2, event2 :
        /\ es2 = [es EXCEPT ![Len(es)] = Append(@, e)] /\ es2 = LastWith(es, e)
        /\ cs2 = [cs EXCEPT ![Len(cs)] = Append(@, n)] /\ cs2 = LastWith(cs, n)
        /\ event2 = [event EXCEPT ![e] = n]
    BY DEF LastWith
<1>1. PICK m \in Nat \ {0}, z \in Nat \ {0} : m = Len(es) /\ z = Len(cs) /\ m <= z
    BY DEF HoldsLast
<1>2. PICK a, b : a = Append(es[m], e) /\ b = Append(cs[z], n) OBVIOUS
<1>3. /\ es[m] \in Seq(Entry) /\ cs[z] \in Seq(S)
      /\ \A c \in 1 .. m : es[c] \in Seq(Entry)
    BY <1>1
<1>4. /\ a \in Seq(Entry) /\ Len(a) = Len(es[m]) + 1 /\ a[Len(a)] = e
      /\ \A k \in 1 .. Len(es[m]) : a[k] = es[m][k]
    <2>1. PICK q \in Seq(Entry) : q = es[m] BY <1>3
    <2>2. a = Append(q, e) BY <1>2, <2>1
    <2>3. /\ a \in Seq(Entry) /\ Len(a) = Len(q) + 1 /\ a[Len(q) + 1] = e
          /\ \A k \in 1 .. Len(q) : a[k] = q[k]
        BY <2>2, AppendProperties
    <2> QED BY <2>1, <2>3
<1>5. /\ b \in Seq(S) /\ Len(b) = Len(cs[z]) + 1 /\ b[Len(b)] = n
      /\ \A k \in 1 .. Len(cs[z]) : b[k] = cs[z][k]
    <2>1. PICK q \in Seq(S) : q = cs[z] BY <1>3
    <2>2. b = Append(q, n) BY <1>2, <2>1
    <2>3. /\ b \in Seq(S) /\ Len(b) = Len(q) + 1 /\ b[Len(q) + 1] = n
          /\ \A k \in 1 .. Len(q) : b[k] = q[k]
        BY <2>2, AppendProperties
    <2> QED BY <2>1, <2>3
<1>6. /\ es2 \in Seq(Seq(Entry)) /\ Len(es2) = m /\ es2[m] = a
      /\ \A c \in 1 .. m : c # m => es2[c] = es[c]
    <2>1. PICK T : T = Seq(Entry) OBVIOUS
    <2>2. es \in Seq(T) /\ a \in T /\ m \in 1 .. Len(es) BY <1>1, <1>4, <2>1
    <2>3. es2 = [es EXCEPT ![m] = a] BY <1>0, <1>1, <1>2
    <2> QED BY <1>1, <2>1, <2>2, <2>3, ExceptSeq
<1>7. /\ cs2 \in Seq(Seq(S)) /\ Len(cs2) = z /\ cs2[z] = b
      /\ \A c \in 1 .. z : c # z => cs2[c] = cs[c]
    <2>1. PICK T : T = Seq(S) OBVIOUS
    <2>2. cs \in Seq(T) /\ b \in T /\ z \in 1 .. Len(cs) BY <1>1, <1>5, <2>1
    <2>3. cs2 = [cs EXCEPT ![z] = b] BY <1>0, <1>1, <1>2
    <2> QED BY <1>1, <2>1, <2>2, <2>3, ExceptSeq
<1>8. \A c \in 1 .. m : \A k \in 1 .. Len(es[c]) : es[c][k] # e /\ es[c][k] \in Entry
    BY <1>1, <1>3 DEF NotPooled
<1>9. /\ event2 \in [Entry -> S] /\ event2[e] = n
      /\ \A x \in Entry : x # e => event2[x] = event[x]
    BY <1>0
<1>10. \A c \in 1 .. m : \A k \in 1 .. Len(es2[c]) :
         \/ es2[c][k] = e /\ c = m
         \/ k \in 1 .. Len(es[c]) /\ es2[c][k] = es[c][k]
    <2> SUFFICES ASSUME NEW c \in 1 .. m, NEW k \in 1 .. Len(es2[c])
                 PROVE  \/ es2[c][k] = e /\ c = m
                        \/ k \in 1 .. Len(es[c]) /\ es2[c][k] = es[c][k]
        OBVIOUS
    <2>1. CASE c = m
        <3>1. k \in 1 .. Len(a) /\ es2[c][k] = a[k] BY <1>6, <2>1
        <3>2. Len(es[m]) \in Nat BY <1>3
        <3>3. k \in 1 .. Len(es[m]) \/ k = Len(a) BY <1>4, <3>1, <3>2
        <3> QED BY <1>4, <2>1, <3>1, <3>3
    <2>2. CASE c # m BY <1>6, <2>2
    <2> QED BY <2>1, <2>2
<1>11. InOneCycle(es2)
    <2> SUFFICES ASSUME NEW c \in 1 .. m, NEW d \in 1 .. m, NEW k \in 1 .. Len(es2[c]),
                        NEW l \in 1 .. Len(es2[d]), es2[c][k] = es2[d][l]
                 PROVE  c = d
        BY <1>6 DEF InOneCycle
    <2>1. CASE es2[c][k] = e
        <3>1. c = m BY <1>8, <1>10, <2>1, Zenon
        <3>2. d = m
            <4>1. es2[d][l] = e BY <2>1
            <4> QED BY <1>8, <1>10, <4>1, Zenon
        <3> QED BY <3>1, <3>2
    <2>2. CASE es2[c][k] # e
        <3>1. k \in 1 .. Len(es[c]) /\ es2[c][k] = es[c][k] BY <1>10, <2>2
        <3>2. l \in 1 .. Len(es[d]) /\ es2[d][l] = es[d][l] BY <1>10, <2>2
        <3> QED BY <1>1, <3>1, <3>2, Zenon DEF InOneCycle
    <2> QED BY <2>1, <2>2
<1>12. NotPooled(es2, pool \ {e})
    <2> SUFFICES ASSUME NEW c \in 1 .. m, NEW k \in 1 .. Len(es2[c]) PROVE es2[c][k] \notin pool \ {e}
        BY <1>6 DEF NotPooled
    <2> QED BY <1>1, <1>10 DEF NotPooled
<1>13. HoldsLast(es2, cs2, event2)
    <2>1. ASSUME NEW c \in 1 .. m PROVE Holds(es2[c], cs2[z - m + c], event2)
        <3>1. PICK d \in 1 .. z : d = z - m + c /\ (d = z <=> c = m) 
            <4>1. z - m + c \in 1 .. z /\ (z - m + c = z <=> c = m)
                <5>1. m \in Nat /\ z \in Nat /\ m <= z BY <1>1
                <5> QED BY <5>1, LastIndex, Zenon
            <4> QED BY <4>1
        <3>2. Holds(es[c], cs[d], event) BY <1>1, <3>1 DEF HoldsLast
        <3>3. \A k \in 1 .. Len(es[c]) : event2[es[c][k]] = cs[d][k]
            BY <1>8, <1>9, <3>2 DEF Holds
        <3>4. CASE c # m BY <1>6, <1>7, <3>1, <3>2, <3>3, <3>4 DEF Holds
        <3>5. CASE c = m
            <4>1. d = z /\ es2[c] = a /\ cs2[d] = b BY <1>6, <1>7, <3>1, <3>5
            <4>2. PICK j \in Nat : j = Len(es[m]) /\ j = Len(cs[z]) BY <1>3, <3>2, <3>5, <4>1 DEF Holds
            <4>3. Len(a) = j + 1 /\ Len(b) = j + 1 /\ a[j + 1] = e /\ b[j + 1] = n BY <1>4, <1>5, <4>2
            <4>4. \A k \in 1 .. j : event2[a[k]] = b[k] BY <1>4, <1>5, <3>3, <3>5, <4>1, <4>2
            <4>5. \A k \in 1 .. j + 1 : event2[a[k]] = b[k] BY <1>9, <4>3, <4>4
            <4> QED BY <3>1, <4>1, <4>3, <4>5 DEF Holds
        <3> QED BY <3>4, <3>5
    <2> QED BY <1>1, <1>6, <1>7, <2>1 DEF HoldsLast
<1> QED BY <1>0, <1>6, <1>7, <1>9, <1>11, <1>12, <1>13 DEF EventIn

\* A cycle has ended and another begins, the oldest one leaves if there are
\* as many as are kept.
LEMMA CycleHeld ==
    ASSUME NEW S, NEW es \in Seq(Seq(Entry)), NEW cs \in Seq(Seq(S)), NEW event \in [Entry -> S],
           NEW pool \in SUBSET Entry, EventIn(es, cs, event, pool, S)
    PROVE  EventIn(NextCycle(es), Append(cs, <<>>), event,
                   pool \cup IF Len(es) = tracebackCycles THEN SX!ToSet(Head(es)) ELSE {}, S)
<1>0. InOneCycle(es) /\ NotPooled(es, pool) /\ HoldsLast(es, cs, event) BY DEF EventIn
<1>a. PICK es2, cs2, pool2 :
        /\ es2 = NextCycle(es) /\ cs2 = Append(cs, <<>>)
        /\ pool2 = pool \cup IF Len(es) = tracebackCycles THEN SX!ToSet(Head(es)) ELSE {}
    OBVIOUS
<1>1. PICK m \in Nat \ {0}, z \in Nat \ {0} : m = Len(es) /\ z = Len(cs) /\ m <= z
    BY <1>0 DEF HoldsLast
<1>2. \A c \in 1 .. m : es[c] \in Seq(Entry) BY <1>1
<1>3. /\ cs2 \in Seq(Seq(S)) /\ Len(cs2) = z + 1 /\ cs2[z + 1] = <<>>
      /\ \A c \in 1 .. z : cs2[c] = cs[c]
    <2>1. PICK T : T = Seq(S) OBVIOUS
    <2>2. cs \in Seq(T) /\ <<>> \in T BY <2>1
    <2> QED BY <1>a, <1>1, <2>1, <2>2, AppendProperties
<1>4. PICK none : none = <<>> OBVIOUS
<1>5. none \in Seq(Entry) /\ Len(none) = 0 BY <1>4
\* The cycles es2 are those of es from off + 1 on, and an empty one.
<1>6. PICK off \in {0, 1} :
        /\ off = 1 <=> m = tracebackCycles
        /\ es2 \in Seq(Seq(Entry)) /\ Len(es2) = m - off + 1 /\ es2[m - off + 1] = none
        /\ \A c \in 1 .. m - off : es2[c] = es[c + off]
    <2>1. PICK T : T = Seq(Entry) OBVIOUS
    <2>2. es \in Seq(T) /\ none \in T BY <1>5, <2>1
    <2>3. CASE m = tracebackCycles
        <3>1. es2 = Append(Tail(es), none) BY <1>a, <1>1, <1>4, <2>3 DEF NextCycle
        <3>2. es # <<>> BY <1>1
        <3>3. PICK t \in Seq(T) : t = Tail(es) /\ Len(t) = m - 1 /\ \A c \in 1 .. m - 1 : t[c] = es[c + 1]
            <4>1. Tail(es) \in Seq(T) /\ Len(Tail(es)) = m - 1 /\ \A c \in 1 .. Len(Tail(es)) : Tail(es)[c] = es[c + 1]
                BY <1>1, <2>2, <3>2, HeadTailProperties
            <4> QED BY <4>1
        <3>4. /\ es2 \in Seq(T) /\ Len(es2) = m /\ es2[m] = none
              /\ \A c \in 1 .. m - 1 : es2[c] = t[c]
            <4>1. es2 = Append(t, none) /\ Len(t) + 1 = m BY <3>1, <3>3
            <4> QED BY <2>2, <3>3, <4>1, AppendProperties
        <3>5. m - 1 + 1 = m BY <1>1
        <3>6. \A c \in 1 .. m - 1 : es2[c] = es[c + 1] BY <3>3, <3>4
        <3> QED BY <2>1, <2>3, <3>4, <3>5, <3>6
    <2>4. CASE m # tracebackCycles
        <3>1. es2 = Append(es, none) BY <1>a, <1>1, <1>4, <2>4 DEF NextCycle
        <3>2. /\ es2 \in Seq(T) /\ Len(es2) = m + 1 /\ es2[m + 1] = none
              /\ \A c \in 1 .. m : es2[c] = es[c]
            BY <1>1, <2>2, <3>1, AppendProperties
        <3>3. m - 0 = m /\ \A c \in 1 .. m : c + 0 = c OBVIOUS
        <3> QED BY <2>1, <2>4, <3>2, <3>3
    <2> QED BY <2>3, <2>4
<1>7. \A c \in 1 .. m - off + 1 :
        \/ es2[c] = none
        \/ c + off \in 1 .. m /\ es2[c] = es[c + off]
    <2> SUFFICES ASSUME NEW c \in 1 .. m - off + 1, c # m - off + 1
                 PROVE  c + off \in 1 .. m /\ es2[c] = es[c + off]
        BY <1>6
    <2>1. c \in 1 .. m - off /\ c + off \in 1 .. m OBVIOUS
    <2> QED BY <1>6, <2>1
<1>8. \A x \in pool2 : x \in pool \/ (off = 1 /\ \E k \in 1 .. Len(es[1]) : x = es[1][k])
    <2>1. Head(es) = es[1] /\ es[1] \in Seq(Entry) BY <1>1, <1>2
    <2>2. DOMAIN es[1] = 1 .. Len(es[1]) BY <2>1
    <2>3. SX!ToSet(es[1]) = {es[1][k] : k \in 1 .. Len(es[1])} BY <2>2 DEF SX!ToSet
    <2>4. CASE m = tracebackCycles
        <3>1. pool2 = pool \cup {es[1][k] : k \in 1 .. Len(es[1])} BY <1>a, <1>1, <2>1, <2>3, <2>4
        <3> QED BY <1>6, <2>4, <3>1, Zenon
    <2>5. CASE m # tracebackCycles
        <3>1. pool2 = pool BY <1>a, <1>1, <2>5
        <3> QED BY <3>1
    <2> QED BY <2>4, <2>5
<1>9. pool2 \in SUBSET Entry
    <2>1. es[1] \in Seq(Entry) BY <1>1, <1>2
    <2>2. \A k \in 1 .. Len(es[1]) : es[1][k] \in Entry BY <2>1
    <2> QED BY <1>8, <2>2
<1>10. InOneCycle(es2)
    <2> SUFFICES ASSUME NEW c \in 1 .. m - off + 1, NEW d \in 1 .. m - off + 1, NEW k \in 1 .. Len(es2[c]),
                        NEW l \in 1 .. Len(es2[d]), es2[c][k] = es2[d][l]
                 PROVE  c = d
        BY <1>6 DEF InOneCycle
    <2>0. es2[c] # none /\ es2[d] # none
        <3>1. 1 .. Len(none) = {} BY <1>5
        <3> QED BY <3>1
    <2>1. c + off \in 1 .. m /\ es2[c] = es[c + off] BY <1>7, <2>0, Zenon
    <2>2. d + off \in 1 .. m /\ es2[d] = es[d + off] BY <1>7, <2>0, Zenon
    <2>3. /\ c + off \in 1 .. Len(es) /\ d + off \in 1 .. Len(es)
          /\ k \in 1 .. Len(es[c + off]) /\ l \in 1 .. Len(es[d + off])
          /\ es[c + off][k] = es[d + off][l]
        BY <1>1, <2>1, <2>2
    <2>4. c + off = d + off BY <1>0, <2>3, Zenon DEF InOneCycle
    <2> QED BY <2>4
<1>11. NotPooled(es2, pool2)
    <2> SUFFICES ASSUME NEW c \in 1 .. m - off + 1, NEW k \in 1 .. Len(es2[c]), es2[c][k] \in pool2
                 PROVE  FALSE
        BY <1>6 DEF NotPooled
    <2>1. c + off \in 1 .. m /\ es2[c] = es[c + off] BY <1>5, <1>7
    <2>2. es2[c][k] \notin pool BY <1>0, <1>1, <2>1 DEF NotPooled
    <2>3. PICK l \in 1 .. Len(es[1]) : es[c + off][k] = es[1][l] /\ off = 1 BY <1>8, <2>1, <2>2
    <2>4. 1 \in 1 .. m BY <1>1
    <2>5. c + off = 1 BY <1>0, <1>1, <2>1, <2>3, <2>4, Zenon DEF InOneCycle
    <2> QED BY <2>3, <2>5
<1>12. HoldsLast(es2, cs2, event)
    <2>1. /\ Len(es2) >= 1 /\ Len(es2) <= tracebackCycles /\ Len(es2) <= Len(cs2)
          /\ Len(es2) < tracebackCycles => Len(es2) = Len(cs2)
        <3>1. m <= tracebackCycles /\ (m < tracebackCycles => m = z) BY <1>0, <1>1 DEF HoldsLast
        <3>2. tracebackCycles \in Nat \ {0} BY DebuggerAssumption
        <3>3. PICK p, q : p = Len(es2) /\ q = Len(cs2) OBVIOUS
        <3>4. p = m - off + 1 /\ q = z + 1 BY <1>3, <1>6, <3>3
        <3>5. off = 1 <=> m = tracebackCycles BY <1>6
        <3>6. p >= 1 /\ p <= tracebackCycles /\ p <= q /\ (p < tracebackCycles => p = q)
            <4>1. CASE m = tracebackCycles BY <1>1, <3>2, <3>4, <3>5, <4>1
            <4>2. CASE m # tracebackCycles BY <1>1, <3>1, <3>2, <3>4, <3>5, <4>2
            <4> QED BY <4>1, <4>2
        <3> QED BY <3>3, <3>6
    <2>2. ASSUME NEW c \in 1 .. m - off + 1 PROVE Holds(es2[c], cs2[(z + 1) - (m - off + 1) + c], event)
        <3>1. CASE c = m - off + 1
            <4>1. (z + 1) - (m - off + 1) + c = z + 1 BY <3>1
            <4>2. es2[c] = none /\ cs2[z + 1] = none BY <1>3, <1>4, <1>6, <3>1
            <4>3. Holds(none, none, event) BY <1>5 DEF Holds
            <4> QED BY <4>1, <4>2, <4>3
        <3>2. CASE c # m - off + 1
            <4>1. c \in 1 .. m - off /\ c + off \in 1 .. m /\ z - m + (c + off) \in 1 .. z
                <5>1. c \in 1 .. m - off /\ c + off \in 1 .. m BY <3>2
                <5> QED BY <1>1, <5>1, LastIndex
            <4>2. (z + 1) - (m - off + 1) + c = z - m + (c + off) OBVIOUS
            <4>3. Holds(es[c + off], cs[z - m + (c + off)], event) BY <1>0, <1>1, <4>1 DEF HoldsLast
            <4> QED BY <1>3, <1>6, <4>1, <4>2, <4>3
        <3> QED BY <3>1, <3>2
    <2> QED BY <1>3, <1>6, <2>1, <2>2 DEF HoldsLast
<1> QED BY <1>a, <1>3, <1>6, <1>9, <1>10, <1>11, <1>12 DEF EventIn

LEMMA TraceNextInv == TraceInv /\ [DebuggerNext]_debuggerVars => TraceInv'
<1> SUFFICES ASSUME TraceInv, [DebuggerNext]_debuggerVars PROVE TraceInv'
    OBVIOUS
<1>1. CASE UNCHANGED debuggerVars
    BY <1>1 DEF TraceInv, TraceTypeOK, Kept, debuggerVars
<1>2. ASSUME NEW final \in BOOLEAN, append(final) PROVE TraceInv'
    <2>1. PICK n : n = EventCount + 1 OBVIOUS
    <2>2. PICK e \in entryPool : \E cur, c :
            /\ cur = [Kept EXCEPT ![Len(Kept)] = Append(@, e)]
            /\ c = [cycles EXCEPT ![Len(cycles)] = Append(@, n)]
            /\ entryEvent' = [entryEvent EXCEPT ![e] = n]
            /\ entries' = IF final THEN NextCycle(cur) ELSE cur
            /\ entryPool' = (entryPool \ {e}) \cup
                   IF final /\ Len(cur) = tracebackCycles THEN SX!ToSet(Head(cur)) ELSE {}
            /\ cycles' = IF final THEN Append(c, <<>>) ELSE c
        BY <1>2, <2>1, Zenon DEF append, Kept
    <2>3. PICK cur, c :
            /\ cur = [Kept EXCEPT ![Len(Kept)] = Append(@, e)]
            /\ c = [cycles EXCEPT ![Len(cycles)] = Append(@, n)]
            /\ entryEvent' = [entryEvent EXCEPT ![e] = n]
            /\ entries' = IF final THEN NextCycle(cur) ELSE cur
            /\ entryPool' = (entryPool \ {e}) \cup
                   IF final /\ Len(cur) = tracebackCycles THEN SX!ToSet(Head(cur)) ELSE {}
            /\ cycles' = IF final THEN Append(c, <<>>) ELSE c
        BY <2>2, Zenon
    <2>4. PICK S0 : cycles \in Seq(Seq(S0)) /\ entryEvent \in [Entry -> S0] BY DEF TraceInv, TraceTypeOK
    <2>5. PICK S : S = S0 \cup {n} OBVIOUS
    <2>6. cycles \in Seq(Seq(S)) /\ entryEvent \in [Entry -> S] /\ n \in S
        <3>1. \A q \in Seq(S0) : q \in Seq(S) BY <2>5
        <3>2. PICK T0, T : T0 = Seq(S0) /\ T = Seq(S) OBVIOUS
        <3>3. T0 \subseteq T /\ cycles \in Seq(T0) BY <2>4, <3>1, <3>2
        <3>4. cycles \in Seq(T) BY <3>3
        <3>5. entryEvent \in [Entry -> S] /\ n \in S BY <2>4, <2>5
        <3> QED BY <3>2, <3>4, <3>5
    <2>7. Kept \in Seq(Seq(Entry)) BY DEF Kept, TraceInv, TraceTypeOK
    <2>8. PICK pool \in SUBSET Entry : pool = entryPool \ {e} /\ entryPool \in SUBSET Entry
        <3>1. entryPool \in SUBSET Entry /\ entryPool \ {e} \in SUBSET Entry BY DEF TraceInv, TraceTypeOK
        <3> QED BY <3>1
    <2>9. EventIn(cur, c, entryEvent', pool, S)
        <3>1. InOneCycle(Kept) /\ NotPooled(Kept, entryPool) /\ HoldsLast(Kept, cycles, entryEvent)
            BY DEF TraceInv
        <3>2. EventIn(LastWith(Kept, e), LastWith(cycles, n), [entryEvent EXCEPT ![e] = n], entryPool \ {e}, S)
            BY <2>6, <2>7, <2>8, <3>1, EventHeld, Zenon
        <3> QED BY <2>3, <2>8, <3>2, Zenon DEF LastWith
    <2>10. EventIn(entries', cycles', entryEvent', entryPool', S)
        <3>1. CASE ~final
            <4>1. entries' = cur /\ cycles' = c /\ entryPool' = pool BY <2>3, <2>8, <3>1
            <4> QED BY <2>9, <4>1
        <3>2. CASE final
            <4>1. PICK ev : ev = entryEvent' OBVIOUS
            <4>2. EventIn(cur, c, ev, pool, S) BY <2>9, <4>1
            <4>3. cur \in Seq(Seq(Entry)) /\ c \in Seq(Seq(S)) /\ ev \in [Entry -> S]
                BY <4>2 DEF EventIn
            <4>4. EventIn(NextCycle(cur), Append(c, <<>>), ev,
                          pool \cup IF Len(cur) = tracebackCycles THEN SX!ToSet(Head(cur)) ELSE {}, S)
                BY <4>2, <4>3, CycleHeld, Zenon
            <4>5. /\ entries' = NextCycle(cur) /\ cycles' = Append(c, <<>>)
                  /\ entryPool' = pool \cup IF Len(cur) = tracebackCycles THEN SX!ToSet(Head(cur)) ELSE {}
                BY <2>3, <2>8, <3>2
            <4> QED BY <4>1, <4>4, <4>5
        <3> QED BY <3>1, <3>2
    <2>11. TraceTypeOK' BY <2>10, Zenon DEF TraceTypeOK, EventIn
    <2>12. Kept' = entries'
        <3>1. Len(entries') >= 1 BY <2>10 DEF EventIn, HoldsLast
        <3> QED BY <3>1 DEF Kept
    <2> QED BY <2>10, <2>11, <2>12 DEF TraceInv, EventIn
<1> QED BY <1>1, <1>2 DEF DebuggerNext

\* A single cycle without events is flattened to nothing, as no cycle is.
LEMMA FlattenNone == SX!FlattenSeq(<< <<>> >>) = SX!FlattenSeq(<<>>)
<1>1. PICK one : one = << <<>> >> OBVIOUS
<1>2. Len(one) = 1 /\ one[1] = <<>> BY <1>1
<1> DEFINE Step(f) == [j \in 1 .. Len(one) |-> IF j = 1 THEN one[j] ELSE f[j - 1] \o one[j]]
           flatten == CHOOSE f : f = Step(f)
           g == [j \in 1 .. 1 |-> <<>>]
<1>3. g = Step(g) BY <1>2
<1>4. flatten = Step(flatten) BY <1>3, Zenon
<1>5. flatten[1] = one[1] BY <1>2, <1>4
<1>6. SX!FlattenSeq(one) = flatten[Len(one)] BY <1>2 DEF SX!FlattenSeq
<1>7. SX!FlattenSeq(<<>>) = <<>> BY DEF SX!FlattenSeq
<1> HIDE DEF flatten
<1> QED BY <1>1, <1>2, <1>5, <1>6, <1>7

LEMMA TraceInvImplies == TraceInv => TraceIsRecent
<1> SUFFICES ASSUME TraceInv PROVE TraceIsRecent
    OBVIOUS
<1>1. PICK m \in Nat \ {0}, z \in Nat \ {0} : m = Len(Kept) /\ z = Len(cycles) /\ m <= z
    <2>1. Kept \in Seq(Seq(Entry)) BY DEF Kept, TraceInv, TraceTypeOK
    <2>2. Len(cycles) \in Nat BY DEF TraceInv, TraceTypeOK
    <2> QED BY <2>1, <2>2 DEF TraceInv, HoldsLast
<1>2. PICK S : cycles \in Seq(Seq(S)) BY DEF TraceInv, TraceTypeOK
<1>3. PICK first : first = IF z > tracebackCycles THEN z - tracebackCycles + 1 ELSE 1 OBVIOUS
<1>4. first = z - m + 1
    <2>1. m <= tracebackCycles /\ (m < tracebackCycles => m = z) BY <1>1 DEF TraceInv, HoldsLast
    <2> QED BY <1>1, <1>3, <2>1, DebuggerAssumption
<1>a. PICK last : last = SubSeq(cycles, first, z) OBVIOUS
<1>b. last \in Seq(Seq(S)) /\ Len(last) = m /\ \A c \in 1 .. m : last[c] = cycles[z - m + c]
    <2>1. PICK T : T = Seq(S) OBVIOUS
    <2>2. first \in Int /\ z \in Int /\ first <= z /\ z - first + 1 = m BY <1>1, <1>4
    <2>3. cycles \in Seq(T) /\ \A c \in first .. z : cycles[c] \in T BY <1>1, <1>2, <1>4, <2>1
    <2>4. /\ last \in Seq(T) /\ Len(last) = z - first + 1
          /\ \A c \in 1 .. z - first + 1 : last[c] = cycles[first + c - 1]
        BY <1>a, <2>2, <2>3, SubSeqProperties
    <2>5. \A c \in 1 .. m : first + c - 1 = z - m + c BY <1>4
    <2> QED BY <2>1, <2>2, <2>4, <2>5
<1>5. PICK shown : shown = [c \in DOMAIN entries |-> [k \in DOMAIN entries[c] |-> entryEvent[entries[c][k]]]]
    OBVIOUS
<1>6. SX!FlattenSeq(shown) = SX!FlattenSeq(SubSeq(cycles, first, z))
    <2>1. CASE entries = <<>>
        <3>1. m = 1 /\ Kept = << <<>> >> BY <1>1, <2>1 DEF Kept
        <3>2. shown = <<>> BY <1>5, <2>1
        <3>4. last = << <<>> >>
            <4>1. Len(last) = 1 /\ last \in Seq(Seq(S)) /\ last[1] = cycles[z]
                <5>1. z - m + 1 = z /\ 1 \in 1 .. m BY <3>1
                <5> QED BY <1>b, <3>1, <5>1
            <4>2. Holds(<<>>, cycles[z], entryEvent)
                <5>1. 1 \in 1 .. m /\ Kept[1] = <<>> /\ z - m + 1 = z BY <3>1
                <5> QED BY <1>1, <5>1 DEF TraceInv, HoldsLast
            <4>3. cycles[z] = <<>> BY <1>1, <1>2, <4>2 DEF Holds
            <4> QED BY <4>1, <4>3
        <3> QED BY <1>a, <3>2, <3>4, FlattenNone
    <2>2. CASE entries # <<>>
        <3>1. entries \in Seq(Seq(Entry)) /\ Len(entries) = m /\ Kept = entries
            BY <1>1, <2>2 DEF Kept, TraceInv, TraceTypeOK
        <3>2. PICK q : q = last OBVIOUS
        <3>3. q \in Seq(Seq(S)) /\ Len(q) = m /\ \A c \in 1 .. m : q[c] = cycles[z - m + c]
            BY <1>b, <3>2
        <3>4. ASSUME NEW c \in 1 .. m
              PROVE  q[c] = [k \in DOMAIN entries[c] |-> entryEvent[entries[c][k]]]
            <4>1. Holds(entries[c], q[c], entryEvent)
                BY <1>1, <3>1, <3>3 DEF TraceInv, HoldsLast
            <4>2. entries[c] \in Seq(Entry) /\ q[c] \in Seq(S) BY <3>1, <3>3
            <4>3. PICK a, b : a = entries[c] /\ b = q[c] OBVIOUS
            <4>4. DOMAIN a = 1 .. Len(a) /\ DOMAIN b = 1 .. Len(a) BY <4>1, <4>2, <4>3 DEF Holds
            <4>5. \A k \in 1 .. Len(a) : b[k] = entryEvent[a[k]] BY <4>1, <4>3 DEF Holds
            <4>6. b = [k \in DOMAIN a |-> entryEvent[a[k]]] BY <4>2, <4>3, <4>4, <4>5
            <4> QED BY <4>3, <4>6
        <3>5. shown = q BY <1>5, <3>1, <3>3, <3>4
        <3> QED BY <1>a, <3>2, <3>5
    <2> QED BY <2>1, <2>2
<1> QED BY <1>1, <1>3, <1>5, <1>6 DEF TraceIsRecent, String

\* A report of a traceback shows the events of the last cycles, all of them and
\* nothing else, for any number of cycles kept, of events and of entries,
\* though the entries of older cycles are used again.
THEOREM TracesAreRecent == DebuggerSpec => []TraceIsRecent
<1> QED BY TraceInitInv, TraceNextInv, TraceInvImplies, PTL DEF DebuggerSpec

-----------------------------------------------------------------------------
(* Iterators.                                                              *)

Iter == [backingSlice : Seq(Tag), currentIdx : Int, current : Tag \cup {NoTag}]

\* The element at index n of the slice s, zero-based.
Element(s, n) == IF 0 <= n /\ n < Len(s) THEN s[n + 1] ELSE NoTag

\* The iterator after k calls of Next, k > 0.
After(it, k) ==
    [backingSlice |-> it.backingSlice, currentIdx |-> it.currentIdx + k,
     current |-> Element(it.backingSlice, it.currentIdx + k)]

\* An iterator is at its element.
AtElement(it) ==
    /\ it \in Iter /\ it.currentIdx >= -1 /\ Len(it.backingSlice) <= MaxTags
    /\ it.current = Element(it.backingSlice, it.currentIdx)

LEMMA ElementType ==
    ASSUME NEW s \in Seq(Tag), NEW n \in Int
    PROVE  Element(s, n) \in Tag \cup {NoTag}
BY DEF Element

LEMMA AfterIs ==
    ASSUME NEW it \in Iter, NEW k \in Nat
    PROVE  /\ After(it, k) \in Iter
           /\ After(it, k).backingSlice = it.backingSlice
           /\ After(it, k).currentIdx = it.currentIdx + k
           /\ After(it, k).current = Element(it.backingSlice, it.currentIdx + k)
<1>1. it.backingSlice \in Seq(Tag) /\ it.currentIdx \in Int BY DEF Iter
<1>2. it.currentIdx + k \in Int BY <1>1
<1>3. Element(it.backingSlice, it.currentIdx + k) \in Tag \cup {NoTag} BY <1>1, <1>2, ElementType
<1> QED BY <1>1, <1>2, <1>3 DEF After, Iter

LEMMA AfterNone ==
    ASSUME NEW it, AtElement(it) PROVE After(it, 0) = it
<1>1. it \in Iter /\ it.currentIdx \in Int /\ it.current = Element(it.backingSlice, it.currentIdx)
    BY DEF AtElement, Iter
<1>2. it.currentIdx + 0 = it.currentIdx BY <1>1
<1>3. it = [backingSlice |-> it.backingSlice, currentIdx |-> it.currentIdx, current |-> it.current]
    BY <1>1 DEF Iter
<1> QED BY <1>1, <1>2, <1>3 DEF After

LEMMA NextIterIs ==
    ASSUME NEW it \in Iter, it.currentIdx >= -1 PROVE NextIter(it) = After(it, 1)
<1>1. PICK s \in Seq(Tag), n \in Int, c \in Tag \cup {NoTag} : it = [backingSlice |-> s, currentIdx |-> n, current |-> c] /\ n >= -1
    BY DEF Iter
<1>2. it.backingSlice = s /\ it.currentIdx = n BY <1>1
<1>3. HasNext(it) <=> n + 1 < Len(s) BY <1>2 DEF HasNext, LenIter
<1>4. n + 2 = (n + 1) + 1 /\ 0 <= n + 1 BY <1>1
<1>5. Element(s, n + 1) = IF HasNext(it) THEN s[n + 2] ELSE NoTag BY <1>3, <1>4 DEF Element
<1>6. NextIter(it) = [backingSlice |-> s, currentIdx |-> n + 1, current |-> IF HasNext(it) THEN s[n + 2] ELSE NoTag]
    <2>1. PICK v : v = IF HasNext(it) THEN s[n + 2] ELSE NoTag OBVIOUS
    <2>2. NextIter(it) = [it EXCEPT !.currentIdx = n + 1, !.current = v] BY <1>2, <2>1 DEF NextIter
    <2>3. [it EXCEPT !.currentIdx = n + 1, !.current = v] = [backingSlice |-> s, currentIdx |-> n + 1, current |-> v]
        <3>1. PICK j : j = n + 1 OBVIOUS
        <3>2. PICK w, u : w = [it EXCEPT !.currentIdx = j, !.current = v] /\ u = [backingSlice |-> s, currentIdx |-> j, current |-> v]
            OBVIOUS
        <3>3. DOMAIN it = {"backingSlice", "currentIdx", "current"} BY <1>1
        <3>4. DOMAIN w = {"backingSlice", "currentIdx", "current"} /\ DOMAIN u = {"backingSlice", "currentIdx", "current"}
            BY <3>2, <3>3
        <3>5. w.backingSlice = s /\ w.currentIdx = j /\ w.current = v BY <1>1, <3>2, <3>3
        <3>6. u.backingSlice = s /\ u.currentIdx = j /\ u.current = v BY <3>2
        <3>7. w = u BY <3>2, <3>4, <3>5, <3>6
        <3> QED BY <3>1, <3>2, <3>7
    <2> QED BY <2>1, <2>2, <2>3
<1> QED BY <1>2, <1>5, <1>6 DEF After

LEMMA NextAfter ==
    ASSUME NEW it \in Iter, it.currentIdx >= -1, NEW k \in Nat
    PROVE  NextIter(After(it, k)) = After(it, k + 1)
<1>1. PICK a \in Iter : a = After(it, k) BY AfterIs
<1>2. a.backingSlice = it.backingSlice /\ a.currentIdx = it.currentIdx + k BY <1>1, AfterIs
<1>3. it.currentIdx \in Int BY DEF Iter
<1>4. a.currentIdx >= -1 /\ a.currentIdx + 1 = it.currentIdx + (k + 1) BY <1>2, <1>3
<1>5. After(a, 1) = After(it, k + 1) BY <1>2, <1>4 DEF After
<1> QED BY <1>1, <1>4, <1>5, NextIterIs

\* The functional of which the function in NextN is the fixed point.
NextSteps(it, n, f) == [k \in 0 .. n |-> IF k = 0 THEN it ELSE NextIter(f[k - 1])]

\* n calls of Next: the recursion has the one solution it should have.
LEMMA NextNIs ==
    ASSUME NEW it, AtElement(it), NEW n \in Nat
    PROVE  NextN(it, n) = After(it, n)
<1>0. it \in Iter /\ it.currentIdx >= -1 BY DEF AtElement
<1> DEFINE g == [k \in 0 .. n |-> After(it, k)]
           h == CHOOSE f : f = NextSteps(it, n, f)
<1>1. g = NextSteps(it, n, g)
    <2>1. ASSUME NEW k \in 0 .. n PROVE After(it, k) = IF k = 0 THEN it ELSE NextIter(g[k - 1])
        <3>1. CASE k = 0 BY <3>1, AfterNone
        <3>2. CASE k # 0
            <4>1. k - 1 \in 0 .. n /\ k - 1 \in Nat /\ (k - 1) + 1 = k BY <3>2
            <4>2. g[k - 1] = After(it, k - 1) BY <4>1
            <4>3. NextIter(After(it, k - 1)) = After(it, k) BY <1>0, <4>1, NextAfter
            <4> QED BY <3>2, <4>2, <4>3
        <3> QED BY <3>1, <3>2
    <2> QED BY <2>1 DEF NextSteps
<1>2. h = NextSteps(it, n, h) BY <1>1, Zenon
<1>3. NextN(it, n) = h[n] BY Zenon DEF NextN, NextSteps
<1> HIDE DEF h
<1>4. /\ h[0] = it
      /\ \A k \in 0 .. n : k # 0 => h[k] = NextIter(h[k - 1])
    BY <1>2 DEF NextSteps
<1>5. ASSUME NEW k \in 0 .. n, h[k] # After(it, k) PROVE FALSE
    <2> DEFINE Bad == {j \in 0 .. n : h[j] # After(it, j)}
    <2>1. PICK j \in Bad : \A x \in Bad : j <= x
        <3>1. Bad # {} /\ Bad \subseteq Nat BY <1>5
        <3> HIDE DEF Bad
        <3> QED BY <3>1, LeastExists
    <2>2. j # 0 BY <1>4, <2>1, AfterNone
    <2>3. j - 1 \in 0 .. n /\ j - 1 \in Nat /\ (j - 1) + 1 = j /\ j - 1 \notin Bad BY <2>1, <2>2
    <2>4. h[j - 1] = After(it, j - 1) BY <2>3
    <2>5. NextIter(After(it, j - 1)) = After(it, j) BY <1>0, <2>3, NextAfter
    <2>6. h[j] = After(it, j) BY <1>4, <2>1, <2>2, <2>4, <2>5
    <2> QED BY <2>1, <2>6
<1>6. n \in 0 .. n OBVIOUS
<1> QED BY <1>3, <1>5, <1>6

\* A duplicate, copied or moved on from the start, is where the iterator is.
LEMMA DuplicateIs ==
    ASSUME NEW it, AtElement(it), iterPooled \in BOOLEAN
    PROVE  DuplicateOf(it) = it
<1>1. CASE ~iterPooled BY <1>1 DEF DuplicateOf
<1>2. CASE iterPooled
    <2>1. PICK s \in Seq(Tag), n \in Int : s = it.backingSlice /\ n = it.currentIdx /\ n >= -1
        BY DEF AtElement, Iter
    <2>2. PICK r : r = ResetIter(s) OBVIOUS
    <2>3. r.backingSlice = s /\ r.currentIdx = -1 /\ r.current = NoTag /\ r \in Iter
        BY <2>2 DEF ResetIter, Iter
    <2>4. AtElement(r) BY <2>1, <2>3 DEF AtElement, Element
    <2>5. n + 1 \in Nat /\ -1 + (n + 1) = n + 0 BY <2>1
    <2>6. NextN(r, n + 1) = After(r, n + 1) BY <2>4, <2>5, NextNIs
    <2>7. After(r, n + 1) = After(it, 0) BY <2>1, <2>3, <2>5 DEF After
    <2> QED BY <1>2, <2>1, <2>2, <2>6, <2>7, AfterNone DEF DuplicateOf
<1> QED BY <1>1, <1>2

\* Next succeeds n times and once more, and what it returns then.
More(it, n) == it.currentIdx + n + 1 < Len(it.backingSlice)
Nth(it, n) == it.backingSlice[it.currentIdx + n + 2]

LEMMA HasNextAfter ==
    ASSUME NEW it, AtElement(it), NEW n \in Nat
    PROVE  /\ HasNext(After(it, n)) <=> More(it, n)
           /\ More(it, n) => NextIter(After(it, n)).current = Nth(it, n)
           /\ n >= MaxTags => ~More(it, n)
<1>1. PICK s \in Seq(Tag), m \in Int : it \in Iter /\ s = it.backingSlice /\ m = it.currentIdx /\ m >= -1 /\ Len(s) <= MaxTags
    BY DEF AtElement, Iter
<1>2. After(it, n).backingSlice = s /\ After(it, n).currentIdx = m + n BY <1>1, AfterIs
<1>a. PICK z \in Nat : z = Len(s) BY <1>1
<1>b. More(it, n) <=> m + n + 1 < z BY <1>1, <1>a DEF More
<1>3. HasNext(After(it, n)) <=> More(it, n) BY <1>1, <1>2 DEF HasNext, LenIter, More
<1>4. ASSUME More(it, n) PROVE NextIter(After(it, n)).current = Nth(it, n)
    <2>1. NextIter(After(it, n)) = After(it, n + 1) BY <1>1, NextAfter
    <2>2. After(it, n + 1).current = Element(s, m + (n + 1)) BY <1>1, AfterIs
    <2>3. 0 <= m + (n + 1) /\ m + (n + 1) < Len(s) /\ (m + (n + 1)) + 1 = m + n + 2
        BY <1>1, <1>a, <1>b, <1>4
    <2> QED BY <1>1, <2>1, <2>2, <2>3 DEF Element, Nth
<1>5. n >= MaxTags => ~More(it, n)
    BY <1>1, <1>a, <1>b, IteratorsAssumption
<1> QED BY <1>3, <1>4, <1>5

\* The functional of which the function in Matches is the fixed point.
MatchSteps(exp, obs, f) ==
    [n \in 0 .. MaxTags + 1 |->
        LET e == NextN(DuplicateOf(exp), n)
            o == NextN(DuplicateOf(obs), n)
        IN IF ~HasNext(e) THEN ~HasNext(o)
           ELSE HasNext(o) /\ NextIter(e).current = NextIter(o).current /\ f[n + 1]]

\* The elements that x and y have left after n calls of Next are the same.
Agree(x, y, n) ==
    \A k \in Nat : k >= n =>
        (More(x, k) <=> More(y, k)) /\ (More(x, k) => Nth(x, k) = Nth(y, k))

LEMMA MatchStep ==
    ASSUME NEW x, AtElement(x), NEW y, AtElement(y), iterPooled \in BOOLEAN, NEW f,
           NEW n \in 0 .. MaxTags + 1
    PROVE  MatchSteps(x, y, f)[n] <=>
             IF ~More(x, n) THEN ~More(y, n) ELSE More(y, n) /\ Nth(x, n) = Nth(y, n) /\ f[n + 1]
<1>1. n \in Nat BY IteratorsAssumption
<1>2. NextN(DuplicateOf(x), n) = After(x, n) /\ NextN(DuplicateOf(y), n) = After(y, n)
    BY <1>1, DuplicateIs, NextNIs
<1>3. MatchSteps(x, y, f)[n] =
        IF ~HasNext(After(x, n)) THEN ~HasNext(After(y, n))
        ELSE HasNext(After(y, n)) /\ NextIter(After(x, n)).current = NextIter(After(y, n)).current /\ f[n + 1]
    BY <1>2, Zenon DEF MatchSteps
<1>4. /\ HasNext(After(x, n)) <=> More(x, n)
      /\ More(x, n) => NextIter(After(x, n)).current = Nth(x, n)
      /\ HasNext(After(y, n)) <=> More(y, n)
      /\ More(y, n) => NextIter(After(y, n)).current = Nth(y, n)
    BY <1>1, HasNextAfter
<1> QED BY <1>3, <1>4, Zenon

LEMMA BoundShifts == \A m, z \in Int, n, k \in Nat : k >= n /\ ~(m + n + 1 < z) => ~(m + k + 1 < z)
OBVIOUS

LEMMA AgreeStep ==
    ASSUME NEW x, AtElement(x), NEW y, AtElement(y), NEW n \in Nat
    PROVE  Agree(x, y, n) <=>
             IF ~More(x, n) THEN ~More(y, n) ELSE More(y, n) /\ Nth(x, n) = Nth(y, n) /\ Agree(x, y, n + 1)
<1>1. \A it : AtElement(it) => \A k \in Nat : k >= n /\ ~More(it, n) => ~More(it, k)
    <2> SUFFICES ASSUME NEW it, AtElement(it), NEW k \in Nat, k >= n, ~More(it, n) PROVE ~More(it, k)
        BY Zenon
    <2>1. it.currentIdx \in Int /\ it.backingSlice \in Seq(Tag) BY DEF AtElement, Iter
    <2>2. PICK z \in Nat, m \in Int : z = Len(it.backingSlice) /\ m = it.currentIdx BY <2>1
    <2>3. (More(it, k) <=> m + k + 1 < z) /\ (More(it, n) <=> m + n + 1 < z) BY <2>2 DEF More
    <2>4. z \in Int BY <2>2
    <2>5. ~(m + n + 1 < z) => ~(m + k + 1 < z) BY <2>4, BoundShifts, Zenon
    <2> QED BY <2>3, <2>5
<1>2. CASE ~More(x, n)
    <2>1. \A k \in Nat : k >= n => ~More(x, k) BY <1>1, <1>2, Zenon
    <2>2. n >= n OBVIOUS
    <2>3. ASSUME Agree(x, y, n) PROVE ~More(y, n) BY <1>2, <2>2, <2>3, Zenon DEF Agree
    <2>4. ASSUME ~More(y, n) PROVE Agree(x, y, n)
        <3>1. \A k \in Nat : k >= n => ~More(y, k) BY <1>1, <2>4, Zenon
        <3> QED BY <2>1, <3>1, Zenon DEF Agree
    <2> QED BY <1>2, <2>3, <2>4, Zenon
<1>3. CASE More(x, n)
    <2>1. \A k \in Nat : k >= n <=> k = n \/ k >= n + 1 OBVIOUS
    <2>2. Agree(x, y, n) <=> (More(y, n) /\ Nth(x, n) = Nth(y, n) /\ Agree(x, y, n + 1))
        BY <1>3, <2>1, Zenon DEF Agree
    <2> QED BY <1>3, <2>2, Zenon
<1> QED BY <1>2, <1>3, Zenon

\* Two iterators match when they have the same elements left.
LEMMA MatchesIs ==
    ASSUME NEW x, AtElement(x), NEW y, AtElement(y), iterPooled \in BOOLEAN
    PROVE  Matches(x, y) <=> Agree(x, y, 0)
<1> DEFINE D == 0 .. MaxTags + 1
           g == [n \in D |-> Agree(x, y, n)]
           h == CHOOSE f : f = MatchSteps(x, y, f)
<1>0. MaxTags + 1 \in Nat /\ D \subseteq Nat BY IteratorsAssumption
<1>1. g = MatchSteps(x, y, g)
    <2>1. ASSUME NEW n \in D PROVE MatchSteps(x, y, g)[n] = Agree(x, y, n)
        <3>1. MatchSteps(x, y, g)[n] \in BOOLEAN
            BY Zenon DEF MatchSteps
        <3>2. MatchSteps(x, y, g)[n] <=>
                IF ~More(x, n) THEN ~More(y, n) ELSE More(y, n) /\ Nth(x, n) = Nth(y, n) /\ g[n + 1]
            BY MatchStep
        <3>3. More(x, n) => n + 1 \in D
            <4>1. More(x, n) => ~(n >= MaxTags) BY <1>0, HasNextAfter
            <4> QED BY <4>1, IteratorsAssumption
        <3>4. More(x, n) => (g[n + 1] <=> Agree(x, y, n + 1)) BY <3>3, Zenon
        <3>5. MatchSteps(x, y, g)[n] <=> Agree(x, y, n) BY <1>0, <3>2, <3>4, AgreeStep, Zenon
        <3>6. Agree(x, y, n) \in BOOLEAN BY Zenon DEF Agree
        <3>7. \A a, b \in BOOLEAN : (a <=> b) => a = b OBVIOUS
        <3> QED BY <3>1, <3>5, <3>6, <3>7, Zenon
    <2>2. MatchSteps(x, y, g) = [n \in D |-> MatchSteps(x, y, g)[n]] BY Zenon DEF MatchSteps
    <2> QED BY <2>1, <2>2, Zenon
<1>2. h = MatchSteps(x, y, h) BY <1>1, Zenon
<1>3. Matches(x, y) = h[0] BY Zenon DEF Matches, MatchSteps
<1> HIDE DEF h, g
<1>4. ASSUME NEW n \in D, ~(h[n] <=> Agree(x, y, n)) PROVE FALSE
    <2> DEFINE Bad == {k \in D : ~(h[MaxTags + 1 - k] <=> Agree(x, y, MaxTags + 1 - k))}
    <2>1. MaxTags + 1 - n \in D /\ MaxTags + 1 - (MaxTags + 1 - n) = n BY <1>0, IteratorsAssumption
    <2>2. MaxTags + 1 - n \in Bad BY <1>4, <2>1, Zenon
    <2>3. PICK k \in Bad : \A j \in Bad : k <= j
        <3>1. Bad \subseteq Nat /\ Bad # {} BY <1>0, <2>2, Zenon
        <3> HIDE DEF Bad
        <3> QED BY <3>1, LeastExists
    <2>4. PICK m \in D : m = MaxTags + 1 - k BY <2>3, IteratorsAssumption
    <2>5. ~(h[m] <=> Agree(x, y, m)) BY <2>3, <2>4, Zenon
    <2>6. ASSUME More(x, m) PROVE h[m + 1] <=> Agree(x, y, m + 1)
        <3>1. ~(m >= MaxTags) BY <1>0, <2>4, <2>6, HasNextAfter
        <3>2. k \in D BY <2>3
        <3>3. k - 1 \in D /\ MaxTags + 1 - (k - 1) = m + 1 /\ ~(k <= k - 1)
            BY <1>0, <2>4, <3>1, <3>2, IteratorsAssumption
        <3>4. k - 1 \notin Bad BY <2>3, <3>3, Zenon
        <3> QED BY <3>3, <3>4, Zenon
    <2>7. h[m] <=> IF ~More(x, m) THEN ~More(y, m) ELSE More(y, m) /\ Nth(x, m) = Nth(y, m) /\ h[m + 1]
        <3>1. MatchSteps(x, y, h)[m] <=>
                IF ~More(x, m) THEN ~More(y, m) ELSE More(y, m) /\ Nth(x, m) = Nth(y, m) /\ h[m + 1]
            BY <2>4, MatchStep
        <3> QED BY <1>2, <3>1, Zenon
    <2>8. m \in Nat BY <1>0
    <2> QED BY <2>5, <2>6, <2>7, <2>8, AgreeStep, Zenon
<1>5. 0 \in D BY <1>0
<1> QED BY <1>3, <1>4, <1>5, Zenon

\* How many elements Next has returned, and that r are they.
Passed(it) == IF it.currentIdx + 1 < Len(it.backingSlice) THEN it.currentIdx + 1 ELSE Len(it.backingSlice)
HasReturned(it, r) ==
    /\ r \in Seq(Tag) /\ Len(r) = Passed(it)
    /\ \A j \in 1 .. Passed(it) : r[j] = it.backingSlice[j]

IteratorsInv ==
    /\ iterPooled \in BOOLEAN /\ iterFree \subseteq IterObj
    /\ iter \in [IterObj -> Iter] /\ returned \in [IterObj -> Seq(Tag)]
    /\ \A k \in IterObj \ iterFree : AtElement(iter[k]) /\ HasReturned(iter[k], returned[k])
    \* what a pool hands out needs no reset
    /\ iterPooled => \A k \in iterFree : AtElement(iter[k]) /\ HasReturned(iter[k], returned[k])

LEMMA ResetInv ==
    ASSUME NEW tags \in Seq(Tag), Len(tags) <= MaxTags
    PROVE  ResetIter(tags) \in Iter /\ AtElement(ResetIter(tags)) /\ HasReturned(ResetIter(tags), <<>>)
<1>1. PICK r : r = ResetIter(tags) OBVIOUS
<1>2. r \in Iter /\ r.backingSlice = tags /\ r.currentIdx = -1 /\ r.current = NoTag
    BY <1>1 DEF ResetIter, Iter
<1>3. AtElement(r) BY <1>2 DEF AtElement, Element
<1>4. Passed(r) = 0
    <2>1. Len(tags) \in Nat OBVIOUS
    <2> QED BY <1>2, <2>1 DEF Passed
<1>5. HasReturned(r, <<>>) BY <1>4 DEF HasReturned
<1> QED BY <1>1, <1>2, <1>3, <1>5

LEMMA NextInv ==
    ASSUME NEW it, AtElement(it), NEW r, HasReturned(it, r), NEW r2,
           r2 = IF HasNext(it) THEN Append(r, NextIter(it).current) ELSE r
    PROVE  NextIter(it) \in Iter /\ AtElement(NextIter(it)) /\ HasReturned(NextIter(it), r2)
<1>1. PICK s \in Seq(Tag), m \in Int : it \in Iter /\ s = it.backingSlice /\ m = it.currentIdx /\ m >= -1 /\ Len(s) <= MaxTags
    BY DEF AtElement, Iter
<1>2. PICK z \in Nat : z = Len(s) BY <1>1
<1>3. PICK a : a = NextIter(it) OBVIOUS
<1>4. /\ a \in Iter /\ a.backingSlice = s /\ a.currentIdx = m + 1 /\ a.current = Element(s, m + 1)
    <2>1. a = After(it, 1) BY <1>1, <1>3, NextIterIs
    <2>2. 1 \in Nat OBVIOUS
    <2> QED BY <1>1, <2>1, <2>2, AfterIs, Zenon
<1>5. AtElement(a) BY <1>1, <1>4 DEF AtElement
<1>6. HasNext(it) <=> m + 1 < z BY <1>1, <1>2 DEF HasNext, LenIter
<1>7. Passed(it) = (IF m + 1 < z THEN m + 1 ELSE z) /\ Passed(a) = (IF m + 2 < z THEN m + 2 ELSE z)
    <2>1. (m + 1) + 1 = m + 2 OBVIOUS
    <2> QED BY <1>1, <1>2, <1>4, <2>1 DEF Passed
<1>8. r \in Seq(Tag) /\ Len(r) = Passed(it) /\ \A j \in 1 .. Passed(it) : r[j] = s[j]
    BY <1>1 DEF HasReturned
<1>9. CASE m + 1 < z
    <2>1. Passed(it) = m + 1 /\ Passed(a) = m + 2 BY <1>7, <1>9
    <2>2. a.current = s[m + 2] /\ s[m + 2] \in Tag
        <3>1. 0 <= m + 1 /\ (m + 1) + 1 = m + 2 /\ m + 2 \in 1 .. Len(s) BY <1>1, <1>2, <1>9
        <3> QED BY <1>2, <1>4, <1>9, <3>1 DEF Element
    <2>3. r2 = Append(r, s[m + 2]) BY <1>3, <1>6, <1>9, <2>2
    <2>4. /\ r2 \in Seq(Tag) /\ Len(r2) = m + 2 /\ r2[m + 2] = s[m + 2]
          /\ \A j \in 1 .. m + 1 : r2[j] = r[j]
        <3>1. PICK x \in Tag : x = s[m + 2] BY <2>2
        <3>2. Len(r) = m + 1 /\ (m + 1) + 1 = m + 2 BY <1>8, <2>1
        <3> QED BY <1>8, <2>3, <3>1, <3>2, AppendProperties
    <2>5. \A j \in 1 .. m + 2 : j = m + 2 \/ j \in 1 .. m + 1 BY <1>1
    <2>6. \A j \in 1 .. m + 2 : r2[j] = s[j] BY <1>8, <2>1, <2>4, <2>5, Zenon
    <2> QED BY <1>3, <1>4, <1>5, <2>1, <2>4, <2>6 DEF HasReturned
<1>10. CASE ~(m + 1 < z)
    <2>1. Passed(it) = z /\ Passed(a) = z BY <1>7, <1>10
    <2>2. r2 = r BY <1>6, <1>10
    <2> QED BY <1>3, <1>4, <1>5, <1>8, <2>1, <2>2 DEF HasReturned
<1> QED BY <1>9, <1>10

LEMMA SliceIs ==
    ASSUME NEW tags \in TagSlices PROVE tags \in Seq(Tag) /\ Len(tags) <= MaxTags
<1>1. PICK n \in 0 .. MaxTags : tags \in [1 .. n -> Tag] BY DEF TagSlices
<1>2. n \in Nat /\ n <= MaxTags BY IteratorsAssumption
<1>3. tags \in Seq(Tag) /\ Len(tags) = n BY <1>1, <1>2
<1> QED BY <1>2, <1>3

LEMMA IteratorsInitInv == IteratorsInit => IteratorsInv
<1> SUFFICES ASSUME IteratorsInit PROVE IteratorsInv
    OBVIOUS
<1>1. <<>> \in Seq(Tag) /\ Len(<<>>) <= MaxTags BY IteratorsAssumption
<1>2. ResetIter(<<>>) \in Iter /\ AtElement(ResetIter(<<>>)) /\ HasReturned(ResetIter(<<>>), <<>>)
    BY <1>1, ResetInv
<1> QED BY <1>1, <1>2 DEF IteratorsInit, IteratorsInv

\* One iterator is changed, the others stay as they are.
LEMMA IterChanged ==
    ASSUME IteratorsInv, NEW k \in IterObj, NEW it \in Iter, NEW r \in Seq(Tag),
           iter' = [iter EXCEPT ![k] = it], returned' = [returned EXCEPT ![k] = r],
           iterFree' \subseteq IterObj, iterPooled' = iterPooled,
           \A d \in IterObj : d # k => (d \in iterFree' <=> d \in iterFree),
           iterPooled \/ k \notin iterFree' => AtElement(it) /\ HasReturned(it, r)
    PROVE  IteratorsInv'
<1>1. iter' \in [IterObj -> Iter] /\ returned' \in [IterObj -> Seq(Tag)] BY DEF IteratorsInv
<1>2. iter'[k] = it /\ returned'[k] = r BY DEF IteratorsInv
<1>3. \A d \in IterObj : d # k => iter'[d] = iter[d] /\ returned'[d] = returned[d] BY DEF IteratorsInv
<1>4. ASSUME NEW d \in IterObj \ iterFree' PROVE AtElement(iter'[d]) /\ HasReturned(iter'[d], returned'[d])
    <2>1. CASE d = k BY <1>2, <2>1
    <2>2. CASE d # k BY <1>3, <2>2 DEF IteratorsInv
    <2> QED BY <2>1, <2>2
<1>5. ASSUME iterPooled', NEW d \in iterFree' PROVE AtElement(iter'[d]) /\ HasReturned(iter'[d], returned'[d])
    <2>1. CASE d = k BY <1>2, <1>5, <2>1
    <2>2. CASE d # k BY <1>3, <1>5, <2>2 DEF IteratorsInv
    <2> QED BY <2>1, <2>2
<1>6. iterPooled' \in BOOLEAN BY DEF IteratorsInv
<1> QED BY <1>1, <1>4, <1>5, <1>6, Zenon DEF IteratorsInv

LEMMA IteratorsNextInv == IteratorsInv /\ [IteratorsNext]_iteratorsVars => IteratorsInv'
<1> SUFFICES ASSUME IteratorsInv, [IteratorsNext]_iteratorsVars PROVE IteratorsInv'
    OBVIOUS
<1>1. ASSUME NEW k \in IterObj, NEW tags \in TagSlices, New(k, tags) \/ Reset(k, tags) PROVE IteratorsInv'
    <2>1. PICK it : it = ResetIter(tags) OBVIOUS
    <2>2. it \in Iter /\ AtElement(it) /\ HasReturned(it, <<>>) BY <2>1, SliceIs, ResetInv
    <2>3. /\ iter' = [iter EXCEPT ![k] = it] /\ returned' = [returned EXCEPT ![k] = <<>>]
          /\ iterFree' \subseteq IterObj /\ iterPooled' = iterPooled
          /\ \A d \in IterObj : d # k => (d \in iterFree' <=> d \in iterFree)
        BY <1>1, <2>1 DEF New, Reset, IteratorsInv
    <2>4. <<>> \in Seq(Tag) OBVIOUS
    <2> QED BY <2>2, <2>3, <2>4, IterChanged, Zenon
<1>2. ASSUME NEW k \in IterObj, Next_(k) PROVE IteratorsInv'
    <2>1. PICK it, r : it = NextIter(iter[k]) /\ r = IF HasNext(iter[k]) THEN Append(returned[k], NextIter(iter[k]).current) ELSE returned[k]
        OBVIOUS
    <2>2. AtElement(iter[k]) /\ HasReturned(iter[k], returned[k]) /\ returned[k] \in Seq(Tag)
        BY <1>2 DEF Next_, IteratorsInv
    <2>3. it \in Iter /\ AtElement(it) /\ HasReturned(it, r) BY <2>1, <2>2, NextInv
    <2>4. r \in Seq(Tag) BY <2>3 DEF HasReturned
    <2>5. iter' = [iter EXCEPT ![k] = it] BY <1>2, <2>1 DEF Next_
    <2>6. returned' = [returned EXCEPT ![k] = r]
        <3>1. CASE HasNext(iter[k]) BY <1>2, <2>1, <3>1 DEF Next_
        <3>2. CASE ~HasNext(iter[k])
            <4>1. returned' = returned /\ r = returned[k] BY <1>2, <2>1, <3>2 DEF Next_
            <4> QED BY <4>1 DEF IteratorsInv
        <3> QED BY <3>1, <3>2
    <2>7. iterFree' = iterFree /\ iterPooled' = iterPooled /\ iterFree \subseteq IterObj
        BY <1>2 DEF Next_, IteratorsInv
    <2>8. /\ iterFree' \subseteq IterObj
          /\ \A d \in IterObj : d # k => (d \in iterFree' <=> d \in iterFree)
        BY <2>7
    <2> QED BY <2>3, <2>4, <2>5, <2>6, <2>7, <2>8, IterChanged, Zenon
<1>3. ASSUME NEW k \in IterObj, NEW d \in IterObj, Duplicate(k, d) PROVE IteratorsInv'
    <2>1. /\ AtElement(iter[k]) /\ HasReturned(iter[k], returned[k]) /\ returned[k] \in Seq(Tag)
          /\ iter[k] \in Iter /\ iterPooled \in BOOLEAN
        BY <1>3 DEF Duplicate, IteratorsInv
    <2>2. PICK it, r : it = iter[k] /\ r = returned[k] OBVIOUS
    <2>3. DuplicateOf(iter[k]) = it BY <2>1, <2>2, DuplicateIs
    <2>4. /\ iter' = [iter EXCEPT ![d] = it] /\ returned' = [returned EXCEPT ![d] = r]
          /\ iterFree' = iterFree \ {d} /\ iterPooled' = iterPooled
        BY <1>3, <2>2, <2>3 DEF Duplicate
    <2>5. /\ iterFree' \subseteq IterObj
          /\ \A c \in IterObj : c # d => (c \in iterFree' <=> c \in iterFree)
        BY <2>4 DEF IteratorsInv
    <2> QED BY <2>1, <2>2, <2>4, <2>5, IterChanged, Zenon
<1>4. ASSUME NEW k \in IterObj, CloseIter(k) PROVE IteratorsInv'
    <2>1. PICK it : it = IF iterPooled THEN ResetIter(<<>>) ELSE ClosedIter OBVIOUS
    <2>2. <<>> \in Seq(Tag) OBVIOUS
    <2>3. it \in Iter BY <2>1, <2>2 DEF ResetIter, ClosedIter, Iter
    <2>6. iterPooled => AtElement(it) /\ HasReturned(it, <<>>)
        <3>1. Len(<<>>) <= MaxTags BY IteratorsAssumption
        <3> QED BY <2>1, <2>2, <3>1, ResetInv
    <2>4. /\ iter' = [iter EXCEPT ![k] = it] /\ returned' = [returned EXCEPT ![k] = <<>>]
          /\ iterFree' = iterFree \cup {k} /\ iterPooled' = iterPooled
        BY <1>4, <2>1 DEF CloseIter
    <2>5. /\ iterFree' \subseteq IterObj /\ k \in iterFree'
          /\ \A c \in IterObj : c # k => (c \in iterFree' <=> c \in iterFree)
        BY <2>4 DEF IteratorsInv
    <2> QED BY <2>2, <2>3, <2>4, <2>5, <2>6, IterChanged, Zenon
<1>6. ASSUME NEW k \in IterObj, TagsIterator(k) PROVE IteratorsInv'
    BY <1>6 DEF TagsIterator, IteratorsInv
<1>5. CASE UNCHANGED iteratorsVars BY <1>5 DEF IteratorsInv, iteratorsVars
<1> QED BY <1>1, <1>2, <1>3, <1>4, <1>5, <1>6, Zenon DEF IteratorsNext

\* What an iterator has left.
Rest(it, r) == SubSeq(it.backingSlice, Len(r) + 1, LenIter(it))

LEMMA RestIs ==
    ASSUME NEW it, AtElement(it), NEW r, HasReturned(it, r)
    PROVE  /\ Rest(it, r) \in Seq(Tag)
           /\ Len(Rest(it, r)) = Remaining(it)
           /\ \A n \in Nat : More(it, n) <=> n + 1 \in 1 .. Remaining(it)
           /\ \A n \in Nat : More(it, n) => Rest(it, r)[n + 1] = Nth(it, n)
<1>1. PICK s \in Seq(Tag), m \in Int : it \in Iter /\ s = it.backingSlice /\ m = it.currentIdx /\ m >= -1
    BY DEF AtElement, Iter
<1>2. PICK z \in Nat : z = Len(s) BY <1>1
<1>3. PICK p \in Nat : p = Len(r) /\ p = IF m + 1 < z THEN m + 1 ELSE z
    <2>1. Len(r) = IF m + 1 < z THEN m + 1 ELSE z BY <1>1, <1>2 DEF HasReturned, Passed
    <2> QED BY <1>1, <2>1
<1>4. PICK q : q = SubSeq(s, p + 1, z) OBVIOUS
<1>5. Rest(it, r) = q BY <1>1, <1>2, <1>3, <1>4 DEF Rest, LenIter
<1>6. q \in Seq(Tag) /\ Len(q) = z - p /\ \A j \in 1 .. z - p : q[j] = s[p + j]
    <2>1. p + 1 \in Int /\ z \in Int /\ \A j \in p + 1 .. z : s[j] \in Tag BY <1>1, <1>2
    <2>2. /\ q \in Seq(Tag) /\ Len(q) = IF p + 1 <= z THEN z - (p + 1) + 1 ELSE 0
          /\ \A j \in 1 .. z - (p + 1) + 1 : q[j] = s[(p + 1) + j - 1]
        BY <1>4, <2>1, SubSeqProperties
    <2>3. p <= z /\ z - (p + 1) + 1 = z - p BY <1>3
    <2>4. \A j \in 1 .. z - p : (p + 1) + j - 1 = p + j OBVIOUS
    <2> QED BY <2>2, <2>3, <2>4
<1>7. Remaining(it) = z - p
    <2>1. Remaining(it) = IF z - 1 - m >= 0 THEN z - 1 - m ELSE 0 BY <1>1, <1>2 DEF Remaining, LenIter
    <2>2. CASE m + 1 < z
        <3>1. p = m + 1 /\ z - 1 - m >= 0 /\ z - 1 - m = z - p BY <1>3, <2>2
        <3> QED BY <2>1, <3>1
    <2>3. CASE ~(m + 1 < z)
        <3>1. p = z /\ z - p = 0 /\ (z - 1 - m >= 0 => z - 1 - m = 0) BY <1>3, <2>3
        <3> QED BY <2>1, <3>1
    <2> QED BY <2>2, <2>3
<1>8. ASSUME NEW n \in Nat PROVE /\ More(it, n) <=> n + 1 \in 1 .. z - p
                                 /\ More(it, n) => q[n + 1] = Nth(it, n)
    <2>1. More(it, n) <=> m + n + 1 < z BY <1>1, <1>2 DEF More
    <2>2. More(it, n) <=> n + 1 \in 1 .. z - p
        <3>1. CASE m + 1 < z
            <4>1. p = m + 1 BY <1>3, <3>1
            <4>2. m + n + 1 < z <=> n + 1 \in 1 .. z - p BY <4>1
            <4> QED BY <2>1, <4>2
        <3>2. CASE ~(m + 1 < z)
            <4>1. p = z BY <1>3, <3>2
            <4>2. ~(m + n + 1 < z) /\ ~(n + 1 \in 1 .. z - p) BY <3>2, <4>1
            <4> QED BY <2>1, <4>2
        <3> QED BY <3>1, <3>2
    <2>3. ASSUME More(it, n) PROVE q[n + 1] = Nth(it, n)
        <3>2. m + 1 < z BY <2>1, <2>3
        <3>3. p = m + 1 BY <1>3, <3>2
        <3>1. n + 1 \in 1 .. z - p /\ p + (n + 1) = m + n + 2 BY <2>2, <2>3, <3>3
        <3> QED BY <1>1, <1>6, <3>1 DEF Nth
    <2> QED BY <2>2, <2>3
<1> QED BY <1>5, <1>6, <1>7, <1>8

LEMMA IteratorsInvImplies == IteratorsInv => IteratorsComplete
<1> SUFFICES ASSUME IteratorsInv PROVE IteratorsComplete
    OBVIOUS
<1> DEFINE rest(k) == SubSeq(iter[k].backingSlice, Len(returned[k]) + 1, LenIter(iter[k]))
<1>0. \A k \in IterObj \ iterFree : AtElement(iter[k]) /\ HasReturned(iter[k], returned[k]) /\ rest(k) = Rest(iter[k], returned[k])
    BY DEF IteratorsInv, Rest
<1>1. ASSUME NEW k \in IterObj \ iterFree
      PROVE  /\ returned[k] \o rest(k) = iter[k].backingSlice
             /\ Remaining(iter[k]) = Len(rest(k))
             /\ Current(iter[k]) # NoTag => /\ Current(iter[k]) = returned[k][Len(returned[k])]
                                            /\ CurrentIndex(iter[k]) = Len(returned[k]) - 1
             /\ Current(iter[k]) = NoTag => returned[k] = <<>> \/ rest(k) = <<>>
    <2>1. PICK it, r : it = iter[k] /\ r = returned[k] OBVIOUS
    <2>2. AtElement(it) /\ HasReturned(it, r) /\ rest(k) = Rest(it, r) BY <1>0, <2>1
    <2>3. PICK s \in Seq(Tag), m \in Int : it \in Iter /\ s = it.backingSlice /\ m = it.currentIdx /\ m >= -1
        BY <2>2 DEF AtElement, Iter
    <2>4. PICK z \in Nat : z = Len(s) BY <2>3
    <2>5. PICK p \in Nat : p = Len(r) /\ p = IF m + 1 < z THEN m + 1 ELSE z
        <3>1. Len(r) = IF m + 1 < z THEN m + 1 ELSE z BY <2>2, <2>3, <2>4 DEF HasReturned, Passed
        <3> QED BY <2>3, <3>1
    <2>6. PICK q \in Seq(Tag) : q = rest(k) BY <2>2, RestIs
    <2>7. Len(q) = Remaining(it) BY <2>2, <2>6, RestIs
    <2>8. Remaining(it) = z - p
        <3>1. Remaining(it) = IF z - 1 - m >= 0 THEN z - 1 - m ELSE 0 BY <2>3, <2>4 DEF Remaining, LenIter
        <3>2. CASE m + 1 < z
            <4>1. p = m + 1 /\ z - 1 - m >= 0 /\ z - 1 - m = z - p BY <2>5, <3>2
            <4> QED BY <3>1, <4>1
        <3>3. CASE ~(m + 1 < z)
            <4>1. p = z /\ z - p = 0 /\ (z - 1 - m >= 0 => z - 1 - m = 0) BY <2>5, <3>3
            <4> QED BY <3>1, <4>1
        <3> QED BY <3>2, <3>3
    <2>9. r \in Seq(Tag) /\ \A j \in 1 .. p : r[j] = s[j]
        BY <2>2, <2>3, <2>5 DEF HasReturned
    <2>10. \A j \in 1 .. z - p : q[j] = s[p + j]
        <3>1. q = SubSeq(s, p + 1, z) BY <2>1, <2>3, <2>4, <2>5, <2>6 DEF LenIter
        <3>2. p + 1 \in Int /\ z \in Int /\ \A j \in p + 1 .. z : s[j] \in Tag BY <2>3, <2>4
        <3>3. \A j \in 1 .. z - (p + 1) + 1 : q[j] = s[(p + 1) + j - 1] BY <3>1, <3>2, SubSeqProperties
        <3>4. z - (p + 1) + 1 = z - p /\ \A j \in 1 .. z - p : (p + 1) + j - 1 = p + j OBVIOUS
        <3> QED BY <3>3, <3>4
    <2>11. r \o q = s
        <3>1. PICK c \in Seq(Tag) : c = r \o q /\ Len(c) = p + Len(q)
                /\ \A j \in 1 .. p + Len(q) : c[j] = IF j <= p THEN r[j] ELSE q[j - p]
            <4>1. /\ r \o q \in Seq(Tag) /\ Len(r \o q) = Len(r) + Len(q)
                  /\ \A j \in 1 .. Len(r) + Len(q) : (r \o q)[j] = IF j <= Len(r) THEN r[j] ELSE q[j - Len(r)]
                BY <2>9, ConcatProperties
            <4> QED BY <2>5, <4>1
        <3>2. Len(c) = z /\ p <= z BY <2>5, <2>7, <2>8, <3>1
        <3>3. ASSUME NEW j \in 1 .. z PROVE c[j] = s[j]
            <4>1. CASE j <= p
                <5>1. j \in 1 .. p BY <4>1
                <5> QED BY <2>7, <2>8, <2>9, <3>1, <3>2, <4>1, <5>1
            <4>2. CASE ~(j <= p)
                <5>1. j - p \in 1 .. z - p /\ p + (j - p) = j /\ j \in 1 .. p + Len(q) BY <2>7, <2>8, <4>2
                <5>2. c[j] = q[j - p] BY <3>1, <4>2, <5>1
                <5>3. q[j - p] = s[p + (j - p)] BY <2>10, <5>1
                <5> QED BY <5>1, <5>2, <5>3
            <4> QED BY <4>1, <4>2
        <3>4. c = s BY <2>4, <3>2, <3>3, SeqEqual
        <3> QED BY <3>1, <3>4
    <2>12. Current(it) = Element(s, m) BY <2>2, <2>3 DEF Current, AtElement
    <2>13. ASSUME Current(it) # NoTag PROVE Current(it) = r[Len(r)] /\ CurrentIndex(it) = Len(r) - 1
        <3>1. 0 <= m /\ m < z /\ Current(it) = s[m + 1] BY <2>4, <2>12, <2>13 DEF Element
        <3>2. p = m + 1 BY <2>5, <3>1
        <3>3. CurrentIndex(it) = m BY <2>3, <3>1 DEF CurrentIndex
        <3>4. m + 1 \in 1 .. p /\ p - 1 = m BY <3>1, <3>2
        <3> QED BY <2>5, <2>9, <3>1, <3>2, <3>3, <3>4
    <2>14. ASSUME Current(it) = NoTag PROVE r = <<>> \/ q = <<>>
        <3>1. CASE m = -1
            <4>1. p = 0 BY <2>5, <3>1
            <4>2. Len(r) = 0 BY <2>5, <4>1
            <4> QED BY <2>9, <4>2, EmptySeq
        <3>2. CASE m # -1
            <4>1. m >= z
                <5>1. CASE 0 <= m /\ m < z
                    <6>1. m + 1 \in 1 .. Len(s) BY <2>4, <5>1
                    <6>2. Current(it) = s[m + 1] /\ s[m + 1] \in Tag BY <2>4, <2>12, <5>1, <6>1 DEF Element
                    <6> QED BY <2>14, <6>2, IteratorsAssumption
                <5> QED BY <2>3, <3>2, <5>1
            <4>2. p = z BY <2>5, <4>1
            <4>3. Len(q) = 0 BY <2>7, <2>8, <4>2
            <4> QED BY <4>3
        <3> QED BY <3>1, <3>2
    <2> QED BY <2>1, <2>3, <2>6, <2>7, <2>11, <2>13, <2>14
<1>2. ASSUME NEW k \in IterObj \ iterFree, NEW d \in IterObj \ iterFree
      PROVE  Matches(iter[k], iter[d]) <=> rest(k) = rest(d)
    <2>1. PICK x, y, r, q : x = iter[k] /\ y = iter[d] /\ r = rest(k) /\ q = rest(d) OBVIOUS
    <2>2. AtElement(x) /\ AtElement(y) /\ iterPooled \in BOOLEAN BY <1>0, <2>1 DEF IteratorsInv
    <2>3. Matches(x, y) <=> Agree(x, y, 0) BY <2>2, MatchesIs
    <2>4. PICK m \in Nat : /\ r \in Seq(Tag) /\ Len(r) = m
                           /\ \A n \in Nat : More(x, n) <=> n + 1 \in 1 .. m
                           /\ \A n \in Nat : More(x, n) => r[n + 1] = Nth(x, n)
        <3>1. /\ r \in Seq(Tag) /\ Len(r) = Remaining(x)
              /\ \A n \in Nat : More(x, n) <=> n + 1 \in 1 .. Remaining(x)
              /\ \A n \in Nat : More(x, n) => r[n + 1] = Nth(x, n)
            <4>1. HasReturned(x, returned[k]) /\ r = Rest(x, returned[k]) BY <1>0, <2>1
            <4> QED BY <2>2, <4>1, RestIs, Zenon
        <3>2. Remaining(x) \in Nat BY <3>1
        <3> QED BY <3>1, <3>2
    <2>5. PICK l \in Nat : /\ q \in Seq(Tag) /\ Len(q) = l
                           /\ \A n \in Nat : More(y, n) <=> n + 1 \in 1 .. l
                           /\ \A n \in Nat : More(y, n) => q[n + 1] = Nth(y, n)
        <3>1. /\ q \in Seq(Tag) /\ Len(q) = Remaining(y)
              /\ \A n \in Nat : More(y, n) <=> n + 1 \in 1 .. Remaining(y)
              /\ \A n \in Nat : More(y, n) => q[n + 1] = Nth(y, n)
            <4>1. HasReturned(y, returned[d]) /\ q = Rest(y, returned[d]) BY <1>0, <2>1
            <4> QED BY <2>2, <4>1, RestIs, Zenon
        <3>2. Remaining(y) \in Nat BY <3>1
        <3> QED BY <3>1, <3>2
    <2>6. ASSUME r = q PROVE Agree(x, y, 0)
        <3>1. m = l BY <2>4, <2>5, <2>6
        <3>2. \A n \in Nat : More(x, n) <=> More(y, n) BY <2>4, <2>5, <3>1, Zenon
        <3>3. \A n \in Nat : More(x, n) => Nth(x, n) = Nth(y, n) BY <2>4, <2>5, <2>6, <3>2, Zenon
        <3> QED BY <3>2, <3>3, Zenon DEF Agree
    <2>7. ASSUME Agree(x, y, 0) PROVE r = q
        <3>1. \A n \in Nat : n >= 0 OBVIOUS
        <3>2. \A n \in Nat : (More(x, n) <=> More(y, n)) /\ (More(x, n) => Nth(x, n) = Nth(y, n))
            BY <2>7, <3>1, Zenon DEF Agree
        <3>3. \A n \in Nat : n + 1 \in 1 .. m <=> n + 1 \in 1 .. l BY <2>4, <2>5, <3>2, Zenon
        <3>4. m = l
            <4>1. CASE m < l
                <5>1. m + 1 \in 1 .. l /\ m + 1 \notin 1 .. m BY <4>1
                <5> QED BY <3>3, <5>1, Zenon
            <4>2. CASE l < m
                <5>1. l + 1 \in 1 .. m /\ l + 1 \notin 1 .. l BY <4>2
                <5> QED BY <3>3, <5>1, Zenon
            <4> QED BY <4>1, <4>2
        <3>5. ASSUME NEW j \in 1 .. m PROVE r[j] = q[j]
            <4>1. PICK n \in Nat : n + 1 = j
                <5>1. j - 1 \in Nat /\ (j - 1) + 1 = j OBVIOUS
                <5> QED BY <5>1
            <4>2. More(x, n) /\ More(y, n) BY <2>4, <3>2, <4>1
            <4> QED BY <2>4, <2>5, <3>2, <4>1, <4>2
        <3> QED BY <2>4, <2>5, <3>4, <3>5
    <2> QED BY <2>1, <2>3, <2>6, <2>7
<1> HIDE DEF rest
<1>3. IteratorsComplete <=>
        \A k \in IterObj \ iterFree :
            /\ returned[k] \o rest(k) = iter[k].backingSlice
            /\ Remaining(iter[k]) = Len(rest(k))
            /\ Current(iter[k]) # NoTag => /\ Current(iter[k]) = returned[k][Len(returned[k])]
                                           /\ CurrentIndex(iter[k]) = Len(returned[k]) - 1
            /\ Current(iter[k]) = NoTag => returned[k] = <<>> \/ rest(k) = <<>>
            /\ \A d \in IterObj \ iterFree : Matches(iter[k], iter[d]) <=> rest(k) = rest(d)
    BY DEF IteratorsComplete, rest
<1> QED BY <1>1, <1>2, <1>3

\* Iterators over slices of any length return each element once and in order,
\* report where they are and how many are left, are duplicated where they are,
\* from the pool or not, and the matcher tells exactly those apart that have
\* different elements left.
THEOREM IteratorsAreComplete == IteratorsSpec => []IteratorsComplete
<1> QED BY IteratorsInitInv, IteratorsNextInv, IteratorsInvImplies, PTL DEF IteratorsSpec

=============================================================================
