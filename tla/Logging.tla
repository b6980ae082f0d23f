------------------------------- MODULE Logging -------------------------------
(***************************************************************************)
(* log/logger.go: loggers that write, loggers that drop everything, and    *)
(* wrappers that drop what is below their level.                           *)
(*                                                                         *)
(* A logger is its base, which has a slice of fields or is the null        *)
(* logger, and the levels of its wrappers from the outermost in.  The      *)
(* fields are in arrays that loggers may share: a wrapper has those of     *)
(* the logger it wraps.  Levels count from LevelAll.                       *)
(***************************************************************************)
EXTENDS Integers, Sequences

CONSTANTS
    LoggerVar,  \* program variables of type Logger
    Field,      \* log fields
    NoField,    \* a cell of an array that was not written
    NullLogger, \* in place of an array: the logger that emits nowhere
    LevelFatal, \* the highest level (5 in the code; levels are told apart by their order)
    MaxFields, MaxWrappers \* bounds on the fields and on the wrappers of a logger

ASSUME LoggingAssumption ==
    LevelFatal \in Nat \ {0} /\ MaxFields \in Nat /\ NullLogger \notin LoggerVar

Level == 0 .. LevelFatal
LogLevel == 1 .. LevelFatal

VARIABLES
    fieldArrays, \* the arrays of fields; as many are needed as there are variables, which name them
    logger,      \* the loggers
    given,       \* history: the fields each logger was made with
    exited       \* os.Exit was called
loggingVars == <<fieldArrays, logger, given, exited>>

LoggingInit ==
    /\ fieldArrays = [a \in LoggerVar |-> <<>>]
    /\ logger \in [LoggerVar -> [array : LoggerVar \cup {NullLogger}, len : {0}, levels : {<<>>}]]
    /\ \A v \in LoggerVar : logger[v].array \in {v, NullLogger}
    /\ given = [v \in LoggerVar |-> <<>>]
    /\ exited = FALSE

\* The fields of logger l.
LogFields(l) == IF l.array = NullLogger THEN <<>> ELSE SubSeq(fieldArrays[l.array], 1, l.len)

\* The arrays become c; one that no logger has is not kept.
Keep(c) ==
    fieldArrays' = [a \in LoggerVar |-> IF \E v \in LoggerVar : logger'[v].array = a THEN c[a] ELSE <<>>]

\* v = w
AssignLogger(v, w) ==
    /\ ~exited
    /\ logger' = [logger EXCEPT ![v] = logger[w]]
    /\ given' = [given EXCEPT ![v] = given[w]]
    /\ UNCHANGED exited /\ Keep(fieldArrays)

\* v = NewLevelLogger(w, level)
NewLevelLogger(v, w, level) ==
    /\ ~exited /\ Len(logger[w].levels) < MaxWrappers
    /\ logger' = [logger EXCEPT ![v] = [logger[w] EXCEPT !.levels = <<level>> \o @]]
    /\ given' = [given EXCEPT ![v] = given[w]]
    /\ UNCHANGED exited /\ Keep(fieldArrays)

\* The fields fs appended to those of a new array that has old and room for
\* one more: an array that is full is replaced by one of twice the size, or of
\* as much as is needed.
Grown(old, fs) ==
    LET n == Len(old) + Len(fs)
        room == Len(old) + 1
        size == IF n <= room THEN room ELSE IF n > 2 * room THEN n ELSE 2 * room
    IN old \o fs \o [k \in 1 .. size - n |-> NoField]

\* v becomes a logger with the given levels and fields, in an array of its own.
MakeLogger(v, array, fields, levels) ==
    /\ Len(fields) <= MaxFields
    /\ \E a \in LoggerVar \ {logger[u].array : u \in LoggerVar \ {v}} :
        /\ logger' = [logger EXCEPT ![v] = [array |-> a, len |-> Len(fields), levels |-> levels]]
        /\ Keep([fieldArrays EXCEPT ![a] = array])
    /\ given' = [given EXCEPT ![v] = fields]
    /\ UNCHANGED exited

\* Faulty variant: the fields are appended to those of w without a copy.
WithFields_NoCopy(v, w, fs) ==
    LET l == logger[w]
        len == l.len + Len(fs)
    IN IF l.array # NullLogger /\ len <= Len(fieldArrays[l.array])
       THEN /\ ~exited
            /\ fieldArrays' = [fieldArrays EXCEPT
                   ![l.array] = [k \in DOMAIN @ |-> IF k \in l.len + 1 .. len THEN fs[k - l.len] ELSE @[k]]]
            /\ logger' = [logger EXCEPT ![v] = [l EXCEPT !.len = len]]
            /\ given' = [given EXCEPT ![v] = given[w] \o fs] /\ UNCHANGED exited
       ELSE ~exited /\ l.array # NullLogger
            /\ MakeLogger(v, Grown(LogFields(l), fs), LogFields(l) \o fs, l.levels)

\* v = w.WithFields(fs...): the base's fields are copied, then fs; the null
\* logger, which has none, returns itself.
WithFields(v, w, fs) ==
    LET l == logger[w]
    IN /\ ~exited
       /\ IF l.array = NullLogger
          THEN /\ logger' = [logger EXCEPT ![v] = l] /\ given' = [given EXCEPT ![v] = <<>>]
               /\ UNCHANGED exited /\ Keep(fieldArrays)
          ELSE MakeLogger(v, Grown(LogFields(l), fs), LogFields(l) \o fs, l.levels)

\* v = NewLogger(writer, fs...): the slice of the arguments is kept.
NewLogger(v, fs) == ~exited /\ MakeLogger(v, fs, fs, <<>>)

\* A configured logger: a level and fields only if the configuration has them.
BuildLogger(v, levels, fs) ==
    /\ ~exited
    /\ MakeLogger(v, IF fs = <<>> THEN <<>> ELSE Grown(<<>>, fs), fs, levels)

\* A call goes down while the wrappers let it.
LetThrough(l, level) == \A k \in DOMAIN l.levels : l.levels[k] <= level

\* Debug, ..., Fatal and their formatting forms: a line that a writer prints
\* has the fields LogFields(l); Fatal exits at the base, whatever the base.
Log(v, level) ==
    LET l == logger[v]
    IN /\ ~exited
       /\ exited' = (level = LevelFatal /\ LetThrough(l, level))
       /\ UNCHANGED <<fieldArrays, logger, given>>

\* The fields of one call.
FieldArgs == {<<f>> : f \in Field} \cup {<<f, f>> : f \in Field}

LoggingNext ==
    \E v \in LoggerVar :
        \/ \E w \in LoggerVar : AssignLogger(v, w)
        \/ \E w \in LoggerVar, level \in Level : NewLevelLogger(v, w, level)
        \/ \E w \in LoggerVar, fs \in FieldArgs : WithFields(v, w, fs)
        \/ \E fs \in FieldArgs \cup {<<>>} : NewLogger(v, fs)
        \/ \E level \in LogLevel : Log(v, level)
        \/ \E levels \in {<<>>} \cup {<<level>> : level \in Level}, fs \in FieldArgs \cup {<<>>} :
               BuildLogger(v, levels, fs)

LoggingSpec == LoggingInit /\ [][LoggingNext]_loggingVars

-----------------------------------------------------------------------------
(* Properties.                                                             *)

\* A logger prints the fields it was made with, in order: those of the logger
\* it was derived from and its own, whatever loggers are derived from either
\* of them later and wherever they are wrapped or assigned.
LoggersKeepTheirFields == \A v \in LoggerVar : LogFields(logger[v]) = given[v]

=============================================================================
