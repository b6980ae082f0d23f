------------------------------ MODULE Debugger ------------------------------
(***************************************************************************)
(* The traceback of a reference count (checked/debug.go): the events of    *)
(* its last cycles, a cycle ending with Finalize, in entries that come     *)
(* from a pool and go back to it when their cycle is shifted out.          *)
(***************************************************************************)
EXTENDS Naturals, Sequences
SX == INSTANCE SequencesExt

CONSTANTS
    tracebackCycles,
    Entry,           \* the debuggerEntry objects
    MaxTraceEvents   \* bound on the events of the reference count
ASSUME DebuggerAssumption == tracebackCycles \in Nat \ {0} /\ MaxTraceEvents \in Nat

VARIABLES
    entries,    \* the cycles, the current one last; empty before the first event
    entryEvent, \* entryEvent[e]: what entry e was last filled in with
    entryPool,  \* tracebackEntryPool
    cycles      \* every cycle since the beginning, of events and not of entries
debuggerVars == <<entries, entryEvent, entryPool, cycles>>

DebuggerInit ==
    /\ entries = <<>> /\ entryPool = Entry
    /\ entryEvent = [e \in Entry |-> 0]
    /\ cycles = << <<>> >>

\* Faulty variant: the new cycle begins with what the oldest one held.
NextCycle_KeepsOldest(cur) ==
    IF Len(cur) = tracebackCycles THEN Append(Tail(cur), Head(cur)) ELSE Append(cur, <<>>)

\* After Finalize: the oldest cycle makes room, or a new one begins.
NextCycle(cur) ==
    IF Len(cur) = tracebackCycles THEN Append(Tail(cur), <<>>) ELSE Append(cur, <<>>)

EventCount == SX!FoldLeft(LAMBDA n, c : n + Len(c), 0, cycles)

\* debugger.append: events are numbered; the entries of a cycle that is
\* shifted out go back to the pool.
append(final) ==
    LET n   == EventCount + 1
        old == IF entries = <<>> THEN << <<>> >> ELSE entries
    IN /\ n <= MaxTraceEvents
       /\ \E e \in entryPool :
            LET cur == [old EXCEPT ![Len(old)] = Append(@, e)] IN
            /\ entryEvent' = [entryEvent EXCEPT ![e] = n]
            /\ entries' = IF final THEN NextCycle(cur) ELSE cur
            /\ entryPool' = (entryPool \ {e}) \cup
                   IF final /\ Len(cur) = tracebackCycles THEN SX!ToSet(Head(cur)) ELSE {}
            /\ cycles' = LET c == [cycles EXCEPT ![Len(cycles)] = Append(@, n)]
                         IN IF final THEN Append(c, <<>>) ELSE c

DebuggerNext == \E final \in BOOLEAN : append(final)

DebuggerSpec == DebuggerInit /\ [][DebuggerNext]_debuggerVars

\* debugger.String: the last event first.
String == SX!Reverse(SX!FlattenSeq([c \in DOMAIN entries |-> [k \in DOMAIN entries[c] |-> entryEvent[entries[c][k]]]]))

-----------------------------------------------------------------------------

\* A report shows the events of the current cycle and of the tracebackCycles - 1
\* before it, all of them and nothing else, latest first, though entries are
\* reused for later events.
TraceIsRecent ==
    LET first == IF Len(cycles) > tracebackCycles THEN Len(cycles) - tracebackCycles + 1 ELSE 1
    IN String = SX!Reverse(SX!FlattenSeq(SubSeq(cycles, first, Len(cycles))))

=============================================================================
