------------------------------- MODULE Polling -------------------------------
(***************************************************************************)
(* The polling loops: the file resolver of config/hostid/hostid.go, which  *)
(* waits for another program to write the host's ID to a file, and         *)
(* WaitUntil of clock/types.go, which waits for a condition.               *)
(*                                                                         *)
(* A goroutine that sleeps wakes late by at most Late; the file, or the    *)
(* condition, changes at any time.                                         *)
(***************************************************************************)
EXTENDS Integers

CONSTANTS
    Interval,   \* time between two checks
    Timeout,    \* values of the timeout, -1 if none is configured
    Late,       \* the longest delay of a wake-up
    MaxPollTime \* bound on the clock

ASSUME PollingAssumption ==
    /\ Interval \in Nat \ {0} /\ Late \in Nat /\ MaxPollTime \in Nat
    /\ Timeout \subseteq Nat \cup {-1}

VARIABLES
    now,      \* the clock; the loop starts at 0
    timeout,  \* its timeout
    file,     \* "absent", "blank" or "id": what there is to find
    filledAt, \* history: since when the file holds the ID, or the condition is true; -1: from the start
    ppc,      \* "check", "sleep", "found" or "failed"
    wakeAt,   \* when the sleep is over
    opened    \* descriptors opened; checkF closes none
pollingVars == <<now, timeout, file, filledAt, ppc, wakeAt, opened>>

PollingInit ==
    /\ now = 0 /\ timeout \in Timeout
    /\ file \in {"absent", "blank", "id"} /\ filledAt = -1
    /\ ppc = "check" /\ wakeAt = 0 /\ opened = 0

\* Faulty variant: sleeps before the first check.
PollCheck_SleepsFirst ==
    /\ ppc = "check" /\ now < timeout
    /\ IF file = "id" /\ wakeAt > 0 THEN ppc' = "found" /\ UNCHANGED wakeAt
       ELSE ppc' = "sleep" /\ wakeAt' = now + Interval
    /\ opened' = IF file = "absent" THEN opened ELSE opened + 1
    /\ UNCHANGED <<now, timeout, file, filledAt>>

\* for time.Since(startT) < timeout: open, read, trim; sleep if there is
\* nothing.  Without a timeout there is one check.  WaitUntil calls its
\* condition in the same place.
PollCheck ==
    /\ ppc = "check" /\ (now < timeout \/ timeout = -1)
    /\ IF file = "id" \/ timeout = -1
       THEN ppc' = (IF file = "id" THEN "found" ELSE "failed") /\ UNCHANGED wakeAt
       ELSE ppc' = "sleep" /\ wakeAt' = now + Interval
    /\ opened' = IF file = "absent" THEN opened ELSE opened + 1
    /\ UNCHANGED <<now, timeout, file, filledAt>>

PollTimeout ==
    /\ ppc = "check" /\ now >= timeout /\ timeout # -1
    /\ ppc' = "failed"
    /\ UNCHANGED <<now, timeout, file, filledAt, wakeAt, opened>>

PollWake ==
    /\ ppc = "sleep" /\ now >= wakeAt
    /\ ppc' = "check"
    /\ UNCHANGED <<now, timeout, file, filledAt, wakeAt, opened>>

\* The other program creates, fills or empties the file.
FileChanges(f) ==
    /\ f # file
    /\ file' = f /\ filledAt' = now
    /\ UNCHANGED <<now, timeout, ppc, wakeAt, opened>>

Tick ==
    /\ now < MaxPollTime /\ ppc \in {"check", "sleep"}
    /\ now < wakeAt + Late
    /\ now' = now + 1
    /\ UNCHANGED <<timeout, file, filledAt, ppc, wakeAt, opened>>

PollLoop == PollCheck \/ PollTimeout \/ PollWake

PollingNext ==
    \/ PollLoop \/ Tick
    \/ ppc \in {"check", "sleep"} /\ \E f \in {"absent", "blank", "id"} : FileChanges(f)

PollingSpec == PollingInit /\ [][PollingNext]_pollingVars

\* The loop gives up only when its time is over; an ID that was there from the
\* start, or that has been in the file for an interval, has been found by then
\* (but for the delay of a wake-up); and an interval lies between two openings.
PollFindsInTime ==
    /\ ppc = "failed" => now >= timeout
    /\ ppc = "failed" /\ file = "id" =>
        Late + (IF filledAt = -1 THEN 0 ELSE filledAt + Interval) >= timeout
    /\ opened * Interval <= now + Interval

=============================================================================
