--------------------------- MODULE CircuitBreaker ---------------------------
(***************************************************************************)
(* providers/policy.py CircuitBreaker, with callers that ask, call and     *)
(* report.  A call takes time, so a report may concern a call that was let *)
(* through in another state of the breaker.                                *)
(***************************************************************************)
EXTENDS Naturals

CONSTANTS
    Callers,
    FailureThreshold, OpenDuration,
    MaxNow,     \* bound on the clock
    MaxRow      \* bound on consecutive failures

VARIABLES
    state, failures, openedAt,  \* the breaker
    now, calling,               \* the clock, and who is in a call
    inRow                       \* history: failures reported since the last success

breakerVars == <<state, failures, openedAt, now, calling, inRow>>

Init ==
    /\ state = "closed" /\ failures = 0 /\ openedAt = 0
    /\ now = 0 /\ calling = {} /\ inRow = 0

CooledDown == now - openedAt >= OpenDuration

\* should_allow_call: an open breaker that has cooled down becomes half open.
Ask(c) ==
    /\ c \notin calling
    /\ state = "open" => CooledDown
    /\ calling' = calling \cup {c}
    /\ state' = IF state = "open" THEN "half_open" ELSE state
    /\ UNCHANGED <<failures, openedAt, now, inRow>>

RecordSuccess(c) ==
    /\ c \in calling
    /\ calling' = calling \ {c}
    /\ state' = "closed" /\ failures' = 0 /\ openedAt' = 0
    /\ inRow' = 0
    /\ UNCHANGED now

\* A half-open breaker is closed by counting alone.
RecordFailureOffByOne(c) ==
    /\ c \in calling /\ inRow < MaxRow
    /\ calling' = calling \ {c}
    /\ failures' = failures + 1
    /\ inRow' = inRow + 1
    /\ IF state = "half_open" \/ failures' > FailureThreshold
         THEN state' = "open" /\ openedAt' = now
         ELSE UNCHANGED <<state, openedAt>>
    /\ UNCHANGED now

RecordFailure(c) ==
    /\ c \in calling /\ inRow < MaxRow
    /\ calling' = calling \ {c}
    /\ failures' = failures + 1
    /\ inRow' = inRow + 1
    /\ IF state = "half_open" \/ failures' >= FailureThreshold
         THEN state' = "open" /\ openedAt' = now
         ELSE UNCHANGED <<state, openedAt>>
    /\ UNCHANGED now

Tick == now < MaxNow /\ now' = now + 1 /\ UNCHANGED <<state, failures, openedAt, calling, inRow>>

Next == Tick \/ \E c \in Callers : Ask(c) \/ RecordSuccess(c) \/ RecordFailure(c)

Spec == Init /\ [][Next]_breakerVars

-----------------------------------------------------------------------------
\* Properties

\* However the reports of concurrent and late calls interleave, a breaker that
\* lets calls through freely has seen fewer failures in a row than its
\* threshold, and one that holds them back has seen a failure since any success.
TripsInTime ==
    /\ state = "closed" => inRow < FailureThreshold
    /\ state # "closed" => inRow > 0
=============================================================================
