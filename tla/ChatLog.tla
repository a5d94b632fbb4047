------------------------------ MODULE ChatLog ------------------------------
(***************************************************************************)
(* What chat turns may do to a session, whatever threads, retries and      *)
(* crashes stand behind them: a turn adds one whole user/assistant pair to *)
(* the transcript, at most once, and at most one new run, whose trip is a  *)
(* named earlier run's trip with the turn's patch applied.  ChatTurns      *)
(* implements it.                                                          *)
(***************************************************************************)
EXTENDS Naturals, Sequences

CONSTANTS Turns, Patches, Statuses, FirstRuns

VARIABLES
    pairs,  \* the transcript, one [turn, status] per pair
    runs    \* the session's runs, in order of creation: [trip, by]

chatLogVars == <<pairs, runs>>

Init == pairs = <<>> /\ runs \in FirstRuns

Record(t, s) ==
    /\ \A i \in DOMAIN pairs : pairs[i].turn # t
    /\ pairs' = Append(pairs, [turn |-> t, status |-> s])
    /\ UNCHANGED runs

\* A run is only ever made before the turn that asked for it is recorded.
Revise(t, base, patch) ==
    /\ \A i \in DOMAIN runs : runs[i].by # t
    /\ \A i \in DOMAIN pairs : pairs[i].turn # t
    /\ runs' = Append(runs, [trip |-> runs[base].trip \cup patch, by |-> t])
    /\ UNCHANGED pairs

Next ==
    \E t \in Turns :
        \/ \E s \in Statuses : Record(t, s)
        \/ \E base \in DOMAIN runs, patch \in SUBSET Patches : Revise(t, base, patch)

Spec == Init /\ [][Next]_chatLogVars
=============================================================================
