------------------------------- MODULE RunApi -------------------------------
(***************************************************************************)
(* What the public API of System A promises a client about one run,        *)
(* whatever threads, queues and crashes stand behind it: GET /v1/runs/{id} *)
(* shows a status that only moves forward, a cancellation request is never *)
(* forgotten, and the one terminal event of the run's stream names the     *)
(* status it ended with, for good.  Stated from run_store.py's RunStatus   *)
(* vocabulary, service.py:299-303 and sse.py:30; RunLifecycle implements   *)
(* it.                                                                     *)
(***************************************************************************)
CONSTANT Runs

VARIABLES
    status,    \* status column of GET /v1/runs/{id}, or "absent"
    cancel,    \* cancellation requested
    published  \* terminal event of the run's stream, or "none"

apiVars == <<status, cancel, published>>

Final == {"completed", "degraded", "failed", "cancelled"}
Open == {"pending", "running"}

EventFor == [completed |-> "run_completed", degraded |-> "run_degraded",
             failed |-> "run_failed", cancelled |-> "run_cancelled"]

Init ==
    /\ status = [r \in Runs |-> "absent"]
    /\ cancel = [r \in Runs |-> FALSE]
    /\ published = [r \in Runs |-> "none"]

Accept(r) ==
    /\ status[r] = "absent"
    /\ status' = [status EXCEPT ![r] = "pending"]
    /\ UNCHANGED <<cancel, published>>

Start(r) ==
    /\ status[r] = "pending"
    /\ status' = [status EXCEPT ![r] = "running"]
    /\ UNCHANGED <<cancel, published>>

\* A run is only reported cancelled when its cancellation was requested.
Finish(r, s) ==
    /\ status[r] = "running"
    /\ s = "cancelled" => cancel[r]
    /\ status' = [status EXCEPT ![r] = s]
    /\ UNCHANGED <<cancel, published>>

\* An internal error may still replace an outcome nobody was told about.
Retract(r) ==
    /\ status[r] \in Final /\ published[r] = "none"
    /\ status' = [status EXCEPT ![r] = "failed"]
    /\ UNCHANGED <<cancel, published>>

Publish(r) ==
    /\ status[r] \in Final /\ published[r] = "none"
    /\ published' = [published EXCEPT ![r] = EventFor[status[r]]]
    /\ UNCHANGED <<status, cancel>>

RequestCancel(r) ==
    /\ status[r] # "absent"
    /\ cancel' = [cancel EXCEPT ![r] = TRUE]
    /\ UNCHANGED <<status, published>>

\* A restart fails every run that was still open.
Interrupt ==
    /\ status' = [r \in Runs |-> IF status[r] \in Open THEN "failed" ELSE status[r]]
    /\ UNCHANGED <<cancel, published>>

Next ==
    \/ \E r \in Runs : \/ Accept(r) \/ Start(r) \/ Publish(r)
                       \/ \E s \in Final : Finish(r, s)
                       \/ Retract(r) \/ RequestCancel(r)
    \/ Interrupt

Spec == Init /\ [][Next]_apiVars

=============================================================================
