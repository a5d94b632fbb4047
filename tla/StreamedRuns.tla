---------------------------- MODULE StreamedRuns ----------------------------
(***************************************************************************)
(* The run service together with the clients that follow one run's event   *)
(* stream: the log the stream reads is the log RunService writes, and the  *)
(* connections die with the process.  The web server (external) finishes   *)
(* open responses before it runs the lifespan shutdown, so a stream that   *)
(* does not end holds a graceful shutdown up until the container is killed *)
(* (a crash).                                                              *)
(***************************************************************************)
EXTENDS RunLifecycle

CONSTANTS
    Watched,    \* the run whose stream is followed
    Clients,
    MaxEvents,  \* positions an event of the run may have
    MaxDrops    \* bound on lost connections

\* recursion_limit bounds the events of a run (RunLifecycleProofs, BoundedRuns).
ASSUME StreamedOK ==
    /\ Watched \in Calls
    /\ MaxEvents \in Nat /\ MaxEvents >= 2 * MaxTurns + 2
    /\ MaxDrops \in Nat

VARIABLES conn, got, drops

Stream == INSTANCE EventStream WITH log <- log[Watched]

allVars == <<vars, conn, got, drops>>

StreamInit ==
    /\ Init
    /\ conn = [i \in Clients |-> Stream!Closed]
    /\ got = [i \in Clients |-> <<>>]
    /\ drops = 0

\* 404 before the run exists.
ServeStream(i) ==
    /\ proc = "serving" /\ Exists(Watched)
    /\ UNCHANGED vars
    /\ Stream!Serve(i) \/ Stream!Resume(i) \/ Stream!StartOver(i)

Transport(i) ==
    /\ UNCHANGED vars
    /\ Stream!Deliver(i) \/ Stream!Close(i) \/ Stream!Drop(i)

NoStreams == \A i \in Clients : conn[i].pc = "closed"

\* A crash takes every connection with it; a graceful shutdown starts when none
\* is left.
ProcessStep ==
    /\ Next
    /\ proc' = "draining" /\ proc # "draining" => NoStreams
    /\ conn' = IF proc' = "down" THEN [i \in Clients |-> Stream!Closed] ELSE conn
    /\ UNCHANGED <<got, drops>>

StreamNext == ProcessStep \/ \E i \in Clients : ServeStream(i) \/ Transport(i)

StreamSpec == StreamInit /\ [][StreamNext]_allVars

\* A pool that is idle lets the process exit; a client that has not seen the end
\* keeps retrying and, between redeploys, sooner or later finds the server up.
StreamFairness ==
    /\ \A c \in Calls : /\ WF_allVars(ProcessStep /\ SubmitRun(c))
                        /\ WF_allVars(ProcessStep /\ JobStep(c))
    /\ WF_allVars(ProcessStep /\ PickUp)
    /\ WF_allVars(ProcessStep /\ Boot) /\ WF_allVars(ProcessStep /\ Reconcile)
    /\ WF_allVars(ProcessStep /\ Drained)
    /\ \A i \in Clients :
         /\ WF_allVars(ServeStream(i) /\ Stream!Serve(i))
         /\ WF_allVars(Transport(i) /\ Stream!Deliver(i))
         /\ WF_allVars(Transport(i) /\ Stream!Close(i))
         /\ SF_allVars(ServeStream(i) /\ ~Stream!SawAll(i) /\ Stream!Resume(i))

FairStreamSpec == StreamSpec /\ StreamFairness

-----------------------------------------------------------------------------
\* Properties

\* A client that received the terminal event, over however many connections and
\* from whichever process incarnation, finds that very outcome in GET, and has
\* received every event of the run.
ReceivedOutcomeHolds ==
    \A i \in Clients, k \in 1..MaxEvents :
        k \in DOMAIN got[i] /\ log[Watched][got[i][k]] \in TerminalStages =>
            /\ log[Watched][got[i][k]] = TerminalStageFor(row[Watched].status)
            /\ Len(got[i]) = Len(log[Watched])

\* Unless the process crashes or a write fails, across any number of redeploys, a client that keeps
\* following an accepted run receives its whole log up to the terminal event.
FollowerLearnsOutcome ==
    \A i \in Clients : Exists(Watched) ~> Stream!SawAll(i) \/ crashes + faults > 0
=============================================================================
