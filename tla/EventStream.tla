---------------------------- MODULE EventStream ----------------------------
(***************************************************************************)
(* GET /v1/runs/{run_id}/events: Server-Sent Events over the run_events    *)
(* table of one run (api.py stream_events, run_store.py list_events and    *)
(* get_event_sequence, sse.py).                                            *)
(*                                                                         *)
(*   run_events --poll--> event_generator --yield--> wire --> client       *)
(*        ^                    ^                                 |         *)
(*     worker            Last-Event-ID  <------- reconnect ------+         *)
(*                                                                         *)
(* An event is named by its position in the log; its uuid, the SSE id, is  *)
(* one-to-one with it.  Position 0 is "no event" (after_sequence = -1).    *)
(* Clients and network are external: a client that lost its connection may *)
(* resume from the last event it received or start over.                   *)
(***************************************************************************)
EXTENDS Naturals, Sequences

CONSTANTS
    Clients,
    MaxEvents,  \* bound on the length of the log
    MaxDrops    \* bound on lost connections

ASSUME StreamConstantsOK == MaxEvents \in Nat /\ MaxDrops \in Nat

VARIABLES
    log,    \* stages of the run's events, in sequence order
    conn,   \* per client: the server's generator and the frames on the wire
    got,    \* per client: events received, in order of arrival
    drops   \* connections lost so far

streamVars == <<log, conn, got, drops>>

TerminalStages == {"run_completed", "run_degraded", "run_failed", "run_cancelled"}
OpenStages == {"run_started", "action_started", "action_completed", "action_failed"}

\* An id the store cannot resolve: another run's event, or no uuid at all.
UnknownId == MaxEvents + 1

Conn == [pc     : {"closed", "resolving", "polling", "ended"},
         header : 0..UnknownId,   \* Last-Event-ID, 0 when absent
         after  : 0..MaxEvents,   \* after_sequence
         upto   : 0..MaxEvents,   \* end of the batch list_events returned
         wire   : Seq(1..MaxEvents)]

Closed == [pc |-> "closed", header |-> 0, after |-> 0, upto |-> 0, wire |-> <<>>]
Opened(id) == [pc |-> "resolving", header |-> id, after |-> 0, upto |-> 0, wire |-> <<>>]

Init ==
    /\ log = <<>>
    /\ conn = [i \in Clients |-> Closed]
    /\ got = [i \in Clients |-> <<>>]
    /\ drops = 0

Over == log # <<>> /\ log[Len(log)] \in TerminalStages
SawAll(i) == Over /\ Len(got[i]) = Len(log)
LastId(i) == IF got[i] = <<>> THEN 0 ELSE got[i][Len(got[i])]

-----------------------------------------------------------------------------
\* append_event on a worker thread; nothing follows a terminal event.
AppendEvent(stage) ==
    /\ ~Over /\ Len(log) < MaxEvents
    /\ log' = Append(log, stage)
    /\ UNCHANGED <<conn, got, drops>>

\* The client asks for what follows the last event it received ...
Resume(i) ==
    /\ conn[i].pc = "closed"
    /\ conn' = [conn EXCEPT ![i] = Opened(LastId(i))]
    /\ UNCHANGED <<log, got, drops>>

\* ... or forgets what it had: no header, or one the server does not know.
StartOver(i) ==
    /\ conn[i].pc = "closed" /\ got[i] # <<>>
    /\ \E id \in {0, UnknownId} :
         conn' = [conn EXCEPT ![i] = Opened(id)]
    /\ got' = [got EXCEPT ![i] = <<>>]
    /\ UNCHANGED <<log, drops>>

\* Mutant: an id that cannot be resolved resumes at the end of the log.
ResolveUnknownAtEnd(i) ==
    /\ conn[i].pc = "resolving"
    /\ LET id == conn[i].header
           start == IF id > Len(log) THEN Len(log) ELSE id
       IN conn' = [conn EXCEPT ![i].pc = "polling", ![i].after = start, ![i].upto = start]
    /\ UNCHANGED <<log, got, drops>>

\* get_event_sequence: an unknown id replays from the beginning.
Resolve(i) ==
    /\ conn[i].pc = "resolving"
    /\ LET id == conn[i].header
           start == IF id \in DOMAIN log THEN id ELSE 0
       IN conn' = [conn EXCEPT ![i].pc = "polling", ![i].after = start, ![i].upto = start]
    /\ UNCHANGED <<log, got, drops>>

\* Mutant: sequence >= ? instead of sequence > ?.
PollInclusive(i) ==
    /\ conn[i].pc = "polling"
    /\ conn[i].after = conn[i].upto /\ conn[i].after < Len(log)
    /\ conn' = [conn EXCEPT ![i].upto = Len(log),
                            ![i].after = IF @ = 0 THEN 0 ELSE @ - 1]
    /\ UNCHANGED <<log, got, drops>>

\* The batch is sent: list_events reads everything after the cursor.  A poll
\* that finds nothing sends at most a heartbeat and sleeps.
Poll(i) ==
    /\ conn[i].pc = "polling"
    /\ conn[i].after = conn[i].upto /\ conn[i].after < Len(log)
    /\ conn' = [conn EXCEPT ![i].upto = Len(log)]
    /\ UNCHANGED <<log, got, drops>>

\* Mutant: the generator returns with the batch it found the log to end in.
YieldEndsOnFailure(i) ==
    /\ conn[i].pc = "polling" /\ conn[i].after < conn[i].upto
    /\ LET next == conn[i].after + 1
       IN conn' = [conn EXCEPT ![i].after = next, ![i].wire = Append(@, next),
                     ![i].pc = IF log[next] \in TerminalStages \cup {"action_failed"}
                                 THEN "ended" ELSE "polling"]
    /\ UNCHANGED <<log, got, drops>>

\* One frame of the batch; the generator returns after a terminal event.
Yield(i) ==
    /\ conn[i].pc = "polling" /\ conn[i].after < conn[i].upto
    /\ LET next == conn[i].after + 1
       IN conn' = [conn EXCEPT ![i].after = next, ![i].wire = Append(@, next),
                     ![i].pc = IF log[next] \in TerminalStages THEN "ended" ELSE "polling"]
    /\ UNCHANGED <<log, got, drops>>

Deliver(i) ==
    /\ conn[i].wire # <<>>
    /\ got' = [got EXCEPT ![i] = Append(@, Head(conn[i].wire))]
    /\ conn' = [conn EXCEPT ![i].wire = Tail(@)]
    /\ UNCHANGED <<log, drops>>

\* The response is complete.
Close(i) ==
    /\ conn[i].pc = "ended" /\ conn[i].wire = <<>>
    /\ conn' = [conn EXCEPT ![i] = Closed]
    /\ UNCHANGED <<log, got, drops>>

\* The connection breaks, or the client leaves: request.is_disconnected() ends
\* the generator, and frames still on the wire are lost.
Drop(i) ==
    /\ conn[i].pc # "closed" /\ drops < MaxDrops
    /\ conn' = [conn EXCEPT ![i] = Closed]
    /\ drops' = drops + 1
    /\ UNCHANGED <<log, got>>

Serve(i) == Resolve(i) \/ Poll(i) \/ Yield(i)

Next ==
    \/ \E stage \in OpenStages \cup TerminalStages : AppendEvent(stage)
    \/ \E i \in Clients : \/ Resume(i) \/ StartOver(i) \/ Drop(i)
                          \/ Serve(i) \/ Deliver(i) \/ Close(i)

Spec == Init /\ [][Next]_streamVars

\* The event loop keeps polling, the network delivers, and a client that has
\* not seen the end reconnects.  Nothing obliges a run to end.
Fairness ==
    \A i \in Clients :
        /\ WF_streamVars(Serve(i)) /\ WF_streamVars(Deliver(i)) /\ WF_streamVars(Close(i))
        /\ WF_streamVars(~SawAll(i) /\ Resume(i))

FairSpec == Spec /\ Fairness

-----------------------------------------------------------------------------
\* Properties

TypeOK ==
    /\ log \in Seq(OpenStages \cup TerminalStages) /\ Len(log) <= MaxEvents
    /\ conn \in [Clients -> Conn]
    /\ got \in [Clients -> Seq(1..MaxEvents)]
    /\ drops \in 0..MaxDrops

\* However often a client loses its connection and resumes with Last-Event-ID,
\* what it has received is a prefix of the log: no gap, no duplicate, no
\* reordering between the batches of list_events, the frames lost on the wire
\* and the events appended meanwhile.
NoGapNoDuplicate ==
    \A i \in Clients :
        /\ Len(got[i]) <= Len(log)
        /\ \A k \in DOMAIN got[i] : got[i][k] = k

\* The server ends a stream only when the run is over and every event has been
\* sent on this connection or received before it.
EndsComplete ==
    \A i \in Clients :
        conn[i].pc = "ended" => Over /\ Len(got[i]) + Len(conn[i].wire) = Len(log)

\* A client that keeps reconnecting receives the whole log of a run that ended.
Delivered == \A i \in Clients : Over ~> SawAll(i)

\* The cursor of a connection stands exactly behind what its client has and the
\* wire carries.
CursorInv(i) ==
    /\ \A k \in DOMAIN conn[i].wire : conn[i].wire[k] = Len(got[i]) + k
    /\ conn[i].pc \in {"closed", "resolving"} => conn[i].wire = <<>>
    /\ conn[i].pc = "resolving" =>
         conn[i].header = LastId(i) \/ (conn[i].header = UnknownId /\ got[i] = <<>>)
    /\ conn[i].pc \in {"polling", "ended"} =>
         /\ Len(got[i]) + Len(conn[i].wire) = conn[i].after
         /\ conn[i].after <= conn[i].upto /\ conn[i].upto <= Len(log)
    /\ conn[i].pc = "ended" => Over /\ conn[i].after = Len(log)

\* Nothing follows a terminal event.
LogInv == \A k \in DOMAIN log : log[k] \in TerminalStages => k = Len(log)

StreamInv ==
    /\ TypeOK
    /\ LogInv
    /\ NoGapNoDuplicate
    /\ \A i \in Clients : CursorInv(i)
=============================================================================
