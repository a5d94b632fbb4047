---------------------------- MODULE RunLifecycle ----------------------------
(***************************************************************************)
(* The life of a planning run in System A (orchestration/system_a):        *)
(*                                                                         *)
(*   POST /v1/runs  -->  RunService.create_run  -->  RunStore (SQLite)     *)
(*                              |                       ^   ^              *)
(*                              v                       |   |              *)
(*                     thread pool: _execute -----------+   |              *)
(*   POST /v1/runs/{id}/cancel -----------------------------+              *)
(*   process crash, graceful shutdown, boot and startup reconciliation     *)
(*                                                                         *)
(* `row' and `log' are the two durable tables (runs, run_events).  `call'  *)
(* (request threads), `queue' and `job' (the worker pool) live in the      *)
(* process and are lost with it.  Every RunStore method opens its own      *)
(* connection and commits once, so each is one action; everything between  *)
(* two RunStore calls can interleave with every other thread.  A call can  *)
(* also fail ("database is locked" after busy_timeout): the fault branch.  *)
(*                                                                         *)
(* phase4.graph (a separate repository) is external: it is what            *)
(* graph.stream() may do between two of the service's own steps.           *)
(***************************************************************************)
EXTENDS Naturals, Sequences, FiniteSets

CONSTANTS
    Calls,         \* POST /v1/runs requests; each mints one fresh run id (uuid4)
    Keys,          \* idempotency keys clients send
    NoKey,         \* a request without an idempotency key
    NoRun,         \* null run id
    MaxWorkers,    \* ThreadPoolExecutor(max_workers)
    GraphStatuses, \* values final_result["status"] may take in this instance
    MaxTurns,      \* recursion_limit: graph transitions of one run
    MaxCrashes,    \* bound on process crashes
    MaxFaults      \* bound on failed database calls

ASSUME ConstantsOK ==
    /\ MaxWorkers \in Nat \ {0}
    /\ MaxTurns \in Nat
    /\ MaxCrashes \in Nat
    /\ MaxFaults \in Nat
    /\ NoKey \notin Keys
    /\ NoRun \notin Calls
    /\ GraphStatuses \subseteq
         {"success", "needs_clarification", "partial", "unavailable", "degraded"}
    /\ "degraded" \in GraphStatuses

VARIABLES
    proc,     \* the process: down, booting, serving, draining
    row,      \* table runs
    log,      \* table run_events, per run in sequence order
    call,     \* request threads of create_run
    queue,    \* submitted jobs no worker has picked up yet (FIFO)
    job,      \* jobs of the pool, each identified by the call that submitted it
    crashes,  \* crashes so far
    faults    \* failed database calls so far

vars == <<proc, row, log, call, queue, job, crashes, faults>>

-----------------------------------------------------------------------------
\* Values

TerminalStatuses == {"completed", "degraded", "failed", "cancelled"}
Statuses == {"pending", "running"} \cup TerminalStatuses

TerminalStages == {"run_completed", "run_degraded", "run_failed", "run_cancelled"}
Stages == {"run_started", "action_started", "action_completed", "action_failed"}
            \cup TerminalStages

TerminalStageFor(status) ==
    [completed |-> "run_completed", degraded  |-> "run_degraded",
     failed    |-> "run_failed",    cancelled |-> "run_cancelled"][status]

MapFinalResult(graphStatus, cancelRequested) ==
    IF cancelRequested /\ graphStatus = "degraded" THEN "cancelled"
    ELSE IF graphStatus \in {"success", "needs_clarification"} THEN "completed"
    ELSE IF graphStatus \in {"partial", "unavailable", "degraded"} THEN "degraded"
    ELSE "failed"

Results == GraphStatuses \cup {"none", "failed"}

Row == [status : Statuses \cup {"absent"},
        key    : Keys \cup {NoKey},
        cancel : BOOLEAN,
        result : Results,
        error  : {"none", "INTERNAL_EXECUTION_ERROR", "SERVICE_RESTARTED"}]

AbsentRow == [status |-> "absent", key |-> NoKey, cancel |-> FALSE,
              result |-> "none", error |-> "none"]

Call == [pc  : {"idle", "created", "replied", "refused", "lost"},
         run : Calls \cup {NoRun}]

\* The control points of RunService._execute, in program order.
RunningPcs == {"mark_running", "emit_started", "setup", "decide", "emit_action",
               "execute", "executing", "observe", "read_flag", "mark_terminal",
               "emit_terminal", "fail_mark", "fail_emit"}

JobPcs == RunningPcs \cup {"none", "queued", "finished", "swallowed", "dead"}

Job == [pc     : JobPcs,
        run    : Calls \cup {NoRun},
        turns  : 0..MaxTurns,
        acts   : Nat,
        result : Results,
        status : TerminalStatuses \cup {"none"}]

NoJob == [pc |-> "none", run |-> NoRun, turns |-> 0, acts |-> 0,
          result |-> "none", status |-> "none"]

Exists(r) == row[r].status # "absent"
Busy == {c \in Calls : job[c].pc \in RunningPcs}
Alive == proc \in {"serving", "draining"}

Init ==
    /\ proc = "down"
    /\ row = [r \in Calls |-> AbsentRow]
    /\ log = [r \in Calls |-> <<>>]
    /\ call = [c \in Calls |-> [pc |-> "idle", run |-> NoRun]]
    /\ queue = <<>>
    /\ job = [c \in Calls |-> NoJob]
    /\ crashes = 0
    /\ faults = 0

-----------------------------------------------------------------------------
\* POST /v1/runs

RowsWithKey(k) == {r \in Calls : Exists(r) /\ row[r].key = k}

\* check_input refuses the request before any row exists (422), or the insert
\* itself fails (500).  Either way nothing is stored and nothing is submitted.
RefuseRun(c) ==
    /\ proc = "serving" /\ call[c].pc = "idle"
    /\ call' = [call EXCEPT ![c].pc = "refused"]
    /\ \/ UNCHANGED faults
       \/ faults < MaxFaults /\ faults' = faults + 1
    /\ UNCHANGED <<proc, row, log, queue, job, crashes>>

\* INSERT INTO runs succeeds: the request thread owns a fresh pending run.
InsertRun(c, k) ==
    /\ proc = "serving" /\ call[c].pc = "idle"
    /\ k = NoKey \/ RowsWithKey(k) = {}
    /\ row' = [row EXCEPT ![c] = [AbsentRow EXCEPT !.status = "pending", !.key = k]]
    /\ call' = [call EXCEPT ![c] = [pc |-> "created", run |-> c]]
    /\ UNCHANGED <<proc, log, queue, job, crashes, faults>>

\* Mutant: the run is scheduled without asking whether it was created.
ReuseRunSubmits(c, k) ==
    /\ proc = "serving" /\ call[c].pc = "idle"
    /\ k # NoKey
    /\ \E r \in RowsWithKey(k) :
         call' = [call EXCEPT ![c] = [pc |-> "created", run |-> r]]
    /\ UNCHANGED <<proc, row, log, queue, job, crashes, faults>>

\* UNIQUE(idempotency_key) rejects the insert: reply with the existing run.
ReuseRun(c, k) ==
    /\ proc = "serving" /\ call[c].pc = "idle"
    /\ k # NoKey
    /\ \E r \in RowsWithKey(k) :
         call' = [call EXCEPT ![c] = [pc |-> "replied", run |-> r]]
    /\ UNCHANGED <<proc, row, log, queue, job, crashes, faults>>

\* self._pool.submit(self._execute, record.run_id, ...); then the 201 reply.
SubmitRun(c) ==
    /\ proc = "serving" /\ call[c].pc = "created"
    /\ queue' = Append(queue, c)
    /\ job' = [job EXCEPT ![c] = [NoJob EXCEPT !.pc = "queued", !.run = call[c].run]]
    /\ call' = [call EXCEPT ![c].pc = "replied"]
    /\ UNCHANGED <<proc, row, log, crashes, faults>>

\* Mutant: cancelling settles the run on the spot.
RequestCancellationSettles(r) ==
    /\ proc = "serving"
    /\ Exists(r)
    /\ row' = [row EXCEPT ![r].cancel = TRUE, ![r].status = "cancelled"]
    /\ UNCHANGED <<proc, log, call, queue, job, crashes, faults>>

\* POST /v1/runs/{id}/cancel: sets the flag whatever the status is.
RequestCancellation(r) ==
    /\ proc = "serving"
    /\ Exists(r)
    /\ row' = [row EXCEPT ![r].cancel = TRUE]
    /\ UNCHANGED <<proc, log, call, queue, job, crashes, faults>>

-----------------------------------------------------------------------------
\* RunService._execute, on a worker thread

\* An idle worker takes the oldest submitted job.
PickUp ==
    /\ Alive /\ queue # <<>> /\ Cardinality(Busy) < MaxWorkers
    /\ job' = [job EXCEPT ![Head(queue)].pc = "mark_running"]
    /\ queue' = Tail(queue)
    /\ UNCHANGED <<proc, row, log, call, crashes, faults>>

Goto(c, pc) == job' = [job EXCEPT ![c].pc = pc]

At(c, pc) == Alive /\ job[c].pc = pc

\* One append_event that succeeds and moves the job on, or fails and sends the
\* job to the handler of the exception.
Emit(c, stage, next, handler) ==
    /\ \/ /\ log' = [log EXCEPT ![job[c].run] = Append(@, stage)]
          /\ Goto(c, next)
          /\ UNCHANGED faults
       \/ /\ faults < MaxFaults /\ faults' = faults + 1
          /\ Goto(c, handler)
          /\ UNCHANGED log
    /\ UNCHANGED <<proc, row, call, queue, crashes>>

\* Mutant: starting a run clears an earlier cancellation request.
MarkRunningClearsFlag(c) ==
    /\ At(c, "mark_running")
    /\ row' = [row EXCEPT ![job[c].run].status = "running", ![job[c].run].cancel = FALSE]
    /\ Goto(c, "emit_started")
    /\ UNCHANGED <<proc, log, call, queue, crashes, faults>>

\* UPDATE runs ... WHERE run_id = ? AND status = 'pending'.  This write and the
\* next emit precede the try block: their exception dies in the Future.
MarkRunning(c) ==
    /\ At(c, "mark_running")
    /\ \/ /\ row' = [row EXCEPT ![job[c].run].status =
                       IF @ = "pending" THEN "running" ELSE @]
          /\ Goto(c, "emit_started")
          /\ UNCHANGED faults
       \/ /\ faults < MaxFaults /\ faults' = faults + 1
          /\ Goto(c, "swallowed")
          /\ UNCHANGED row
    /\ UNCHANGED <<proc, log, call, queue, crashes>>

EmitStarted(c) ==
    /\ At(c, "emit_started")
    /\ Emit(c, "run_started", "setup", "swallowed")

\* Connection, checkpointer, provider factories and build_graph.
Setup(c) ==
    /\ At(c, "setup")
    /\ \E next \in {"decide", "fail_mark"} : Goto(c, next)
    /\ UNCHANGED <<proc, row, log, call, queue, crashes, faults>>

\* The stream ended with final_result.status = g, or GraphRecursionError made
\* the service fall back to its own degraded result.
EndGraph(c, g) ==
    job' = [job EXCEPT ![c].pc = "read_flag", ![c].result = g]

\* One Decide transition of the graph (external).  Its precondition is the
\* cancellation_check closure the service passes in.
GraphDecide(c) ==
    /\ At(c, "decide")
    /\ IF job[c].turns = MaxTurns \/ row[job[c].run].cancel
         THEN EndGraph(c, "degraded")
         ELSE \/ \E g \in GraphStatuses : EndGraph(c, g)
              \/ \E next \in {"emit_action", "decide"} :   \* tool call, duplicate_skip
                   job' = [job EXCEPT ![c].pc = next, ![c].turns = @ + 1]
              \/ Goto(c, "fail_mark")
    /\ UNCHANGED <<proc, row, log, call, queue, crashes, faults>>

\* The "decide" update reaches _handle_stream_update.
EmitActionStarted(c) ==
    /\ At(c, "emit_action")
    /\ Emit(c, "action_started", "execute", "fail_mark")

\* Mutant: the flag is only checked before Decide.
GraphExecuteUnchecked(c) ==
    /\ At(c, "execute")
    /\ job' = [job EXCEPT ![c].pc = "executing", ![c].acts = @ + 1]
    /\ UNCHANGED <<proc, row, log, call, queue, crashes, faults>>

\* Execute (external): the flag is checked again, then the tool is called.
GraphExecute(c) ==
    /\ At(c, "execute")
    /\ IF row[job[c].run].cancel
         THEN EndGraph(c, "degraded")
         ELSE job' = [job EXCEPT ![c].pc = "executing", ![c].acts = @ + 1]
    /\ UNCHANGED <<proc, row, log, call, queue, crashes, faults>>

\* The tool returns an observation, or raises.
ToolReturns(c) ==
    /\ At(c, "executing")
    /\ \E next \in {"observe", "fail_mark"} : Goto(c, next)
    /\ UNCHANGED <<proc, row, log, call, queue, crashes, faults>>

\* While a delegation is executing, the specialist reports its own transitions
\* through _handle_specialist_event; each one costs it a transition.
SpecialistEvent(c) ==
    /\ At(c, "executing") /\ job[c].turns < MaxTurns
    /\ \E stage \in {"action_started", "action_completed", "action_failed"} :
         \/ /\ log' = [log EXCEPT ![job[c].run] = Append(@, stage)]
            /\ job' = [job EXCEPT ![c].turns = @ + 1]
            /\ UNCHANGED faults
         \/ /\ faults < MaxFaults /\ faults' = faults + 1
            /\ Goto(c, "fail_mark")
            /\ UNCHANGED log
    /\ UNCHANGED <<proc, row, call, queue, crashes>>

\* The "observe" update reaches _handle_stream_update, which reports its newest
\* observation, if it has one.
EmitObservation(c) ==
    /\ At(c, "observe")
    /\ \/ \E stage \in {"action_completed", "action_failed"} :
            Emit(c, stage, "decide", "fail_mark")
       \/ /\ Goto(c, "decide")
          /\ UNCHANGED <<proc, row, log, call, queue, crashes, faults>>

\* Mutant: the terminal event goes out before the status is stored.
ReadFlagAndPublish(c) ==
    /\ At(c, "read_flag")
    /\ job' = [job EXCEPT ![c].pc = "emit_terminal",
                          ![c].status = MapFinalResult(job[c].result, row[job[c].run].cancel)]
    /\ UNCHANGED <<proc, row, log, call, queue, crashes, faults>>

\* The budget summary never fails the run; then the flag is read once more and
\* the graph's status mapped.
ReadFlagAndMap(c) ==
    /\ At(c, "read_flag")
    /\ \/ /\ job' = [job EXCEPT ![c].pc = "mark_terminal",
                                ![c].status = MapFinalResult(job[c].result, row[job[c].run].cancel)]
          /\ UNCHANGED faults
       \/ /\ faults < MaxFaults /\ faults' = faults + 1
          /\ Goto(c, "fail_mark")
    /\ UNCHANGED <<proc, row, log, call, queue, crashes>>

\* Mutant: the error code is not part of the update.
SetTerminalWithoutError(c, status, result, error, next, handler) ==
    /\ row' = [row EXCEPT ![job[c].run].status = status, ![job[c].run].result = result]
    /\ Goto(c, next)
    /\ UNCHANGED <<proc, log, call, queue, crashes, faults>>

\* UPDATE runs SET status, result_json, error_code ... WHERE run_id = ?
SetTerminal(c, status, result, error, next, handler) ==
    /\ \/ /\ row' = [row EXCEPT ![job[c].run].status = status,
                                ![job[c].run].result = result,
                                ![job[c].run].error = error]
          /\ Goto(c, next)
          /\ UNCHANGED faults
       \/ /\ faults < MaxFaults /\ faults' = faults + 1
          /\ Goto(c, handler)
          /\ UNCHANGED row
    /\ UNCHANGED <<proc, log, call, queue, crashes>>

MarkTerminal(c) ==
    /\ At(c, "mark_terminal")
    /\ SetTerminal(c, job[c].status, job[c].result, "none", "emit_terminal", "fail_mark")

\* Mutant: after the terminal event the job falls through to the failure path.
EmitTerminalFallsThrough(c) ==
    /\ At(c, "emit_terminal")
    /\ Emit(c, TerminalStageFor(job[c].status), "fail_emit", "fail_mark")

EmitTerminal(c) ==
    /\ At(c, "emit_terminal")
    /\ Emit(c, TerminalStageFor(job[c].status), "finished", "fail_mark")

\* except Exception: the run is marked failed, whatever its status was.  An
\* exception raised in here dies in the Future.
FailMark(c) ==
    /\ At(c, "fail_mark")
    /\ SetTerminal(c, "failed", "failed", "INTERNAL_EXECUTION_ERROR", "fail_emit", "swallowed")

FailEmit(c) ==
    /\ At(c, "fail_emit")
    /\ Emit(c, "run_failed", "finished", "swallowed")

JobStep(c) ==
    \/ MarkRunning(c) \/ EmitStarted(c) \/ Setup(c)
    \/ GraphDecide(c) \/ EmitActionStarted(c) \/ GraphExecute(c)
    \/ ToolReturns(c) \/ SpecialistEvent(c) \/ EmitObservation(c)
    \/ ReadFlagAndMap(c) \/ MarkTerminal(c) \/ EmitTerminal(c)
    \/ FailMark(c) \/ FailEmit(c)

-----------------------------------------------------------------------------
\* The process

\* kill -9, power loss, OOM: request threads, queue and workers are gone.
Crash ==
    /\ proc # "down" /\ crashes < MaxCrashes
    /\ proc' = "down"
    /\ crashes' = crashes + 1
    /\ call' = [c \in Calls |-> IF call[c].pc = "created"
                                  THEN [call[c] EXCEPT !.pc = "lost"] ELSE call[c]]
    /\ job' = [c \in Calls |-> IF job[c].pc \in RunningPcs \cup {"queued"}
                                 THEN [job[c] EXCEPT !.pc = "dead"] ELSE job[c]]
    /\ queue' = <<>>
    /\ UNCHANGED <<row, log, faults>>

Boot ==
    /\ proc = "down"
    /\ proc' = "booting"
    /\ UNCHANGED <<row, log, call, queue, job, crashes, faults>>

\* Mutant: only running runs are reconciled.
ReconcileRunningOnly ==
    /\ proc = "booting"
    /\ proc' = "serving"
    /\ row' = [r \in Calls |->
                 IF row[r].status = "running"
                   THEN [row[r] EXCEPT !.status = "failed", !.error = "SERVICE_RESTARTED"]
                   ELSE row[r]]
    /\ UNCHANGED <<log, call, queue, job, crashes, faults>>

\* Mutant: everything that is not completed is reconciled.
ReconcileUnlessCompleted ==
    /\ proc = "booting"
    /\ proc' = "serving"
    /\ row' = [r \in Calls |->
                 IF row[r].status \notin {"absent", "completed"}
                   THEN [row[r] EXCEPT !.status = "failed", !.error = "SERVICE_RESTARTED"]
                   ELSE row[r]]
    /\ UNCHANGED <<log, call, queue, job, crashes, faults>>

\* Lifespan startup, before the first request is served.  If the update fails
\* the application does not start.
Reconcile ==
    /\ proc = "booting"
    /\ \/ /\ proc' = "serving"
          /\ row' = [r \in Calls |->
                       IF row[r].status \in {"pending", "running"}
                         THEN [row[r] EXCEPT !.status = "failed", !.error = "SERVICE_RESTARTED"]
                         ELSE row[r]]
          /\ UNCHANGED faults
       \/ /\ faults < MaxFaults /\ faults' = faults + 1
          /\ proc' = "down"
          /\ UNCHANGED row
    /\ UNCHANGED <<log, call, queue, job, crashes>>

\* Mutant: shutdown(cancel_futures=True).
ShutdownDropsQueue ==
    /\ proc = "serving"
    /\ \A c \in Calls : call[c].pc # "created"
    /\ proc' = "draining"
    /\ queue' = <<>>
    /\ UNCHANGED <<row, log, call, job, crashes, faults>>

\* Lifespan shutdown: the server has stopped accepting requests and finished
\* the open ones; the pool drains its queue (no cancel_futures).
Shutdown ==
    /\ proc = "serving"
    /\ \A c \in Calls : call[c].pc # "created"
    /\ proc' = "draining"
    /\ UNCHANGED <<row, log, call, queue, job, crashes, faults>>

\* Mutant: shutdown(wait=False), the process exits under its workers.
DrainedWithoutWaiting ==
    /\ proc = "draining"
    /\ proc' = "down"
    /\ UNCHANGED <<row, log, call, queue, job, crashes, faults>>

Drained ==
    /\ proc = "draining" /\ queue = <<>> /\ Busy = {}
    /\ proc' = "down"
    /\ UNCHANGED <<row, log, call, queue, job, crashes, faults>>

-----------------------------------------------------------------------------

Next ==
    \/ \E c \in Calls : RefuseRun(c) \/ SubmitRun(c) \/ JobStep(c)
    \/ \E c \in Calls, k \in Keys \cup {NoKey} : InsertRun(c, k) \/ ReuseRun(c, k)
    \/ \E r \in Calls : RequestCancellation(r)
    \/ PickUp
    \/ Crash \/ Boot \/ Reconcile \/ Shutdown \/ Drained

Spec == Init /\ [][Next]_vars

\* A thread that can run does run, and the operator restarts a process that is
\* down (docker compose: restart).  Clients owe nothing.
Fairness ==
    /\ \A c \in Calls : WF_vars(SubmitRun(c)) /\ WF_vars(JobStep(c))
    /\ WF_vars(PickUp) /\ WF_vars(Boot) /\ WF_vars(Reconcile)

FairSpec == Spec /\ Fairness

-----------------------------------------------------------------------------
\* Properties

TypeOK ==
    /\ proc \in {"down", "booting", "serving", "draining"}
    /\ row \in [Calls -> Row]
    /\ log \in [Calls -> Seq(Stages)]
    /\ call \in [Calls -> Call]
    /\ queue \in Seq(Calls)
    /\ job \in [Calls -> Job]
    /\ crashes \in 0..MaxCrashes
    /\ faults \in 0..MaxFaults

HasTerminalEvent(r) == \E i \in DOMAIN log[r] : log[r][i] \in TerminalStages
Settled(r) == row[r].status \in TerminalStatuses
Submitted(c) == job[c].pc # "none"

\* No run, and no idempotency key, is ever executed twice: not by two requests
\* racing with one key, not by a retry after a crash, not by a reused run being
\* submitted again (create_run's `if created`, the UNIQUE key).
OneExecutionPerKey ==
    \A c, d \in Calls :
        Submitted(c) /\ Submitted(d) /\ c # d =>
            /\ job[c].run # job[d].run
            /\ row[job[c].run].key # row[job[d].run].key \/ row[job[c].run].key = NoKey

\* A client that sees the terminal event finds the matching terminal status and
\* its result in GET /v1/runs/{id}, whatever failed or crashed in between.
EventReflected(r) ==
    \A i \in DOMAIN log[r] :
        log[r][i] \in TerminalStages =>
            /\ Settled(r)
            /\ log[r][i] = TerminalStageFor(row[r].status)
            /\ row[r].result # "none"

TerminalEventReflected == \A r \in Calls : EventReflected(r)

\* The event log of a run opens with its only run_started and holds at most one
\* terminal event, in last place: what the SSE reader stops on.
LogShaped(r) ==
    \A i \in DOMAIN log[r] :
        /\ log[r][i] = "run_started" <=> i = 1
        /\ log[r][i] \in TerminalStages => i = Len(log[r])

LogShape == \A r \in Calls : LogShaped(r)

\* Status, result, error code and cancellation flag of a settled run agree, also
\* after the exception path overwrote a status that was already terminal.
OutcomeAgrees(r) ==
    /\ row[r].status = "completed" => row[r].result \in {"success", "needs_clarification"}
    /\ row[r].status = "degraded" => row[r].result \in {"partial", "unavailable", "degraded"}
    /\ row[r].status = "cancelled" => row[r].cancel /\ row[r].result = "degraded"
    /\ row[r].status = "failed" <=> row[r].error # "none"
    /\ ~Settled(r) => row[r].result = "none"

OutcomeConsistent == \A r \in Calls : OutcomeAgrees(r)

\* Startup reconciliation only ever fails runs whose execution really was cut
\* short by a crash or a failed write: a graceful redeploy, which drains the
\* pool, fails none, and no finished run is reported as interrupted.
OnlyInterruptedRunsReconciled ==
    \A r \in Calls :
        row[r].error = "SERVICE_RESTARTED" =>
            /\ crashes + faults > 0
            /\ row[r].result = "none" /\ ~HasTerminalEvent(r)
            /\ \A c \in Calls : job[c].run = r => job[c].pc \in {"dead", "swallowed"}

\* Once its terminal event is out, a run's status, result and error never change
\* again and its log never grows: reconciliation, late cancellations and the
\* exception path (which overwrites any status) leave it alone.
KeepsPublished ==
    \A r \in Calls : HasTerminalEvent(r) =>
        /\ log'[r] = log[r]
        /\ row'[r].status = row[r].status
        /\ row'[r].result = row[r].result
        /\ row'[r].error = row[r].error

PublishedRunIsFinal == [][KeepsPublished]_vars

\* A run cancelled before a worker started it never ends completed or degraded:
\* the flag survives mark_running, reaches the graph's first Decide and is still
\* there when the outcome is mapped.
EarlyCancelEndsCancelled ==
    \A r \in Calls :
        [](row[r].status = "pending" /\ row[r].cancel
             => [](row[r].status \notin {"completed", "degraded"}))

\* After a cancellation no further tool call begins; the call in flight may end.
CancelStopsActing ==
    \A r \in Calls, n \in 0..MaxTurns :
        [](row[r].cancel /\ job[r].acts = n => [](job[r].acts = n))

\* RunApi, the contract of the public API, read off the two tables.
Api == INSTANCE RunApi WITH
         Runs <- Calls,
         status <- [r \in Calls |-> row[r].status],
         cancel <- [r \in Calls |-> row[r].cancel],
         published <- [r \in Calls |->
                         IF HasTerminalEvent(r) THEN log[r][Len(log[r])] ELSE "none"]

\* The service implements the contract, with crashes and failed writes.
ImplementsApi == Api!Spec

\* Unless the process crashes or a write fails, every run that was accepted
\* publishes a terminal event, also if the service is being shut down meanwhile.
EveryRunPublishes ==
    \A r \in Calls : Exists(r) ~> HasTerminalEvent(r) \/ crashes + faults > 0

\* Crashes notwithstanding, every run reaches a terminal status: either a worker
\* settles it or the next startup does.
EveryRunSettles ==
    \A r \in Calls : Exists(r) ~> Settled(r)

\* ADR 0015: a terminal event, "exactly one, always last", for every run that
\* ended.  (Checked to be violated: reconciliation appends no event.)
SettledRunsArePublished ==
    \A r \in Calls :
        /\ proc = "serving" /\ Settled(r)
        /\ \A c \in Calls : job[c].run = r => job[c].pc \notin RunningPcs
        => HasTerminalEvent(r)
-----------------------------------------------------------------------------
\* The inductive invariant behind the safety properties

\* UNIQUE(idempotency_key).
KeysUnique ==
    \A r, s \in Calls :
        Exists(r) /\ Exists(s) /\ r # s => row[r].key # row[s].key \/ row[r].key = NoKey

\* The queue holds exactly the queued jobs, once each.
QueueInv ==
    /\ \A i \in DOMAIN queue : job[queue[i]].pc = "queued"
    /\ \A i, j \in DOMAIN queue : queue[i] = queue[j] => i = j
    /\ \A c \in Calls : job[c].pc = "queued" => \E i \in DOMAIN queue : queue[i] = c

\* Threads only exist in a process that is up.
ThreadInv ==
    \A c \in Calls :
        /\ call[c].pc = "created" => proc = "serving"
        /\ job[c].pc \in RunningPcs \cup {"queued"} => Alive

BodyPcs == {"setup", "decide", "emit_action", "execute", "executing", "observe",
            "read_flag", "mark_terminal"}

\* Where a run's request and job stand determines what its row and log hold.
StepInv(c) ==
    /\ Submitted(c) => job[c].run = c /\ call[c].pc = "replied" /\ Exists(c)
    /\ ~Submitted(c) => /\ job[c].run = NoRun /\ log[c] = <<>>
                       /\ row[c].status \in {"absent", "pending", "failed"}
                       /\ (Exists(c) => call[c].pc \in {"created", "lost"})
    /\ call[c].pc = "idle" => row[c] = AbsentRow
    /\ call[c].pc = "created" => call[c].run = c /\ ~Submitted(c) /\ row[c].status = "pending"
    /\ job[c].pc \in {"queued", "mark_running"} => row[c].status = "pending" /\ log[c] = <<>>
    /\ job[c].pc = "emit_started" => row[c].status = "running" /\ log[c] = <<>>
    /\ job[c].pc \in BodyPcs =>
         row[c].status = "running" /\ log[c] # <<>> /\ ~HasTerminalEvent(c)
    /\ job[c].pc \in {"read_flag", "mark_terminal"} => job[c].result \in GraphStatuses
    /\ job[c].pc = "mark_terminal" =>
         \E seen \in BOOLEAN :
            (seen => row[c].cancel) /\ job[c].status = MapFinalResult(job[c].result, seen)
    /\ job[c].pc = "emit_terminal" =>
         /\ job[c].status = row[c].status /\ Settled(c) /\ row[c].result # "none"
         /\ log[c] # <<>> /\ ~HasTerminalEvent(c)
    /\ job[c].pc = "fail_mark" =>
         row[c].status # "pending" /\ log[c] # <<>> /\ ~HasTerminalEvent(c)
    /\ job[c].pc = "fail_emit" =>
         /\ row[c].status = "failed" /\ row[c].result # "none"
         /\ log[c] # <<>> /\ ~HasTerminalEvent(c)
    /\ job[c].pc = "finished" => Settled(c)
    /\ job[c].pc = "dead" \/ call[c].pc = "lost" => crashes > 0
    /\ job[c].pc = "swallowed" => faults > 0

\* Reconciliation only met runs whose request or job was gone.
ReconciledInv(c) ==
    row[c].error = "SERVICE_RESTARTED" =>
        /\ crashes + faults > 0
        /\ row[c].result = "none" /\ ~HasTerminalEvent(c)
        /\ job[c].pc \in {"none", "dead", "swallowed"}
        /\ call[c].pc # "created"

RunInv(c) ==
    StepInv(c) /\ LogShaped(c) /\ EventReflected(c) /\ OutcomeAgrees(c) /\ ReconciledInv(c)

IInv ==
    /\ TypeOK
    /\ KeysUnique
    /\ QueueInv
    /\ ThreadInv
    /\ \A c \in Calls : RunInv(c)

=============================================================================
