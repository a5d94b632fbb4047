------------------------- MODULE RunLifecycleProofs -------------------------
(***************************************************************************)
(* Safety of the run lifecycle for any number of requests, keys, workers,  *)
(* graph transitions, crashes and failed writes.                           *)
(***************************************************************************)
EXTENDS RunLifecycle, TLAPS

-----------------------------------------------------------------------------
\* Type correctness

LEMMA TypeInit == Init => TypeOK
<1> SUFFICES ASSUME Init PROVE TypeOK
  OBVIOUS
<1>1. row \in [Calls -> Row]
  BY DEF Init, Row, AbsentRow, Results
<1>2. call \in [Calls -> Call]
  BY DEF Init, Call
<1>3. NoJob \in Job
  BY ConstantsOK DEF NoJob, Job, JobPcs, Results
<1>4. job \in [Calls -> Job]
  BY <1>3 DEF Init
<1>5. log \in [Calls -> Seq(Stages)] /\ queue \in Seq(Calls)
  BY DEF Init
<1>6. crashes \in 0..MaxCrashes /\ faults \in 0..MaxFaults
  BY ConstantsOK DEF Init
<1> QED BY <1>1, <1>2, <1>4, <1>5, <1>6 DEF Init, TypeOK

LEMMA MapFinalResultType ==
    ASSUME NEW g, NEW b \in BOOLEAN
    PROVE  MapFinalResult(g, b) \in TerminalStatuses
BY DEF MapFinalResult, TerminalStatuses

LEMMA TerminalStageForType ==
    ASSUME NEW s \in TerminalStatuses
    PROVE  TerminalStageFor(s) \in TerminalStages
BY DEF TerminalStageFor, TerminalStatuses, TerminalStages

\* Moving one job to another control point keeps the type of `job'.
LEMMA GotoType ==
    ASSUME job \in [Calls -> Job], NEW c \in Calls, NEW pc \in JobPcs, Goto(c, pc)
    PROVE  job' \in [Calls -> Job]
BY DEF Goto, Job

\* So does ending the graph.
LEMMA EndGraphType ==
    ASSUME job \in [Calls -> Job], NEW c \in Calls, NEW g \in GraphStatuses, EndGraph(c, g)
    PROVE  job' \in [Calls -> Job]
<1>1. g \in Results /\ "read_flag" \in JobPcs
  BY DEF Results, JobPcs, RunningPcs
<1>2. [job[c] EXCEPT !.pc = "read_flag", !.result = g] \in Job
  BY <1>1 DEF Job
<1> QED BY <1>2 DEF EndGraph

\* Appending one event to one run's log keeps the type of `log'.
LEMMA AppendType ==
    ASSUME log \in [Calls -> Seq(Stages)], NEW r, NEW stage \in Stages
    PROVE  [log EXCEPT ![r] = Append(@, stage)] \in [Calls -> Seq(Stages)]
<1>1. \A s \in Seq(Stages) : Append(s, stage) \in Seq(Stages)
  OBVIOUS
<1> QED BY <1>1

\* append_event and the job's move keep the types.
LEMMA EmitType ==
    ASSUME TypeOK, NEW c \in Calls, NEW stage \in Stages,
           NEW next \in JobPcs, NEW handler \in JobPcs,
           Emit(c, stage, next, handler)
    PROVE  TypeOK'
<1>1. job' \in [Calls -> Job]
  BY GotoType DEF TypeOK, Emit
<1>2. log' \in [Calls -> Seq(Stages)]
  <2>1. log \in [Calls -> Seq(Stages)]
    BY DEF TypeOK
  <2>2. [log EXCEPT ![job[c].run] = Append(@, stage)] \in [Calls -> Seq(Stages)]
    BY <2>1, AppendType
  <2> QED BY <2>1, <2>2 DEF Emit
<1>3. faults' \in 0..MaxFaults
  <2>1. faults \in 0..MaxFaults
    BY DEF TypeOK
  <2> QED BY <2>1, ConstantsOK DEF Emit
<1> QED BY <1>1, <1>2, <1>3 DEF TypeOK, Emit

\* A submitted job has a run; one about to write or publish its outcome has one.
JobSound(c) ==
    /\ Submitted(c) => job[c].run \in Calls
    /\ job[c].pc \in {"mark_terminal", "emit_terminal"} => job[c].status \in TerminalStatuses

\* mark_terminal and the job's move keep the types.
LEMMA SetTerminalType ==
    ASSUME TypeOK, NEW c \in Calls, job[c].run \in Calls,
           NEW status \in TerminalStatuses, NEW result \in Results,
           NEW error \in {"none", "INTERNAL_EXECUTION_ERROR"},
           NEW next \in JobPcs, NEW handler \in JobPcs,
           SetTerminal(c, status, result, error, next, handler)
    PROVE  TypeOK'
<1>1. job' \in [Calls -> Job]
  BY GotoType DEF TypeOK, SetTerminal
<1>2. row' \in [Calls -> Row]
  <2>1. status \in Statuses \cup {"absent"}
    BY DEF Statuses
  <2>2. row \in [Calls -> Row]
    BY DEF TypeOK
  <2>3. [row EXCEPT ![job[c].run].status = status, ![job[c].run].result = result,
                    ![job[c].run].error = error] \in [Calls -> Row]
    <3>1. [row[job[c].run] EXCEPT !.status = status, !.result = result, !.error = error] \in Row
      <4>1. ASSUME NEW x \in Row PROVE [x EXCEPT !.status = status] \in Row
        BY <2>1 DEF Row
      <4>2. ASSUME NEW x \in Row PROVE [x EXCEPT !.result = result] \in Row
        BY DEF Row
      <4>3. ASSUME NEW x \in Row PROVE [x EXCEPT !.error = error] \in Row
        BY DEF Row
      <4>4. [[[row[job[c].run] EXCEPT !.status = status] EXCEPT !.result = result]
               EXCEPT !.error = error] \in Row
        BY <2>2, <4>1, <4>2, <4>3
      <4> QED BY <4>4
    <3> QED BY <2>2, <3>1
  <2> QED BY <2>2, <2>3 DEF SetTerminal
<1>3. faults' \in 0..MaxFaults
  <2>1. faults \in 0..MaxFaults
    BY DEF TypeOK
  <2> QED BY <2>1, ConstantsOK DEF SetTerminal
<1> QED BY <1>1, <1>2, <1>3 DEF TypeOK, SetTerminal

\* Every step of _execute keeps the types.
LEMMA TypeJobStep ==
    ASSUME TypeOK, NEW c \in Calls, JobSound(c), JobStep(c)
    PROVE  TypeOK'
<1> USE ConstantsOK
<1> USE DEF JobPcs, RunningPcs
<1>job. job \in [Calls -> Job]
  BY DEF TypeOK
<1>row. row \in [Calls -> Row]
  BY DEF TypeOK
<1>faults. faults \in 0..MaxFaults
  BY DEF TypeOK
<1>1. CASE MarkRunning(c)
  <2>1. job' \in [Calls -> Job]
    BY <1>1, <1>job, GotoType DEF MarkRunning
  <2>2. row' \in [Calls -> Row]
    <3>1. [row EXCEPT ![job[c].run].status = IF @ = "pending" THEN "running" ELSE @]
            \in [Calls -> Row]
      <4>1. job[c].run \in Calls
        BY <1>1 DEF MarkRunning, At, JobSound, Submitted
      <4>2. [row[job[c].run] EXCEPT !.status = IF @ = "pending" THEN "running" ELSE @] \in Row
        BY <4>1, <1>row DEF Row, Statuses
      <4> QED BY <1>row, <4>1, <4>2
    <3> QED BY <1>1, <1>row, <3>1 DEF MarkRunning
  <2>3. faults' \in 0..MaxFaults
    BY <1>1, <1>faults DEF MarkRunning
  <2> QED BY <1>1, <2>1, <2>2, <2>3 DEF TypeOK, MarkRunning
<1>2. CASE EmitStarted(c)
  BY <1>2, EmitType DEF EmitStarted, Stages
<1>3. CASE Setup(c)
  <2>1. job' \in [Calls -> Job]
    BY <1>3, GotoType DEF TypeOK, Setup
  <2> QED BY <1>3, <2>1 DEF TypeOK, Setup
<1>4. CASE GraphDecide(c)
  <2>1. ASSUME NEW g \in GraphStatuses, EndGraph(c, g) PROVE job' \in [Calls -> Job]
    BY <2>1, <1>job, EndGraphType
  <2>2. ASSUME NEW next \in {"emit_action", "decide"}, job[c].turns # MaxTurns,
               job' = [job EXCEPT ![c].pc = next, ![c].turns = @ + 1]
        PROVE  job' \in [Calls -> Job]
    <3>1. job[c].turns + 1 \in 0..MaxTurns
      BY <2>2, <1>job DEF Job
    <3> QED BY <2>2, <3>1, <1>job DEF Job
  <2>3. job' \in [Calls -> Job]
    BY <1>4, <2>1, <2>2, GotoType DEF TypeOK, GraphDecide
  <2> QED BY <1>4, <2>3 DEF TypeOK, GraphDecide
<1>5. CASE EmitActionStarted(c)
  BY <1>5, EmitType DEF EmitActionStarted, Stages
<1>6. CASE GraphExecute(c)
  <2>1. ASSUME EndGraph(c, "degraded") PROVE job' \in [Calls -> Job]
    BY <2>1, <1>job, EndGraphType
  <2>2. ASSUME job' = [job EXCEPT ![c].pc = "executing", ![c].acts = @ + 1]
        PROVE  job' \in [Calls -> Job]
    BY <2>2, <1>job DEF Job
  <2>3. job' \in [Calls -> Job]
    BY <1>6, <2>1, <2>2 DEF GraphExecute
  <2> QED BY <1>6, <2>3 DEF TypeOK, GraphExecute
<1>7. CASE ToolReturns(c)
  <2>1. job' \in [Calls -> Job]
    BY <1>7, GotoType DEF TypeOK, ToolReturns
  <2> QED BY <1>7, <2>1 DEF TypeOK, ToolReturns
<1>8. CASE SpecialistEvent(c)
  <2>1. ASSUME job' = [job EXCEPT ![c].turns = @ + 1] PROVE job' \in [Calls -> Job]
    <3>1. job[c].turns + 1 \in 0..MaxTurns
      BY <1>8, <1>job DEF Job, SpecialistEvent
    <3> QED BY <2>1, <3>1, <1>job DEF Job
  <2>2. job' \in [Calls -> Job]
    BY <1>8, <2>1, GotoType DEF TypeOK, SpecialistEvent
  <2>3. log' \in [Calls -> Seq(Stages)]
    <3>1. log \in [Calls -> Seq(Stages)]
      BY DEF TypeOK
    <3>2. ASSUME NEW stage \in {"action_started", "action_completed", "action_failed"}
          PROVE  [log EXCEPT ![job[c].run] = Append(@, stage)] \in [Calls -> Seq(Stages)]
      <4>1. stage \in Stages
        BY DEF Stages
      <4> QED BY <3>1, <4>1, AppendType
    <3> QED BY <1>8, <3>1, <3>2 DEF SpecialistEvent
  <2>4. faults' \in 0..MaxFaults
    BY <1>8 DEF TypeOK, SpecialistEvent
  <2> QED BY <1>8, <2>2, <2>3, <2>4 DEF TypeOK, SpecialistEvent
<1>9. CASE EmitObservation(c)
  <2>1. CASE Goto(c, "decide") /\ UNCHANGED <<proc, row, log, call, queue, crashes, faults>>
    <3>1. job' \in [Calls -> Job]
      BY <1>job, <2>1, GotoType
    <3> QED BY <2>1, <3>1 DEF TypeOK
  <2>2. ASSUME NEW stage \in {"action_completed", "action_failed"},
               Emit(c, stage, "decide", "fail_mark")
        PROVE  TypeOK'
    BY <2>2, EmitType DEF Stages
  <2> QED BY <1>9, <2>1, <2>2 DEF EmitObservation
<1>10. CASE ReadFlagAndMap(c)
  <2>1. MapFinalResult(job[c].result, row[job[c].run].cancel) \in TerminalStatuses
    BY DEF MapFinalResult, TerminalStatuses
  <2>2. job' \in [Calls -> Job]
    <3>1. ASSUME NEW st \in TerminalStatuses
          PROVE  [job[c] EXCEPT !.pc = "mark_terminal", !.status = st] \in Job
      BY <1>job DEF Job
    <3> QED BY <1>10, <2>1, <3>1, <1>job, GotoType DEF ReadFlagAndMap
  <2>3. faults' \in 0..MaxFaults
    BY <1>10, <1>faults DEF ReadFlagAndMap
  <2> QED BY <1>10, <2>2, <2>3 DEF TypeOK, ReadFlagAndMap
<1>11. CASE MarkTerminal(c)
  <2>1. job[c].result \in Results
    BY <1>job DEF Job
  <2>2. job[c].status \in TerminalStatuses
    BY <1>11 DEF MarkTerminal, At, JobSound
  <2>3. job[c].run \in Calls
    BY <1>11 DEF MarkTerminal, At, JobSound, Submitted
  <2> QED BY <1>11, <2>1, <2>2, <2>3, SetTerminalType DEF MarkTerminal
<1>12. CASE EmitTerminal(c)
  <2>1. TerminalStageFor(job[c].status) \in Stages
    BY <1>12, TerminalStageForType DEF EmitTerminal, At, JobSound, Stages
  <2> QED BY <1>12, <2>1, EmitType DEF EmitTerminal
<1>13. CASE FailMark(c)
  <2>1. job[c].run \in Calls
    BY <1>13 DEF FailMark, At, JobSound, Submitted
  <2> QED BY <1>13, <2>1, SetTerminalType DEF FailMark, TerminalStatuses, Results
<1>14. CASE FailEmit(c)
  BY <1>14, EmitType DEF FailEmit, Stages, TerminalStages
<1> QED BY <1>1, <1>2, <1>3, <1>4, <1>5, <1>6, <1>7, <1>8, <1>9, <1>10, <1>11,
           <1>12, <1>13, <1>14 DEF JobStep

\* Every step of the system keeps the types.
LEMMA TypeNext ==
    ASSUME TypeOK, \A c \in Calls : JobSound(c), [Next]_vars
    PROVE  TypeOK'
<1> USE ConstantsOK
<1>job. job \in [Calls -> Job]
  BY DEF TypeOK
<1>row. row \in [Calls -> Row]
  BY DEF TypeOK
<1>call. call \in [Calls -> Call]
  BY DEF TypeOK
<1>faults. faults \in 0..MaxFaults
  BY DEF TypeOK
<1>1. ASSUME NEW c \in Calls, RefuseRun(c) PROVE TypeOK'
  <2>1. call' \in [Calls -> Call]
    BY <1>1, <1>call DEF RefuseRun, Call
  <2>2. faults' \in 0..MaxFaults
    BY <1>1, <1>faults DEF RefuseRun
  <2> QED BY <1>1, <2>1, <2>2 DEF TypeOK, RefuseRun
<1>2. ASSUME NEW c \in Calls, SubmitRun(c) PROVE TypeOK'
  <2>1. call' \in [Calls -> Call]
    BY <1>2, <1>call DEF SubmitRun, Call
  <2>2. [NoJob EXCEPT !.pc = "queued", !.run = call[c].run] \in Job
    <3>1. call[c].run \in Calls \cup {NoRun}
      BY <1>call DEF Call
    <3>2. NoJob \in Job
      BY DEF NoJob, Job, Results, JobPcs
    <3> QED BY <3>1, <3>2 DEF Job, JobPcs
  <2>3. job' \in [Calls -> Job]
    BY <1>2, <2>2, <1>job DEF SubmitRun
  <2> QED BY <1>2, <2>1, <2>3 DEF TypeOK, SubmitRun
<1>3. ASSUME NEW c \in Calls, NEW k \in Keys \cup {NoKey}, InsertRun(c, k) PROVE TypeOK'
  <2>1. call' \in [Calls -> Call]
    BY <1>3, <1>call DEF InsertRun, Call
  <2>2. [AbsentRow EXCEPT !.status = "pending", !.key = k] \in Row
    BY DEF AbsentRow, Row, Statuses, Results
  <2>3. row' \in [Calls -> Row]
    BY <1>3, <2>2, <1>row DEF InsertRun
  <2> QED BY <1>3, <2>1, <2>3 DEF TypeOK, InsertRun
<1>4. ASSUME NEW c \in Calls, NEW k \in Keys \cup {NoKey}, ReuseRun(c, k) PROVE TypeOK'
  <2>1. call' \in [Calls -> Call]
    BY <1>4, <1>call DEF ReuseRun, Call, RowsWithKey
  <2> QED BY <1>4, <2>1 DEF TypeOK, ReuseRun
<1>5. ASSUME NEW r \in Calls, RequestCancellation(r) PROVE TypeOK'
  <2>1. row' \in [Calls -> Row]
    <3>1. [row[r] EXCEPT !.cancel = TRUE] \in Row
      BY <1>row DEF Row
    <3> QED BY <1>5, <3>1, <1>row DEF RequestCancellation
  <2> QED BY <1>5, <2>1 DEF TypeOK, RequestCancellation
<1>6. CASE PickUp
  <2>1. Head(queue) \in Calls /\ Tail(queue) \in Seq(Calls)
    BY <1>6 DEF TypeOK, PickUp
  <2>2. job' \in [Calls -> Job]
    BY <1>6, <2>1, <1>job DEF PickUp, Job, JobPcs, RunningPcs
  <2> QED BY <1>6, <2>1, <2>2 DEF TypeOK, PickUp
<1>7. ASSUME NEW c \in Calls, JobStep(c) PROVE TypeOK'
  BY <1>7, TypeJobStep
<1>8. CASE Crash
  <2>1. call' \in [Calls -> Call]
    BY <1>8, <1>call DEF Crash, Call
  <2>2. job' \in [Calls -> Job]
    <3>1. ASSUME NEW c \in Calls PROVE [job[c] EXCEPT !.pc = "dead"] \in Job
      BY <1>job DEF Job, JobPcs
    <3> QED BY <1>8, <3>1, <1>job DEF Crash
  <2>3. queue' \in Seq(Calls) /\ crashes' \in 0..MaxCrashes
    BY <1>8 DEF TypeOK, Crash
  <2> QED BY <1>8, <2>1, <2>2, <2>3 DEF TypeOK, Crash
<1>9. CASE Boot
  BY <1>9 DEF TypeOK, Boot
<1>10. CASE Reconcile
  <2>1. row' \in [Calls -> Row]
    <3>1. ASSUME NEW r \in Calls
          PROVE  [row[r] EXCEPT !.status = "failed", !.error = "SERVICE_RESTARTED"] \in Row
      BY <1>row DEF Row, Statuses, TerminalStatuses
    <3> QED BY <1>10, <3>1, <1>row DEF Reconcile
  <2>2. faults' \in 0..MaxFaults
    <3>1. faults' = faults \/ (faults < MaxFaults /\ faults' = faults + 1)
      BY <1>10 DEF Reconcile
    <3> QED BY <3>1, <1>faults
  <2> QED BY <1>10, <2>1, <2>2 DEF TypeOK, Reconcile
<1>11. CASE Shutdown
  BY <1>11 DEF TypeOK, Shutdown
<1>12. CASE Drained
  BY <1>12 DEF TypeOK, Drained
<1>13. CASE UNCHANGED vars
  BY <1>13 DEF TypeOK, vars
<1> QED BY <1>1, <1>2, <1>3, <1>4, <1>5, <1>6, <1>7, <1>8, <1>9, <1>10, <1>11, <1>12,
           <1>13 DEF Next

-----------------------------------------------------------------------------
\* What one step of a job changes

LEMMA GotoEffect ==
    ASSUME job \in [Calls -> Job], NEW c \in Calls, NEW pc, Goto(c, pc)
    PROVE  /\ job'[c].pc = pc
           /\ job'[c].run = job[c].run
           /\ job'[c].result = job[c].result
           /\ job'[c].status = job[c].status
           /\ \A d \in Calls \ {c} : job'[d] = job[d]
BY DEF Goto, Job

\* append_event touches the log of the job's own run, or nothing.
LEMMA EmitEffect ==
    ASSUME TypeOK, NEW c \in Calls, job[c].run = c, NEW stage, NEW next, NEW handler,
           Emit(c, stage, next, handler)
    PROVE  /\ UNCHANGED <<proc, row, call, queue, crashes>>
           /\ \A d \in Calls \ {c} : log'[d] = log[d] /\ job'[d] = job[d]
           /\ job'[c].run = c
           /\ job'[c].result = job[c].result
           /\ job'[c].status = job[c].status
           /\ \/ /\ log'[c] = Append(log[c], stage)
                 /\ job'[c].pc = next
                 /\ faults' = faults
              \/ /\ log'[c] = log[c]
                 /\ job'[c].pc = handler
                 /\ faults' = faults + 1
<1>1. job \in [Calls -> Job] /\ DOMAIN log = Calls
  BY DEF TypeOK
<1>2. CASE Goto(c, next) /\ log' = [log EXCEPT ![c] = Append(@, stage)] /\ UNCHANGED faults
  BY <1>1, <1>2, GotoEffect DEF Emit
<1>3. CASE Goto(c, handler) /\ UNCHANGED log /\ faults' = faults + 1
  BY <1>1, <1>3, GotoEffect DEF Emit
<1> QED BY <1>2, <1>3 DEF Emit

\* A terminal UPDATE touches the row of the job's own run, or nothing.
LEMMA SetTerminalEffect ==
    ASSUME TypeOK, NEW c \in Calls, job[c].run = c,
           NEW status, NEW result, NEW error, NEW next, NEW handler,
           SetTerminal(c, status, result, error, next, handler)
    PROVE  /\ UNCHANGED <<proc, log, call, queue, crashes>>
           /\ \A d \in Calls \ {c} : row'[d] = row[d] /\ job'[d] = job[d]
           /\ job'[c].run = c
           /\ job'[c].result = job[c].result
           /\ job'[c].status = job[c].status
           /\ row'[c].key = row[c].key
           /\ row'[c].cancel = row[c].cancel
           /\ \/ /\ row'[c].status = status
                 /\ row'[c].result = result
                 /\ row'[c].error = error
                 /\ job'[c].pc = next
                 /\ faults' = faults
              \/ /\ row'[c] = row[c]
                 /\ job'[c].pc = handler
                 /\ faults' = faults + 1
<1>1. job \in [Calls -> Job] /\ row \in [Calls -> Row]
  BY DEF TypeOK
<1>2. CASE Goto(c, next) /\ UNCHANGED faults
           /\ row' = [row EXCEPT ![c].status = status, ![c].result = result,
                                 ![c].error = error]
  <2>1. \A d \in Calls \ {c} : row'[d] = row[d]
    BY <1>1, <1>2
  <2>2. row'[c] = [row[c] EXCEPT !.status = status, !.result = result, !.error = error]
    BY <1>1, <1>2
  <2>3. /\ row'[c].status = status /\ row'[c].result = result /\ row'[c].error = error
        /\ row'[c].key = row[c].key /\ row'[c].cancel = row[c].cancel
    BY <1>1, <2>2 DEF Row
  <2> QED BY <1>1, <1>2, <2>1, <2>3, GotoEffect DEF SetTerminal
<1>3. CASE Goto(c, handler) /\ UNCHANGED row /\ faults' = faults + 1
  BY <1>1, <1>3, GotoEffect DEF SetTerminal
<1> QED BY <1>2, <1>3 DEF SetTerminal

\* Appending an event to a log without a terminal one keeps its shape.
LEMMA AppendEvent ==
    ASSUME NEW c \in Calls, log[c] \in Seq(Stages), NEW stage \in Stages,
           ~HasTerminalEvent(c), LogShaped(c),
           stage = "run_started" <=> log[c] = <<>>,
           log'[c] = Append(log[c], stage)
    PROVE  /\ LogShaped(c)'
           /\ log'[c] # <<>>
           /\ HasTerminalEvent(c)' <=> stage \in TerminalStages
           /\ \A i \in DOMAIN log'[c] :
                log'[c][i] \in TerminalStages => log'[c][i] = stage
<1>1. /\ Len(log'[c]) = Len(log[c]) + 1
      /\ DOMAIN log'[c] = 1..(Len(log[c]) + 1)
      /\ DOMAIN log[c] = 1..Len(log[c])
      /\ Len(log[c]) \in Nat
      /\ log'[c] # <<>>
      /\ \A i \in 1..Len(log[c]) : log'[c][i] = log[c][i]
      /\ log'[c][Len(log[c]) + 1] = stage
  OBVIOUS
<1>2. \A i \in 1..Len(log[c]) : log'[c][i] \notin TerminalStages
  BY <1>1 DEF HasTerminalEvent
<1>3. log[c] = <<>> <=> Len(log[c]) = 0
  OBVIOUS
<1>4. LogShaped(c)'
  <2> SUFFICES ASSUME NEW i \in DOMAIN log'[c]
               PROVE  /\ log'[c][i] = "run_started" <=> i = 1
                      /\ log'[c][i] \in TerminalStages => i = Len(log'[c])
    BY DEF LogShaped
  <2>1. CASE i \in 1..Len(log[c])
    BY <2>1, <1>1, <1>2 DEF LogShaped
  <2>2. CASE i = Len(log[c]) + 1
    BY <2>2, <1>1, <1>3
  <2> QED BY <2>1, <2>2, <1>1
<1>5. HasTerminalEvent(c)' <=> stage \in TerminalStages
  BY <1>1, <1>2 DEF HasTerminalEvent
<1> QED BY <1>1, <1>2, <1>4, <1>5
-----------------------------------------------------------------------------
\* The run whose job takes the step

\* A run none of whose parts change keeps its invariant.
LEMMA RunFrame ==
    ASSUME TypeOK, NEW d \in Calls, RunInv(d),
           row'[d] = row[d], log'[d] = log[d], job'[d] = job[d], call'[d] = call[d],
           crashes' \in Nat, faults' \in Nat, crashes' >= crashes, faults' >= faults
    PROVE  RunInv(d)'
<1>1. crashes \in Nat /\ faults \in Nat
  BY ConstantsOK DEF TypeOK
<1>2. HasTerminalEvent(d)' <=> HasTerminalEvent(d)
  BY DEF HasTerminalEvent
<1>3. StepInv(d)'
  BY <1>1, <1>2 DEF RunInv, StepInv, Submitted, Exists, Settled
<1>4. LogShaped(d)' /\ EventReflected(d)' /\ OutcomeAgrees(d)'
  BY DEF RunInv, LogShaped, EventReflected, OutcomeAgrees, Settled
<1>5. ReconciledInv(d)'
  BY <1>1, <1>2 DEF RunInv, ReconciledInv
<1> QED BY <1>3, <1>4, <1>5 DEF RunInv

\* A job step that leaves row and log alone only has its control point to justify.
LEMMA QuietStep ==
    ASSUME NEW c \in Calls, RunInv(c), job[c].pc \in RunningPcs,
           row'[c] = row[c], log'[c] = log[c], StepInv(c)'
    PROVE  RunInv(c)'
<1>1. LogShaped(c)' /\ EventReflected(c)' /\ OutcomeAgrees(c)'
  BY DEF RunInv, LogShaped, EventReflected, OutcomeAgrees, Settled
<1>2. row[c].error # "SERVICE_RESTARTED"
  BY DEF RunInv, ReconciledInv, RunningPcs
<1>3. ReconciledInv(c)'
  BY <1>2 DEF ReconciledInv
<1> QED BY <1>1, <1>3 DEF RunInv

\* A job step that appends an event other than a terminal one.
LEMMA EventStep ==
    ASSUME NEW c \in Calls, RunInv(c), job[c].pc \in RunningPcs, log[c] \in Seq(Stages),
           ~HasTerminalEvent(c), NEW stage \in Stages \ TerminalStages,
           stage = "run_started" <=> log[c] = <<>>,
           row'[c] = row[c], log'[c] = Append(log[c], stage), StepInv(c)'
    PROVE  RunInv(c)'
<1>1. LogShaped(c)' /\ ~HasTerminalEvent(c)'
  BY AppendEvent DEF RunInv
<1>2. EventReflected(c)'
  BY <1>1 DEF EventReflected, HasTerminalEvent
<1>3. OutcomeAgrees(c)'
  BY DEF RunInv, OutcomeAgrees, Settled
<1>4. row[c].error # "SERVICE_RESTARTED"
  BY DEF RunInv, ReconciledInv, RunningPcs
<1>5. ReconciledInv(c)'
  BY <1>4 DEF ReconciledInv
<1> QED BY <1>1, <1>2, <1>3, <1>5 DEF RunInv

\* Steps of a job that touch neither row nor log: the graph's own moves, a
\* failing setup or tool, reading the flag, and every failed write.
LEMMA MoveStep ==
    ASSUME TypeOK, NEW c \in Calls, RunInv(c), job[c].pc \in RunningPcs,
           row'[c] = row[c], log'[c] = log[c], call'[c] = call[c], crashes' = crashes,
           faults' \in {faults, faults + 1},
           job'[c].run = c,
           \/ job'[c].pc = "swallowed" /\ faults' = faults + 1
           \/ /\ job[c].pc \in BodyPcs
              /\ job'[c].pc \in BodyPcs \ {"read_flag", "mark_terminal"}
           \/ /\ job[c].pc \in BodyPcs \cup {"emit_terminal"}
              /\ job'[c].pc = "fail_mark"
           \/ /\ job[c].pc \in BodyPcs
              /\ job'[c].pc = "read_flag" /\ job'[c].result \in GraphStatuses
           \/ /\ job[c].pc = "read_flag" /\ job'[c].pc = "mark_terminal"
              /\ job'[c].result = job[c].result
              /\ job'[c].status = MapFinalResult(job[c].result, row[c].cancel)
    PROVE  RunInv(c)'
<1>1. crashes \in Nat /\ faults \in Nat
  BY ConstantsOK DEF TypeOK
<1>2. HasTerminalEvent(c)' <=> HasTerminalEvent(c)
  BY DEF HasTerminalEvent
<1>3. StepInv(c) /\ row[c].cancel \in BOOLEAN
  BY DEF RunInv, TypeOK, Row
<1>4. /\ call[c].pc = "replied" /\ Exists(c)' /\ Submitted(c)'
      /\ job'[c].pc # "finished" /\ job'[c].pc # "emit_terminal"
      /\ job'[c].pc # "fail_emit"
      /\ job'[c].pc \notin {"queued", "mark_running", "emit_started"}
  BY <1>3 DEF StepInv, Exists, Submitted, RunningPcs, BodyPcs
<1>5. StepInv(c)'
  <2>1. CASE job'[c].pc = "swallowed" /\ faults' = faults + 1
    BY <2>1, <1>1, <1>4 DEF StepInv, BodyPcs
  <2>2. CASE /\ job[c].pc \in BodyPcs
             /\ job'[c].pc \in BodyPcs \ {"read_flag", "mark_terminal"}
    BY <2>2, <1>2, <1>3, <1>4 DEF StepInv, BodyPcs
  <2>3. CASE job[c].pc \in BodyPcs \cup {"emit_terminal"} /\ job'[c].pc = "fail_mark"
    BY <2>3, <1>2, <1>3, <1>4 DEF StepInv, BodyPcs, Settled, TerminalStatuses
  <2>4. CASE /\ job[c].pc \in BodyPcs
             /\ job'[c].pc = "read_flag" /\ job'[c].result \in GraphStatuses
    BY <2>4, <1>2, <1>3, <1>4 DEF StepInv, BodyPcs
  <2>5. CASE /\ job[c].pc = "read_flag" /\ job'[c].pc = "mark_terminal"
             /\ job'[c].result = job[c].result
             /\ job'[c].status = MapFinalResult(job[c].result, row[c].cancel)
    BY <2>5, <1>2, <1>3, <1>4 DEF StepInv, BodyPcs
  <2> QED BY <2>1, <2>2, <2>3, <2>4, <2>5
<1> QED BY <1>5, QuietStep

\* What a step of job c leaves alone, and where it can leave the job.
JobFrame(c) ==
    /\ UNCHANGED <<proc, call, queue, crashes>>
    /\ faults' \in {faults, faults + 1}
    /\ \A d \in Calls \ {c} : row'[d] = row[d] /\ log'[d] = log[d] /\ job'[d] = job[d]
    /\ job'[c].pc \in RunningPcs \cup {"finished", "swallowed"}
    /\ job'[c].run = c
    /\ row'[c].key = row[c].key
    /\ row[c].status # "absent" /\ row'[c].status # "absent"

\* append_event at control point `pc' of the body of the try block.
LEMMA BodyEmitStep ==
    ASSUME TypeOK, NEW c \in Calls, RunInv(c), NEW pc, job[c].pc = pc,
           pc \in {"emit_action", "observe"}, NEW stage \in Stages \ TerminalStages,
           stage # "run_started", NEW next \in {"execute", "decide"},
           Emit(c, stage, next, "fail_mark")
    PROVE  JobFrame(c) /\ RunInv(c)'
<1>1. /\ job[c].run = c /\ call[c].pc = "replied" /\ row[c].status = "running"
      /\ log[c] # <<>> /\ ~HasTerminalEvent(c) /\ job[c].pc \in RunningPcs
  BY DEF RunInv, StepInv, Submitted, BodyPcs, RunningPcs
<1>2. log[c] \in Seq(Stages) /\ faults \in Nat
  BY ConstantsOK DEF TypeOK
<1>3. /\ UNCHANGED <<proc, row, call, queue, crashes>>
      /\ \A d \in Calls \ {c} : log'[d] = log[d] /\ job'[d] = job[d]
      /\ job'[c].run = c
      /\ \/ /\ log'[c] = Append(log[c], stage)
            /\ job'[c].pc = next
            /\ faults' = faults
         \/ /\ log'[c] = log[c]
            /\ job'[c].pc = "fail_mark"
            /\ faults' = faults + 1
  BY <1>1, EmitEffect
<1>4. JobFrame(c)
  BY <1>1, <1>3 DEF JobFrame, RunningPcs
<1>5. CASE log'[c] = log[c] /\ job'[c].pc = "fail_mark" /\ faults' = faults + 1
  <2>1. /\ row'[c] = row[c] /\ call'[c] = call[c] /\ crashes' = crashes
        /\ faults' \in {faults, faults + 1}
    BY <1>3, <1>5
  <2>2. job[c].pc \in BodyPcs
    BY DEF BodyPcs
  <2>3. RunInv(c)'
    BY <1>1, <1>3, <1>5, <2>1, <2>2, MoveStep
  <2> QED BY <1>4, <2>3
<1>6. CASE log'[c] = Append(log[c], stage) /\ job'[c].pc = next /\ faults' = faults
  <2>1. log'[c] # <<>> /\ ~HasTerminalEvent(c)'
    BY <1>1, <1>2, <1>6, AppendEvent DEF RunInv
  <2>2. StepInv(c)'
    <3>1. Submitted(c)' /\ Exists(c)' /\ job'[c].pc \in {"execute", "decide"}
      BY <1>1, <1>3, <1>6 DEF Submitted, Exists
    <3> QED BY <1>1, <1>3, <2>1, <3>1 DEF StepInv, BodyPcs
  <2>3. row'[c] = row[c] /\ (stage = "run_started" <=> log[c] = <<>>)
    BY <1>1, <1>3
  <2>4. RunInv(c)'
    BY <1>1, <1>2, <1>6, <2>2, <2>3, EventStep
  <2> QED BY <1>4, <2>4
<1> QED BY <1>3, <1>4, <1>5, <1>6

LEMMA MarkRunningStep ==
    ASSUME TypeOK, NEW c \in Calls, RunInv(c), MarkRunning(c)
    PROVE  JobFrame(c) /\ RunInv(c)'
<1>1. /\ job[c].run = c /\ call[c].pc = "replied" /\ row[c].status = "pending"
      /\ log[c] = <<>> /\ job[c].pc = "mark_running" /\ Exists(c)
  BY DEF RunInv, StepInv, Submitted, BodyPcs, RunningPcs, MarkRunning, At
<1>2. job \in [Calls -> Job] /\ row \in [Calls -> Row] /\ faults \in Nat
  BY ConstantsOK DEF TypeOK
<1>3. UNCHANGED <<proc, log, call, queue, crashes>>
  BY DEF MarkRunning
<1>4. CASE /\ row' = [row EXCEPT ![c].status = IF @ = "pending" THEN "running" ELSE @]
           /\ Goto(c, "emit_started") /\ UNCHANGED faults
  <2>1. /\ \A d \in Calls \ {c} : row'[d] = row[d]
        /\ row'[c] = [row[c] EXCEPT !.status = "running"]
    BY <1>1, <1>2, <1>4
  <2>2. /\ row'[c].status = "running" /\ row'[c].key = row[c].key
        /\ row'[c].error = row[c].error /\ row'[c].result = row[c].result
        /\ row'[c].cancel = row[c].cancel
    BY <1>2, <2>1 DEF Row
  <2>3. /\ job'[c].pc = "emit_started" /\ job'[c].run = c
        /\ \A d \in Calls \ {c} : job'[d] = job[d]
    BY <1>1, <1>2, <1>4, GotoEffect
  <2>4. JobFrame(c)
    BY <1>1, <1>3, <1>4, <2>1, <2>2, <2>3 DEF JobFrame, RunningPcs, Exists
  <2>5. StepInv(c)'
    <3>1. Submitted(c)' /\ Exists(c)'
      BY <2>2, <2>3 DEF Submitted, Exists
    <3> QED BY <1>1, <1>3, <2>2, <2>3, <3>1 DEF StepInv, BodyPcs
  <2>6. log'[c] = <<>>
    BY <1>1, <1>3
  <2>7. LogShaped(c)' /\ EventReflected(c)'
    BY <2>6 DEF LogShaped, EventReflected
  <2>8. OutcomeAgrees(c)'
    BY <1>1, <2>2 DEF RunInv, OutcomeAgrees, Settled, TerminalStatuses
  <2>9. ReconciledInv(c)'
    BY <1>1, <2>2 DEF RunInv, OutcomeAgrees, ReconciledInv
  <2> QED BY <2>4, <2>5, <2>7, <2>8, <2>9 DEF RunInv
<1>5. CASE UNCHANGED row /\ Goto(c, "swallowed") /\ faults' = faults + 1
  <2>1. /\ job'[c].pc = "swallowed" /\ job'[c].run = c
        /\ \A d \in Calls \ {c} : job'[d] = job[d]
    BY <1>1, <1>2, <1>5, GotoEffect
  <2>2. JobFrame(c)
    BY <1>1, <1>3, <1>5, <2>1 DEF JobFrame, Exists
  <2> QED BY <1>1, <1>3, <1>5, <2>1, <2>2, MoveStep DEF RunningPcs
<1> QED BY <1>1, <1>4, <1>5 DEF MarkRunning

LEMMA EmitStartedStep ==
    ASSUME TypeOK, NEW c \in Calls, RunInv(c), EmitStarted(c)
    PROVE  JobFrame(c) /\ RunInv(c)'
<1>1. /\ job[c].run = c /\ call[c].pc = "replied" /\ row[c].status = "running"
      /\ log[c] = <<>> /\ job[c].pc = "emit_started" /\ ~HasTerminalEvent(c)
  BY DEF RunInv, StepInv, Submitted, EmitStarted, At, HasTerminalEvent
<1>2. log[c] \in Seq(Stages) /\ faults \in Nat
  BY ConstantsOK DEF TypeOK
<1>3. /\ UNCHANGED <<proc, row, call, queue, crashes>>
      /\ \A d \in Calls \ {c} : log'[d] = log[d] /\ job'[d] = job[d]
      /\ job'[c].run = c
      /\ \/ /\ log'[c] = Append(log[c], "run_started")
            /\ job'[c].pc = "setup"
            /\ faults' = faults
         \/ /\ log'[c] = log[c]
            /\ job'[c].pc = "swallowed"
            /\ faults' = faults + 1
  BY <1>1, EmitEffect DEF EmitStarted
<1>4. JobFrame(c)
  BY <1>1, <1>3 DEF JobFrame, RunningPcs
<1>5. CASE log'[c] = log[c] /\ job'[c].pc = "swallowed" /\ faults' = faults + 1
  <2>1. /\ row'[c] = row[c] /\ call'[c] = call[c] /\ crashes' = crashes
        /\ faults' \in {faults, faults + 1}
    BY <1>3, <1>5
  <2>2. job[c].pc \in RunningPcs
    BY <1>1 DEF RunningPcs
  <2>3. RunInv(c)'
    BY <1>1, <1>3, <1>5, <2>1, <2>2, MoveStep
  <2> QED BY <1>4, <2>3
<1>6. CASE log'[c] = Append(log[c], "run_started") /\ job'[c].pc = "setup" /\ faults' = faults
  <2>1. "run_started" \in Stages \ TerminalStages
    BY DEF Stages, TerminalStages
  <2>2. log'[c] # <<>> /\ ~HasTerminalEvent(c)'
    BY <1>1, <1>2, <1>6, <2>1, AppendEvent DEF RunInv
  <2>3. StepInv(c)'
    <3>1. Submitted(c)' /\ Exists(c)'
      BY <1>1, <1>3, <1>6 DEF Submitted, Exists
    <3> QED BY <1>1, <1>3, <1>6, <2>2, <3>1 DEF StepInv, BodyPcs
  <2>4. row'[c] = row[c] /\ job[c].pc \in RunningPcs
    BY <1>1, <1>3 DEF RunningPcs
  <2>5. RunInv(c)'
    BY <1>1, <1>2, <1>6, <2>1, <2>3, <2>4, EventStep
  <2> QED BY <1>4, <2>5
<1> QED BY <1>3, <1>4, <1>5, <1>6

\* The moves of setup, graph and tool: control only.
LEMMA GraphMoveStep ==
    ASSUME TypeOK, NEW c \in Calls, RunInv(c),
           job[c].pc \in {"setup", "decide", "execute", "executing", "observe"},
           UNCHANGED <<proc, row, log, call, queue, crashes, faults>>,
           \A d \in Calls \ {c} : job'[d] = job[d],
           job'[c].run = job[c].run,
           \/ job'[c].pc \in {"decide", "emit_action", "executing", "observe", "fail_mark"}
           \/ job'[c].pc = "read_flag" /\ job'[c].result \in GraphStatuses
    PROVE  JobFrame(c) /\ RunInv(c)'
<1>1. /\ job[c].run = c /\ row[c].status = "running"
      /\ job[c].pc \in RunningPcs /\ job[c].pc \in BodyPcs
  BY DEF RunInv, StepInv, Submitted, BodyPcs, RunningPcs
<1>2. /\ row'[c] = row[c] /\ log'[c] = log[c] /\ call'[c] = call[c] /\ crashes' = crashes
      /\ faults' \in {faults, faults + 1} /\ job'[c].run = c
  BY <1>1
<1>3. JobFrame(c)
  BY <1>1, <1>2 DEF JobFrame, RunningPcs
<1>4. CASE job'[c].pc \in {"decide", "emit_action", "executing", "observe"}
  <2>1. job'[c].pc \in BodyPcs \ {"read_flag", "mark_terminal"}
    BY <1>4 DEF BodyPcs
  <2> QED BY <1>1, <1>2, <1>3, <2>1, MoveStep
<1>5. CASE job'[c].pc = "fail_mark"
  BY <1>1, <1>2, <1>3, <1>5, MoveStep
<1>6. CASE job'[c].pc = "read_flag" /\ job'[c].result \in GraphStatuses
  BY <1>1, <1>2, <1>3, <1>6, MoveStep
<1> QED BY <1>4, <1>5, <1>6

LEMMA GraphSteps ==
    ASSUME TypeOK, NEW c \in Calls, RunInv(c),
           Setup(c) \/ GraphDecide(c) \/ GraphExecute(c) \/ ToolReturns(c)
    PROVE  JobFrame(c) /\ RunInv(c)'
<1>1. job \in [Calls -> Job]
  BY DEF TypeOK
<1>2. ASSUME NEW g \in GraphStatuses, EndGraph(c, g)
      PROVE  /\ job'[c].pc = "read_flag" /\ job'[c].run = job[c].run /\ job'[c].result = g
             /\ \A d \in Calls \ {c} : job'[d] = job[d]
  BY <1>1, <1>2 DEF EndGraph, Job
<1>3. CASE Setup(c)
  <2>1. PICK next \in {"decide", "fail_mark"} : Goto(c, next)
    BY <1>3 DEF Setup
  <2>2. /\ job'[c].pc = next /\ job'[c].run = job[c].run
        /\ \A d \in Calls \ {c} : job'[d] = job[d]
    BY <1>1, <2>1, GotoEffect
  <2>3. job[c].pc = "setup" /\ UNCHANGED <<proc, row, log, call, queue, crashes, faults>>
    BY <1>3 DEF Setup, At
  <2> QED BY <2>2, <2>3, GraphMoveStep
<1>4. CASE GraphDecide(c)
  <2>1. job[c].pc = "decide" /\ UNCHANGED <<proc, row, log, call, queue, crashes, faults>>
    BY <1>4 DEF GraphDecide, At
  <2>2. CASE \E g \in GraphStatuses : EndGraph(c, g)
    <3>1. /\ job'[c].pc = "read_flag" /\ job'[c].result \in GraphStatuses
          /\ job'[c].run = job[c].run /\ \A d \in Calls \ {c} : job'[d] = job[d]
      BY <2>2, <1>2
    <3> QED BY <2>1, <3>1, GraphMoveStep
  <2>3. CASE \E next \in {"emit_action", "decide"} :
                job' = [job EXCEPT ![c].pc = next, ![c].turns = @ + 1]
    <3>1. PICK next \in {"emit_action", "decide"} :
             job' = [job EXCEPT ![c].pc = next, ![c].turns = @ + 1]
      BY <2>3
    <3>2. /\ job'[c].pc = next /\ job'[c].run = job[c].run
          /\ \A d \in Calls \ {c} : job'[d] = job[d]
      BY <1>1, <3>1 DEF Job
    <3> QED BY <2>1, <3>2, GraphMoveStep
  <2>4. CASE Goto(c, "fail_mark")
    <3>1. /\ job'[c].pc = "fail_mark" /\ job'[c].run = job[c].run
          /\ \A d \in Calls \ {c} : job'[d] = job[d]
      BY <1>1, <2>4, GotoEffect
    <3> QED BY <2>1, <3>1, GraphMoveStep
  <2>5. EndGraph(c, "degraded") => \E g \in GraphStatuses : EndGraph(c, g)
    BY ConstantsOK
  <2> QED BY <1>4, <2>2, <2>3, <2>4, <2>5 DEF GraphDecide
<1>5. CASE GraphExecute(c)
  <2>1. job[c].pc = "execute" /\ UNCHANGED <<proc, row, log, call, queue, crashes, faults>>
    BY <1>5 DEF GraphExecute, At
  <2>2. CASE EndGraph(c, "degraded")
    <3>1. /\ job'[c].pc = "read_flag" /\ job'[c].result \in GraphStatuses
          /\ job'[c].run = job[c].run /\ \A d \in Calls \ {c} : job'[d] = job[d]
      BY <2>2, <1>2, ConstantsOK
    <3> QED BY <2>1, <3>1, GraphMoveStep
  <2>3. CASE job' = [job EXCEPT ![c].pc = "executing", ![c].acts = @ + 1]
    <3>1. /\ job'[c].pc = "executing" /\ job'[c].run = job[c].run
          /\ \A d \in Calls \ {c} : job'[d] = job[d]
      BY <1>1, <2>3 DEF Job
    <3> QED BY <2>1, <3>1, GraphMoveStep
  <2> QED BY <1>5, <2>2, <2>3 DEF GraphExecute
<1>6. CASE ToolReturns(c)
  <2>1. PICK next \in {"observe", "fail_mark"} : Goto(c, next)
    BY <1>6 DEF ToolReturns
  <2>2. /\ job'[c].pc = next /\ job'[c].run = job[c].run
        /\ \A d \in Calls \ {c} : job'[d] = job[d]
    BY <1>1, <2>1, GotoEffect
  <2>3. job[c].pc = "executing" /\ UNCHANGED <<proc, row, log, call, queue, crashes, faults>>
    BY <1>6 DEF ToolReturns, At
  <2> QED BY <2>2, <2>3, GraphMoveStep
<1> QED BY <1>3, <1>4, <1>5, <1>6

LEMMA EmitActionStartedStep ==
    ASSUME TypeOK, NEW c \in Calls, RunInv(c), EmitActionStarted(c)
    PROVE  JobFrame(c) /\ RunInv(c)'
<1>1. job[c].pc = "emit_action" /\ Emit(c, "action_started", "execute", "fail_mark")
  BY DEF EmitActionStarted, At
<1>2. "action_started" \in Stages \ TerminalStages
  BY DEF Stages, TerminalStages
<1> QED BY <1>1, <1>2, BodyEmitStep

LEMMA EmitObservationStep ==
    ASSUME TypeOK, NEW c \in Calls, RunInv(c), EmitObservation(c)
    PROVE  JobFrame(c) /\ RunInv(c)'
<1>1. job[c].pc = "observe" /\ job \in [Calls -> Job]
  BY DEF EmitObservation, At, TypeOK
<1>2. ASSUME NEW stage \in {"action_completed", "action_failed"},
             Emit(c, stage, "decide", "fail_mark")
      PROVE  JobFrame(c) /\ RunInv(c)'
  <2>1. stage \in Stages \ TerminalStages /\ stage # "run_started"
    BY DEF Stages, TerminalStages
  <2> QED BY <1>1, <1>2, <2>1, BodyEmitStep
<1>3. CASE Goto(c, "decide") /\ UNCHANGED <<proc, row, log, call, queue, crashes, faults>>
  BY <1>1, <1>3, GotoEffect, GraphMoveStep
<1> QED BY <1>2, <1>3 DEF EmitObservation

LEMMA SpecialistEventStep ==
    ASSUME TypeOK, NEW c \in Calls, RunInv(c), SpecialistEvent(c)
    PROVE  JobFrame(c) /\ RunInv(c)'
<1>1. /\ job[c].run = c /\ call[c].pc = "replied" /\ row[c].status = "running"
      /\ log[c] # <<>> /\ ~HasTerminalEvent(c)
      /\ job[c].pc = "executing" /\ job[c].pc \in RunningPcs /\ job[c].pc \in BodyPcs
  BY DEF RunInv, StepInv, Submitted, BodyPcs, RunningPcs, SpecialistEvent, At
<1>2. job \in [Calls -> Job] /\ log[c] \in Seq(Stages) /\ DOMAIN log = Calls
  BY DEF TypeOK
<1>3. UNCHANGED <<proc, row, call, queue, crashes>>
  BY DEF SpecialistEvent
<1>4. PICK stage \in {"action_started", "action_completed", "action_failed"} :
         \/ /\ log' = [log EXCEPT ![c] = Append(@, stage)]
            /\ job' = [job EXCEPT ![c].turns = @ + 1]
            /\ UNCHANGED faults
         \/ /\ faults' = faults + 1
            /\ Goto(c, "fail_mark")
            /\ UNCHANGED log
  BY <1>1 DEF SpecialistEvent
<1>5. CASE faults' = faults + 1 /\ Goto(c, "fail_mark") /\ UNCHANGED log
  <2>1. /\ job'[c].pc = "fail_mark" /\ job'[c].run = c
        /\ \A d \in Calls \ {c} : job'[d] = job[d]
    BY <1>1, <1>2, <1>5, GotoEffect
  <2>2. /\ row'[c] = row[c] /\ log'[c] = log[c] /\ call'[c] = call[c] /\ crashes' = crashes
        /\ faults' \in {faults, faults + 1}
    BY <1>3, <1>5
  <2>3. JobFrame(c)
    BY <1>1, <1>3, <1>5, <2>1, <2>2 DEF JobFrame, RunningPcs
  <2> QED BY <1>1, <2>1, <2>2, <2>3, MoveStep
<1>6. CASE /\ log' = [log EXCEPT ![c] = Append(@, stage)]
           /\ job' = [job EXCEPT ![c].turns = @ + 1]
           /\ UNCHANGED faults
  <2>1. /\ job'[c].pc = "executing" /\ job'[c].run = c
        /\ \A d \in Calls \ {c} : job'[d] = job[d]
    BY <1>1, <1>2, <1>6 DEF Job
  <2>2. /\ log'[c] = Append(log[c], stage) /\ \A d \in Calls \ {c} : log'[d] = log[d]
    BY <1>2, <1>6
  <2>3. /\ stage \in Stages \ TerminalStages /\ row'[c] = row[c]
        /\ (stage = "run_started" <=> log[c] = <<>>)
    BY <1>1, <1>3 DEF Stages, TerminalStages
  <2>4. log'[c] # <<>> /\ ~HasTerminalEvent(c)'
    BY <1>1, <1>2, <2>2, <2>3, AppendEvent DEF RunInv
  <2>5. StepInv(c)'
    <3>1. Submitted(c)' /\ Exists(c)'
      BY <1>1, <1>3, <2>1 DEF Submitted, Exists
    <3> QED BY <1>1, <1>3, <2>1, <2>4, <3>1 DEF StepInv, BodyPcs
  <2>6. JobFrame(c)
    BY <1>1, <1>3, <1>6, <2>1, <2>2 DEF JobFrame, RunningPcs
  <2>7. RunInv(c)'
    BY <1>1, <1>2, <2>2, <2>3, <2>5, EventStep
  <2> QED BY <2>6, <2>7
<1> QED BY <1>4, <1>5, <1>6

LEMMA ReadFlagStep ==
    ASSUME TypeOK, NEW c \in Calls, RunInv(c), ReadFlagAndMap(c)
    PROVE  JobFrame(c) /\ RunInv(c)'
<1>1. /\ job[c].run = c /\ row[c].status = "running"
      /\ job[c].pc = "read_flag" /\ job[c].pc \in RunningPcs
  BY DEF RunInv, StepInv, Submitted, BodyPcs, RunningPcs, ReadFlagAndMap, At
<1>2. job \in [Calls -> Job]
  BY DEF TypeOK
<1>3. UNCHANGED <<proc, row, log, call, queue, crashes>>
  BY DEF ReadFlagAndMap
<1>4. CASE /\ job' = [job EXCEPT ![c].pc = "mark_terminal",
                               ![c].status = MapFinalResult(job[c].result, row[c].cancel)]
           /\ UNCHANGED faults
  <2>1. /\ job'[c].pc = "mark_terminal" /\ job'[c].run = c /\ job'[c].result = job[c].result
        /\ job'[c].status = MapFinalResult(job[c].result, row[c].cancel)
        /\ \A d \in Calls \ {c} : job'[d] = job[d]
    BY <1>1, <1>2, <1>4 DEF Job
  <2>2. /\ row'[c] = row[c] /\ log'[c] = log[c] /\ call'[c] = call[c] /\ crashes' = crashes
        /\ faults' \in {faults, faults + 1}
    BY <1>3, <1>4
  <2>3. JobFrame(c)
    BY <1>1, <1>3, <2>1, <2>2 DEF JobFrame, RunningPcs
  <2> QED BY <1>1, <2>1, <2>2, <2>3, MoveStep
<1>5. CASE faults' = faults + 1 /\ Goto(c, "fail_mark")
  <2>1. /\ job'[c].pc = "fail_mark" /\ job'[c].run = c
        /\ \A d \in Calls \ {c} : job'[d] = job[d]
    BY <1>1, <1>2, <1>5, GotoEffect
  <2>2. /\ row'[c] = row[c] /\ log'[c] = log[c] /\ call'[c] = call[c] /\ crashes' = crashes
        /\ faults' \in {faults, faults + 1}
    BY <1>3, <1>5
  <2>3. JobFrame(c)
    BY <1>1, <1>3, <2>1, <2>2 DEF JobFrame, RunningPcs
  <2>4. job[c].pc \in BodyPcs \cup {"emit_terminal"}
    BY <1>1 DEF BodyPcs
  <2> QED BY <1>1, <2>1, <2>2, <2>3, <2>4, MoveStep
<1> QED BY <1>1, <1>4, <1>5 DEF ReadFlagAndMap

\* What the mapped outcome says of the graph's status and of the flag.
LEMMA MapOutcome ==
    ASSUME NEW g \in GraphStatuses, NEW seen \in BOOLEAN
    PROVE  /\ MapFinalResult(g, seen) \in {"completed", "degraded", "cancelled"}
           /\ MapFinalResult(g, seen) = "completed" => g \in {"success", "needs_clarification"}
           /\ MapFinalResult(g, seen) = "degraded" => g \in {"partial", "unavailable", "degraded"}
           /\ MapFinalResult(g, seen) = "cancelled" => seen /\ g = "degraded"
           /\ g # "none"
BY ConstantsOK DEF MapFinalResult

LEMMA MarkTerminalStep ==
    ASSUME TypeOK, NEW c \in Calls, RunInv(c), MarkTerminal(c)
    PROVE  JobFrame(c) /\ RunInv(c)'
<1>1. /\ job[c].run = c /\ call[c].pc = "replied" /\ row[c].status = "running"
      /\ log[c] # <<>> /\ ~HasTerminalEvent(c) /\ job[c].result \in GraphStatuses
      /\ job[c].pc = "mark_terminal" /\ job[c].pc \in RunningPcs /\ job[c].pc \in BodyPcs
  BY DEF RunInv, StepInv, Submitted, BodyPcs, RunningPcs, MarkTerminal, At
<1>2. PICK seen \in BOOLEAN :
         (seen => row[c].cancel) /\ job[c].status = MapFinalResult(job[c].result, seen)
  BY <1>1 DEF RunInv, StepInv
<1>3. /\ UNCHANGED <<proc, log, call, queue, crashes>>
      /\ \A d \in Calls \ {c} : row'[d] = row[d] /\ job'[d] = job[d]
      /\ job'[c].run = c
      /\ job'[c].result = job[c].result
      /\ job'[c].status = job[c].status
      /\ row'[c].key = row[c].key
      /\ row'[c].cancel = row[c].cancel
      /\ \/ /\ row'[c].status = job[c].status
            /\ row'[c].result = job[c].result
            /\ row'[c].error = "none"
            /\ job'[c].pc = "emit_terminal"
            /\ faults' = faults
         \/ /\ row'[c] = row[c]
            /\ job'[c].pc = "fail_mark"
            /\ faults' = faults + 1
  BY <1>1, SetTerminalEffect DEF MarkTerminal
<1>4. /\ log'[c] = log[c] /\ call'[c] = call[c] /\ crashes' = crashes
      /\ faults' \in {faults, faults + 1} /\ \A d \in Calls \ {c} : log'[d] = log[d]
  BY <1>3
<1>5. CASE row'[c] = row[c] /\ job'[c].pc = "fail_mark" /\ faults' = faults + 1
  <2>1. JobFrame(c)
    BY <1>1, <1>3, <1>4, <1>5 DEF JobFrame, RunningPcs
  <2> QED BY <1>1, <1>3, <1>4, <1>5, <2>1, MoveStep
<1>6. CASE /\ row'[c].status = job[c].status /\ row'[c].result = job[c].result
           /\ row'[c].error = "none" /\ job'[c].pc = "emit_terminal" /\ faults' = faults
  <2>1. /\ row'[c].status \in {"completed", "degraded", "cancelled"}
        /\ row'[c].status = "completed" => row'[c].result \in {"success", "needs_clarification"}
        /\ row'[c].status = "degraded" => row'[c].result \in {"partial", "unavailable", "degraded"}
        /\ row'[c].status = "cancelled" => row'[c].cancel /\ row'[c].result = "degraded"
        /\ row'[c].result # "none"
    BY <1>1, <1>2, <1>3, <1>6, MapOutcome
  <2>2. JobFrame(c)
    BY <1>1, <1>3, <1>4, <1>6, <2>1 DEF JobFrame, RunningPcs
  <2>3. ~HasTerminalEvent(c)' /\ Settled(c)' /\ Submitted(c)' /\ Exists(c)'
    BY <1>1, <1>4, <1>6, <2>1
       DEF HasTerminalEvent, Settled, TerminalStatuses, Submitted, Exists
  <2>4. StepInv(c)'
    BY <1>1, <1>3, <1>4, <1>6, <2>1, <2>3 DEF StepInv, BodyPcs
  <2>5. LogShaped(c)'
    BY <1>4 DEF RunInv, LogShaped
  <2>6. EventReflected(c)' /\ ReconciledInv(c)'
    BY <1>6, <2>3 DEF EventReflected, HasTerminalEvent, ReconciledInv
  <2>7. OutcomeAgrees(c)'
    BY <1>6, <2>1, <2>3 DEF OutcomeAgrees
  <2> QED BY <2>2, <2>4, <2>5, <2>6, <2>7 DEF RunInv
<1> QED BY <1>3, <1>5, <1>6

LEMMA FailMarkStep ==
    ASSUME TypeOK, NEW c \in Calls, RunInv(c), FailMark(c)
    PROVE  JobFrame(c) /\ RunInv(c)'
<1>1. /\ job[c].run = c /\ call[c].pc = "replied" /\ Exists(c)
      /\ log[c] # <<>> /\ ~HasTerminalEvent(c)
      /\ job[c].pc = "fail_mark" /\ job[c].pc \in RunningPcs
  BY DEF RunInv, StepInv, Submitted, RunningPcs, FailMark, At
<1>2. /\ UNCHANGED <<proc, log, call, queue, crashes>>
      /\ \A d \in Calls \ {c} : row'[d] = row[d] /\ job'[d] = job[d]
      /\ job'[c].run = c
      /\ row'[c].key = row[c].key
      /\ \/ /\ row'[c].status = "failed"
            /\ row'[c].result = "failed"
            /\ row'[c].error = "INTERNAL_EXECUTION_ERROR"
            /\ job'[c].pc = "fail_emit"
            /\ faults' = faults
         \/ /\ row'[c] = row[c]
            /\ job'[c].pc = "swallowed"
            /\ faults' = faults + 1
  BY <1>1, SetTerminalEffect DEF FailMark
<1>3. /\ log'[c] = log[c] /\ call'[c] = call[c] /\ crashes' = crashes
      /\ faults' \in {faults, faults + 1} /\ \A d \in Calls \ {c} : log'[d] = log[d]
  BY <1>2
<1>4. CASE row'[c] = row[c] /\ job'[c].pc = "swallowed" /\ faults' = faults + 1
  <2>1. JobFrame(c)
    BY <1>1, <1>2, <1>3, <1>4 DEF JobFrame, RunningPcs, Exists
  <2> QED BY <1>1, <1>2, <1>3, <1>4, <2>1, MoveStep
<1>5. CASE /\ row'[c].status = "failed" /\ row'[c].result = "failed"
           /\ row'[c].error = "INTERNAL_EXECUTION_ERROR"
           /\ job'[c].pc = "fail_emit" /\ faults' = faults
  <2>1. JobFrame(c)
    BY <1>1, <1>2, <1>3, <1>5 DEF JobFrame, RunningPcs, Exists
  <2>2. ~HasTerminalEvent(c)' /\ Settled(c)' /\ Submitted(c)' /\ Exists(c)'
    BY <1>1, <1>3, <1>5 DEF HasTerminalEvent, Settled, TerminalStatuses, Submitted, Exists
  <2>3. StepInv(c)'
    BY <1>1, <1>2, <1>3, <1>5, <2>2 DEF StepInv, BodyPcs
  <2>4. LogShaped(c)'
    BY <1>3 DEF RunInv, LogShaped
  <2>5. EventReflected(c)' /\ ReconciledInv(c)'
    BY <1>5, <2>2 DEF EventReflected, HasTerminalEvent, ReconciledInv
  <2>6. OutcomeAgrees(c)'
    BY <1>5, <2>2 DEF OutcomeAgrees
  <2> QED BY <2>1, <2>3, <2>4, <2>5, <2>6 DEF RunInv
<1> QED BY <1>2, <1>4, <1>5

\* The terminal event says what the row already says.
LEMMA FinalEmitStep ==
    ASSUME TypeOK, NEW c \in Calls, RunInv(c), job[c].pc \in {"emit_terminal", "fail_emit"},
           Settled(c), row[c].result # "none",
           NEW handler \in {"fail_mark", "swallowed"},
           handler = "fail_mark" => job[c].pc = "emit_terminal",
           Emit(c, TerminalStageFor(row[c].status), "finished", handler)
    PROVE  JobFrame(c) /\ RunInv(c)'
<1> DEFINE stage == TerminalStageFor(row[c].status)
<1>1. /\ job[c].run = c /\ call[c].pc = "replied" /\ Exists(c)
      /\ log[c] # <<>> /\ ~HasTerminalEvent(c) /\ job[c].pc \in RunningPcs
  BY DEF RunInv, StepInv, Submitted, RunningPcs
<1>2. log[c] \in Seq(Stages) /\ faults \in Nat
  BY ConstantsOK DEF TypeOK
<1>3. stage \in TerminalStages /\ stage \in Stages /\ stage # "run_started"
  BY TerminalStageForType DEF Settled, Stages, TerminalStages
<1>4. /\ UNCHANGED <<proc, row, call, queue, crashes>>
      /\ \A d \in Calls \ {c} : log'[d] = log[d] /\ job'[d] = job[d]
      /\ job'[c].run = c
      /\ \/ /\ log'[c] = Append(log[c], stage)
            /\ job'[c].pc = "finished"
            /\ faults' = faults
         \/ /\ log'[c] = log[c]
            /\ job'[c].pc = handler
            /\ faults' = faults + 1
  BY <1>1, EmitEffect
<1>5. /\ row'[c] = row[c] /\ call'[c] = call[c] /\ crashes' = crashes
      /\ faults' \in {faults, faults + 1} /\ \A d \in Calls \ {c} : row'[d] = row[d]
  BY <1>4
<1>6. JobFrame(c)
  BY <1>1, <1>4, <1>5 DEF JobFrame, RunningPcs, Exists
<1>7. CASE log'[c] = log[c] /\ job'[c].pc = handler /\ faults' = faults + 1
  BY <1>1, <1>4, <1>5, <1>6, <1>7, MoveStep
<1>8. CASE log'[c] = Append(log[c], stage) /\ job'[c].pc = "finished" /\ faults' = faults
  <2> HIDE DEF stage
  <2>1. /\ LogShaped(c)' /\ log'[c] # <<>>
        /\ \A i \in DOMAIN log'[c] : log'[c][i] \in TerminalStages => log'[c][i] = stage
    BY <1>1, <1>2, <1>3, <1>8, AppendEvent DEF RunInv
  <2>2. Settled(c)' /\ Submitted(c)' /\ Exists(c)'
    BY <1>1, <1>5, <1>8 DEF Settled, Submitted, Exists
  <2>3. StepInv(c)'
    BY <1>1, <1>4, <1>5, <1>8, <2>2 DEF StepInv, BodyPcs
  <2>4. EventReflected(c)'
    BY <1>5, <2>1, <2>2 DEF EventReflected, stage
  <2>5. OutcomeAgrees(c)'
    BY <1>5 DEF RunInv, OutcomeAgrees, Settled
  <2>6. ReconciledInv(c)'
    BY <1>1, <1>5 DEF RunInv, ReconciledInv, RunningPcs
  <2> QED BY <1>6, <2>1, <2>3, <2>4, <2>5, <2>6 DEF RunInv
<1> QED BY <1>4, <1>7, <1>8

LEMMA EmitTerminalStep ==
    ASSUME TypeOK, NEW c \in Calls, RunInv(c), EmitTerminal(c)
    PROVE  JobFrame(c) /\ RunInv(c)'
<1>1. /\ job[c].pc = "emit_terminal" /\ job[c].status = row[c].status
      /\ Settled(c) /\ row[c].result # "none"
  BY DEF RunInv, StepInv, EmitTerminal, At
<1>2. Emit(c, TerminalStageFor(row[c].status), "finished", "fail_mark")
  BY <1>1 DEF EmitTerminal
<1> QED BY <1>1, <1>2, FinalEmitStep

LEMMA FailEmitStep ==
    ASSUME TypeOK, NEW c \in Calls, RunInv(c), FailEmit(c)
    PROVE  JobFrame(c) /\ RunInv(c)'
<1>1. job[c].pc = "fail_emit" /\ row[c].status = "failed" /\ row[c].result # "none"
  BY DEF RunInv, StepInv, FailEmit, At
<1>2. Settled(c) /\ TerminalStageFor(row[c].status) = "run_failed"
  BY <1>1 DEF Settled, TerminalStatuses, TerminalStageFor
<1>3. Emit(c, TerminalStageFor(row[c].status), "finished", "swallowed")
  BY <1>2 DEF FailEmit
<1> QED BY <1>1, <1>2, <1>3, FinalEmitStep

\* Every step of a job keeps the invariant of its run and leaves the rest alone.
LEMMA JobStepSafe ==
    ASSUME TypeOK, NEW c \in Calls, RunInv(c), JobStep(c)
    PROVE  JobFrame(c) /\ RunInv(c)'
BY MarkRunningStep, EmitStartedStep, GraphSteps, EmitActionStartedStep, SpecialistEventStep,
   EmitObservationStep, ReadFlagStep, MarkTerminalStep, EmitTerminalStep, FailMarkStep,
   FailEmitStep DEF JobStep

-----------------------------------------------------------------------------
\* The inductive invariant

LEMMA InvInit == Init => IInv
<1> SUFFICES ASSUME Init PROVE IInv
  OBVIOUS
<1>1. TypeOK
  BY TypeInit
<1>2. ASSUME NEW c \in Calls
      PROVE  /\ row[c] = AbsentRow /\ log[c] = <<>>
             /\ call[c].pc = "idle" /\ job[c] = NoJob
  BY DEF Init
<1>3. KeysUnique
  BY <1>2 DEF KeysUnique, Exists, AbsentRow
<1>4. QueueInv
  BY <1>2 DEF QueueInv, Init, NoJob
<1>5. ThreadInv
  BY <1>2 DEF ThreadInv, NoJob, RunningPcs
<1>6. ASSUME NEW c \in Calls PROVE RunInv(c)
  <2>1. ~Exists(c) /\ ~Submitted(c) /\ ~Settled(c) /\ ~HasTerminalEvent(c)
    BY <1>2 DEF Exists, Submitted, Settled, HasTerminalEvent, AbsentRow, NoJob, TerminalStatuses
  <2>2. StepInv(c)
    <3>1. row[c].status = "absent" /\ job[c].pc = "none" /\ job[c].run = NoRun
      BY <1>2 DEF AbsentRow, NoJob
    <3> QED BY <1>2, <2>1, <3>1 DEF StepInv, BodyPcs
  <2>3. LogShaped(c) /\ EventReflected(c)
    BY <1>2 DEF LogShaped, EventReflected
  <2>4. OutcomeAgrees(c) /\ ReconciledInv(c)
    BY <1>2, <2>1 DEF OutcomeAgrees, ReconciledInv, AbsentRow
  <2> QED BY <2>2, <2>3, <2>4 DEF RunInv
<1> QED BY <1>1, <1>3, <1>4, <1>5, <1>6 DEF IInv

LEMMA RunsAreSound ==
    ASSUME NEW c \in Calls, RunInv(c)
    PROVE  JobSound(c)
<1>1. CASE job[c].pc = "mark_terminal"
  <2>1. PICK seen \in BOOLEAN : job[c].status = MapFinalResult(job[c].result, seen)
    BY <1>1 DEF RunInv, StepInv
  <2>2. job[c].status \in TerminalStatuses
    BY <2>1, MapFinalResultType
  <2> QED BY <2>2 DEF RunInv, StepInv, JobSound
<1>2. CASE job[c].pc = "emit_terminal"
  BY <1>2 DEF RunInv, StepInv, JobSound, Settled
<1> QED BY <1>1, <1>2 DEF RunInv, StepInv, JobSound

\* Rows that keep key and existence keep the keys unique.
LEMMA KeysFrame ==
    ASSUME KeysUnique,
           \A r \in Calls : row'[r].key = row[r].key /\ (Exists(r)' <=> Exists(r))
    PROVE  KeysUnique'
BY DEF KeysUnique

\* A job step never queues, dequeues or outlives its process.
LEMMA JobStepGlobal ==
    ASSUME IInv, NEW c \in Calls, JobStep(c), JobFrame(c)
    PROVE  KeysUnique' /\ QueueInv' /\ ThreadInv'
<1>1. Alive /\ job[c].pc \in RunningPcs
  BY DEF JobStep, At, RunningPcs, MarkRunning, EmitStarted, Setup, GraphDecide,
         EmitActionStarted, GraphExecute, ToolReturns, SpecialistEvent, EmitObservation,
         ReadFlagAndMap, MarkTerminal, EmitTerminal, FailMark, FailEmit
<1>2. KeysUnique'
  <2>1. ASSUME NEW r \in Calls
        PROVE  row'[r].key = row[r].key /\ (Exists(r)' <=> Exists(r))
    BY DEF JobFrame, Exists
  <2> QED BY <2>1, KeysFrame DEF IInv
<1>3. QueueInv'
  <2>1. job[c].pc # "queued" /\ job'[c].pc # "queued"
    BY <1>1 DEF RunningPcs, JobFrame
  <2>2. queue' = queue /\ \A d \in Calls \ {c} : job'[d] = job[d]
    BY DEF JobFrame
  <2>3. QueueInv /\ queue \in Seq(Calls)
    BY DEF IInv, TypeOK
  <2>4. ASSUME NEW i \in DOMAIN queue PROVE job'[queue[i]].pc = "queued"
    <3>1. queue[i] \in Calls /\ job[queue[i]].pc = "queued"
      BY <2>3 DEF QueueInv
    <3> QED BY <2>1, <2>2, <3>1
  <2> QED BY <2>1, <2>2, <2>3, <2>4 DEF QueueInv
<1>4. ThreadInv'
  BY <1>1 DEF IInv, ThreadInv, Alive, JobFrame
<1> QED BY <1>2, <1>3, <1>4

\* Requests: at most the requesting call and its own fresh row change.
LEMMA RequestStep ==
    ASSUME IInv, TypeOK', NEW c \in Calls, NEW k \in Keys \cup {NoKey},
           RefuseRun(c) \/ InsertRun(c, k) \/ ReuseRun(c, k)
    PROVE  IInv'
<1>1. /\ TypeOK /\ RunInv(c) /\ proc = "serving" /\ call[c].pc = "idle"
      /\ call \in [Calls -> Call] /\ row \in [Calls -> Row]
  BY DEF IInv, TypeOK, RefuseRun, InsertRun, ReuseRun
<1>2. ~Exists(c) /\ ~Submitted(c) /\ log[c] = <<>>
  BY <1>1 DEF RunInv, StepInv, AbsentRow, Exists
<1>3. /\ UNCHANGED <<proc, log, queue, job, crashes>>
      /\ faults' \in {faults, faults + 1}
      /\ call'[c].pc \in {"refused", "created", "replied"}
      /\ \A d \in Calls \ {c} : call'[d] = call[d]
      /\ \/ row' = row /\ call'[c].pc # "created"
         \/ /\ row' = [row EXCEPT ![c] = [AbsentRow EXCEPT !.status = "pending", !.key = k]]
            /\ k = NoKey \/ RowsWithKey(k) = {}
            /\ call'[c].pc = "created" /\ call'[c].run = c
  <2>1. CASE RefuseRun(c)
    BY <2>1, <1>1 DEF RefuseRun, Call
  <2>2. CASE InsertRun(c, k)
    BY <2>2, <1>1 DEF InsertRun
  <2>3. CASE ReuseRun(c, k)
    <3>1. PICK r \in RowsWithKey(k) :
             call' = [call EXCEPT ![c] = [pc |-> "replied", run |-> r]]
      BY <2>3 DEF ReuseRun
    <3> QED BY <2>3, <3>1, <1>1 DEF ReuseRun
  <2> QED BY <2>1, <2>2, <2>3
<1>4. \A d \in Calls \ {c} : row'[d] = row[d]
  BY <1>1, <1>3
<1>5. crashes' \in Nat /\ faults' \in Nat /\ crashes' >= crashes /\ faults' >= faults
  BY <1>3, ConstantsOK DEF IInv, TypeOK
<1>6. ASSUME NEW d \in Calls \ {c} PROVE RunInv(d)'
  BY <1>1, <1>3, <1>4, <1>5, RunFrame DEF IInv
<1>7. CASE row' = row /\ call'[c].pc # "created"
  <2>1. KeysUnique'
    BY <1>7 DEF IInv, KeysUnique, Exists
  <2>2. StepInv(c)'
    <3>1. ~Exists(c)' /\ ~Submitted(c)' /\ ~HasTerminalEvent(c)'
      BY <1>2, <1>3, <1>7 DEF Exists, Submitted, HasTerminalEvent
    <3>2. call'[c].pc # "lost" /\ call'[c].pc # "idle"
      BY <1>3
    <3> QED BY <1>1, <1>2, <1>3, <1>7, <3>1, <3>2
            DEF RunInv, StepInv, Submitted, BodyPcs, Exists
  <2>3. LogShaped(c)' /\ EventReflected(c)' /\ OutcomeAgrees(c)' /\ ReconciledInv(c)'
    BY <1>1, <1>2, <1>3, <1>7
       DEF RunInv, LogShaped, EventReflected, OutcomeAgrees, ReconciledInv, Exists, Settled
  <2> QED BY <1>1, <1>3, <1>6, <2>1, <2>2, <2>3 DEF IInv, RunInv, QueueInv, ThreadInv, Alive
<1>8. CASE /\ row' = [row EXCEPT ![c] = [AbsentRow EXCEPT !.status = "pending", !.key = k]]
           /\ k = NoKey \/ RowsWithKey(k) = {}
           /\ call'[c].pc = "created" /\ call'[c].run = c
  <2>1. /\ row'[c].status = "pending" /\ row'[c].key = k /\ row'[c].error = "none"
        /\ row'[c].result = "none"
    BY <1>1, <1>8 DEF AbsentRow
  <2>2. KeysUnique'
    <3> SUFFICES ASSUME NEW r \in Calls, NEW s \in Calls, Exists(r)', Exists(s)', r # s
                 PROVE  row'[r].key # row'[s].key \/ row'[r].key = NoKey
      BY DEF KeysUnique
    <3>1. CASE r # c /\ s # c
      BY <3>1, <1>4 DEF IInv, KeysUnique, Exists
    <3>2. CASE r = c
      BY <3>2, <1>4, <1>8, <2>1 DEF RowsWithKey, Exists
    <3>3. CASE s = c
      BY <3>3, <1>4, <1>8, <2>1 DEF RowsWithKey, Exists
    <3> QED BY <3>1, <3>2, <3>3
  <2>3. StepInv(c)'
    <3>1. Exists(c)' /\ ~Submitted(c)' /\ ~HasTerminalEvent(c)'
      BY <1>2, <1>3, <2>1 DEF Exists, Submitted, HasTerminalEvent
    <3>2. job'[c].pc = "none" /\ job'[c].run = NoRun
      BY <1>1, <1>2, <1>3 DEF RunInv, StepInv, Submitted
    <3> QED BY <1>2, <1>3, <1>8, <2>1, <3>1, <3>2 DEF StepInv, BodyPcs
  <2>4. LogShaped(c)' /\ EventReflected(c)'
    BY <1>2, <1>3 DEF LogShaped, EventReflected
  <2>5. OutcomeAgrees(c)' /\ ReconciledInv(c)'
    BY <2>1 DEF OutcomeAgrees, ReconciledInv, Settled, TerminalStatuses
  <2>6. ThreadInv'
    BY <1>1, <1>3, <1>4 DEF IInv, ThreadInv, Alive
  <2> QED BY <1>1, <1>3, <1>6, <2>2, <2>3, <2>4, <2>5, <2>6 DEF IInv, RunInv, QueueInv
<1> QED BY <1>3, <1>7, <1>8

LEMMA SubmitStep ==
    ASSUME IInv, TypeOK', NEW c \in Calls, SubmitRun(c)
    PROVE  IInv'
<1>1. /\ TypeOK /\ RunInv(c) /\ proc = "serving" /\ call[c].pc = "created"
      /\ call \in [Calls -> Call] /\ job \in [Calls -> Job] /\ queue \in Seq(Calls)
  BY DEF IInv, TypeOK, SubmitRun
<1>2. /\ Exists(c) /\ ~Submitted(c) /\ log[c] = <<>> /\ call[c].run = c
      /\ row[c].status = "pending" /\ job[c].pc = "none"
  BY <1>1 DEF RunInv, StepInv, Exists, Submitted
<1>3. /\ UNCHANGED <<proc, row, log, crashes, faults>>
      /\ queue' = Append(queue, c)
      /\ call'[c].pc = "replied" /\ \A d \in Calls \ {c} : call'[d] = call[d]
      /\ job'[c].pc = "queued" /\ job'[c].run = c
      /\ \A d \in Calls \ {c} : job'[d] = job[d]
  BY <1>1, <1>2 DEF SubmitRun, Call, NoJob
<1>4. ASSUME NEW d \in Calls \ {c} PROVE RunInv(d)'
  <2>1. crashes' \in Nat /\ faults' \in Nat /\ crashes' >= crashes /\ faults' >= faults
    BY <1>3, ConstantsOK DEF IInv, TypeOK
  <2> QED BY <1>1, <1>3, <2>1, RunFrame DEF IInv
<1>5. RunInv(c)'
  <2>1. Exists(c)' /\ Submitted(c)' /\ row'[c] = row[c] /\ log'[c] = log[c]
    BY <1>2, <1>3 DEF Exists, Submitted
  <2>2. StepInv(c)'
    BY <1>2, <1>3, <2>1 DEF StepInv, BodyPcs
  <2>3. LogShaped(c)' /\ EventReflected(c)' /\ OutcomeAgrees(c)'
    BY <1>1, <2>1 DEF RunInv, LogShaped, EventReflected, OutcomeAgrees, Settled
  <2>4. ReconciledInv(c)'
    BY <1>1, <2>1 DEF RunInv, ReconciledInv
  <2> QED BY <2>2, <2>3, <2>4 DEF RunInv
<1>6. QueueInv'
  <2>1. /\ DOMAIN queue' = 1..(Len(queue) + 1) /\ Len(queue) \in Nat
        /\ DOMAIN queue = 1..Len(queue)
        /\ \A i \in 1..Len(queue) : queue'[i] = queue[i]
        /\ queue'[Len(queue) + 1] = c
    BY <1>1, <1>3
  <2>2. \A i \in 1..Len(queue) : queue[i] \in Calls /\ queue[i] # c
    BY <1>1, <1>2, <2>1 DEF IInv, QueueInv
  <2>3. \A i \in DOMAIN queue' : job'[queue'[i]].pc = "queued"
    BY <1>3, <2>1, <2>2 DEF IInv, QueueInv
  <2>4. \A i, j \in DOMAIN queue' : queue'[i] = queue'[j] => i = j
    BY <2>1, <2>2 DEF IInv, QueueInv
  <2>5. ASSUME NEW d \in Calls, job'[d].pc = "queued"
        PROVE  \E i \in DOMAIN queue' : queue'[i] = d
    <3>1. CASE d = c
      BY <3>1, <2>1
    <3>2. CASE d # c
      BY <3>2, <2>1, <2>5, <1>3 DEF IInv, QueueInv
    <3> QED BY <3>1, <3>2
  <2> QED BY <2>3, <2>4, <2>5 DEF QueueInv
<1>7. KeysUnique'
  BY <1>3 DEF IInv, KeysUnique, Exists
<1>8. ThreadInv'
  BY <1>1, <1>3 DEF IInv, ThreadInv, Alive
<1> QED BY <1>4, <1>5, <1>6, <1>7, <1>8 DEF IInv

LEMMA CancelStep ==
    ASSUME IInv, TypeOK', NEW r \in Calls, RequestCancellation(r)
    PROVE  IInv'
<1>1. TypeOK /\ RunInv(r) /\ row \in [Calls -> Row] /\ Exists(r)
  BY DEF IInv, TypeOK, RequestCancellation
<1>2. /\ UNCHANGED <<proc, log, call, queue, job, crashes, faults>>
      /\ \A d \in Calls \ {r} : row'[d] = row[d]
      /\ row'[r].cancel = TRUE /\ row'[r].status = row[r].status
      /\ row'[r].key = row[r].key /\ row'[r].result = row[r].result
      /\ row'[r].error = row[r].error
  BY <1>1 DEF RequestCancellation, Row
<1>3. ASSUME NEW d \in Calls \ {r} PROVE RunInv(d)'
  <2>1. crashes' \in Nat /\ faults' \in Nat /\ crashes' >= crashes /\ faults' >= faults
    BY <1>2, ConstantsOK DEF IInv, TypeOK
  <2> QED BY <1>1, <1>2, <2>1, RunFrame DEF IInv
<1>4. RunInv(r)'
  <2>1. /\ Exists(r)' /\ (Settled(r)' <=> Settled(r)) /\ (Submitted(r)' <=> Submitted(r))
        /\ (HasTerminalEvent(r)' <=> HasTerminalEvent(r)) /\ log'[r] = log[r]
    BY <1>1, <1>2 DEF Exists, Settled, Submitted, HasTerminalEvent
  <2>2. StepInv(r)
    BY <1>1 DEF RunInv
  <2>3. StepInv(r)'
    <3>1. job[r].pc = "mark_terminal" =>
            \E seen \in BOOLEAN :
               (seen => row'[r].cancel) /\ job[r].status = MapFinalResult(job[r].result, seen)
      BY <1>2, <2>2 DEF StepInv
    <3> QED BY <1>1, <1>2, <2>1, <2>2, <3>1 DEF StepInv
  <2>4. LogShaped(r)' /\ EventReflected(r)'
    BY <1>1, <1>2, <2>1 DEF RunInv, LogShaped, EventReflected
  <2>5. OutcomeAgrees(r)' /\ ReconciledInv(r)'
    BY <1>1, <1>2, <2>1 DEF RunInv, OutcomeAgrees, ReconciledInv
  <2> QED BY <2>3, <2>4, <2>5 DEF RunInv
<1>5. KeysUnique'
  <2>1. ASSUME NEW s \in Calls
        PROVE  row'[s].key = row[s].key /\ (Exists(s)' <=> Exists(s))
    BY <1>2 DEF Exists
  <2> QED BY <2>1, KeysFrame DEF IInv
<1>6. QueueInv' /\ ThreadInv'
  BY <1>2 DEF IInv, QueueInv, ThreadInv, Alive
<1> QED BY <1>3, <1>4, <1>5, <1>6 DEF IInv

LEMMA PickUpStep ==
    ASSUME IInv, TypeOK', PickUp
    PROVE  IInv'
<1>1. /\ TypeOK /\ job \in [Calls -> Job] /\ queue \in Seq(Calls) /\ queue # <<>> /\ Alive
  BY DEF IInv, TypeOK, PickUp
<1>c. PICK c \in Calls : c = Head(queue)
  BY <1>1
<1>2. /\ c = queue[1] /\ Len(queue) \in Nat \ {0}
      /\ DOMAIN queue = 1..Len(queue)
      /\ \A i \in DOMAIN queue : queue[i] \in Calls
  BY <1>1, <1>c
<1>3. job[c].pc = "queued" /\ RunInv(c)
  BY <1>2 DEF IInv, QueueInv
<1>4. /\ UNCHANGED <<proc, row, log, call, crashes, faults>>
      /\ queue' = Tail(queue)
      /\ job'[c].pc = "mark_running" /\ job'[c].run = job[c].run
      /\ \A d \in Calls \ {c} : job'[d] = job[d]
  BY <1>1, <1>c DEF PickUp, Job
<1>5. ASSUME NEW d \in Calls \ {c} PROVE RunInv(d)'
  <2>1. crashes' \in Nat /\ faults' \in Nat /\ crashes' >= crashes /\ faults' >= faults
    BY <1>4, ConstantsOK DEF IInv, TypeOK
  <2> QED BY <1>1, <1>4, <2>1, RunFrame DEF IInv
<1>6. RunInv(c)'
  <2>1. /\ job[c].run = c /\ call[c].pc = "replied" /\ Exists(c)
        /\ row[c].status = "pending" /\ log[c] = <<>>
    BY <1>3 DEF RunInv, StepInv, Submitted
  <2>2. Exists(c)' /\ Submitted(c)' /\ row'[c] = row[c] /\ log'[c] = log[c]
    BY <1>4, <2>1 DEF Exists, Submitted
  <2>3. StepInv(c)'
    BY <1>4, <2>1, <2>2 DEF StepInv, BodyPcs
  <2>4. LogShaped(c)' /\ EventReflected(c)' /\ OutcomeAgrees(c)'
    BY <1>3, <2>2 DEF RunInv, LogShaped, EventReflected, OutcomeAgrees, Settled
  <2>5. ReconciledInv(c)'
    BY <1>3, <2>2 DEF RunInv, ReconciledInv
  <2> QED BY <2>3, <2>4, <2>5 DEF RunInv
<1>7. QueueInv'
  <2>1. /\ DOMAIN queue' = 1..(Len(queue) - 1)
        /\ \A i \in 1..(Len(queue) - 1) : queue'[i] = queue[i + 1]
    BY <1>1, <1>2, <1>4
  <2>2. ASSUME NEW i \in 1..(Len(queue) - 1)
        PROVE  i + 1 \in DOMAIN queue /\ queue[i + 1] # c /\ queue[i + 1] \in Calls
    BY <1>2 DEF IInv, QueueInv
  <2>3. \A i \in DOMAIN queue' : job'[queue'[i]].pc = "queued"
    BY <1>4, <2>1, <2>2 DEF IInv, QueueInv
  <2>4. ASSUME NEW i \in DOMAIN queue', NEW j \in DOMAIN queue', queue'[i] = queue'[j]
        PROVE  i = j
    <3>1. queue[i + 1] = queue[j + 1]
      BY <2>1, <2>4
    <3>2. i + 1 = j + 1
      BY <2>1, <2>2, <3>1 DEF IInv, QueueInv
    <3> QED BY <2>1, <3>2
  <2>5. ASSUME NEW d \in Calls, job'[d].pc = "queued"
        PROVE  \E i \in DOMAIN queue' : queue'[i] = d
    <3>1. d # c /\ job[d].pc = "queued"
      BY <1>4, <2>5
    <3>2. PICK i \in DOMAIN queue : queue[i] = d
      BY <3>1 DEF IInv, QueueInv
    <3>3. i # 1
      BY <1>2, <3>1, <3>2
    <3>4. i - 1 \in 1..(Len(queue) - 1) /\ (i - 1) + 1 = i
      BY <1>2, <3>2, <3>3
    <3> QED BY <2>1, <3>2, <3>4
  <2> QED BY <2>3, <2>4, <2>5 DEF QueueInv
<1>8. KeysUnique'
  BY <1>4 DEF IInv, KeysUnique, Exists
<1>9. ThreadInv'
  BY <1>1, <1>4 DEF IInv, ThreadInv, Alive
<1> QED BY <1>5, <1>6, <1>7, <1>8, <1>9 DEF IInv

\* Crash: what was in flight is marked as such; the tables stay as they are.
LEMMA CrashStep ==
    ASSUME IInv, TypeOK', Crash
    PROVE  IInv'
<1>1. /\ TypeOK /\ call \in [Calls -> Call] /\ job \in [Calls -> Job]
      /\ crashes \in Nat /\ faults \in Nat
  BY ConstantsOK DEF IInv, TypeOK
<1>2. /\ UNCHANGED <<row, log, faults>> /\ queue' = <<>> /\ crashes' = crashes + 1
  BY DEF Crash
<1>3. ASSUME NEW c \in Calls
      PROVE  /\ call'[c].run = call[c].run /\ job'[c].run = job[c].run
             /\ call'[c].pc = IF call[c].pc = "created" THEN "lost" ELSE call[c].pc
             /\ job'[c].pc = IF job[c].pc \in RunningPcs \cup {"queued"}
                               THEN "dead" ELSE job[c].pc
  BY <1>1 DEF Crash, Call, Job
<1>4. ASSUME NEW c \in Calls PROVE RunInv(c)'
  <2>1. RunInv(c) /\ StepInv(c)
    BY DEF IInv, RunInv
  <2>2. /\ (Exists(c)' <=> Exists(c)) /\ (Settled(c)' <=> Settled(c))
        /\ (HasTerminalEvent(c)' <=> HasTerminalEvent(c))
        /\ row'[c] = row[c] /\ log'[c] = log[c]
    BY <1>2 DEF Exists, Settled, HasTerminalEvent
  <2>3. Submitted(c)' <=> Submitted(c)
    BY <1>3 DEF Submitted, RunningPcs
  <2>4. /\ crashes' > 0 /\ call'[c].pc # "created"
        /\ job'[c].pc \notin RunningPcs \cup {"queued"}
    BY <1>1, <1>2, <1>3 DEF RunningPcs
  <2>5. /\ call'[c].pc = call[c].pc \/ (call[c].pc = "created" /\ call'[c].pc = "lost")
        /\ job'[c].pc = job[c].pc \/ (Submitted(c) /\ job'[c].pc = "dead")
    BY <1>3 DEF Submitted, RunningPcs
  <2>6. StepInv(c)'
    <3>1. /\ job'[c].pc = "finished" => Settled(c)'
          /\ job'[c].pc = "swallowed" => faults' > 0
          /\ call'[c].pc = "idle" => row'[c] = AbsentRow
      BY <1>2, <2>1, <2>2, <2>5 DEF StepInv
    <3>2. Submitted(c)' => job'[c].run = c /\ call'[c].pc = "replied" /\ Exists(c)'
      BY <1>3, <2>1, <2>2, <2>3, <2>5 DEF StepInv
    <3>3. ~Submitted(c)' => /\ job'[c].run = NoRun /\ log'[c] = <<>>
                            /\ row'[c].status \in {"absent", "pending", "failed"}
                            /\ (Exists(c)' => call'[c].pc \in {"created", "lost"})
      BY <1>3, <2>1, <2>2, <2>3, <2>5 DEF StepInv
    <3> QED BY <2>4, <3>1, <3>2, <3>3 DEF StepInv, RunningPcs, BodyPcs
  <2>7. LogShaped(c)' /\ EventReflected(c)' /\ OutcomeAgrees(c)'
    BY <2>1, <2>2 DEF RunInv, LogShaped, EventReflected, OutcomeAgrees
  <2>8. ReconciledInv(c)'
    BY <1>1, <1>2, <2>1, <2>2, <2>4, <2>5 DEF RunInv, ReconciledInv
  <2> QED BY <2>6, <2>7, <2>8 DEF RunInv
<1>5. QueueInv'
  <2>1. ASSUME NEW c \in Calls PROVE job'[c].pc # "queued"
    BY <1>3
  <2> QED BY <1>2, <2>1 DEF QueueInv
<1>6. ThreadInv'
  <2>1. ASSUME NEW c \in Calls
        PROVE  call'[c].pc # "created" /\ job'[c].pc \notin RunningPcs \cup {"queued"}
    BY <1>3 DEF RunningPcs
  <2> QED BY <2>1 DEF ThreadInv
<1>7. KeysUnique'
  BY <1>2 DEF IInv, KeysUnique, Exists
<1> QED BY <1>4, <1>5, <1>6, <1>7 DEF IInv

\* Startup reconciliation meets no live request and no live job.
LEMMA ReconcileStep ==
    ASSUME IInv, TypeOK', Reconcile
    PROVE  IInv'
<1>1. /\ TypeOK /\ proc = "booting" /\ row \in [Calls -> Row]
      /\ UNCHANGED <<log, call, queue, job, crashes>>
  BY DEF IInv, TypeOK, Reconcile
<1>2. crashes' \in Nat /\ faults' \in Nat /\ crashes' >= crashes /\ faults' >= faults
  <2>1. crashes \in Nat /\ faults \in Nat
    BY ConstantsOK DEF IInv, TypeOK
  <2>2. crashes' = crashes /\ faults' \in {faults, faults + 1}
    BY DEF Reconcile
  <2> QED BY <2>1, <2>2
<1>3. ASSUME NEW c \in Calls
      PROVE  /\ call[c].pc # "created"
             /\ job[c].pc \notin RunningPcs \cup {"queued"}
  BY <1>1 DEF IInv, ThreadInv, Alive
<1>4. ASSUME NEW c \in Calls
      PROVE  \/ row'[c] = row[c]
             \/ /\ row[c].status \in {"pending", "running"}
                /\ row'[c].status = "failed" /\ row'[c].error = "SERVICE_RESTARTED"
                /\ row'[c].key = row[c].key /\ row'[c].result = row[c].result
                /\ row'[c].cancel = row[c].cancel
  <2>1. [row[c] EXCEPT !.status = "failed", !.error = "SERVICE_RESTARTED"].status = "failed"
        /\ [row[c] EXCEPT !.status = "failed", !.error = "SERVICE_RESTARTED"].error
             = "SERVICE_RESTARTED"
        /\ [row[c] EXCEPT !.status = "failed", !.error = "SERVICE_RESTARTED"].key = row[c].key
        /\ [row[c] EXCEPT !.status = "failed", !.error = "SERVICE_RESTARTED"].result
             = row[c].result
        /\ [row[c] EXCEPT !.status = "failed", !.error = "SERVICE_RESTARTED"].cancel
             = row[c].cancel
    BY <1>1 DEF Row
  <2>2. \/ row'[c] = row[c]
        \/ /\ row[c].status \in {"pending", "running"}
           /\ row'[c] = [row[c] EXCEPT !.status = "failed", !.error = "SERVICE_RESTARTED"]
    BY DEF Reconcile
  <2> QED BY <2>1, <2>2
<1>5. ASSUME NEW c \in Calls, row'[c] = row[c] PROVE RunInv(c)'
  BY <1>1, <1>2, <1>5, RunFrame DEF IInv
<1>6. ASSUME NEW c \in Calls, row[c].status \in {"pending", "running"},
             row'[c].status = "failed", row'[c].error = "SERVICE_RESTARTED",
             row'[c].result = row[c].result
      PROVE  RunInv(c)'
  <2>1. RunInv(c) /\ StepInv(c) /\ OutcomeAgrees(c)
    BY DEF IInv, RunInv
  <2>2. ~Settled(c) /\ Exists(c) /\ Settled(c)' /\ Exists(c)'
    BY <1>6 DEF Settled, Exists, TerminalStatuses
  <2>3. row[c].result = "none" /\ ~HasTerminalEvent(c)
    BY <2>1, <2>2 DEF RunInv, OutcomeAgrees, EventReflected, HasTerminalEvent
  <2>4. ~HasTerminalEvent(c)' /\ (Submitted(c)' <=> Submitted(c)) /\ log'[c] = log[c]
        /\ job'[c] = job[c] /\ call'[c] = call[c] /\ crashes' = crashes
    BY <1>1, <2>3 DEF HasTerminalEvent, Submitted
  <2>5. job[c].pc \in {"none", "dead", "swallowed"}
    <3>1. job[c].pc \in JobPcs /\ job[c].pc # "finished"
      BY <2>1, <2>2 DEF IInv, TypeOK, Job, StepInv
    <3> QED BY <3>1, <1>3 DEF JobPcs
  <2>6. crashes + faults > 0 /\ crashes \in Nat /\ faults \in Nat
    <3>1. crashes \in Nat /\ faults \in Nat
      BY ConstantsOK DEF IInv, TypeOK
    <3>2. job[c].pc = "none" => call[c].pc = "lost"
      BY <1>3, <2>1, <2>2 DEF StepInv, Submitted
    <3>3. crashes > 0 \/ faults > 0
      BY <2>1, <2>5, <3>2 DEF StepInv
    <3> QED BY <3>1, <3>3
  <2>7. StepInv(c)'
    <3>1. faults' > 0 \/ faults = 0
      BY <1>2, <2>6
    <3>2. job'[c].pc = "swallowed" => faults' > 0
      BY <2>1, <2>4, <1>2, <2>6 DEF StepInv
    <3> QED BY <1>3, <1>6, <2>1, <2>2, <2>4, <2>5, <3>2 DEF StepInv, BodyPcs, Submitted
  <2>8. LogShaped(c)' /\ EventReflected(c)'
    BY <2>1, <2>4 DEF RunInv, LogShaped, EventReflected, HasTerminalEvent
  <2>9. OutcomeAgrees(c)'
    BY <1>6, <2>2 DEF OutcomeAgrees
  <2>10. ReconciledInv(c)'
    BY <1>2, <1>3, <1>6, <2>3, <2>4, <2>5, <2>6 DEF ReconciledInv
  <2> QED BY <2>7, <2>8, <2>9, <2>10 DEF RunInv
<1>7. \A c \in Calls : RunInv(c)'
  BY <1>4, <1>5, <1>6
<1>8. KeysUnique'
  <2>1. ASSUME NEW s \in Calls
        PROVE  row'[s].key = row[s].key /\ (Exists(s)' <=> Exists(s))
    BY <1>4 DEF Exists
  <2> QED BY <2>1, KeysFrame DEF IInv
<1>9. QueueInv'
  BY <1>1 DEF IInv, QueueInv
<1>10. ThreadInv'
  BY <1>1, <1>3 DEF ThreadInv
<1> QED BY <1>7, <1>8, <1>9, <1>10 DEF IInv

\* Boot, shutdown and the end of draining, like a stuttering step, touch no run.
LEMMA ProcStep ==
    ASSUME IInv, TypeOK', Boot \/ Shutdown \/ Drained \/ UNCHANGED vars
    PROVE  IInv'
<1>1. UNCHANGED <<row, log, call, queue, job, crashes, faults>>
  BY DEF Boot, Shutdown, Drained, vars
<1>2. KeysUnique' /\ QueueInv'
  BY <1>1 DEF IInv, KeysUnique, Exists, QueueInv
<1>3. ASSUME NEW c \in Calls PROVE RunInv(c)'
  <2>1. crashes' \in Nat /\ faults' \in Nat /\ crashes' >= crashes /\ faults' >= faults
    BY <1>1, ConstantsOK DEF IInv, TypeOK
  <2>2. TypeOK /\ RunInv(c)
    BY DEF IInv
  <2>3. row'[c] = row[c] /\ log'[c] = log[c] /\ job'[c] = job[c] /\ call'[c] = call[c]
    BY <1>1
  <2> QED BY <2>1, <2>2, <2>3, RunFrame
<1>4. ThreadInv'
  <2>1. CASE Boot
    BY <1>1, <2>1 DEF IInv, ThreadInv, Alive, Boot
  <2>2. CASE Shutdown
    BY <1>1, <2>2 DEF IInv, ThreadInv, Alive, Shutdown
  <2>3. CASE Drained
    <3>1. queue = <<>> /\ Busy = {} /\ proc = "draining"
      BY <2>3 DEF Drained
    <3>2. ASSUME NEW c \in Calls
          PROVE  call[c].pc # "created" /\ job[c].pc \notin RunningPcs \cup {"queued"}
      BY <3>1 DEF IInv, QueueInv, ThreadInv, Busy
    <3> QED BY <1>1, <3>2 DEF ThreadInv
  <2>4. CASE UNCHANGED vars
    BY <2>4 DEF IInv, ThreadInv, Alive, vars
  <2> QED BY <2>1, <2>2, <2>3, <2>4
<1> QED BY <1>2, <1>3, <1>4 DEF IInv

LEMMA InvNext == IInv /\ [Next]_vars => IInv'
<1> SUFFICES ASSUME IInv, [Next]_vars PROVE IInv'
  OBVIOUS
<1>1. TypeOK'
  <2>1. ASSUME NEW c \in Calls PROVE JobSound(c)
    BY RunsAreSound DEF IInv
  <2> QED BY <2>1, TypeNext DEF IInv
<1>2. ASSUME NEW c \in Calls, JobStep(c) PROVE IInv'
  <2>1. JobFrame(c) /\ RunInv(c)'
    BY <1>2, JobStepSafe DEF IInv
  <2>2. KeysUnique' /\ QueueInv' /\ ThreadInv'
    BY <1>2, <2>1, JobStepGlobal
  <2>3. ASSUME NEW d \in Calls \ {c} PROVE RunInv(d)'
    <3>1. crashes' \in Nat /\ faults' \in Nat /\ crashes' >= crashes /\ faults' >= faults
      <4>1. crashes \in Nat /\ faults \in Nat
        BY ConstantsOK DEF IInv, TypeOK
      <4> QED BY <4>1, <2>1 DEF JobFrame
    <3>2. /\ row'[d] = row[d] /\ log'[d] = log[d] /\ job'[d] = job[d]
          /\ call'[d] = call[d]
      BY <2>1 DEF JobFrame
    <3>3. TypeOK /\ RunInv(d)
      BY DEF IInv
    <3> QED BY <3>1, <3>2, <3>3, RunFrame
  <2> QED BY <1>1, <2>1, <2>2, <2>3 DEF IInv
<1>3. ASSUME NEW c \in Calls, RefuseRun(c) PROVE IInv'
  BY <1>1, <1>3, RequestStep
<1>4. ASSUME NEW c \in Calls, NEW k \in Keys \cup {NoKey}, InsertRun(c, k) \/ ReuseRun(c, k)
      PROVE  IInv'
  BY <1>1, <1>4, RequestStep
<1>5. ASSUME NEW c \in Calls, SubmitRun(c) PROVE IInv'
  BY <1>1, <1>5, SubmitStep
<1>6. ASSUME NEW r \in Calls, RequestCancellation(r) PROVE IInv'
  BY <1>1, <1>6, CancelStep
<1> QED
  BY <1>1, <1>2, <1>3, <1>4, <1>5, <1>6, PickUpStep, CrashStep, ReconcileStep, ProcStep DEF Next

\* The inductive invariant holds in every reachable state.
THEOREM Invariance == Spec => []IInv
BY InvInit, InvNext, PTL DEF Spec

-----------------------------------------------------------------------------
\* What follows

\* Every variable of the lifecycle keeps its type.
THEOREM TypeCorrect == Spec => []TypeOK
<1>1. IInv => TypeOK
  BY DEF IInv
<1> QED BY <1>1, Invariance, PTL

\* A run, and an idempotency key, is executed at most once, for any number of
\* requests racing with it, crashes and restarts.
THEOREM OneExecution == Spec => []OneExecutionPerKey
<1>1. IInv => OneExecutionPerKey
  <2> SUFFICES ASSUME IInv, NEW c \in Calls, NEW d \in Calls,
                      Submitted(c), Submitted(d), c # d
               PROVE  /\ job[c].run # job[d].run
                      /\ row[job[c].run].key # row[job[d].run].key \/ row[job[c].run].key = NoKey
    BY DEF OneExecutionPerKey
  <2>1. job[c].run = c /\ job[d].run = d /\ Exists(c) /\ Exists(d)
    BY DEF IInv, RunInv, StepInv
  <2> QED BY <2>1 DEF IInv, KeysUnique
<1> QED BY <1>1, Invariance, PTL

\* A published terminal event always agrees with the stored status and result.
THEOREM TerminalEventsAgree == Spec => []TerminalEventReflected
<1>1. IInv => TerminalEventReflected
  BY DEF IInv, RunInv, TerminalEventReflected
<1> QED BY <1>1, Invariance, PTL

\* Every event log opens with its only run_started and ends with its only
\* terminal event.
THEOREM LogsWellFormed == Spec => []LogShape
<1>1. IInv => LogShape
  BY DEF IInv, RunInv, LogShape
<1> QED BY <1>1, Invariance, PTL

\* Status, result, error code and cancellation flag never contradict each other.
THEOREM OutcomesAgree == Spec => []OutcomeConsistent
<1>1. IInv => OutcomeConsistent
  BY DEF IInv, RunInv, OutcomeConsistent
<1> QED BY <1>1, Invariance, PTL

\* Reconciliation fails only runs that a crash or a failed write interrupted.
THEOREM ReconciliationIsHonest == Spec => []OnlyInterruptedRunsReconciled
<1>1. IInv => OnlyInterruptedRunsReconciled
  <2> SUFFICES ASSUME IInv, NEW r \in Calls, row[r].error = "SERVICE_RESTARTED"
               PROVE  /\ crashes + faults > 0
                      /\ row[r].result = "none" /\ ~HasTerminalEvent(r)
                      /\ \A c \in Calls : job[c].run = r => job[c].pc \in {"dead", "swallowed"}
    BY DEF OnlyInterruptedRunsReconciled
  <2>1. ReconciledInv(r)
    BY DEF IInv, RunInv
  <2>2. ASSUME NEW c \in Calls, job[c].run = r PROVE job[c].pc \in {"dead", "swallowed"}
    <3>1. Submitted(c) => job[c].run = c
      BY DEF IInv, RunInv, StepInv
    <3>2. Submitted(c)
      BY <2>2, ConstantsOK DEF IInv, RunInv, StepInv
    <3> QED BY <2>1, <2>2, <3>1, <3>2 DEF ReconciledInv, Submitted
  <2> QED BY <2>1, <2>2 DEF ReconciledInv
<1> QED BY <1>1, Invariance, PTL

-----------------------------------------------------------------------------
\* Cancellation

\* What a run cancelled before its job started can still come to: the graph never
\* gets past a Decide, and the outcome it is ended with is mapped to "cancelled".
CancelledEarly(r) ==
    /\ row[r].cancel
    /\ row[r].status \notin {"absent", "completed", "degraded"}
    /\ job[r].pc \notin {"emit_action", "execute", "executing", "observe"}
    /\ job[r].pc = "read_flag" => job[r].result = "degraded"
    /\ job[r].pc = "mark_terminal" => job[r].status = "cancelled"

\* Steps other than those of run r's own job: they forget no cancellation, end an
\* open run in no way but as failed, and start its job at most.
LEMMA OthersStep ==
    ASSUME IInv, [Next]_vars, NEW r \in Calls, ~JobStep(r)
    PROVE  /\ row[r].cancel => row'[r].cancel
           /\ Exists(r) => row'[r].status \in {row[r].status, "failed"}
           /\ \/ job'[r] = job[r]
              \/ job[r].pc = "none" /\ job'[r].pc = "queued" /\ job'[r].acts = 0
              \/ job'[r].pc \in {"mark_running", "dead"} /\ job'[r].acts = job[r].acts
<1>1. TypeOK /\ RunInv(r) /\ row \in [Calls -> Row] /\ job \in [Calls -> Job]
  BY DEF IInv, TypeOK
<1>2. ASSUME NEW c \in Calls, JobStep(c)
      PROVE  row'[r] = row[r] /\ job'[r] = job[r]
  BY <1>2, JobStepSafe DEF IInv, JobFrame
<1>3. ASSUME NEW c \in Calls, NEW k \in Keys \cup {NoKey},
             RefuseRun(c) \/ InsertRun(c, k) \/ ReuseRun(c, k)
      PROVE  /\ row'[r] = row[r] \/ row[r] = AbsentRow
             /\ job'[r] = job[r]
  <2>1. CASE InsertRun(c, k)
    <3>1. c = r => row[r] = AbsentRow
      BY <1>1, <2>1 DEF InsertRun, RunInv, StepInv
    <3> QED BY <1>1, <2>1, <3>1 DEF InsertRun
  <2> QED BY <1>3, <2>1 DEF RefuseRun, ReuseRun
<1>4. ASSUME NEW c \in Calls, SubmitRun(c)
      PROVE  /\ row'[r] = row[r]
             /\ job'[r] = job[r] \/ (job[r].pc = "none" /\ job'[r].pc = "queued" /\ job'[r].acts = 0)
  <2>1. CASE c = r
    <3>1. job[r].pc = "none"
      BY <1>1, <1>4, <2>1 DEF SubmitRun, RunInv, StepInv, Submitted
    <3> QED BY <1>1, <1>4, <2>1, <3>1 DEF SubmitRun, NoJob
  <2> QED BY <1>1, <1>4, <2>1 DEF SubmitRun
<1>5. ASSUME NEW c \in Calls, RequestCancellation(c)
      PROVE  /\ row[r].cancel => row'[r].cancel
             /\ row'[r].status = row[r].status /\ job'[r] = job[r]
  BY <1>1, <1>5 DEF RequestCancellation, Row
<1>6. CASE PickUp
  <2>1. PICK c \in Calls : c = Head(queue)
    BY <1>1, <1>6 DEF PickUp, TypeOK
  <2>2. job' = [job EXCEPT ![c].pc = "mark_running"] /\ row' = row
    BY <1>6, <2>1 DEF PickUp
  <2> QED BY <1>1, <2>2 DEF Job
<1>7. CASE Crash
  BY <1>1, <1>7 DEF Crash, Job
<1>8. CASE Reconcile
  <2>1. job' = job /\ (row' = row \/ row'[r] = row[r]
          \/ row'[r] = [row[r] EXCEPT !.status = "failed", !.error = "SERVICE_RESTARTED"])
    BY <1>8 DEF Reconcile
  <2> QED BY <1>1, <2>1 DEF Row
<1>9. CASE Boot \/ Shutdown \/ Drained \/ UNCHANGED vars
  BY <1>9 DEF Boot, Shutdown, Drained, vars
<1>10. row[r] = AbsentRow => ~row[r].cancel /\ ~Exists(r)
  BY DEF AbsentRow, Exists
<1> QED BY <1>2, <1>3, <1>4, <1>5, <1>6, <1>7, <1>8, <1>9, <1>10 DEF Next

LEMMA WorksOnOwnRun ==
    ASSUME IInv, NEW r \in Calls, JobStep(r)
    PROVE  job[r].run = r
<1>1. job[r].pc \in RunningPcs
  BY DEF JobStep, At, RunningPcs, MarkRunning, EmitStarted, Setup,
     GraphDecide, EmitActionStarted, GraphExecute, ToolReturns, SpecialistEvent,
     EmitObservation, ReadFlagAndMap, MarkTerminal, EmitTerminal, FailMark, FailEmit
<1> QED BY <1>1 DEF IInv, RunInv, StepInv, Submitted, RunningPcs

\* No step of a job touches the flag.
LEMMA JobKeepsFlag ==
    ASSUME IInv, NEW r \in Calls, JobStep(r), row[r].cancel
    PROVE  row'[r].cancel
<1>1. TypeOK /\ row \in [Calls -> Row] /\ job[r].run = r
  BY WorksOnOwnRun DEF IInv, TypeOK
<1>2. CASE MarkRunning(r)
  BY <1>1, <1>2 DEF MarkRunning, Row
<1>3. CASE MarkTerminal(r) \/ FailMark(r)
  BY <1>1, <1>3, SetTerminalEffect DEF MarkTerminal, FailMark
<1>4. CASE row' = row
  BY <1>4
<1> QED BY <1>2, <1>3, <1>4 DEF JobStep, Emit, EmitStarted, Setup,
     GraphDecide, EmitActionStarted, GraphExecute, ToolReturns, SpecialistEvent,
     EmitObservation, ReadFlagAndMap, EmitTerminal, FailEmit

\* The run's own job: with the flag set, it never leaves Decide for a tool call.
LEMMA OwnStep ==
    ASSUME IInv, NEW r \in Calls, JobStep(r), CancelledEarly(r)
    PROVE  CancelledEarly(r)'
<1>1. TypeOK /\ RunInv(r) /\ row \in [Calls -> Row] /\ job \in [Calls -> Job]
  BY DEF IInv, TypeOK
<1>2. job[r].run = r
  BY WorksOnOwnRun
<1>3. CASE MarkRunning(r)
  <2>1. row'[r].cancel = row[r].cancel /\ row'[r].status \in {row[r].status, "running"}
    BY <1>1, <1>2, <1>3 DEF MarkRunning, Row
  <2>2. job'[r].pc \in {"emit_started", "swallowed"}
    BY <1>1, <1>3, GotoEffect DEF MarkRunning
  <2> QED BY <2>1, <2>2 DEF CancelledEarly
<1>4. CASE Setup(r)
  <2>1. job'[r].pc \in {"decide", "fail_mark"} /\ row' = row
    BY <1>1, <1>4, GotoEffect DEF Setup
  <2> QED BY <2>1 DEF CancelledEarly
<1>5. CASE GraphDecide(r)
  <2>1. EndGraph(r, "degraded") /\ row' = row
    BY <1>2, <1>5 DEF GraphDecide, CancelledEarly
  <2>2. job'[r].pc = "read_flag" /\ job'[r].result = "degraded"
    BY <1>1, <2>1 DEF EndGraph, Job
  <2> QED BY <2>1, <2>2 DEF CancelledEarly
<1>6. CASE ReadFlagAndMap(r)
  <2>1. job[r].result = "degraded" /\ row[r].cancel /\ row' = row
    BY <1>6 DEF ReadFlagAndMap, At, CancelledEarly
  <2>2. CASE job' = [job EXCEPT ![r].pc = "mark_terminal",
                                ![r].status = MapFinalResult(job[r].result, row[r].cancel)]
    <3>1. MapFinalResult(job[r].result, row[r].cancel) = "cancelled"
      BY <2>1 DEF MapFinalResult
    <3>2. job'[r].pc = "mark_terminal" /\ job'[r].status = "cancelled"
      BY <1>1, <2>2, <3>1 DEF Job
    <3> QED BY <2>1, <3>2 DEF CancelledEarly
  <2>3. CASE Goto(r, "fail_mark")
    <3>1. job'[r].pc = "fail_mark"
      BY <1>1, <2>3, GotoEffect
    <3> QED BY <2>1, <3>1 DEF CancelledEarly
  <2> QED BY <1>2, <1>6, <2>2, <2>3 DEF ReadFlagAndMap
<1>7. CASE MarkTerminal(r)
  <2>1. job[r].status = "cancelled"
    BY <1>7 DEF MarkTerminal, At, CancelledEarly
  <2>2. /\ row'[r].cancel /\ row'[r].status \in {row[r].status, "cancelled"}
        /\ job'[r].pc \in {"emit_terminal", "fail_mark"}
    BY <1>1, <1>2, <1>7, <2>1, SetTerminalEffect DEF MarkTerminal, CancelledEarly
  <2> QED BY <2>2 DEF CancelledEarly
<1>8. CASE FailMark(r)
  <2>1. /\ row'[r].cancel /\ row'[r].status \in {row[r].status, "failed"}
        /\ job'[r].pc \in {"fail_emit", "swallowed"}
    BY <1>1, <1>2, <1>8, SetTerminalEffect DEF FailMark, CancelledEarly
  <2> QED BY <2>1 DEF CancelledEarly
<1>9. CASE EmitStarted(r) \/ EmitTerminal(r) \/ FailEmit(r)
  <2>1. row' = row /\ job'[r].pc \in {"setup", "finished", "fail_mark", "swallowed"}
    BY <1>1, <1>2, <1>9, EmitEffect DEF EmitStarted, EmitTerminal, FailEmit
  <2> QED BY <2>1 DEF CancelledEarly
<1>10. ~(EmitActionStarted(r) \/ GraphExecute(r) \/ ToolReturns(r)
           \/ SpecialistEvent(r) \/ EmitObservation(r))
  BY DEF EmitActionStarted, GraphExecute, ToolReturns, SpecialistEvent, EmitObservation,
     At, CancelledEarly
<1> QED BY <1>3, <1>4, <1>5, <1>6, <1>7, <1>8, <1>9, <1>10 DEF JobStep

LEMMA CancelledEarlyKept ==
    ASSUME IInv, [Next]_vars, NEW r \in Calls, CancelledEarly(r)
    PROVE  CancelledEarly(r)'
<1>1. CASE ~JobStep(r)
  BY <1>1, OthersStep DEF CancelledEarly, Exists
<1> QED BY <1>1, OwnStep

\* A run that was cancelled while pending is never reported completed or degraded,
\* whatever its job, the graph, a crash or a failed write make of it later.
THEOREM EarlyCancelIsHonoured == Spec => EarlyCancelEndsCancelled
<1>1. ASSUME NEW r \in Calls
      PROVE  Spec => [](row[r].status = "pending" /\ row[r].cancel
                          => [](row[r].status \notin {"completed", "degraded"}))
  <2>1. IInv /\ row[r].status = "pending" /\ row[r].cancel => CancelledEarly(r)
    BY DEF IInv, RunInv, StepInv, CancelledEarly, BodyPcs
  <2>2. IInv /\ [Next]_vars /\ CancelledEarly(r) => CancelledEarly(r)'
    BY CancelledEarlyKept
  <2>3. CancelledEarly(r) => row[r].status \notin {"completed", "degraded"}
    BY DEF CancelledEarly
  <2> QED BY <2>1, <2>2, <2>3, Invariance, PTL DEF Spec
<1> QED BY <1>1 DEF EarlyCancelEndsCancelled

\* A job no worker has seen has called no tool.
UntouchedJobs == \A c \in Calls : job[c].pc = "none" => job[c].acts = 0

\* Only GraphExecute calls a tool, and not with the flag set.
LEMMA ActsStep ==
    ASSUME IInv, NEW r \in Calls, JobStep(r), row[r].cancel
    PROVE  job'[r].acts = job[r].acts
<1>1. RunInv(r) /\ job \in [Calls -> Job]
  BY DEF IInv, TypeOK
<1>2. job[r].run = r
  BY WorksOnOwnRun
<1>3. ASSUME NEW pc, Goto(r, pc) PROVE job'[r].acts = job[r].acts
  BY <1>1, <1>3 DEF Goto, Job
<1>4. ASSUME NEW g, EndGraph(r, g) PROVE job'[r].acts = job[r].acts
  BY <1>1, <1>4 DEF EndGraph, Job
<1>5. CASE MarkRunning(r) \/ Setup(r) \/ ToolReturns(r)
  BY <1>3, <1>5 DEF MarkRunning, Setup, ToolReturns
<1>6. CASE EmitStarted(r) \/ EmitActionStarted(r) \/ EmitObservation(r) \/ EmitTerminal(r)
             \/ FailEmit(r)
  BY <1>3, <1>6 DEF Emit, EmitStarted, EmitActionStarted, EmitObservation, EmitTerminal, FailEmit
<1>7. CASE MarkTerminal(r) \/ FailMark(r)
  BY <1>3, <1>7 DEF SetTerminal, MarkTerminal, FailMark
<1>8. CASE GraphDecide(r) \/ GraphExecute(r)
  BY <1>2, <1>4, <1>8 DEF GraphDecide, GraphExecute
<1>9. CASE SpecialistEvent(r)
  <2>1. CASE job' = [job EXCEPT ![r].turns = @ + 1]
    BY <1>1, <2>1 DEF Job
  <2> QED BY <1>3, <1>9, <2>1 DEF SpecialistEvent
<1>10. CASE ReadFlagAndMap(r)
  <2>1. ASSUME NEW s, job' = [job EXCEPT ![r].pc = "mark_terminal", ![r].status = s]
        PROVE  job'[r].acts = job[r].acts
    BY <1>1, <2>1 DEF Job
  <2> QED BY <1>3, <1>10, <2>1 DEF ReadFlagAndMap
<1> QED BY <1>5, <1>6, <1>7, <1>8, <1>9, <1>10 DEF JobStep

LEMMA UntouchedStep ==
    ASSUME IInv, IInv', [Next]_vars, UntouchedJobs
    PROVE  UntouchedJobs'
<1> SUFFICES ASSUME NEW r \in Calls, job'[r].pc = "none" PROVE job'[r].acts = 0
  BY DEF UntouchedJobs
<1>1. CASE JobStep(r)
  <2>1. job'[r].pc # "none"
    BY <1>1, JobStepSafe DEF IInv, JobFrame, RunningPcs
  <2> QED BY <2>1
<1>2. CASE ~JobStep(r)
  BY <1>2, OthersStep DEF UntouchedJobs
<1> QED BY <1>1, <1>2

LEMMA Untouched == Spec => []UntouchedJobs
<1>1. Init => UntouchedJobs
  BY DEF Init, UntouchedJobs, NoJob
<1> QED BY <1>1, UntouchedStep, Invariance, PTL DEF Spec

LEMMA CancelledActsKept ==
    ASSUME IInv, [Next]_vars, UntouchedJobs, NEW r \in Calls, row[r].cancel
    PROVE  row'[r].cancel /\ job'[r].acts = job[r].acts
<1>1. CASE JobStep(r)
  <2>1. row'[r].cancel
    BY <1>1, JobKeepsFlag
  <2> QED BY <1>1, <2>1, ActsStep
<1>2. CASE ~JobStep(r)
  BY <1>2, OthersStep DEF UntouchedJobs
<1> QED BY <1>1, <1>2

\* After a cancellation was accepted no further tool call of the run begins: the one
\* in flight may end, and nothing (crash, restart, failed write) starts another.
THEOREM CancelStopsTools == Spec => CancelStopsActing
<1>1. ASSUME NEW r \in Calls, NEW n \in 0..MaxTurns
      PROVE  Spec => [](row[r].cancel /\ job[r].acts = n => [](job[r].acts = n))
  <2> DEFINE Stopped == row[r].cancel /\ job[r].acts = n
  <2>1. IInv /\ [Next]_vars /\ UntouchedJobs /\ Stopped => Stopped'
    BY CancelledActsKept
  <2>2. Stopped => job[r].acts = n
    OBVIOUS
  <2> QED BY <2>1, <2>2, Invariance, Untouched, PTL DEF Spec
<1> QED BY <1>1 DEF CancelStopsActing

-----------------------------------------------------------------------------
\* The budget of a run

\* Events a job that stands at pc may still add before it pays for another turn of
\* the graph: the two of a turn, run_started, and one terminal event.
Owed(pc) ==
    IF pc = "finished" THEN 0
    ELSE IF pc = "emit_action" THEN 3
    ELSE IF pc \in {"none", "queued", "mark_running", "emit_started",
                    "execute", "executing", "observe"} THEN 2 ELSE 1

\* Every transition of the graph pays for at most one tool call and two events; the
\* start and the end of the run are the two events beyond that.
Budget(c) ==
    /\ Len(log[c]) + Owed(job[c].pc) <= 2 + 2 * job[c].turns
    /\ job[c].pc \in {"emit_action", "execute"} => job[c].acts < job[c].turns
    /\ job[c].acts <= job[c].turns

WithinBudget == \A c \in Calls : Budget(c)

LEMMA BudgetTypes ==
    ASSUME TypeOK, NEW c \in Calls
    PROVE  /\ log[c] \in Seq(Stages) /\ Len(log[c]) \in Nat
           /\ job[c].turns \in Nat /\ job[c].acts \in Nat
BY ConstantsOK DEF TypeOK, Job

LEMMA OwedTypes == \A pc : Owed(pc) \in 0..3
BY DEF Owed

\* A step that appends n events and pays for p turns.
LEMMA BudgetMoves ==
    ASSUME TypeOK, NEW c \in Calls, Budget(c), NEW n \in 0..1, NEW p \in 0..1, NEW to,
           Len(log'[c]) = Len(log[c]) + n, job'[c].pc = to,
           job'[c].turns = job[c].turns + p, job'[c].acts = job[c].acts,
           n + Owed(to) <= Owed(job[c].pc) + 2 * p,
           to \in {"emit_action", "execute"} => job[c].pc = "emit_action" \/ p = 1
    PROVE  Budget(c)'
<1> DEFINE f == Owed(job[c].pc)
           t == Owed(to)
<1>1. /\ Len(log[c]) \in Nat /\ job[c].turns \in Nat /\ job[c].acts \in Nat
      /\ f \in 0..3 /\ t \in 0..3
  BY BudgetTypes, OwedTypes
<1>2. n + t <= f + 2 * p
  OBVIOUS
<1>3. Len(log[c]) + f <= 2 + 2 * job[c].turns
  BY DEF Budget
<1>4. Len(log'[c]) + t <= 2 + 2 * job'[c].turns
  <2>1. ASSUME NEW l \in Nat, NEW u \in Nat, NEW x \in 0..3, NEW y \in 0..3,
               n + y <= x + 2 * p, l + x <= 2 + 2 * u
        PROVE  (l + n) + y <= 2 + 2 * (u + p)
    BY <2>1
  <2> QED BY <1>1, <1>2, <1>3, <2>1
<1>5. job'[c].acts <= job'[c].turns /\ (to \in {"emit_action", "execute"} => job'[c].acts < job'[c].turns)
  BY <1>1 DEF Budget
<1> QED BY <1>4, <1>5 DEF Budget, t

LEMMA BudgetQuiet ==
    ASSUME TypeOK, NEW c \in Calls, Budget(c), log'[c] = log[c],
           job'[c].turns = job[c].turns, job'[c].acts = job[c].acts,
           Owed(job'[c].pc) <= Owed(job[c].pc),
           job'[c].pc \notin {"emit_action", "execute"}
    PROVE  Budget(c)'
<1>1. Len(log'[c]) = Len(log[c]) + 0 /\ job'[c].turns = job[c].turns + 0
  BY BudgetTypes
<1>2. 0 + Owed(job'[c].pc) <= Owed(job[c].pc) + 2 * 0
  BY OwedTypes
<1>3. PICK to : to = job'[c].pc
  OBVIOUS
<1> QED BY <1>1, <1>2, <1>3, BudgetMoves

LEMMA BudgetEvent ==
    ASSUME TypeOK, NEW c \in Calls, Budget(c), NEW s, log'[c] = Append(log[c], s),
           job'[c].turns = job[c].turns, job'[c].acts = job[c].acts,
           1 + Owed(job'[c].pc) <= Owed(job[c].pc),
           job'[c].pc \in {"emit_action", "execute"} => job[c].pc = "emit_action"
    PROVE  Budget(c)'
<1>1. Len(log'[c]) = Len(log[c]) + 1 /\ job'[c].turns = job[c].turns + 0
  BY BudgetTypes
<1>2. 1 + Owed(job'[c].pc) <= Owed(job[c].pc) + 2 * 0
  BY OwedTypes
<1>3. PICK to : to = job'[c].pc
  OBVIOUS
<1> QED BY <1>1, <1>2, <1>3, BudgetMoves

LEMMA BudgetPaid ==
    ASSUME TypeOK, NEW c \in Calls, Budget(c), NEW n \in 0..1,
           Len(log'[c]) = Len(log[c]) + n,
           job'[c].turns = job[c].turns + 1, job'[c].acts = job[c].acts,
           n + Owed(job'[c].pc) <= Owed(job[c].pc) + 2
    PROVE  Budget(c)'
<1>2. n + Owed(job'[c].pc) <= Owed(job[c].pc) + 2 * 1
  BY OwedTypes
<1>3. PICK to : to = job'[c].pc
  OBVIOUS
<1> QED BY <1>2, <1>3, BudgetMoves

LEMMA GotoCounters ==
    ASSUME TypeOK, NEW c \in Calls, NEW pc, Goto(c, pc)
    PROVE  job'[c].pc = pc /\ job'[c].turns = job[c].turns /\ job'[c].acts = job[c].acts
BY DEF TypeOK, Goto, Job

\* append_event from pc to next, or to the handler of its exception.
LEMMA BudgetEmit ==
    ASSUME TypeOK, NEW c \in Calls, job[c].run = c, Budget(c),
           NEW stage, NEW next, NEW handler, Emit(c, stage, next, handler),
           1 + Owed(next) <= Owed(job[c].pc),
           next \in {"emit_action", "execute"} => job[c].pc = "emit_action",
           handler \in {"fail_mark", "swallowed"}
    PROVE  Budget(c)'
<1>1. job'[c].turns = job[c].turns /\ job'[c].acts = job[c].acts
  BY GotoCounters DEF Emit
<1>2. CASE log'[c] = Append(log[c], stage) /\ job'[c].pc = next
  BY <1>1, <1>2, BudgetEvent
<1>3. CASE log'[c] = log[c] /\ job'[c].pc = handler
  <2>1. Owed(job'[c].pc) = 1 /\ handler \notin {"emit_action", "execute"}
    BY <1>3 DEF Owed
  <2>2. Owed(job'[c].pc) <= Owed(job[c].pc)
    BY <2>1, OwedTypes
  <2> QED BY <1>1, <1>3, <2>1, <2>2, BudgetQuiet
<1> QED BY <1>2, <1>3, EmitEffect

\* What each step of a job does to its counters.
LEMMA BudgetJobStep ==
    ASSUME IInv, NEW c \in Calls, Budget(c), JobStep(c)
    PROVE  Budget(c)'
<1>1. TypeOK /\ job[c].run = c /\ job \in [Calls -> Job] /\ log \in [Calls -> Seq(Stages)]
  BY WorksOnOwnRun DEF IInv, TypeOK
<1>6. ASSUME NEW pc, Goto(c, pc), log' = log, pc \notin {"emit_action", "execute"},
             Owed(pc) <= Owed(job[c].pc)
      PROVE  Budget(c)'
  BY <1>1, <1>6, GotoCounters, BudgetQuiet
<1>7. ASSUME NEW g, EndGraph(c, g), log' = log, job[c].pc \in {"decide", "execute"}
      PROVE  Budget(c)'
  <2>1. /\ job'[c].pc = "read_flag" /\ job'[c].turns = job[c].turns
        /\ job'[c].acts = job[c].acts
    BY <1>1, <1>7 DEF EndGraph, Job
  <2>2. Owed(job'[c].pc) <= Owed(job[c].pc)
    BY <1>7, <2>1 DEF Owed
  <2> QED BY <1>1, <1>7, <2>1, <2>2, BudgetQuiet
<1>8. CASE MarkRunning(c) \/ Setup(c)
  <2>1. PICK pc \in {"emit_started", "swallowed", "decide", "fail_mark"} :
          Goto(c, pc) /\ (pc = "emit_started" => job[c].pc = "mark_running")
    BY <1>8 DEF MarkRunning, Setup, At
  <2>2. log' = log /\ job[c].pc \in {"mark_running", "setup"}
    BY <1>8 DEF MarkRunning, Setup, At
  <2> QED BY <1>6, <2>1, <2>2 DEF Owed
<1>9. CASE EmitStarted(c) \/ EmitActionStarted(c) \/ EmitTerminal(c) \/ FailEmit(c)
  <2>1. CASE EmitStarted(c)
    <3>1. 1 + Owed("setup") <= Owed(job[c].pc)
      BY <2>1 DEF EmitStarted, At, Owed
    <3> QED BY <1>1, <2>1, <3>1, BudgetEmit DEF EmitStarted
  <2>2. CASE EmitActionStarted(c)
    <3>1. 1 + Owed("execute") <= Owed(job[c].pc) /\ job[c].pc = "emit_action"
      BY <2>2 DEF EmitActionStarted, At, Owed
    <3> QED BY <1>1, <2>2, <3>1, BudgetEmit DEF EmitActionStarted
  <2>3. CASE EmitTerminal(c)
    <3>1. 1 + Owed("finished") <= Owed(job[c].pc) /\ job[c].pc = "emit_terminal"
      BY <2>3 DEF EmitTerminal, At, Owed
    <3> QED BY <1>1, <2>3, <3>1, BudgetEmit DEF EmitTerminal
  <2>4. CASE FailEmit(c)
    <3>1. 1 + Owed("finished") <= Owed(job[c].pc) /\ job[c].pc = "fail_emit"
      BY <2>4 DEF FailEmit, At, Owed
    <3> QED BY <1>1, <2>4, <3>1, BudgetEmit DEF FailEmit
  <2> QED BY <1>9, <2>1, <2>2, <2>3, <2>4
<1>10. CASE GraphDecide(c)
  <2>1. log' = log /\ job[c].pc = "decide"
    BY <1>10 DEF GraphDecide, At
  <2>2. ASSUME NEW next \in {"emit_action", "decide"},
               job' = [job EXCEPT ![c].pc = next, ![c].turns = @ + 1]
        PROVE  Budget(c)'
    <3>1. job'[c].pc = next /\ job'[c].turns = job[c].turns + 1 /\ job'[c].acts = job[c].acts
      BY <1>1, <2>2 DEF Job
    <3>2. Len(log'[c]) = Len(log[c]) + 0
      BY <1>1, <2>1, BudgetTypes
    <3>3. 0 + Owed(job'[c].pc) <= Owed(job[c].pc) + 2
      BY <2>1, <3>1 DEF Owed
    <3> QED BY <1>1, <3>1, <3>2, <3>3, BudgetPaid
  <2>3. CASE Goto(c, "fail_mark")
    BY <1>6, <2>1, <2>3 DEF Owed
  <2> QED BY <1>7, <1>10, <2>1, <2>2, <2>3 DEF GraphDecide
<1>12. CASE GraphExecute(c)
  <2>1. log' = log /\ job[c].pc = "execute"
    BY <1>12 DEF GraphExecute, At
  <2>2. CASE job' = [job EXCEPT ![c].pc = "executing", ![c].acts = @ + 1]
    <3>1. job'[c].pc = "executing" /\ job'[c].turns = job[c].turns /\ job'[c].acts = job[c].acts + 1
      BY <1>1, <2>2 DEF Job
    <3> QED BY <1>1, <2>1, <3>1, BudgetTypes DEF Budget, Owed
  <2> QED BY <1>7, <1>12, <2>1, <2>2 DEF GraphExecute
<1>13. CASE ToolReturns(c)
  <2>1. PICK pc \in {"observe", "fail_mark"} : Goto(c, pc)
    BY <1>13 DEF ToolReturns
  <2> QED BY <1>6, <1>13, <2>1 DEF ToolReturns, At, Owed
<1>14. CASE SpecialistEvent(c)
  <2>1. job[c].pc = "executing"
    BY <1>14 DEF SpecialistEvent, At
  <2>2. ASSUME NEW stage, log' = [log EXCEPT ![c] = Append(@, stage)],
               job' = [job EXCEPT ![c].turns = @ + 1]
        PROVE  Budget(c)'
    <3>1. job'[c].pc = "executing" /\ job'[c].turns = job[c].turns + 1 /\ job'[c].acts = job[c].acts
      BY <1>1, <2>1, <2>2 DEF Job
    <3>2. Len(log'[c]) = Len(log[c]) + 1
      BY <1>1, <2>2, BudgetTypes
    <3>3. 1 + Owed(job'[c].pc) <= Owed(job[c].pc) + 2
      BY <2>1, <3>1 DEF Owed
    <3> QED BY <1>1, <3>1, <3>2, <3>3, BudgetPaid
  <2>3. CASE Goto(c, "fail_mark") /\ UNCHANGED log
    BY <1>6, <2>1, <2>3 DEF Owed
  <2> QED BY <1>1, <1>14, <2>2, <2>3 DEF SpecialistEvent
<1>15. CASE EmitObservation(c)
  <2>1. job[c].pc = "observe"
    BY <1>15 DEF EmitObservation, At
  <2>2. CASE Goto(c, "decide") /\ log' = log
    BY <1>6, <2>1, <2>2 DEF Owed
  <2>3. ASSUME NEW stage, Emit(c, stage, "decide", "fail_mark") PROVE Budget(c)'
    <3>1. 1 + Owed("decide") <= Owed(job[c].pc)
      BY <2>1 DEF Owed
    <3> QED BY <1>1, <2>3, <3>1, BudgetEmit
  <2> QED BY <1>15, <2>2, <2>3 DEF EmitObservation
<1>16. CASE ReadFlagAndMap(c)
  <2>1. job[c].pc = "read_flag" /\ log' = log
    BY <1>16 DEF ReadFlagAndMap, At
  <2>2. ASSUME NEW s, job' = [job EXCEPT ![c].pc = "mark_terminal", ![c].status = s]
        PROVE  Budget(c)'
    <3>1. /\ job'[c].pc = "mark_terminal" /\ job'[c].turns = job[c].turns
          /\ job'[c].acts = job[c].acts
      BY <1>1, <2>2 DEF Job
    <3>2. Owed(job'[c].pc) <= Owed(job[c].pc)
      BY <2>1, <3>1 DEF Owed
    <3> QED BY <1>1, <2>1, <3>1, <3>2, BudgetQuiet
  <2>3. CASE Goto(c, "fail_mark")
    BY <1>6, <2>1, <2>3 DEF Owed
  <2> QED BY <1>16, <2>2, <2>3 DEF ReadFlagAndMap
<1>17. CASE MarkTerminal(c) \/ FailMark(c)
  <2>1. log' = log /\ job[c].pc \in {"mark_terminal", "fail_mark"}
    BY <1>17 DEF MarkTerminal, FailMark, SetTerminal, At
  <2>2. PICK pc \in {"emit_terminal", "fail_mark", "fail_emit", "swallowed"} : Goto(c, pc)
    BY <1>17 DEF MarkTerminal, FailMark, SetTerminal
  <2> QED BY <1>6, <2>1, <2>2 DEF Owed
<1> QED BY <1>8, <1>9, <1>10, <1>12, <1>13, <1>14, <1>15, <1>16, <1>17 DEF JobStep

\* Nothing but its own job writes a run's log, and nothing else moves its job back.
LEMMA OthersLeaveLog ==
    ASSUME IInv, [Next]_vars, NEW r \in Calls, ~JobStep(r)
    PROVE  /\ log'[r] = log[r]
           /\ \/ job'[r] = job[r]
              \/ job'[r].pc = "queued" /\ job'[r].acts = 0
              \/ /\ job'[r].pc \in {"mark_running", "dead"} /\ Owed(job'[r].pc) <= Owed(job[r].pc)
                 /\ job'[r].turns = job[r].turns /\ job'[r].acts = job[r].acts
<1>1. TypeOK /\ job \in [Calls -> Job]
  BY DEF IInv, TypeOK
<1>2. ASSUME NEW c \in Calls, JobStep(c) PROVE log'[r] = log[r] /\ job'[r] = job[r]
  BY <1>2, JobStepSafe DEF IInv, JobFrame
<1>3. ASSUME NEW c \in Calls, SubmitRun(c)
      PROVE  log'[r] = log[r] /\ (job'[r] = job[r] \/ (job'[r].pc = "queued" /\ job'[r].acts = 0))
  BY <1>1, <1>3 DEF SubmitRun, NoJob
<1>4. CASE PickUp
  <2>1. PICK c \in Calls : c = Head(queue)
    BY <1>1, <1>4 DEF PickUp, TypeOK
  <2>2. job[c].pc = "queued"
    BY <1>1, <1>4, <2>1 DEF PickUp, IInv, TypeOK, QueueInv
  <2>3. job' = [job EXCEPT ![c].pc = "mark_running"] /\ log' = log
    BY <1>4, <2>1 DEF PickUp
  <2> QED BY <1>1, <2>2, <2>3 DEF Job, Owed
<1>5. CASE Crash
  BY <1>1, <1>5 DEF Crash, Job, Owed, RunningPcs
<1>6. CASE \/ \E c \in Calls : RefuseRun(c) \/ RequestCancellation(c)
           \/ \E c \in Calls, k \in Keys \cup {NoKey} : InsertRun(c, k) \/ ReuseRun(c, k)
           \/ Boot \/ Reconcile \/ Shutdown \/ Drained \/ UNCHANGED vars
  BY <1>6 DEF RefuseRun, RequestCancellation, InsertRun, ReuseRun, Boot, Reconcile, Shutdown,
     Drained, vars
<1> QED BY <1>2, <1>3, <1>4, <1>5, <1>6 DEF Next

LEMMA BudgetNext == IInv /\ IInv' /\ [Next]_vars /\ WithinBudget => WithinBudget'
<1> SUFFICES ASSUME IInv, IInv', [Next]_vars, WithinBudget, NEW r \in Calls
             PROVE  Budget(r)'
  BY DEF WithinBudget
<1>1. TypeOK /\ TypeOK' /\ RunInv(r)' /\ Budget(r)
  BY DEF IInv, WithinBudget
<1>2. CASE JobStep(r)
  BY <1>1, <1>2, BudgetJobStep
<1>3. CASE ~JobStep(r)
  <2>1. log'[r] = log[r]
    BY <1>3, OthersLeaveLog
  <2>2. CASE job'[r] = job[r]
    BY <1>1, <2>1, <2>2 DEF Budget
  <2>3. CASE job'[r].pc = "queued" /\ job'[r].acts = 0
    <3>1. Len(log'[r]) = 0
      BY <1>1, <2>3 DEF RunInv, StepInv
    <3>2. job'[r].turns \in Nat
      BY <1>1, ConstantsOK DEF TypeOK, Job
    <3> QED BY <2>3, <3>1, <3>2 DEF Budget, Owed
  <2>4. CASE /\ job'[r].pc \in {"mark_running", "dead"} /\ Owed(job'[r].pc) <= Owed(job[r].pc)
             /\ job'[r].turns = job[r].turns /\ job'[r].acts = job[r].acts
    BY <1>1, <2>1, <2>4, BudgetQuiet
  <2> QED BY <1>3, <2>2, <2>3, <2>4, OthersLeaveLog
<1> QED BY <1>2, <1>3

LEMMA BudgetKept == Spec => []WithinBudget
<1>1. Init => WithinBudget
  BY DEF Init, WithinBudget, Budget, NoJob, Owed
<1> QED BY <1>1, BudgetNext, Invariance, PTL DEF Spec

\* A run calls at most MaxTurns tools and writes at most 2 * MaxTurns + 2 events, the
\* bounds recursion_limit gives it, also over failed writes and whatever the graph
\* and its specialists report.
RunsAreBounded ==
    \A r \in Calls : Len(log[r]) <= 2 * MaxTurns + 2 /\ job[r].acts <= MaxTurns

LEMMA BudgetBounds == TypeOK /\ WithinBudget => RunsAreBounded
<1> SUFFICES ASSUME TypeOK, WithinBudget, NEW r \in Calls
             PROVE  Len(log[r]) <= 2 * MaxTurns + 2 /\ job[r].acts <= MaxTurns
  BY DEF RunsAreBounded
<1>1. /\ Len(log[r]) \in Nat /\ job[r].turns \in 0..MaxTurns /\ job[r].acts \in Nat
      /\ MaxTurns \in Nat /\ Owed(job[r].pc) \in 0..3
  BY BudgetTypes, OwedTypes, ConstantsOK DEF TypeOK, Job
<1>2. Len(log[r]) + Owed(job[r].pc) <= 2 + 2 * job[r].turns /\ job[r].acts <= job[r].turns
  BY DEF WithinBudget, Budget
<1> QED BY <1>1, <1>2

\* RunsAreBounded holds of every behaviour of the service.
THEOREM BoundedRuns == Spec => []RunsAreBounded
<1>1. IInv => TypeOK
  BY DEF IInv
<1> QED BY <1>1, BudgetKept, BudgetBounds, Invariance, PTL
=============================================================================
