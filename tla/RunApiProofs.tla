---------------------------- MODULE RunApiProofs ----------------------------
(***************************************************************************)
(* RunLifecycle implements the contract RunApi, and a published run never  *)
(* changes: both follow, step by step, from the inductive invariant.  What *)
(* the clients of StreamedRuns receive follows from it and from the stream *)
(* invariant, whose proofs (EventStreamProofs) are instantiated with the   *)
(* log the service writes.                                                 *)
(***************************************************************************)
EXTENDS RunLifecycleProofs, StreamedRuns

-----------------------------------------------------------------------------
\* Published runs

\* A job that can still take a step has not published anything.
LEMMA WorkingUnpublished ==
    ASSUME NEW c \in Calls, RunInv(c), job[c].pc \in RunningPcs
    PROVE  ~HasTerminalEvent(c)
<1>1. CASE job[c].pc \in {"mark_running", "emit_started"}
  BY <1>1 DEF RunInv, StepInv, HasTerminalEvent
<1>2. CASE job[c].pc \in BodyPcs \cup {"emit_terminal", "fail_mark", "fail_emit"}
  BY <1>2 DEF RunInv, StepInv
<1> QED BY <1>1, <1>2 DEF RunningPcs, BodyPcs

LEMMA JobStepRunning ==
    ASSUME NEW c \in Calls, JobStep(c)
    PROVE  job[c].pc \in RunningPcs
BY DEF JobStep, At, RunningPcs, MarkRunning, EmitStarted, Setup, GraphDecide,
       EmitActionStarted, GraphExecute, ToolReturns, SpecialistEvent, EmitObservation,
       ReadFlagAndMap, MarkTerminal, EmitTerminal, FailMark, FailEmit

LEMMA PublishedStep == IInv /\ [Next]_vars => [KeepsPublished]_vars
<1> SUFFICES ASSUME IInv, Next, NEW r \in Calls, HasTerminalEvent(r)
             PROVE  /\ log'[r] = log[r]
                    /\ row'[r].status = row[r].status
                    /\ row'[r].result = row[r].result
                    /\ row'[r].error = row[r].error
  BY DEF KeepsPublished
<1>0. /\ row \in [Calls -> Row] /\ RunInv(r) /\ Settled(r) /\ Exists(r) /\ log[r] # <<>>
  BY DEF IInv, TypeOK, RunInv, EventReflected, HasTerminalEvent, Settled, Exists,
         TerminalStatuses
<1>1. ASSUME NEW c \in Calls, JobStep(c) PROVE row'[r] = row[r] /\ log'[r] = log[r]
  <2>1. r # c
    BY <1>1, JobStepRunning, WorkingUnpublished DEF IInv
  <2> QED BY <1>1, <2>1, JobStepSafe DEF IInv, JobFrame
<1>2. ASSUME NEW c \in Calls, RefuseRun(c) \/ SubmitRun(c) PROVE row' = row /\ log' = log
  BY <1>2 DEF RefuseRun, SubmitRun
<1>3. ASSUME NEW c \in Calls, NEW k \in Keys \cup {NoKey}, InsertRun(c, k)
      PROVE  row'[r] = row[r] /\ log'[r] = log[r]
  <2>1. c # r
    BY <1>0, <1>3 DEF InsertRun, RunInv, StepInv, AbsentRow, Exists
  <2> QED BY <1>0, <1>3, <2>1 DEF InsertRun
<1>4. ASSUME NEW c \in Calls, NEW k \in Keys \cup {NoKey}, ReuseRun(c, k)
      PROVE  row' = row /\ log' = log
  BY <1>4 DEF ReuseRun
<1>5. ASSUME NEW s \in Calls, RequestCancellation(s)
      PROVE  /\ log' = log /\ row'[r].status = row[r].status
             /\ row'[r].result = row[r].result /\ row'[r].error = row[r].error
  BY <1>0, <1>5 DEF RequestCancellation, Row
<1>6. CASE PickUp \/ Crash \/ Boot \/ Shutdown \/ Drained
  BY <1>6 DEF PickUp, Crash, Boot, Shutdown, Drained
<1>7. CASE Reconcile
  <2>1. row[r].status \notin {"pending", "running"}
    BY <1>0 DEF Settled, TerminalStatuses
  <2> QED BY <1>7, <2>1 DEF Reconcile
<1> QED BY <1>1, <1>2, <1>3, <1>4, <1>5, <1>6, <1>7 DEF Next

\* Once its terminal event is out, nothing changes what a run reports.
THEOREM PublishedIsFinal == Spec => PublishedRunIsFinal
BY Invariance, PublishedStep, PTL DEF Spec, PublishedRunIsFinal

-----------------------------------------------------------------------------
\* The contract

\* The terminal event a client of run r can read.
Published(r) == IF HasTerminalEvent(r) THEN log[r][Len(log[r])] ELSE "none"

\* How a step of job c shows in the contract's view of run c.
PublicEffect(c) ==
    /\ row'[c].cancel = row[c].cancel
    /\ \/ row'[c].status = row[c].status /\ Published(c)' = Published(c)
       \/ /\ row[c].status = "pending" /\ row'[c].status = "running"
          /\ Published(c)' = Published(c)
       \/ /\ row[c].status = "running" /\ row'[c].status \in TerminalStatuses
          /\ row'[c].status = "cancelled" => row[c].cancel
          /\ Published(c)' = Published(c)
       \/ /\ row[c].status \in TerminalStatuses /\ row'[c].status = "failed"
          /\ Published(c) = "none" /\ Published(c)' = "none"
       \/ /\ row[c].status \in TerminalStatuses /\ row'[c].status = row[c].status
          /\ Published(c) = "none" /\ Published(c)' = TerminalStageFor(row[c].status)

\* Steps that write no row and append at most an intermediate event show nothing.
LEMMA HiddenEffect ==
    ASSUME IInv, NEW c \in Calls, job[c].pc \in RunningPcs, row'[c] = row[c],
           \/ log'[c] = log[c]
           \/ \E stage \in Stages \ TerminalStages :
                (stage = "run_started" <=> log[c] = <<>>) /\ log'[c] = Append(log[c], stage)
    PROVE  PublicEffect(c)
<1>1. RunInv(c) /\ log[c] \in Seq(Stages)
  BY DEF IInv, TypeOK
<1>2. ~HasTerminalEvent(c)
  BY <1>1, WorkingUnpublished
<1>3. ~HasTerminalEvent(c)'
  <2>1. CASE log'[c] = log[c]
    BY <2>1, <1>2 DEF HasTerminalEvent
  <2>2. CASE \E stage \in Stages \ TerminalStages :
               (stage = "run_started" <=> log[c] = <<>>) /\ log'[c] = Append(log[c], stage)
    BY <2>2, <1>1, <1>2, AppendEvent DEF RunInv
  <2> QED BY <2>1, <2>2
<1> QED BY <1>2, <1>3 DEF PublicEffect, Published

LEMMA EmitStepsEffect ==
    ASSUME IInv, NEW c \in Calls,
           EmitStarted(c) \/ EmitActionStarted(c) \/ SpecialistEvent(c) \/ EmitObservation(c)
    PROVE  PublicEffect(c)
<1>1. TypeOK /\ RunInv(c) /\ StepInv(c)
  BY DEF IInv, RunInv
<1>2. job[c].pc \in RunningPcs
  BY DEF EmitStarted, EmitActionStarted, SpecialistEvent, EmitObservation, At, RunningPcs
<1>3. job[c].run = c
  BY <1>1, <1>2 DEF StepInv, Submitted, RunningPcs
<1>4. CASE EmitStarted(c)
  <2>1. log[c] = <<>> /\ "run_started" \in Stages \ TerminalStages
    BY <1>1, <1>4 DEF EmitStarted, At, StepInv, Stages, TerminalStages
  <2>2. row' = row /\ (log'[c] = log[c] \/ log'[c] = Append(log[c], "run_started"))
    BY <1>1, <1>3, <1>4, EmitEffect DEF EmitStarted
  <2> QED BY <1>2, <2>1, <2>2, HiddenEffect
<1>5. CASE EmitActionStarted(c)
  <2>1. log[c] # <<>> /\ "action_started" \in Stages \ TerminalStages
    BY <1>1, <1>5 DEF EmitActionStarted, At, StepInv, BodyPcs, Stages, TerminalStages
  <2>2. row' = row /\ (log'[c] = log[c] \/ log'[c] = Append(log[c], "action_started"))
    BY <1>1, <1>3, <1>5, EmitEffect DEF EmitActionStarted
  <2> QED BY <1>2, <2>1, <2>2, HiddenEffect
<1>6. CASE SpecialistEvent(c)
  <2>1. log[c] # <<>> /\ DOMAIN log = Calls
    BY <1>1, <1>6 DEF SpecialistEvent, At, StepInv, BodyPcs, TypeOK
  <2>2. \A stage \in {"action_started", "action_completed", "action_failed"} :
           stage \in Stages \ TerminalStages /\ stage # "run_started"
    BY DEF Stages, TerminalStages
  <2>3. row' = row
    BY <1>6 DEF SpecialistEvent
  <2>4. PICK stage \in {"action_started", "action_completed", "action_failed"} :
           log' = log \/ log' = [log EXCEPT ![c] = Append(@, stage)]
    BY <1>3, <1>6 DEF SpecialistEvent
  <2>5. log'[c] = log[c] \/ log'[c] = Append(log[c], stage)
    BY <2>1, <2>4
  <2> QED BY <1>2, <2>1, <2>2, <2>3, <2>5, HiddenEffect
<1>7. CASE EmitObservation(c)
  <2>1. log[c] # <<>>
    BY <1>1, <1>7 DEF EmitObservation, At, StepInv, BodyPcs
  <2>2. ASSUME NEW stage \in {"action_completed", "action_failed"},
               Emit(c, stage, "decide", "fail_mark")
        PROVE  PublicEffect(c)
    <3>1. row' = row /\ (log'[c] = log[c] \/ log'[c] = Append(log[c], stage))
      BY <1>1, <1>3, <2>2, EmitEffect
    <3>2. stage \in Stages \ TerminalStages /\ stage # "run_started"
      BY DEF Stages, TerminalStages
    <3> QED BY <1>2, <2>1, <3>1, <3>2, HiddenEffect
  <2>3. CASE UNCHANGED <<row, log>>
    BY <1>2, <2>3, HiddenEffect
  <2> QED BY <1>7, <2>2, <2>3 DEF EmitObservation
<1> QED BY <1>4, <1>5, <1>6, <1>7

LEMMA RowStepsEffect ==
    ASSUME IInv, NEW c \in Calls, MarkRunning(c) \/ MarkTerminal(c) \/ FailMark(c)
    PROVE  PublicEffect(c)
<1>1. TypeOK /\ RunInv(c) /\ StepInv(c) /\ row \in [Calls -> Row]
  BY DEF IInv, RunInv, TypeOK
<1>2. job[c].pc \in RunningPcs /\ job[c].run = c /\ Exists(c)
  BY <1>1 DEF MarkRunning, MarkTerminal, FailMark, At, RunningPcs, StepInv, Submitted
<1>3. ~HasTerminalEvent(c) /\ log' = log
  BY <1>1, <1>2, WorkingUnpublished DEF MarkRunning, MarkTerminal, FailMark, SetTerminal
<1>4. Published(c) = "none" /\ Published(c)' = "none"
  BY <1>3 DEF Published, HasTerminalEvent
<1>5. CASE MarkRunning(c)
  <2>1. row[c].status = "pending"
    BY <1>1, <1>5 DEF MarkRunning, At, StepInv
  <2>2. \/ row'[c] = row[c]
        \/ row'[c] = [row[c] EXCEPT !.status = "running"]
    BY <1>1, <1>2, <1>5, <2>1 DEF MarkRunning
  <2>3. /\ row'[c].cancel = row[c].cancel
        /\ row'[c].status = row[c].status \/ row'[c].status = "running"
    BY <1>1, <2>2 DEF Row
  <2> QED BY <1>4, <2>1, <2>3 DEF PublicEffect
<1>6. CASE MarkTerminal(c)
  <2>1. row[c].status = "running" /\ job[c].result \in GraphStatuses
    BY <1>1, <1>6 DEF MarkTerminal, At, StepInv, BodyPcs
  <2>2. PICK seen \in BOOLEAN :
           (seen => row[c].cancel) /\ job[c].status = MapFinalResult(job[c].result, seen)
    BY <1>1, <1>6 DEF MarkTerminal, At, StepInv
  <2>3. job[c].status \in TerminalStatuses /\ (job[c].status = "cancelled" => row[c].cancel)
    BY <2>1, <2>2, MapOutcome DEF TerminalStatuses
  <2>4. /\ row'[c].cancel = row[c].cancel
        /\ row'[c] = row[c] \/ row'[c].status = job[c].status
    BY <1>1, <1>2, <1>6, SetTerminalEffect DEF MarkTerminal
  <2> QED BY <1>4, <2>1, <2>3, <2>4 DEF PublicEffect
<1>7. CASE FailMark(c)
  <2>1. row[c].status \in {"running"} \cup TerminalStatuses
    BY <1>1, <1>2, <1>7 DEF FailMark, At, StepInv, Row, Statuses, Exists
  <2>2. /\ row'[c].cancel = row[c].cancel
        /\ row'[c] = row[c] \/ row'[c].status = "failed"
    BY <1>1, <1>2, <1>7, SetTerminalEffect DEF FailMark
  <2> QED BY <1>4, <2>1, <2>2 DEF PublicEffect, TerminalStatuses
<1> QED BY <1>5, <1>6, <1>7

LEMMA FinalStepsEffect ==
    ASSUME IInv, NEW c \in Calls, EmitTerminal(c) \/ FailEmit(c)
    PROVE  PublicEffect(c)
<1>1. TypeOK /\ RunInv(c) /\ StepInv(c) /\ log[c] \in Seq(Stages)
  BY DEF IInv, RunInv, TypeOK
<1>2. job[c].pc \in RunningPcs /\ job[c].run = c
  BY <1>1 DEF EmitTerminal, FailEmit, At, RunningPcs, StepInv, Submitted
<1>3. ~HasTerminalEvent(c) /\ Settled(c) /\ log[c] # <<>>
  BY <1>1 DEF EmitTerminal, FailEmit, At, StepInv, Settled, TerminalStatuses
<1> DEFINE stage == TerminalStageFor(row[c].status)
<1>4. \E handler : Emit(c, stage, "finished", handler)
  BY <1>1 DEF EmitTerminal, FailEmit, At, StepInv, TerminalStageFor, TerminalStatuses
<1>5. stage \in TerminalStages /\ stage \in Stages /\ stage # "run_started"
  BY <1>3, TerminalStageForType DEF Settled, Stages, TerminalStages
<1>6. row' = row /\ (log'[c] = log[c] \/ log'[c] = Append(log[c], stage))
  BY <1>1, <1>2, <1>4, EmitEffect
<1>7. CASE log'[c] = log[c]
  BY <1>2, <1>6, <1>7, HiddenEffect
<1>8. CASE log'[c] = Append(log[c], stage)
  <2>1. HasTerminalEvent(c)'
    BY <1>1, <1>3, <1>5, <1>8, AppendEvent DEF RunInv
  <2>2. log'[c][Len(log'[c])] = stage
    BY <1>1, <1>5, <1>8
  <2>3. Published(c) = "none" /\ Published(c)' = stage
    BY <1>3, <2>1, <2>2 DEF Published
  <2> QED BY <1>3, <1>6, <2>3 DEF PublicEffect, Settled
<1> QED BY <1>6, <1>7, <1>8

LEMMA JobStepEffect ==
    ASSUME IInv, NEW c \in Calls, JobStep(c)
    PROVE  PublicEffect(c)
<1>1. CASE Setup(c) \/ GraphDecide(c) \/ GraphExecute(c) \/ ToolReturns(c) \/ ReadFlagAndMap(c)
  <2>1. row' = row /\ log' = log
    BY <1>1 DEF Setup, GraphDecide, GraphExecute, ToolReturns, ReadFlagAndMap
  <2> QED BY <2>1, JobStepRunning, HiddenEffect
<1> QED BY <1>1, EmitStepsEffect, RowStepsEffect, FinalStepsEffect DEF JobStep

\* The contract's three variables under the refinement mapping of Api.
StatusView == [r \in Calls |-> row[r].status]
CancelView == [r \in Calls |-> row[r].cancel]
PublishedView ==
    [r \in Calls |-> IF HasTerminalEvent(r) THEN log[r][Len(log[r])] ELSE "none"]

LEMMA ApiInit == Init => Api!Init
<1> SUFFICES ASSUME Init PROVE Api!Init
  OBVIOUS
<1>1. ASSUME NEW r \in Calls
      PROVE  row[r].status = "absent" /\ row[r].cancel = FALSE /\ ~HasTerminalEvent(r)
  BY DEF Init, AbsentRow, HasTerminalEvent
<1> QED BY <1>1 DEF Api!Init

\* A step of job c is a step of the contract for run c, or shows nothing.
LEMMA ApiJobStep ==
    ASSUME IInv, NEW c \in Calls, JobStep(c)
    PROVE  Api!Next \/ UNCHANGED Api!apiVars
<1>1. ASSUME NEW d \in Calls \ {c}
      PROVE  /\ row'[d] = row[d]
             /\ Published(d)' = Published(d)
  <2>1. row'[d] = row[d] /\ log'[d] = log[d]
    BY JobStepSafe DEF IInv, JobFrame
  <2> QED BY <2>1 DEF Published, HasTerminalEvent
<1>2. PublicEffect(c)
  BY JobStepEffect
<1>3. CancelView' = CancelView
  BY <1>1, <1>2 DEF CancelView, PublicEffect
<1>4. /\ PublishedView = [r \in Calls |-> Published(r)]
      /\ PublishedView' = [r \in Calls |-> Published(r)']
  BY DEF PublishedView, Published
<1>5. CASE row'[c].status = row[c].status /\ Published(c)' = Published(c)
  <2>1. StatusView' = StatusView /\ PublishedView' = PublishedView
    BY <1>1, <1>4, <1>5 DEF StatusView
  <2> QED BY <1>3, <2>1 DEF Api!apiVars, StatusView, CancelView, PublishedView
<1>6. CASE /\ row[c].status = "pending" /\ row'[c].status = "running"
           /\ Published(c)' = Published(c)
  <2>1. PublishedView' = PublishedView
    BY <1>1, <1>4, <1>6
  <2>2. StatusView[c] = "pending" /\ StatusView' = [StatusView EXCEPT ![c] = "running"]
    BY <1>1, <1>6 DEF StatusView
  <2>3. Api!Start(c)
    BY <1>3, <2>1, <2>2 DEF Api!Start, StatusView, CancelView, PublishedView
  <2> QED BY <2>3 DEF Api!Next
<1>7. CASE /\ row[c].status = "running" /\ row'[c].status \in TerminalStatuses
           /\ row'[c].status = "cancelled" => row[c].cancel
           /\ Published(c)' = Published(c)
  <2>1. PublishedView' = PublishedView
    BY <1>1, <1>4, <1>7
  <2>2. /\ StatusView[c] = "running"
        /\ StatusView' = [StatusView EXCEPT ![c] = row'[c].status]
        /\ CancelView[c] = row[c].cancel
    BY <1>1, <1>7 DEF StatusView, CancelView
  <2>3. PICK s \in TerminalStatuses : s = row'[c].status
    BY <1>7
  <2>4. Api!Finish(c, s) /\ s \in Api!Final
    BY <1>3, <1>7, <2>1, <2>2, <2>3
       DEF Api!Finish, Api!Final, StatusView, CancelView, PublishedView, TerminalStatuses
  <2> QED BY <2>4 DEF Api!Next
<1>8. CASE /\ row[c].status \in TerminalStatuses /\ row'[c].status = "failed"
           /\ Published(c) = "none" /\ Published(c)' = "none"
  <2>1. PublishedView' = PublishedView /\ PublishedView[c] = "none"
    BY <1>1, <1>4, <1>8
  <2>2. /\ StatusView[c] \in TerminalStatuses
        /\ StatusView' = [StatusView EXCEPT ![c] = "failed"]
    BY <1>1, <1>8 DEF StatusView
  <2>3. Api!Retract(c)
    BY <1>3, <2>1, <2>2
       DEF Api!Retract, Api!Final, StatusView, CancelView, PublishedView, TerminalStatuses
  <2> QED BY <2>3 DEF Api!Next
<1>9. CASE /\ row[c].status \in TerminalStatuses /\ row'[c].status = row[c].status
           /\ Published(c) = "none" /\ Published(c)' = TerminalStageFor(row[c].status)
  <2>1. /\ PublishedView[c] = "none"
        /\ PublishedView' = [PublishedView EXCEPT ![c] = TerminalStageFor(StatusView[c])]
    BY <1>1, <1>4, <1>9 DEF StatusView
  <2>2. StatusView' = StatusView /\ StatusView[c] \in TerminalStatuses
    BY <1>1, <1>9 DEF StatusView
  <2>3. TerminalStageFor(StatusView[c]) = Api!EventFor[StatusView[c]]
    BY DEF TerminalStageFor, Api!EventFor
  <2>4. Api!Publish(c)
    BY <1>3, <2>1, <2>2, <2>3
       DEF Api!Publish, Api!Final, StatusView, CancelView, PublishedView, TerminalStatuses
  <2> QED BY <2>4 DEF Api!Next
<1> QED BY <1>2, <1>5, <1>6, <1>7, <1>8, <1>9 DEF PublicEffect

LEMMA ApiNext == IInv /\ [Next]_vars => [Api!Next]_(Api!apiVars)
<1> SUFFICES ASSUME IInv, [Next]_vars PROVE Api!Next \/ UNCHANGED Api!apiVars
  OBVIOUS
<1>0. row \in [Calls -> Row] /\ \A r \in Calls : RunInv(r)
  BY DEF IInv, TypeOK
<1>1. ASSUME row' = row, log' = log PROVE UNCHANGED Api!apiVars
  <2>1. StatusView' = StatusView /\ CancelView' = CancelView /\ PublishedView' = PublishedView
    BY <1>1 DEF StatusView, CancelView, PublishedView, HasTerminalEvent
  <2> QED BY <2>1 DEF Api!apiVars, StatusView, CancelView, PublishedView
<1>2. ASSUME log' = log PROVE PublishedView' = PublishedView
  BY <1>2 DEF PublishedView, HasTerminalEvent
<1>3. ASSUME NEW c \in Calls, JobStep(c) PROVE Api!Next \/ UNCHANGED Api!apiVars
  BY <1>3, ApiJobStep
<1>4. ASSUME NEW c \in Calls, NEW k \in Keys \cup {NoKey}, InsertRun(c, k) PROVE Api!Next
  <2>1. row[c].status = "absent" /\ row[c].cancel \in BOOLEAN
    BY <1>0, <1>4 DEF InsertRun, RunInv, StepInv, AbsentRow, Exists, Row
  <2>2. /\ log' = log
        /\ row' = [row EXCEPT ![c] = [AbsentRow EXCEPT !.status = "pending", !.key = k]]
    BY <1>4 DEF InsertRun
  <2>3. row[c].cancel = FALSE
    BY <1>0, <1>4 DEF InsertRun, RunInv, StepInv, AbsentRow
  <2>4. /\ StatusView[c] = "absent"
        /\ StatusView' = [StatusView EXCEPT ![c] = "pending"]
        /\ CancelView' = CancelView
    BY <1>0, <2>1, <2>2, <2>3 DEF StatusView, CancelView, AbsentRow
  <2>5. Api!Accept(c)
    BY <1>2, <2>2, <2>4 DEF Api!Accept, StatusView, CancelView, PublishedView
  <2> QED BY <2>5 DEF Api!Next
<1>5. ASSUME NEW r \in Calls, RequestCancellation(r) PROVE Api!Next
  <2>1. /\ log' = log /\ row' = [row EXCEPT ![r].cancel = TRUE] /\ row[r].status # "absent"
    BY <1>5 DEF RequestCancellation, Exists
  <2>2. /\ StatusView[r] # "absent" /\ StatusView' = StatusView
        /\ CancelView' = [CancelView EXCEPT ![r] = TRUE]
    BY <1>0, <2>1 DEF StatusView, CancelView, Row
  <2>3. Api!RequestCancel(r)
    BY <1>2, <2>1, <2>2 DEF Api!RequestCancel, StatusView, CancelView, PublishedView
  <2> QED BY <2>3 DEF Api!Next
<1>6. CASE Reconcile
  <2>1. CASE row' = row
    BY <1>1, <1>6, <2>1 DEF Reconcile
  <2>2. CASE row' = [r \in Calls |->
                       IF row[r].status \in {"pending", "running"}
                         THEN [row[r] EXCEPT !.status = "failed", !.error = "SERVICE_RESTARTED"]
                         ELSE row[r]]
    <3>1. /\ CancelView' = CancelView
          /\ StatusView' = [r \in Calls |-> IF StatusView[r] \in {"pending", "running"}
                                              THEN "failed" ELSE StatusView[r]]
      BY <1>0, <2>2 DEF StatusView, CancelView, Row
    <3>2. Api!Interrupt
      BY <1>2, <1>6, <3>1
         DEF Api!Interrupt, Api!Open, StatusView, CancelView, PublishedView, Reconcile
    <3> QED BY <3>2 DEF Api!Next
  <2> QED BY <1>6, <2>1, <2>2 DEF Reconcile
<1>7. ASSUME NEW c \in Calls, NEW k \in Keys \cup {NoKey},
             RefuseRun(c) \/ SubmitRun(c) \/ ReuseRun(c, k)
      PROVE  UNCHANGED Api!apiVars
  BY <1>1, <1>7 DEF RefuseRun, SubmitRun, ReuseRun
<1>8. CASE PickUp \/ Crash \/ Boot \/ Shutdown \/ Drained \/ UNCHANGED vars
  BY <1>1, <1>8 DEF PickUp, Crash, Boot, Shutdown, Drained, vars
<1> QED BY <1>3, <1>4, <1>5, <1>6, <1>7, <1>8 DEF Next

\* The service implements the contract of its API.
THEOREM Implementation == Spec => ImplementsApi
BY Invariance, ApiInit, ApiNext, PTL DEF Spec, ImplementsApi, Api!Spec

-----------------------------------------------------------------------------
\* Clients that follow a run

\* The proofs about one stream, read with the log the service writes.
SP == INSTANCE EventStreamProofs WITH log <- log[Watched]

LEMMA StreamAssumption == SP!StreamConstantsOK
BY StreamedOK DEF SP!StreamConstantsOK

\* Between two steps of the service a client's step is one of the stream's.
LEMMA ClientStep ==
    ASSUME SP!StreamInv, NEW i \in Clients, ServeStream(i) \/ Transport(i)
    PROVE  SP!StreamInv'
<1>1. SP!Serve(i) \/ SP!Resume(i) \/ SP!StartOver(i) \/ SP!Deliver(i) \/ SP!Close(i) \/ SP!Drop(i)
  BY DEF ServeStream, Transport, vars,
     Stream!Serve, Stream!Resume, Stream!StartOver, Stream!Deliver, Stream!Close, Stream!Drop,
     Stream!Resolve, Stream!Poll, Stream!Yield, Stream!Opened, Stream!LastId, Stream!UnknownId,
     Stream!Closed, Stream!TerminalStages,
     SP!Serve, SP!Resume, SP!StartOver, SP!Deliver, SP!Close, SP!Drop,
     SP!Resolve, SP!Poll, SP!Yield, SP!Opened, SP!LastId, SP!UnknownId, SP!Closed,
     SP!TerminalStages
<1>2. [SP!Next]_(SP!streamVars)
  BY <1>1 DEF SP!Next
<1> QED BY <1>2, StreamAssumption, SP!NextStream

\* The step of a job leaves the log alone or appends to it once, while the run is open.
LEMMA JobStepAppends ==
    ASSUME IInv, NEW c \in Calls, JobStep(c)
    PROVE  log'[c] = log[c] \/ \E stage \in Stages : log'[c] = Append(log[c], stage)
<1>1. TypeOK /\ job[c].run = c /\ DOMAIN log = Calls /\ RunInv(c)
  BY WorksOnOwnRun DEF IInv, TypeOK
<1>2. ASSUME NEW stage \in Stages, NEW next, NEW handler, Emit(c, stage, next, handler)
      PROVE  log'[c] = log[c] \/ \E s \in Stages : log'[c] = Append(log[c], s)
  BY <1>1, <1>2, EmitEffect
<1>3. {"run_started", "action_started", "action_completed", "action_failed", "run_failed"} \subseteq Stages
  BY DEF Stages, TerminalStages
<1>4. CASE EmitStarted(c) \/ EmitActionStarted(c) \/ FailEmit(c)
  BY <1>2, <1>3, <1>4 DEF EmitStarted, EmitActionStarted, FailEmit
<1>5. CASE EmitTerminal(c)
  <2>1. TerminalStageFor(job[c].status) \in Stages
    BY <1>1, <1>5, TerminalStageForType DEF EmitTerminal, At, RunInv, StepInv, Settled, Stages
  <2> QED BY <1>2, <1>5, <2>1 DEF EmitTerminal
<1>6. CASE SpecialistEvent(c)
  BY <1>1, <1>3, <1>6 DEF SpecialistEvent
<1>7. CASE EmitObservation(c)
  BY <1>2, <1>3, <1>7 DEF EmitObservation
<1>8. CASE UNCHANGED log
  BY <1>8
<1> QED BY <1>4, <1>5, <1>6, <1>7, <1>8
        DEF JobStep, Setup, GraphDecide, GraphExecute, ToolReturns, ReadFlagAndMap,
            MarkRunning, MarkTerminal, FailMark, SetTerminal

\* What a step of the service does to the log a stream reads.
LEMMA WatchedLog ==
    ASSUME IInv, IInv', RunsAreBounded', [Next]_vars, log'[Watched] # log[Watched]
    PROVE  /\ \E stage \in Stages : log'[Watched] = Append(log[Watched], stage)
           /\ ~HasTerminalEvent(Watched) /\ Len(log[Watched]) < MaxEvents
           /\ proc' # "down"
<1>1. Watched \in Calls /\ TypeOK /\ RunInv(Watched) /\ TypeOK'
  BY StreamedOK DEF IInv
<1>2. JobStep(Watched)
  BY <1>1, OthersLeaveLog
<1>3. ~HasTerminalEvent(Watched)
  BY <1>1, <1>2, JobStepRunning, WorkingUnpublished
<1>4. proc' = proc /\ proc # "down"
  BY <1>1, <1>2, JobStepRunning, JobStepSafe DEF JobFrame, IInv, ThreadInv, Alive
<1>5. PICK stage \in Stages : log'[Watched] = Append(log[Watched], stage)
  BY <1>1, <1>2, JobStepAppends
<1>6. Len(log'[Watched]) <= 2 * MaxTurns + 2
  BY <1>1 DEF RunsAreBounded
<1>7. Len(log'[Watched]) = Len(log[Watched]) + 1 /\ Len(log[Watched]) \in Nat
  BY <1>1, <1>5, BudgetTypes
<1> QED BY <1>3, <1>4, <1>5, <1>6, <1>7, StreamedOK, ConstantsOK

\* A step of the service is an append to the stream, or invisible to it, or takes
\* every connection down.
LEMMA ServiceStep ==
    ASSUME IInv, IInv', RunsAreBounded', SP!StreamInv, ProcessStep
    PROVE  SP!StreamInv'
<1>1. SP!TypeOK /\ got' = got /\ drops' = drops /\ [Next]_vars
  BY DEF SP!StreamInv, ProcessStep
<1>2. CASE log'[Watched] # log[Watched]
  <2>1. PICK stage \in Stages : log'[Watched] = Append(log[Watched], stage)
    BY <1>1, <1>2, WatchedLog
  <2>2. /\ ~HasTerminalEvent(Watched) /\ Len(log[Watched]) < MaxEvents /\ conn' = conn
    BY <1>1, <1>2, WatchedLog DEF ProcessStep
  <2>3. ~SP!Over
    <3>1. log[Watched] \in Seq(Stages)
      BY StreamedOK DEF IInv, TypeOK
    <3> QED BY <2>2, <3>1 DEF SP!Over, HasTerminalEvent, SP!TerminalStages, TerminalStages
  <2>4. stage \in SP!OpenStages \cup SP!TerminalStages
    BY DEF SP!OpenStages, SP!TerminalStages, Stages, TerminalStages
  <2>5. SP!AppendEvent(stage)
    BY <1>1, <2>1, <2>2, <2>3 DEF SP!AppendEvent
  <2>6. [SP!Next]_(SP!streamVars)
    BY <2>4, <2>5 DEF SP!Next
  <2> QED BY <2>6, StreamAssumption, SP!NextStream
<1>3. CASE log'[Watched] = log[Watched] /\ conn' = conn
  <2>1. [SP!Next]_(SP!streamVars)
    BY <1>1, <1>3 DEF SP!streamVars
  <2> QED BY <2>1, StreamAssumption, SP!NextStream
<1>4. CASE log'[Watched] = log[Watched] /\ conn' = [i \in Clients |-> SP!Closed]
  <2>1. SP!Closed \in SP!Conn
    BY StreamAssumption, SP!ClosedTyped
  <2>2. SP!TypeOK'
    BY <1>1, <1>4, <2>1 DEF SP!TypeOK
  <2>3. SP!LogInv' /\ SP!NoGapNoDuplicate'
    BY <1>1, <1>4 DEF SP!StreamInv, SP!LogInv, SP!NoGapNoDuplicate
  <2>4. ASSUME NEW i \in Clients PROVE SP!CursorInv(i)'
    BY <1>4 DEF SP!CursorInv, SP!Closed
  <2> QED BY <2>2, <2>3, <2>4 DEF SP!StreamInv
<1>5. conn' = conn \/ conn' = [i \in Clients |-> SP!Closed]
  BY DEF ProcessStep, Stream!Closed, SP!Closed
<1>6. log'[Watched] # log[Watched] => proc' # "down"
  BY <1>1, WatchedLog
<1> QED BY <1>2, <1>3, <1>4, <1>5

\* The service as the clients see it is still the service.
LEMMA StreamedService == StreamSpec => Spec
<1>1. StreamInit => Init
  BY DEF StreamInit
<1>2. [StreamNext]_allVars => [Next]_vars
  BY DEF StreamNext, ProcessStep, ServeStream, Transport, allVars
<1> QED BY <1>1, <1>2, PTL DEF StreamSpec, Spec

LEMMA StreamedInvariance == StreamSpec => []SP!StreamInv
<1>1. StreamInit => SP!StreamInv
  <2>1. StreamInit => SP!Init
    BY StreamedOK DEF StreamInit, Init, SP!Init, Stream!Closed, SP!Closed
  <2> QED BY <2>1, StreamAssumption, SP!InitStream
<1>2. /\ IInv /\ IInv' /\ RunsAreBounded' /\ SP!StreamInv /\ [StreamNext]_allVars
      => SP!StreamInv'
  <2> SUFFICES ASSUME IInv, IInv', RunsAreBounded', SP!StreamInv, [StreamNext]_allVars
               PROVE  SP!StreamInv'
    OBVIOUS
  <2>1. CASE ProcessStep
    BY <2>1, ServiceStep
  <2>2. ASSUME NEW i \in Clients, ServeStream(i) \/ Transport(i) PROVE SP!StreamInv'
    BY <2>2, ClientStep
  <2>3. CASE UNCHANGED allVars
    <3>1. [SP!Next]_(SP!streamVars)
      BY <2>3 DEF allVars, vars, SP!streamVars
    <3> QED BY <3>1, StreamAssumption, SP!NextStream
  <2> QED BY <2>1, <2>2, <2>3 DEF StreamNext
<1> QED BY <1>1, <1>2, StreamedService, Invariance, BoundedRuns, PTL DEF StreamSpec

\* A client that received the terminal event, over any number of connections, crashes
\* and restarts, holds the whole log, and GET reports the outcome it was told.
THEOREM ReceivedOutcomesHold == StreamSpec => []ReceivedOutcomeHolds
<1>1. IInv /\ SP!StreamInv => ReceivedOutcomeHolds
  <2> SUFFICES ASSUME IInv, SP!StreamInv, NEW i \in Clients, NEW k \in 1..MaxEvents,
                      k \in DOMAIN got[i], log[Watched][got[i][k]] \in TerminalStages
               PROVE  /\ log[Watched][got[i][k]] = TerminalStageFor(row[Watched].status)
                      /\ Len(got[i]) = Len(log[Watched])
    BY DEF ReceivedOutcomeHolds
  <2>1. got[i] \in Seq(1..MaxEvents) /\ log[Watched] \in Seq(Stages)
    BY StreamedOK DEF SP!StreamInv, SP!TypeOK, IInv, TypeOK
  <2>2. got[i][k] = k /\ Len(got[i]) <= Len(log[Watched])
    BY DEF SP!StreamInv, SP!NoGapNoDuplicate
  <2>3. k \in DOMAIN log[Watched] /\ k <= Len(got[i])
    BY <2>1, <2>2
  <2>4. RunInv(Watched)
    BY StreamedOK DEF IInv
  <2>5. k = Len(log[Watched])
    BY <2>2, <2>3, <2>4 DEF RunInv, LogShaped
  <2>6. log[Watched][k] = TerminalStageFor(row[Watched].status)
    BY <2>2, <2>3, <2>4 DEF RunInv, EventReflected
  <2> QED BY <2>1, <2>2, <2>3, <2>5, <2>6
<1> QED BY <1>1, StreamedService, Invariance, StreamedInvariance, PTL
=============================================================================
