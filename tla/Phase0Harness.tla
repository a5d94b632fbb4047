---------------------------- MODULE Phase0Harness ----------------------------
(***************************************************************************)
(* phase0/verify.py starts the expert's A2A server and the travel MCP      *)
(* server, waits until each answers a probe, runs the planner against them *)
(* and judges its report; whatever happens, it ends the children it knows. *)
(*                                                                         *)
(* A port it picked is free only when it looks: another process may take   *)
(* it before the child does.  The children are external.  A SIGTERM or a   *)
(* SIGKILL may come at any point, once.                                    *)
(***************************************************************************)
EXTENDS Naturals, Sequences, SequencesExt

Servers == {"a2a", "mcp"}
Children == Servers \cup {"planner"}
LaunchOrder == <<"a2a", "mcp", "planner">>

VARIABLES
    pc,         \* where main is
    procs,      \* the children it appended to procs, in order
    alive,      \* the children that run
    listens,    \* for each port: nobody, the own child, or a foreign process
    pidFile,    \* the servers that wrote their pid file
    report,     \* the planner's last words
    exit,       \* "none", "pass", "fail", "raised", or "killed" by a signal
    signal,     \* what came: "none", "term" or "kill", and where it found main
    broken      \* the exception on its way through main, if any

harnessVars == <<pc, procs, alive, listens, pidFile, report, exit, signal, broken>>

NoReport == [kind |-> "none"]

Init ==
    /\ pc = <<"launch", "a2a">> /\ procs = <<>> /\ alive = {}
    /\ listens = [s \in Servers |-> "nobody"] /\ pidFile = {}
    /\ report = NoReport /\ exit = "none" /\ broken = "none"
    /\ signal = [kind |-> "none", at |-> <<"never", "none">>]

At(step, child) == pc = <<step, child>>
Goto(step, child) == pc' = <<step, child>>

\* Phase0Failure ends in FAIL; any other exception only passes through the finally.
Fail == broken' = "fail" /\ Goto("finally", "none")
Raise == broken' = "raised" /\ Goto("finally", "none")

Environment == <<listens, pidFile, report>>

-----------------------------------------------------------------------------
\* The children and their surroundings

\* A foreign process takes the port between _free_port and the child's bind.
ForeignBinds(s) ==
    /\ listens[s] = "nobody" /\ exit = "none"
    /\ listens' = [listens EXCEPT ![s] = "foreign"]
    /\ UNCHANGED <<pc, procs, alive, pidFile, report, exit, signal, broken>>

\* A server writes its pid, and binds or exits.
ServerStarts(s) ==
    /\ s \in alive /\ s \notin pidFile
    /\ pidFile' = pidFile \cup {s}
    /\ IF listens[s] = "nobody"
         THEN listens' = [listens EXCEPT ![s] = "own"] /\ UNCHANGED alive
         ELSE alive' = alive \ {s} /\ UNCHANGED listens
    /\ UNCHANGED <<pc, procs, report, exit, signal, broken>>

\* The planner reports which process answered each call, whether with the nonce of
\* this run and with a complete result; or it fails in a way of its own.
PlannerEnds ==
    /\ "planner" \in alive
    /\ alive' = alive \ {"planner"}
    /\ report' \in [kind : {"result"}, by : {listens}, fresh : BOOLEAN, complete : BOOLEAN]
                     \cup [kind : {"nonzero", "silent", "garbled"}]
    /\ UNCHANGED <<pc, procs, listens, pidFile, exit, signal, broken>>

-----------------------------------------------------------------------------
\* main

\* Popen raises OSError when the interpreter it is given is not there.
Launch(c) ==
    /\ At("launch", c)
    /\ \/ alive' = alive \cup {c} /\ Goto("append", c) /\ UNCHANGED broken
       \/ Raise /\ UNCHANGED alive
    /\ UNCHANGED <<procs, Environment, exit, signal>>

\* procs.append: only now will _terminate find the child.
Remember(c) ==
    /\ At("append", c)
    /\ procs' = Append(procs, c)
    /\ CASE c = "a2a" -> Goto("launch", "mcp")
         [] c = "mcp" -> Goto("probe", "a2a")
         [] OTHER -> Goto("wait", "planner")
    /\ UNCHANGED <<alive, Environment, exit, signal, broken>>

\* _wait_ready, and the look at the child after it.  A probe that takes longer than
\* five seconds raises subprocess.TimeoutExpired, which is no Phase0Failure.
WaitReady(s) ==
    /\ At("probe", s)
    /\ \/ /\ listens[s] # "nobody"
          /\ IF s \in alive
               THEN /\ IF s = "a2a" THEN Goto("probe", "mcp") ELSE Goto("pids", "none")
                    /\ UNCHANGED broken
               ELSE Fail
       \/ Fail
       \/ Raise
    /\ UNCHANGED <<procs, alive, Environment, exit, signal>>

\* A pid file is missing, or is there but not yet written: int("") raises ValueError.
ReadPidFiles ==
    /\ At("pids", "none")
    /\ IF pidFile = Servers THEN Goto("launch", "planner") /\ UNCHANGED broken
       ELSE Fail \/ Raise
    /\ UNCHANGED <<procs, alive, Environment, exit, signal>>

\* The planner finishes in time, or does not.
WaitPlanner ==
    /\ At("wait", "planner")
    /\ IF "planner" \in alive THEN Fail ELSE Goto("judge", "none") /\ UNCHANGED broken
    /\ UNCHANGED <<procs, alive, Environment, exit, signal>>

\* The reported pids are those of the pid files, and the answers carry the nonce, a
\* completed task, an artifact, the transport and both graph nodes.
Evidence ==
    /\ \A s \in Servers : report.by[s] = "own"
    /\ report.fresh /\ report.complete

\* A line that is no JSON raises ValueError.
Judge ==
    /\ At("judge", "none")
    /\ CASE report.kind = "garbled" -> Raise
         [] report.kind \in {"nonzero", "silent"} -> Fail
         [] OTHER -> IF Evidence THEN broken' = "pass" /\ Goto("finally", "none") ELSE Fail
    /\ UNCHANGED <<procs, alive, Environment, exit, signal>>

\* The finally block: the default SIGTERM handler first, then _terminate.  Before it
\* main is printing its verdict, FAIL already in the except clause.
Finally ==
    /\ At("finally", "none")
    /\ Goto("terminate", "none")
    /\ UNCHANGED <<procs, alive, Environment, exit, signal, broken>>

KnownButFirst == Range(procs) \ {"a2a"}

Known == Range(procs)

\* Asked to end, or killed after five seconds, every known child is gone.
Terminate ==
    /\ At("terminate", "none")
    /\ alive' = alive \ Known
    /\ listens' = [s \in Servers |-> IF s \in alive' \/ listens[s] = "foreign" THEN listens[s] ELSE "nobody"]
    /\ exit' = broken /\ Goto("ended", "none")
    /\ UNCHANGED <<procs, pidFile, report, signal, broken>>

\* SIGTERM: an exception while main works, the end of the process once the handler
\* is restored.
Terminated ==
    /\ signal.kind = "none" /\ exit = "none"
    /\ signal' = [kind |-> "term", at |-> pc]
    /\ CASE At("terminate", "none") -> exit' = "killed" /\ Goto("ended", "none") /\ UNCHANGED broken
         [] At("finally", "none") /\ broken # "pass" -> Raise /\ UNCHANGED exit
         [] OTHER -> Fail /\ UNCHANGED exit
    /\ UNCHANGED <<procs, alive, Environment>>

\* SIGKILL, or a crash of the interpreter.
Killed ==
    /\ signal.kind = "none" /\ exit = "none"
    /\ signal' = [kind |-> "kill", at |-> pc]
    /\ exit' = "killed" /\ Goto("ended", "none")
    /\ UNCHANGED <<procs, alive, Environment, broken>>

Next ==
    \/ \E s \in Servers : ForeignBinds(s) \/ ServerStarts(s) \/ WaitReady(s)
    \/ \E c \in Children : Launch(c) \/ Remember(c)
    \/ PlannerEnds \/ ReadPidFiles \/ WaitPlanner \/ Judge
    \/ Finally \/ Terminate \/ Terminated \/ Killed

Spec == Init /\ [][Next]_harnessVars

-----------------------------------------------------------------------------
\* Properties

\* PASS is said only of a real round trip: the two servers that answered the planner
\* are the ones this run started, even where another process had taken a port; and
\* when the harness has ended, a child outlives it only where a signal killed it, or
\* interrupted it between starting that child and remembering it.
PassIsGenuine ==
    /\ exit = "pass" => report.kind = "result" /\ report.fresh
                          /\ \A s \in Servers : s \in pidFile /\ report.by[s] = "own"
    /\ exit \in {"pass", "fail", "raised"} =>
         \A c \in alive : signal.kind = "term" /\ signal.at = <<"append", c>>
=============================================================================
