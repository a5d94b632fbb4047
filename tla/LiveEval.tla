------------------------------ MODULE LiveEval ------------------------------
(***************************************************************************)
(* The live evaluations of evaluation/: E.1 (run_e1_live_qwen_eval.py), its *)
(* holdout E.1R, and the validations E.1V, E.1X and E.1Z.  A script asks   *)
(* the planner's decision code (external) for one decision per case,       *)
(* appends a row to its results file, and writes a summary at the end.  It *)
(* can be killed at any point and started again; E.1V, E.1X and E.1Z are   *)
(* to be run exactly once, and so is E.1R unless an operator insists.      *)
(*                                                                         *)
(* Of an action it is told only whether it is the expected one; a case is  *)
(* idle when it expects no further tool call.                              *)
(***************************************************************************)
EXTENDS Naturals, Sequences, FiniteSets

CONSTANTS
    Cases,          \* the case manifest, in order: [role, idle]
    MaxRepairs,     \* MAX_DECISION_REPAIRS and MAX_SPECIALIST_DECISION_REPAIRS
    OutageLength,   \* consecutive transport errors that stop a script (5)
    MaxStarts       \* bound on starts

VARIABLES
    script,         \* the script this behaviour is about
    file,           \* its results file: whether it exists, and its rows
    summary,        \* its summary file
    run,            \* the rows of the process that is running
    starts,
    measured        \* history: the start that recorded the first row

liveVars == <<script, file, summary, run, starts, measured>>

Scripts == {"e1", "e1r", "e1v", "e1x", "e1z"}
OneShot == Scripts \ {"e1"}

NoFile == [made |-> FALSE, rows |-> <<>>]
NoSummary == [made |-> FALSE]
NotRunning == [on |-> FALSE, rows |-> <<>>, outage |-> 0]

Init ==
    /\ script \in Scripts
    /\ file = NoFile /\ summary = NoSummary /\ run = NotRunning
    /\ starts = 0 /\ measured = 0

-----------------------------------------------------------------------------
\* Rows

\* The row of a case: which start made it, what went wrong, and what it counts as.
Made(case, first, valid, repairs, error, right, wasteful) ==
    [case |-> case, start |-> starts, first |-> first, valid |-> valid, repairs |-> repairs,
     error |-> error, correct |-> valid /\ right, needless |-> valid /\ wasteful,
     raised |-> FALSE]

\* A case whose evaluation raised.
Raised(case) ==
    [Made(case, FALSE, FALSE, 0, "transport_error", FALSE, FALSE) EXCEPT !.raised = TRUE]

\* What a decision came to: the expected action, a tool that was not asked for, or
\* another action.
Actions == {"expected", "tool", "other"}

\* The replies to one case of E.1, each decoded or not, up to the one that ends it.
Tries ==
    LET invalid == UNION {[1..n -> {"invalid"}] : n \in 0..MaxRepairs}
    IN  {Append(s, last) : s \in invalid, last \in {"decision", "transport"}}
            \cup {[i \in 1..MaxRepairs + 1 |-> "invalid"]}

\* _run_one_case of E.1: the script's own repair loop; any wrong action is needless
\* in an idle case.
E1Row(case, tries, action) ==
    LET last == tries[Len(tries)]
        valid == last = "decision"
    IN  Made(case, valid /\ Len(tries) = 1, valid, Len(tries) - 1,
             CASE last = "decision" -> "none"
               [] last = "invalid" -> "decision_format_invalid"
               [] OTHER -> "transport_error",
             action = "expected", action # "expected" /\ Cases[case].idle)

\* E.1R has a copy of it.
E1rRow(case, tries, action) == E1Row(case, tries, action)

\* What the supervisor's Decide node leaves in its trace.
Traces ==
    {t \in [classified : BOOLEAN, repairs : 0..MaxRepairs,
            statuses : SUBSET {"transport_failed", "capability_classification_failed",
                               "action_ineligible_rejected", "action_ineligible_correction_failed"}] :
        /\ t.classified => "capability_classification_failed" \notin t.statuses
        /\ "action_ineligible_correction_failed" \in t.statuses =>
              "action_ineligible_rejected" \in t.statuses}

SupervisorError(t) ==
    CASE t.classified /\ {"transport_failed", "action_ineligible_correction_failed"} \cap t.statuses = {} ->
           "none"
      [] "transport_failed" \in t.statuses -> "transport_error"
      [] "transport_failed" \notin t.statuses
            /\ "capability_classification_failed" \in t.statuses -> "classification_format_invalid"
      [] {"transport_failed", "capability_classification_failed"} \cap t.statuses = {}
            /\ "action_ineligible_correction_failed" \in t.statuses -> "ineligible_action_uncorrected"
      [] OTHER -> "decision_format_invalid"

\* _run_supervisor_case of E.1V.
SupervisorRow(case, t, action) ==
    LET valid == SupervisorError(t) = "none"
    IN  Made(case, valid /\ t.repairs = 0 /\ "action_ineligible_rejected" \notin t.statuses,
             valid, t.repairs, SupervisorError(t),
             action = "expected", action = "tool" /\ Cases[case].idle)

\* _run_specialist_case of E.1V: the node leaves no trace, only a reason; the one it
\* gives for an unreachable model is also one the model may choose.
SpecialistRow(case, reason, repairs, action) ==
    LET exhausted == reason = "decision_format_invalid" /\ repairs >= MaxRepairs
        doubtful == reason = "tool_unavailable"
    IN  Made(case, ~exhausted /\ repairs = 0 /\ ~doubtful, ~exhausted, repairs,
             CASE exhausted -> "decision_format_invalid"
               [] doubtful -> "possible_transport_error"
               [] OTHER -> "none",
             action = "expected", action = "tool" /\ Cases[case].idle)

\* _run_case of E.1X and of its copy E.1Z: supervisor cases only.
XRow(case, t, action) == SupervisorRow(case, t, action)
ZRow(case, t, action) == XRow(case, t, action)

-----------------------------------------------------------------------------
\* One script

\* main, up to the loop: the results file is emptied, an old summary stays.
Open ==
    /\ starts' = starts + 1
    /\ run' = [NotRunning EXCEPT !.on = TRUE]
    /\ file' = [made |-> TRUE, rows |-> <<>>]
    /\ UNCHANGED <<script, summary, measured>>

CanStart == ~run.on /\ starts < MaxStarts

\* Without a key every script stops before it touches a file: as if not started.
BeginE1 == CanStart /\ script = "e1" /\ Open
BeginE1r == CanStart /\ script = "e1r" /\ ~file.made /\ Open

BeginE1vAgain == CanStart /\ script = "e1v" /\ Open

\* The file may exist, but not hold a row.
BeginE1v == CanStart /\ script = "e1v" /\ file.rows = <<>> /\ Open
BeginE1x == CanStart /\ script = "e1x" /\ file.rows = <<>> /\ Open
BeginE1z == CanStart /\ script = "e1z" /\ file.rows = <<>> /\ Open

Blocked == run.outage >= OutageLength
Case == Len(run.rows) + 1
More == run.on /\ ~Blocked /\ Case <= Len(Cases)

\* Only definite transport errors count.
OutageAfter(row) == IF row.error = "transport_error" THEN run.outage + 1 ELSE 0

\* One pass of the loop: the row is kept, and appended to the file.
Take(row) ==
    /\ run' = [run EXCEPT !.rows = Append(@, row), !.outage = OutageAfter(row)]
    /\ file' = [file EXCEPT !.rows = Append(@, row)]
    /\ measured' = IF measured = 0 THEN starts ELSE measured
    /\ UNCHANGED <<script, summary, starts>>

CaseE1 ==
    /\ More /\ script = "e1"
    /\ \/ Take(Raised(Case))
       \/ \E tries \in Tries, action \in Actions : Take(E1Row(Case, tries, action))

CaseE1r ==
    /\ More /\ script = "e1r"
    /\ \/ Take(Raised(Case))
       \/ \E tries \in Tries, action \in Actions : Take(E1rRow(Case, tries, action))

CaseE1v ==
    /\ More /\ script = "e1v"
    /\ \/ Take(Raised(Case))
       \/ /\ Cases[Case].role = "supervisor"
          /\ \E t \in Traces, action \in Actions : Take(SupervisorRow(Case, t, action))
       \/ /\ Cases[Case].role = "specialist"
          /\ \E reason \in {"decision_format_invalid", "tool_unavailable", "other"},
                repairs \in 0..MaxRepairs, action \in Actions :
                Take(SpecialistRow(Case, reason, repairs, action))

CaseE1x ==
    /\ More /\ script = "e1x"
    /\ \/ Take(Raised(Case))
       \/ \E t \in Traces, action \in Actions : Take(XRow(Case, t, action))

CaseE1z ==
    /\ More /\ script = "e1z"
    /\ \/ Take(Raised(Case))
       \/ \E t \in Traces, action \in Actions : Take(ZRow(Case, t, action))

\* The counts of a summary, as far as its readers draw conclusions from them.
Counted(rows, field) == Cardinality({i \in DOMAIN rows : rows[i][field]})
Tally(rows) ==
    [made |-> TRUE, start |-> starts, blocked |-> Blocked, completed |-> Len(rows),
     correct |-> Counted(rows, "correct"), first |-> Counted(rows, "first"),
     valid |-> Counted(rows, "valid"),
     unbroken |-> Cardinality({i \in DOMAIN rows : rows[i].error # "transport_error"})]

End(name) ==
    /\ run.on /\ ~More /\ script = name
    /\ run' = NotRunning
    /\ UNCHANGED <<script, file, starts, measured>>

Conclude(name) == End(name) /\ summary' = Tally(run.rows)

SummarizeE1 == Conclude("e1")
SummarizeE1r == Conclude("e1r")

\* E.1V groups the rows of the supervisor by expected scope, a field that the row of
\* a case that raised does not have: the script then dies without a summary.
Ungroupable == \E i \in DOMAIN run.rows : run.rows[i].raised /\ Cases[i].role = "supervisor"
SummarizeE1v ==
    \/ ~Ungroupable /\ Conclude("e1v")
    \/ Ungroupable /\ End("e1v") /\ UNCHANGED summary

SummarizeE1x == Conclude("e1x")
SummarizeE1z == Conclude("e1z")

Kill == run.on /\ run' = NotRunning /\ UNCHANGED <<script, file, summary, starts, measured>>

Next ==
    \/ BeginE1 \/ BeginE1r \/ BeginE1v \/ BeginE1x \/ BeginE1z
    \/ CaseE1 \/ CaseE1r \/ CaseE1v \/ CaseE1x \/ CaseE1z
    \/ SummarizeE1 \/ SummarizeE1r \/ SummarizeE1v \/ SummarizeE1x \/ SummarizeE1z
    \/ Kill

Spec == Init /\ [][Next]_liveVars

-----------------------------------------------------------------------------
\* Properties

Broken(rows, i) == rows[i].error = "transport_error"

\* A one-shot evaluation is measured once, however often it was killed and started:
\* every row is of the start that recorded the first, in the order of the cases.
\* A summary beside such rows covers all of them; it is of every case, or says that
\* it was blocked, and it is blocked exactly by the first outage of full length.  An
\* outage is never counted as a valid or correct decision.
MeasuredOnce ==
    /\ \A i \in DOMAIN file.rows :
         /\ file.rows[i].case = i
         /\ script \in OneShot => file.rows[i].start = measured
         /\ Broken(file.rows, i) => ~file.rows[i].valid /\ ~file.rows[i].correct /\ ~file.rows[i].first
         /\ ~file.rows[i].valid => file.rows[i].error # "none"
    /\ summary.made /\ script \in OneShot =>
         LET rows == file.rows
             Outage(n) == n >= OutageLength /\ \A i \in (n - OutageLength + 1)..n : Broken(rows, i)
         IN  /\ summary.start = measured /\ summary.completed = Len(rows)
             /\ summary.unbroken >= summary.valid /\ summary.valid >= summary.correct
             /\ summary.valid >= summary.first
             /\ summary.blocked <=> Outage(Len(rows))
             /\ ~summary.blocked => Len(rows) = Len(Cases)
             /\ \A n \in 1..Len(rows) - 1 : ~Outage(n)
=============================================================================
