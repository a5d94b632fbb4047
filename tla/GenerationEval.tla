--------------------------- MODULE GenerationEval ---------------------------
(***************************************************************************)
(* rag/run_generation_eval.py and rag/run_smoke_eval.py: an operator runs  *)
(* the evaluation of rag/generation_eval.py over the questions, or over    *)
(* the smoke set.  The full evaluation checkpoints every row and resumes;  *)
(* a run can end between any two steps, and between runs the code, the     *)
(* corpus and the environment may change.  One evaluation runs at a time:  *)
(* nothing guards a checkpoint two of them share.                          *)
(*                                                                         *)
(* What GroundedAnswers returns for a question is one of Answers.          *)
(***************************************************************************)
EXTENDS Naturals, Sequences, FiniteSets, SequencesExt

CONSTANTS
    Questions, Unanswerable,    \* QUESTIONS in order; those with refusal_required
    SmokeQuestions, SmokeMustAnswer, SmokeMustRefuse,
    Setups,     \* the code and the corpus: [hashed, other], of which the fingerprint
                \* covers the collection and five files, not rrf.py or bm25.py
    FirstSetup, \* the one it all begins with
    Envs,                       \* environments: keys, Ollama, overrides and requirements
    MaxRuns, MaxChanges         \* bounds on runs, and on changes between them

VARIABLES
    setup, env,     \* what is on disk and in the environment
    checkpoint,     \* generation_eval_checkpoint.jsonl
    run,            \* the evaluation that is running
    report,         \* the report the last run wrote, if it wrote one
    runs, changes

evalVars == <<setup, env, checkpoint, run, report, runs, changes>>

Roles == {"generator", "judge"}

----------------------------------------------------------------------------
\* detect_available_providers: the first hosted key, else a local model.
Hosted == <<"anthropic", "openai", "groq">>

Detected(e) ==
    LET keyed == {i \in DOMAIN Hosted : Hosted[i] \in e.keys}
    IN IF keyed # {} THEN Hosted[Min(keyed)] ELSE IF e.ollama THEN "ollama" ELSE "none"

\* provider_credential_present
Credential(p, e) == IF p = "ollama" THEN e.ollama ELSE p \in {"groq", "qwen"} \cap e.keys

\* _resolved_role_provider_name
Resolved(role, e) == IF e.override[role] # "none" THEN e.override[role] ELSE Detected(e)

\* _select_evaluation_providers, for one role: an override needs its credential,
\* and of the providers detected only Groq and Ollama have a client.
Selectable(role, e) ==
    IF e.override[role] # "none" THEN Credential(e.override[role], e)
    ELSE Detected(e) \in {"groq", "ollama", "none"}

\* enforce_required_role_provider
RequiredRole(role, e) == e.requireRole[role] \in {"none", Resolved(role, e)}

\* enforce_required_provider
RequiredProvider(e) == e.require \in {"none", Detected(e)}

\* What must hold before anything is evaluated.  The smoke run looks at no role's
\* requirement.
MayRun(kind, e) ==
    /\ RequiredProvider(e)
    /\ kind = "full" => \A role \in Roles : RequiredRole(role, e)
    /\ \A role \in Roles : Selectable(role, e)

\* The experiment a row belongs to.
Experiment(s, e) ==
    [setup |-> s, generator |-> Resolved("generator", e), judge |-> Resolved("judge", e)]

\* Only the models are told apart.
FingerprintOfModels(x) == [x EXCEPT !.setup = "any"]

\* _evaluation_fingerprint: the models, the collection, and the code it hashes.
EvaluationFingerprint(x) == [x EXCEPT !.setup = x.setup.hashed]

----------------------------------------------------------------------------
\* The answers a generator can lead to: a refusal, one caused by an outage, the
\* catalog's refusal, cited text, and text extracted in an outage.
Answers(generator) ==
    { a \in [refused : BOOLEAN, catalog : BOOLEAN, transport : BOOLEAN] :
        /\ a.catalog => a.refused /\ ~a.transport
        /\ generator = "none" => a.refused /\ ~a.transport }

NoScore == 9
Unjudged == [score |-> NoScore, error |-> FALSE, failures |-> {}]

\* The judge's part of evaluate_one.
Judgements(question, judge) ==
    IF question \in Unanswerable THEN {Unjudged}
    ELSE IF judge = "none"
           THEN {[score |-> NoScore, error |-> TRUE, failures |-> {"judge_unavailable"}]}
    ELSE { [score |-> f, error |-> FALSE,
            failures |-> IF f < 2 THEN {"generation_hallucination"} ELSE {}] : f \in 0..2 }
         \cup { [score |-> NoScore, error |-> TRUE, failures |-> f] :
                  f \in {{"judge_call_failed"}, {"judge_call_failed", "judge_transport_failed"}} }

RowForgivingOutage(question, experiment, answer, judgement) ==
    [question |-> question, made |-> experiment,
     fingerprint |-> EvaluationFingerprint(experiment), answer |-> answer,
     citations |-> IF answer.refused THEN 0 ELSE 1, emitted |-> IF answer.refused THEN 0 ELSE 1,
     score |-> judgement.score, error |-> judgement.error,
     failures |-> judgement.failures
        \cup IF answer.refused # (question \in Unanswerable) THEN {"refusal_failure"} ELSE {}]

\* The row of evaluate_one and _row_to_dict.
Row(question, experiment, answer, judgement) ==
    [question |-> question, made |-> experiment,
     fingerprint |-> EvaluationFingerprint(experiment), answer |-> answer,
     citations |-> IF answer.refused THEN 0 ELSE 1, emitted |-> IF answer.refused THEN 0 ELSE 1,
     score |-> judgement.score, error |-> judgement.error,
     failures |-> judgement.failures
        \cup (IF answer.refused # (question \in Unanswerable) THEN {"refusal_failure"} ELSE {})
        \cup (IF answer.transport THEN {"generator_transport_failed"} ELSE {})]

\* The gate of _summarize_rows over _compute_metrics: what it counts must be none or
\* all, so it is a condition on each row.
GatePassed(rows) ==
    \A i \in DOMAIN rows :
        LET r == rows[i]
        IN /\ IF r.question \in Unanswerable THEN r.answer.refused
              ELSE /\ ~r.error /\ r.score # NoScore
                   /\ r.emitted > 0 => r.citations > 0
                   /\ "refusal_failure" \notin r.failures
           /\ r.failures \cap {"generation_hallucination", "generator_transport_failed",
                               "judge_transport_failed"} = {}

\* _smoke_gate_passed.  A refusal is known by its text, which the catalog's is not.
SmokeGatePassed(rows) ==
    \A i \in DOMAIN rows :
        LET r == rows[i]
            refused == r.answer.refused /\ ~r.answer.catalog
        IN /\ r.question \in SmokeMustAnswer => ~refused /\ r.citations > 0
           /\ r.question \in SmokeMustRefuse => refused
           /\ ~r.error
           /\ {"generator_transport_failed", "judge_transport_failed"} \cap r.failures = {}

----------------------------------------------------------------------------
Idle == [pc |-> "idle", kind |-> "full", experiment |-> "none",
         completed |-> <<>>, rows |-> <<>>]

NoReport == [made |-> FALSE]

Todo(kind) == IF kind = "full" THEN Questions ELSE SmokeQuestions

Init ==
    /\ setup = FirstSetup /\ env \in Envs
    /\ checkpoint = <<>> /\ run = Idle /\ runs = 0 /\ changes = 0
    /\ report = NoReport

\* _load_checkpoint refuses rows of another fingerprint, unknown and double rows.
LoadCheckpoint(rows, fingerprint) ==
    \A i \in DOMAIN rows :
        /\ rows[i].fingerprint = fingerprint
        /\ rows[i].question \in Range(Questions)
        /\ \A j \in DOMAIN rows : rows[i].question = rows[j].question => i = j

\* run: the providers are settled first, then the checkpoint is read.
Start ==
    /\ run.pc = "idle" /\ runs < MaxRuns
    /\ runs' = runs + 1
    /\ \E kind \in {"full", "smoke"} :
         LET experiment == Experiment(setup, env)
             compatible == LoadCheckpoint(checkpoint, EvaluationFingerprint(experiment))
         IN run' = IF MayRun(kind, env) /\ (kind = "full" => compatible)
                     THEN [Idle EXCEPT !.pc = "evaluating", !.kind = kind,
                             !.experiment = experiment,
                             !.completed = IF kind = "full" THEN checkpoint ELSE <<>>]
                     ELSE run
    /\ report' = NoReport
    /\ UNCHANGED <<setup, env, checkpoint, changes>>

\* The question the loop is at, and where the checkpoint has its row.
Current == Todo(run.kind)[Len(run.rows) + 1]
Checkpointed == {i \in DOMAIN run.completed : run.completed[i].question = Current}
More == run.pc = "evaluating" /\ Len(run.rows) < Len(Todo(run.kind))

Resume ==
    /\ More
    /\ \E i \in Checkpointed : run' = [run EXCEPT !.rows = Append(@, run.completed[i])]
    /\ UNCHANGED <<setup, env, checkpoint, report, runs, changes>>

\* evaluate_one; a full run then writes the row to the temporary file.
Evaluate ==
    /\ More /\ Checkpointed = {}
    /\ \E answer \in Answers(run.experiment.generator),
          judgement \in Judgements(Current, run.experiment.judge) :
         LET row == Row(Current, run.experiment, answer, judgement)
         IN run' = [run EXCEPT !.rows = Append(@, row),
                               !.pc = IF run.kind = "full" THEN "writing" ELSE @]
    /\ UNCHANGED <<setup, env, checkpoint, report, runs, changes>>

\* os.replace: the checkpoint is what was completed, and the new row.
Replace ==
    /\ run.pc = "writing"
    /\ LET completed == Append(run.completed, run.rows[Len(run.rows)])
       IN checkpoint' = completed /\ run' = [run EXCEPT !.completed = completed, !.pc = "evaluating"]
    /\ UNCHANGED <<setup, env, report, runs, changes>>

\* The report, with its gate.
Report ==
    /\ run.pc = "evaluating" /\ Len(run.rows) = Len(Todo(run.kind))
    /\ report' = [made |-> TRUE, kind |-> run.kind, experiment |-> run.experiment,
                  rows |-> run.rows,
                  passed |-> IF run.kind = "full" THEN GatePassed(run.rows)
                             ELSE SmokeGatePassed(run.rows)]
    /\ run' = Idle
    /\ UNCHANGED <<setup, env, checkpoint, runs, changes>>

\* A quota or an unknown host ends the run before its row is written; so does a
\* crash, at any point.
Stop ==
    /\ run.pc # "idle" /\ run' = Idle
    /\ UNCHANGED <<setup, env, checkpoint, report, runs, changes>>

\* The operator edits code or corpus, changes the environment, or puts the
\* checkpoint aside.  A run has read all it needs of them when it starts.
Change ==
    /\ run.pc = "idle" /\ changes < MaxChanges /\ changes' = changes + 1
    /\ \/ setup' \in Setups \ {setup} /\ UNCHANGED <<env, checkpoint>>
       \/ env' \in Envs \ {env} /\ UNCHANGED <<setup, checkpoint>>
       \/ checkpoint' = <<>> /\ UNCHANGED <<setup, env>>
    /\ UNCHANGED <<run, report, runs>>

Next == Start \/ Resume \/ Evaluate \/ Replace \/ Report \/ Stop \/ Change

Spec == Init /\ [][Next]_evalVars

----------------------------------------------------------------------------
Comparable(x, y) ==
    x.generator = y.generator /\ x.judge = y.judge /\ x.setup.hashed = y.setup.hashed

\* However often a full evaluation was stopped and resumed, and whatever was
\* edited in between, its report has one row for each question in order, all made
\* by one experiment as far as its code is hashed, the one the report names; the
\* checkpoint never holds two rows of a question or of two such experiments; and a
\* full evaluation that pins a role to a provider runs with that one, whichever
\* keys, local models and overrides there are.
ReportIsOneExperiment ==
    /\ report.made /\ report.kind = "full" =>
         /\ [i \in DOMAIN report.rows |-> report.rows[i].question] = Questions
         /\ \A i \in DOMAIN report.rows : Comparable(report.rows[i].made, report.experiment)
    /\ \A i, j \in DOMAIN checkpoint :
         /\ Comparable(checkpoint[i].made, checkpoint[j].made)
         /\ checkpoint[i].question = checkpoint[j].question => i = j
    /\ run.pc # "idle" /\ run.kind = "full" =>
         \A role \in Roles :
            env.requireRole[role] # "none" =>
               /\ run.experiment[role] = env.requireRole[role]
               /\ Credential(run.experiment[role], env)

\* A gate that passed tells the truth.  In the full report every answerable
\* question has a cited answer that the judge found faithful and every other one
\* was refused; in both, no answer or judgement came out of an outage.
HonestGate ==
    report.made /\ report.passed =>
        \A i \in DOMAIN report.rows :
           LET r == report.rows[i]
               answerable == r.question \notin Unanswerable
           IN /\ ~r.answer.transport /\ (answerable => r.score # NoScore)
              /\ report.kind = "full" =>
                   /\ answerable => ~r.answer.refused /\ r.score = 2 /\ r.citations > 0
                   /\ ~answerable => r.answer.refused
=============================================================================
