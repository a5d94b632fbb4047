------------------------------ MODULE Offline ------------------------------
(***************************************************************************)
(* What works beside the planning service: the knowledge base is filled    *)
(* (RagBootstrap) from chunked documents (Chunking), questions are         *)
(* answered from it (GroundedAnswers), and scripts measure the answers and *)
(* the planner (GenerationEval, LiveEval) or try the services together     *)
(* (Phase0Harness).  They meet in files only, each a value the next reads  *)
(* whole, so that one behaviour follows one of them, the others at rest.   *)
(***************************************************************************)
EXTENDS RagBootstrap, Integers, Sequences

CONSTANTS
    MaxLength, Sizes,                                           \* Chunking
    Chunks, Source, District, Poi, Depth, RrfK,                 \* Retrieval
    Languages, LanguageOf, Queries, Objects, Signals, KnownPois,
    PostAttempts, TransientAttempts, Attempts,                  \* GroundedAnswers
    Questions, Unanswerable, SmokeQuestions, SmokeMustAnswer, SmokeMustRefuse,
    Setups, FirstSetup, Envs, MaxEvals, MaxChanges,             \* GenerationEval
    Cases, MaxRepairs, OutageLength, MaxStarts                  \* LiveEval

VARIABLES
    part,                                                       \* the component followed
    text, size, section, start, chunks, outcome,                \* Chunking
    query, question, items, provider, pc, attempt, posts, transients, result,
                                                                \* GroundedAnswers
    setup, env, checkpoint, run, report, evals, changes,        \* GenerationEval
    script, file, summary, liveRun, starts, measured,           \* LiveEval
    at, procs, alive, listens, pidFile, said, exit, signal, broken  \* Phase0Harness

chunkVars == <<text, size, section, start, chunks, outcome>>
answerVars == <<query, question, items, provider, pc, attempt, posts, transients, result>>
evalVars == <<setup, env, checkpoint, run, report, evals, changes>>
liveVars == <<script, file, summary, liveRun, starts, measured>>
harnessVars == <<at, procs, alive, listens, pidFile, said, exit, signal, broken>>

-----------------------------------------------------------------------------
C == INSTANCE Chunking
A == INSTANCE GroundedAnswers
E == INSTANCE GenerationEval WITH MaxRuns <- MaxEvals, runs <- evals
L == INSTANCE LiveEval WITH run <- liveRun
H == INSTANCE Phase0Harness WITH pc <- at, report <- said

-----------------------------------------------------------------------------
\* What the code's constants have in common with their small values.

\* Windows have a length; no chunk has the number of the marker, nor an unknown source.
ASSUME ChunksOK ==
    /\ MaxLength \in Nat
    /\ \A sz \in Sizes : sz[1] \in Nat \ {0} /\ sz[2] \in Nat
    /\ IsFiniteSet(Chunks) /\ Chunks \subseteq Nat \ {0}
    /\ \A c \in Chunks : Source[c] # A!NoSource

\* The similarity ranks every point once; a search fetches more points than are asked for.
ASSUME QueriesOK ==
    /\ RrfK \in Nat /\ Depth \in Nat
    /\ \A q \in Queries :
         /\ q.topK \in Nat /\ q.topK < Depth
         /\ q.dense \in Seq(A!Points)
         /\ \A p \in A!Points : \E i \in DOMAIN q.dense : q.dense[i] = p
         /\ \A i, j \in DOMAIN q.dense : q.dense[i] = q.dense[j] => i = j
         /\ \A c \in Chunks : q.sparse[c] \in Nat

ASSUME ScriptsOK ==
    /\ TransientAttempts \in Nat \ {0}
    /\ Questions \in Seq({Questions[i] : i \in DOMAIN Questions})
    /\ SmokeQuestions \in Seq({SmokeQuestions[i] : i \in DOMAIN SmokeQuestions})
    /\ FirstSetup \in Setups
    /\ Len(Cases) \in Nat \ {0} /\ MaxRepairs \in Nat /\ OutageLength \in Nat \ {0}

-----------------------------------------------------------------------------
\* The components at rest.
RestingBootstrap == coll = [n \in Names |-> NoCollection] /\ cmd = [p \in Commands |-> Idle]
                    /\ files = FirstFiles /\ manifest = FirstFiles
                    /\ builds = 0 /\ runs = 0 /\ interrupts = 0
RestingChunking == text = <<>> /\ size = <<1, 1>> /\ section = 1 /\ start = 1 /\ chunks = <<>>
                   /\ outcome = "rejected"
RestingAnswers == query = {} /\ question = {} /\ items = <<>> /\ provider = "none" /\ pc = "resting"
                  /\ attempt = 0 /\ posts = 0 /\ transients = 0 /\ result = A!NoResult
RestingEval == setup = {} /\ env = {} /\ checkpoint = <<>> /\ run = E!Idle /\ report = E!NoReport
               /\ evals = 0 /\ changes = 0

OfflineInit ==
    /\ part \in {"bootstrap", "chunking", "answers", "evaluation", "live", "harness"}
    /\ IF part = "bootstrap" THEN Init ELSE RestingBootstrap
    /\ IF part = "chunking" THEN C!Init ELSE RestingChunking
    /\ IF part = "answers" THEN A!Init ELSE RestingAnswers
    /\ IF part = "evaluation" THEN E!Init ELSE RestingEval
    /\ L!Init /\ (part # "live" => script = "e1")
    /\ H!Init

OfflineNext ==
    \/ part = "bootstrap" /\ Next /\ UNCHANGED <<part, chunkVars, answerVars, evalVars, liveVars, harnessVars>>
    \/ part = "chunking" /\ C!Next /\ UNCHANGED <<part, bootVars, answerVars, evalVars, liveVars, harnessVars>>
    \/ part = "answers" /\ A!Next /\ UNCHANGED <<part, bootVars, chunkVars, evalVars, liveVars, harnessVars>>
    \/ part = "evaluation" /\ E!Next /\ UNCHANGED <<part, bootVars, chunkVars, answerVars, liveVars, harnessVars>>
    \/ part = "live" /\ L!Next /\ UNCHANGED <<part, bootVars, chunkVars, answerVars, evalVars, harnessVars>>
    \/ part = "harness" /\ H!Next /\ UNCHANGED <<part, bootVars, chunkVars, answerVars, evalVars, liveVars>>

OfflineSpec ==
    OfflineInit /\ [][OfflineNext]_<<part, bootVars, chunkVars, answerVars, evalVars, liveVars, harnessVars>>

-----------------------------------------------------------------------------
\* Every word under a heading is in a chunk of its section (Chunking).
ChunksKeepText == part = "chunking" => C!ChunksKeepText

\* A search returns what was asked for, best first (GroundedAnswers).
SearchIsFaithful == part = "answers" => A!SearchIsFaithful

\* An answer rests on what was retrieved, and an outage is told (GroundedAnswers).
AnswersAreGrounded == part = "answers" => A!AnswersAreGrounded

\* A report is one experiment, however often it was resumed (GenerationEval).
ReportIsOneExperiment == part = "evaluation" => E!ReportIsOneExperiment

\* A gate that passed tells the truth (GenerationEval).
HonestGate == part = "evaluation" => E!HonestGate

\* A live evaluation is measured once and counted right (LiveEval).
MeasuredOnce == part = "live" => L!MeasuredOnce

\* PASS is said of a real round trip only, and no child is forgotten (Phase0Harness).
PassIsGenuine == part = "harness" => H!PassIsGenuine
=============================================================================
