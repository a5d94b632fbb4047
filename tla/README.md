# Verification of the Istanbul trip planner

TLA+ models of the planner's server side, checked with TLC, and theorems about
them proved with TLAPS. Paths are relative to the repository root; line numbers
are in `PROJECT.json` (`map`), which names the code behind every definition.

## The system

| Component | State it keeps | Operations | Interacts with |
|---|---|---|---|
| Run service (`orchestration/system_a/service.py`) | thread pool: queue, running jobs | `create_run`, `_execute`, cancellation, shutdown | run store, `phase4.graph` (external), tool executor |
| Run store (`run_store.py`, SQLite) | tables `runs`, `run_events`, `chat_turns` | one short transaction per method | everything in System A |
| Public API (`api.py`, `sse.py`) | per-connection cursor of an event stream | runs, cancel, events (SSE), chat turns, sessions; startup and shutdown | run service, chat service, clients |
| Chat turn service (`chat_service.py`) | none across requests | `handle_chat_turn`, history, session list | run store, run service, chat model (external) |
| Tool executor (`tool_executor.py`), MCP and A2A clients, budget summary | evidence gathered in one run | one call per action | providers, MCP server, System B |
| Fixture provider, titles, config | none | pure decisions, wording, wiring | run service |
| Provider policy and transport (`providers/policy.py`, `http_transport.py`) | circuit breaker | breaker, retries, status of an answer, freshness | adapters |
| FX, weather, flights, web evidence (`providers/`) | FX cache | one adapter call each, and their fakes | third-party HTTP APIs |
| RAG ingestion (`rag/ingest*.py`, `build_documents.py`, `qdrant_store.py`) | documents and manifest, Qdrant collection with its marker | build, bootstrap, verify, status | Qdrant |
| Chunking, retrieval, grounded answers (`rag/`) | none | window, search and fuse, answer with repairs and fallbacks | Qdrant, models |
| RAG evaluation (`rag/*generation_eval.py`, `run_smoke_eval.py`) | checkpoint, report | evaluate, resume, judge, gate | grounded answers, models |
| Live evaluations (`evaluation/run_e1*.py`) | results file, summary | one row per case, one-shot guard | planner's decision code (external) |
| Phase 0 (`phase0/verify.py`) | child processes, pid files | launch, probe, judge, terminate | A2A and MCP servers, planner (children) |
| Provider validation, retrieval experiment, corpus, case builders, contracts | none, data files | pure functions and data | - |

What is hard here: threads of a pool and of requests that share nothing but
SQLite rows, between any two of whose statements another thread, a crash or a
"database is locked" may come; cancellation that races the queue and the
outcome; a restart that reinterprets what it finds; clients that lose their
stream and resume; model and provider calls that fail in several ways under one
attempt budget, and degrade to data of another kind; commands and evaluations
that are killed half way and started again over the files they left.
`PROJECT.json` lists each hazard at its line.

What makes the components correct, in short:

- a run is executed at most once, ends with one terminal event that names its
  stored outcome, and never changes afterwards; interrupted runs, and only
  those, are failed at startup; accepted runs end;
- a stream delivers exactly the log, across reconnects, and ends when it ends;
- what a chat client is told is what the transcript holds; transcripts grow by
  whole exchanges; context shown to the model is recent, bounded and honest;
- what a tool call forwards was observed in this run; what a provider adapter
  returns says whether it is data, of which kind and how old, in bounded time;
- a knowledge base is complete or refused, its chunks lose no text, and an
  answer rests on what was retrieved or says that it does not;
- a report, a gate and a PASS mean what they say, however often the run that
  wrote them was interrupted.

## Modules

| Module | What it is |
|---|---|
| `RunApi` | abstract: what the API promises about a run - a status that moves forward, a cancellation that is remembered, one terminal event, final for good |
| `RunLifecycle` | the run service, its tables, its worker pool, crash, startup reconciliation and graceful shutdown; implements `RunApi` |
| `MCRunLifecycle` | symmetry for TLC |
| `RunLifecycleProofs`, `RunApiProofs` | the invariance proof and the refinement proof |
| `EventStream`, `EventStreamProofs` | the SSE endpoint over one run's log: poll, send, wire, lost connections, resume; its invariance proof |
| `StreamedRuns` | `RunLifecycle` and `EventStream` composed: the log the stream reads is the log the service writes, connections die with the process |
| `ChatLog` | abstract: a session grows by whole pairs and by revisions of named runs |
| `ChatTurns`, `ChatTurnsProofs` | `handle_chat_turn` for concurrent turns of one session; implements `ChatLog`; both proved |
| `MCChatTurns` | the chat model's possible answers for TLC |
| `ToolEvidence` | the tool executor, its MCP, A2A and provider bindings over one run's observations, and the budget summary |
| `ProviderPolicy` | operators: statuses, data mode, retries and backoff, HTTP classification, cache freshness, rounding of a conversion |
| `ProviderCalls` | one call at a time of the FX, weather, flight and web adapters and of the fakes, over `ProviderPolicy` |
| `CircuitBreaker` | the breaker with concurrent callers and late reports |
| `ToolEvidenceProofs`, `ToolsProofs` | what a run's calls rest on, proved for the executor; the theorems about the providers, the breaker and the three together |
| `MCToolEvidence`, `MCTools` | the stays a search can return; the root module that checks the three of the tool side |
| `RagBootstrap`, `RagBootstrapProofs` | documents, collections and the commands that fill them, interrupted between any two requests; their theorems |
| `Chunking` | sections and overlapping windows of a document |
| `Retrieval`, `GroundedAnswers` | search and fusion; the answer to one question with attempts, repairs, validation and fallbacks |
| `GenerationEval` | the checkpointed generation evaluation and the smoke evaluation |
| `LiveEval` | the five live evaluation scripts |
| `Phase0Harness` | the phase 0 verification and its children |
| `Offline`, `OfflineProofs` | the root module of the six components beside the service; the theorems about five of them (`RagBootstrapProofs` has the sixth's) |
| `MCOffline` | the texts, chunks, queries, replies, environments and cases for TLC |

`MCTools` and `Offline` are roots: a behaviour follows the one component its
variable `part` names, while the others rest. Nothing is lost by that, since these
components share no memory: they meet in a status, a file or a collection that the
next one reads whole, which the model of the next one takes as any value it can be.
Where components do share state they are composed (`StreamedRuns`).

### RunLifecycle

`row` and `log` are the tables `runs` and `run_events`; `call` is the request
thread of each `POST /v1/runs`, `queue` the executor's queue, `job` a worker
inside `_execute`. Every `RunStore` method opens a connection and commits once,
so it is one action; code between two of them is not atomic with them. A job's
`pc` names the next statement: `mark_running` and the `run_started` event lie
before the `try` block, so their failure ends in `swallowed` (the exception dies
in the Future); any later failure goes to `fail_mark`, `fail_emit`. `SetTerminal`
has no status guard, as in the code: the failure path may overwrite an outcome
that is already stored. `proc` is the process: `Boot` and `Reconcile` are the
lifespan's startup, `Shutdown` and `Drained` its end, `Crash` an abrupt end that
loses threads and queue and keeps the tables. `phase4.graph` is not in this
repository: `GraphDecide`, `GraphExecute` and `ToolReturns` are what
`graph.stream` can do as seen from the callbacks, including reading the
cancellation flag before deciding and before acting.

A mutant of a definition (`PickUpKeepsQueue`, ...) stands right before it: the
change under which the property it is paired with in `PROJECT.json` fails.

### EventStream and StreamedRuns

An event is its position in the log. `conn` holds the server's generator
(`after` is `after_sequence`, `upto` the end of the batch just read) and the
frames on the wire; `got` what the client has. `Drop` loses the wire, whereupon
the client resumes with the last id it *received* or starts over, possibly with
an id the server cannot resolve. Once a connection is gone nothing depends on
when its generator notices, so it is closed at once. In `StreamedRuns` a
graceful shutdown waits for open responses, as the web server does before it
runs the lifespan shutdown.

### ChatTurns

One request thread per turn, one action per database call or model call. The
pair is written in two steps because `append_chat_turn_pair` runs
`SELECT MAX(sequence_number)` before its transaction begins. A trip is the set
of patches applied to it. `Fail` stands for a failing database call, a provider
factory that raises and the trip guard of `create_run` disagreeing with the one
before it (midnight); all end in an unhandled 500. `Crash` loses the threads; the
process is taken to be up again at once, since chat turns have no startup step.

### ToolEvidence

The executor keeps no state; what a call forwards is computed from the run's
observations, so these are the state, one per call. `LookAround`, `SearchFlights`,
`SearchStays`, `EstimateFairPrice` and `CallExpert` are the branches of
`ProductionToolExecutor.execute`; which one comes next is the graph's choice. An
A2A call stays open while its stream delivers updates, until the stream ends or
`wait_for` cuts it. An observation also records which stay ids went out and from
which observation the weather came, for the properties. `Summarize` is
`build_budget_summary`, which the run service calls once after the graph.

### ProviderPolicy, ProviderCalls and CircuitBreaker

An adapter validates its query, makes one or several requests, each with its
retries, and returns one envelope; a call is therefore its adapter, the request it
has reached (`stage`), the attempts and the worst time spent there, and what it has
collected. Times are in half seconds, so that every delay of the policies is a whole
number. `Replies` is every answer the transport can give: a status code with a
Retry-After hint or none, a timeout or broken connection (code 0), and bodies that
are good, empty, of the wrong shape or no JSON. `Weather` splits the range at the
forecast horizon as `fetch_weather` does, asks for coordinates, forecast and one
archive year at a time, and can *raise* where the code lets a decoding error through.
FX keeps its one cache entry between calls; `got` remembers, for the properties, the
last rate really received. `NewAdapter` is the adapter each run makes for itself.
`CircuitBreaker` separates asking, calling and reporting, so that a report can
concern a call that was let through in another state.

### RagBootstrap, Chunking, Retrieval and GroundedAnswers

`RagBootstrap` runs any number of command-line processes over the same collections;
each request to Qdrant is an action, and `Interrupt` can end a command between any
two, also after a request the server has carried out. A text is the number of its
chunks. A rebuild (`--rebuild-on-fingerprint-mismatch`) is taken to run alone: deleting under a second
command's feet is an operator error the code has no guard against. `Chunking` walks
`_split_section_tokens` window by window over documents of headings, words, spaces
the tokenizer counts and spaces it skips. `Retrieval` takes the dense ranking and the
BM25 scores as given (floating point) and models what is made of them: limits,
filters, the marker point, fusion as exact fractions, ties. A ranked list is a set with
an order on it (`Rank`, `Best`), written out by `InOrder` at the end: cutting, merging
and comparing lists are then set operations. `GroundedAnswers` is
`answer()`: a claim is what it quotes, what it cites and whether its words overlap,
and the HTTP attempts of one model call (429s, broken connections with a budget of
their own, the assertion behind the last attempt) are steps of their own inside the
repair loop.

### GenerationEval, LiveEval and Phase0Harness

`GenerationEval` evaluates question by question, `Stop` ends a run anywhere, and
between runs `Change` may edit the code, the corpus or the environment; a setup has a
part the fingerprint covers and one it does not. `LiveEval` has one `Begin`, `Case`
and `Summarize` action per script, which differ in guard, in what a row counts as and
in what stops them; `Kill` may come between any two rows. `Phase0Harness` follows
`main` of `phase0/verify.py` from launch to `finally`, with children that may not
bind, a foreign process that takes a port first, a planner that reports anything, and
one signal at any point, between `Popen` and remembering the child included.

## Runs

| Run | Question | Bounds |
|---|---|---|
| `run_faults` | all safety properties and the refinement of `RunApi` | 2 requests, 1 key, 2 workers, 1 tool turn, 1 crash, 1 failed database call |
| `run_live` | every run settles; undisturbed ones publish | 2 requests, 1 worker, 1 tool turn, 1 crash, any number of redeploys |
| `run_cancel` | what a cancellation guarantees | 1 request, 3 turns (tool calls, delegations), 1 crash, 1 failed database call |
| `run_unpublished` (violation) | does every settled run have its terminal event? | 1 crash |
| `stream` | order, completeness, delivery | 3 events, 3 lost connections, 1 client (clients share only the log) |
| `streamed_runs` | received outcome equals stored outcome; a follower learns the outcome | 1 run, 1 client, 1 crash, 1 fault, 1 lost connection, any number of redeploys |
| `chat_turns` | replies against transcript, refinement of `ChatLog`, history, language, termination | 2 turns, 1 patch, 3 decisions, 2 repairs, 1 correction, 1 crash, 1 fault, history of 1 message and 1 character |
| `chat_lost_turn` (violation) | is every replan in the transcript? | 2 turns |
| `tools` | is what a call forwards evidence, and are the summary's prices comparable; are envelopes honest, calls bounded, results faithful, cached rates fresh and weather days of the right kind; does the breaker open in time | evidence: 3 calls, 3 stays, 2 results a search, 1 candidate, 1 update of a task; providers: horizon 1, days up to 3, 2 sample years, 3 entries an answer of which 2 are kept, 2 rates, the policies' real attempts and delays; breaker: 3 callers, threshold 2, 4 failures in a row |
| `tools_stale_stays` (violation) | is the expert asked about the latest search? | as the evidence of `tools` |
| `offline` | is a knowledge base complete or refused and the legacy one untouched; do chunks keep the text; is a search faithful and an answer grounded; is a report one experiment and a gate honest; is a live evaluation measured once; is PASS genuine | ingestion: 2 sources, 2 collections, 2 commands at once, 3 runs, 1 edit of the documents, 1 interruption; chunking: every document of up to 6 pieces, 5 configurations; answers: 3 chunks, 2 languages, the code's 6 attempts, 3 broken connections and 3 replies; evaluation: 2 runs, 1 change, 5 environments; live: 3 cases, 1 repair, outages of 2, 2 starts; one signal |
| `bootstrap_stuck` (violation) | does bootstrap fill every empty collection? | 1 command at a time, 1 interruption |

Two requests are enough for the races the run service can have: they meet only in
a key (the loser never owns a job), in the queue and in the pool, which one or
two workers make contended or parallel. One fault and one crash can each fall on
every step, and together in either order. Two turns are enough for the
sequence-number race, and the second sees the first's messages, of one or two
characters, against bounds of one message and one character; the bound on rows is
reached but not exceeded, it cuts the same way. Three calls are enough to search
twice and use one of the results. A range of days up to two behind a horizon of one
lies before it, behind it and across it, with sampled years that have all, some or
none of its days. Three entries with two kept reach the limit, and can repeat
or be unusable. With a threshold of two, three callers can report a failure late in
every state of the breaker. Two commands reach every pair of steps of the
bootstrap; a third run sees what an interrupted one left. A document of six pieces
has two sections with two overlapping windows, or a blank one between. Two evaluation
runs are one that was stopped and one that resumes, and an outage of two rows out of
three can begin at either. Deadlock is not checked: a system with no requests left, a
client with its whole log, or a command that ended, may stop.

The four violation runs are recorded under `findings`: a reconciled run has no
terminal event; of two concurrent turns of a session one can be lost after its run was
created; the expert plans around the stays of the first search while prices are those
of the last; and a collection whose creator was interrupted before its marker is
neither empty enough to be filled nor full enough to be used.

## Fairness

- `RunLifecycle`: weak fairness of each job's next step, of `SubmitRun`, of the
  pool picking up work, of `Boot` (compose restarts the container,
  `docker-compose.yml` `restart: unless-stopped`) and of `Reconcile`. None for
  clients, for the graph ending sooner than its recursion limit, or for shutdown.
- `EventStream`: the generator keeps polling, the network delivers, a client that
  has not seen the end reconnects. Nothing obliges a run to end.
- `StreamedRuns`: additionally the idle pool lets a stopping process exit, and
  strong fairness of a client's retry, since redeploys may keep interrupting it.
- `ChatTurns`: a request thread runs; model calls return or time out.
- the tool side and everything offline states safety only, so none is assumed there:
  a command, an evaluation or a provider may stop anywhere.

## Proofs

Every safety property that a run checks, and both refinements, are theorems; the proofs
hold for every value of the constants that their assumptions allow. The assumptions are
named and stand in the module that declares the constants, where TLC evaluates them.

### The run service and its clients

From `ConstantsOK`, for every number of requests, keys, workers, turns, crashes and
faults (`RunLifecycleProofs`, `RunApiProofs`):

- `Invariance`: `Spec => []IInv`. `IInv` is the type invariant, uniqueness of
  keys, queue and threads in step with the jobs, and per run: `StepInv` (where the
  request and the job stand determines what row and log hold), the shape of the
  log, agreement of log and row, agreement of status, result, error and flag, and
  what a reconciled run looks like. The safety properties are not inductive alone:
  that a terminal event names the status needs to know, before the event, that the
  job's remembered status is the stored one, and that nobody else writes the row.
  The latter is `job[c].run = c`: a job runs the run its own request inserted.
- `TypeCorrect`, `OneExecution`, `TerminalEventsAgree`, `LogsWellFormed`,
  `OutcomesAgree`, `ReconciliationIsHonest` follow from it.
- `PublishedIsFinal`, an action property: under `IInv` no action writes the row or
  log of a published run, except for the cancellation flag.
- `Implementation`: `Spec => Api!Spec`. `InsertRun` is `Accept`, `MarkRunning` is
  `Start`, `MarkTerminal` is `Finish`, `FailMark` is `Finish` or `Retract`, the
  terminal emits are `Publish`, `Reconcile` is `Interrupt`; the rest stutters.
- `EarlyCancelIsHonoured` and `CancelStopsTools` relate two moments. The first needs
  an invariant that starts to hold at the cancellation: `CancelledEarly` says that the
  job never stands behind the check of the flag, and that what it is about to store is
  `cancelled`. The second needs `UntouchedJobs`: a job no worker has seen has called
  nothing, so that a job that is picked up later does not count as a call.
- `BoundedRuns`: each transition of the graph pays for one tool call and two events
  (`Budget`, with `Owed`, the events a job may still write before it pays again), so
  that a run calls at most `MaxTurns` tools and writes at most `2 * MaxTurns + 2` events.
- `ReceivedOutcomesHold` (`StreamedRuns`): the proofs of `EventStream` are
  instantiated with the log the run service writes; its steps are stutters, appends or
  other streams' steps of the stream. `StreamedOK` asks for `MaxEvents >= 2 * MaxTurns + 2`,
  which `BoundedRuns` shows to be no restriction.

From `StreamConstantsOK`, for every number of clients, events and lost connections
(`EventStreamProofs`):

- `StreamInvariance`: `Spec => []StreamInv`. The order of what a client has is not
  inductive without the cursor: `CursorInv` says that what a client has plus what
  its wire carries ends exactly at `after_sequence`, and that a pending
  `Last-Event-ID` is the client's last event or unknown to an empty-handed client.
- `InOrder` and `EndIsComplete` follow.

### Chat turns

From `ChatConstantsOK`, for every number of turns, patches, failures, crashes and
corrections, any decisions of the chat model and any history (`ChatTurnsProofs`):

- `ChatInvariance`: `Spec => []ChatInv`. That a reply agrees with the transcript is
  not inductive alone: the invariant says where each thread stands (`Fits`), that one
  which is not answered has no row yet, that one which may still create a run has
  made none, that one about to persist knows which of the three answers it will
  store, and that the rows come in whole pairs, so that two more rows are one pair.
- `PairsAreWhole`, `RepliesAreTrue`, `ArabicIsAnswered` follow.
- `ChatImplementation`: `Spec => ImplementsChatLog`. A `PersistWrite` that is not
  refused is `Record`, `CreateRun` is `Revise`; the rest stutters. That the halves of
  `transcript` are a sequence that grew by one needs `WholePairs`.
- `HistoryIsHonest`: a context a thread holds was honest when it was built and stays so
  while others append (`HistoryInv`): the rows it shows are an unbroken stretch at the
  end of a prefix of the transcript. What `ContextRows` computes is described first: it
  filters, cuts to a number of messages and then to a number of characters.

### Tools and providers

From `EvidenceConstantsOK`, for any stays, prices and bounds (`ToolEvidenceProofs`):

- `EvidenceInvariance`: the properties, with two additions. What the task in flight
  carries was found and observed when it was opened, and no observation is made while it
  is open; every fare was asked for in the one currency of the trip.
- `NoInventedStay`, `CoherentPlans` and `OneQuoteSuffices` follow.

From `ToolsConstantsOK`, for any rates, time to live, horizon, answers, number of
callers, threshold and cool-down (`ToolsProofs`; the theorems are about `ToolsSpec`):

- `ProviderInvariance`: the cached rate is the one really received last (`RateInv`); a
  fetch is under way only where the cache was no hit when the call began, and an attempt
  costs at most its timeout and the cap of its wait (`CallInv`); who quotes a rate has
  it cached (`QuoteInv`). `HonestEnvelopes`, `CallsAreBounded` and the action
  properties `FxHitsAreFresh` and `RangesAreServed` follow.
- `FaithfulResults`: the entries kept of an answer are its first usable ones.
- `BreakerTripsInTime`: while closed, the counter *is* the number of failures in a row,
  whatever late reports say.
- `EvidenceBeside`: the evidence properties hold in the composed specification.

### Knowledge base

From `BootstrapConstantsOK`, for any corpora, collections, commands and interruptions, and
a rebuild that runs alone, which is the guard of `Begin` (`RagBootstrapProofs`):

- `BootInvariance`: where every command stands tells what its collection holds. One
  about to write the marker owns an empty collection without one, one about to upsert
  holds the marker of what it will upsert, and no two commands on a collection are
  both at the marker, since only the one whose `create_collection` succeeded gets there.
- `ReadyMeansComplete` (`ReadyIsComplete`) and `LegacyIsUntouched` (`LegacyUntouched`)
  follow; the latter because nothing deletes a protected collection, and an upsert into
  one that has chunks writes those very chunks again.

From `ChunksOK`, `QueriesOK` and `ScriptsOK` (`OfflineProofs`; the theorems are about
`OfflineSpec`, each component with an invariant of its own, joined in `OfflineInv`). They
hold for any window sizes, chunks, queries, model replies, questions, setups,
environments and cases, not only the ones TLC is given; the assumptions ask that windows
have a length, that a similarity ranks every point once, and that lists are lists.

- `FaithfulSearches` (`SearchIsFaithful`), for any finite set of chunks, any ranking of
  them, any fusion constant and any depth above what is asked for (the code asks for 3
  or 5 and fetches at least 20). The two rankings
  and the fused one are strict total orders (`DenseIsOrder`, `SparseIsOrder`,
  `FusedIsOrder`: fractions compare transitively). A member nearer the front of both lists,
  or in one where the other is in neither, scores more (`NearerIsMore`); and cutting a list
  to the depth before the marker is dropped loses nothing that the final cut keeps
  (`BestOfBest`), because the depth exceeds it by the one place the marker can take.
- `GroundedAnswersOnly` (`AnswersAreGrounded`), for any number of transient failures and
  repairs: what an answer cites was checked against items that are the search's, and
  a question about live data never gets as far as the model.
- `ChunkedTextIsKept` (`ChunksKeepText`), for a document of any length. `Chunked` says
  that every chunk is a window of one section, that each follows from its predecessor by
  one step or behind a blank window, and that every word behind which the next window
  starts is in a chunk. That a word's section is found by counting headings
  (`SectionsFacts`) is a count of a list's members (`ListsCount`).
- `OneExperimentReports` (`ReportIsOneExperiment`) and `GatesAreHonest` (`HonestGate`):
  the checkpoint holds rows of one fingerprint and of different questions, the run's rows
  carry the fingerprint of its own experiment, a resumed row is of the run's own
  experiment, and a row between evaluation and checkpoint is of a question the
  checkpoint lacks (`Evaluating`).
- `EvaluationsMeasuredOnce` (`MeasuredOnce`), for any length of outage and any bound on
  repairs: `Measuring` ties the counter of failures in a row to the broken end of the
  rows, so that the first outage of full length is the last row.
- `GenuinePasses` (`PassIsGenuine`): the evidence for a PASS is complete when it is
  judged and nothing in the unwinding changes it (`RoundTrip`); a child that runs is known,
  is about to be, or was started when the signal came (`Remembered`).

### How data is reasoned about

The library's induction theorems cannot be instantiated here, so a claim about every
position of a list is proved from a least counterexample (`Least`, `LeastExists`): the
set of positions where it fails, were it not empty, would have a least one. What a loop
of the code builds is for this reason a recursive *function* over positions (`Kept`,
`Chosen`, `ContextRows`, `Taken`), whose existence is the first lemma about it
(`TakenDef` and its like), or a set with an order where the code sorts and cuts.

### Only model-checked

Liveness (`EveryRunPublishes`, `EveryRunSettles`, `Delivered`, `FollowerLearnsOutcome`,
`TurnsAnswered`): fairness and `ENABLED` are beyond the prover.

## Assumptions about the environment

The graph, the chat model, System B, the MCP server, third-party APIs, Qdrant, the
language models and the children of phase 0 are external: they answer anything of the
right shape, late or never. SQLite transactions are atomic and durable; a Qdrant
request is atomic. One evaluation runs at a time, and a rebuild of a collection runs
alone. Clients may leave, resume or start over at will.

## Not modelled, and why

- `list_sessions` pages with an offset over rows that runs keep moving: a page is only
  of its moment and the code promises no more, so there is nothing to check.
- `fixture_decision_provider.py` is a stateless table of the demo mode; a property of it
  would restate its rows. Titles, redaction, fingerprints and record validation are
  wording and hashing.
- Configuration and entry point: parsing of the environment, wiring.
- The retrieval experiment and ground truth: averages in floating point over
  hand-written data. BM25 scores and embeddings are inputs of `Retrieval` likewise.
- Corpus, evaluation case builders, contracts: data and schemas.
- Agent card discovery, MCP session handshake, prompts, pacing of evaluations.
- `phase4.*`, `phase1.*`, `phase6.*` and System B live in other repositories.

## Other differences seen

Met while modelling, between code and text or between neighbouring parts of the code;
the models do what the code does.

Planning service and providers

- A half-open breaker lets every caller through; the comment says "exactly one probe"
  (`providers/policy.py:198`).
- The cancellation flag changes only the graph's `degraded` into `cancelled`; ADR 0015:79
  says it does so for `partial` and `unavailable` too (`service.py:101`).
- A language correction replaces intent and patch; the docstring says it only polishes
  the reply (`chat_service.py:545`, `565`).
- The FX cache is to live as long as the process, but each run makes its adapter
  (`service.py:49`, `fx_frankfurter.py:8`); after a failed fetch a rate of any age is
  served. A rate of 0 would be accepted, and divided by.
- A historical weather aggregate names all sampled years although short or empty ones
  contribute nothing; an archive answer that is no JSON object raises out of
  `fetch_weather` against its docstring (`weather_openmeteo.py:168`, `518`); live days
  are discarded if the archive fails; the source list always names geocoding.
- `_sanitize_passenger_count` turns 13 and more passengers into 1
  (`flights_serpapi.py:193`). `max_results` of the web search bounds the request, not
  the items kept.

Knowledge base

- Text before a document's first heading is dropped, against `chunking.py:66-69`.
- A rebuild can delete a collection between another command's `ensure_collection` and its
  upsert; only the operator prevents it. Files of removed sources stay on disk; a change of metadata alone
  does not change the fingerprint.
- In hybrid mode BM25 ignores the filter, and a hit it alone found has no source: its
  language is not checked and its citation names none.
- Rate-limit, URL and HTTP errors escape `answer()`, against point 8 of its docstring;
  five short 429s and then one broken connection reach the state that
  `llm_providers.py:408` calls unreachable.

Evaluations and phase 0

- A row of a transport failure is checkpointed and never evaluated again; the
  fingerprint leaves out `rrf.py`, `bm25.py`, `qdrant_store.py` and `chunking.py`; two
  evaluations on one checkpoint overwrite each other.
- A configuration error of Qwen is swallowed by the repair loop, so the gate can pass
  without a model; the smoke gate ignores role requirements and hallucinations, and a
  refusal may be the catalog's text (`run_smoke_eval.py`).
- `GEN_EVAL_REQUIRE_PROVIDER` is satisfied by the detected provider also when an override
  serves another.
- E.1V: a specialist outage counts as valid and resets the outage counter; a supervisor
  case that raised has no `expected_capability_scope`, so that the summary dies, and the
  one-shot guard forbids to repeat it (`run_e1v_live_qwen_eval.py:266-281`, `319-328`).
  E.1 leaves an old summary beside new partial results. Two starts at the same moment
  both pass a one-shot guard.
- `_terminate` promises cleanup on interruption (`verify.py:118`); a SIGTERM between
  `Popen` and the append, or after the handler is restored, leaves a child, and a missing
  interpreter, a half-written pid file and a probe's timeout escape as other exceptions.
