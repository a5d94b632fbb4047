---------------------------- MODULE RagBootstrap ----------------------------
(***************************************************************************)
(* The knowledge base: rag/build_documents.py writes the documents,        *)
(* rag/ingest_cli.py's status and bootstrap commands read and fill a       *)
(* collection of a Qdrant server, one request at a time.  A command can be *)
(* interrupted between any two requests: killed, or ended by a request     *)
(* that raises, whether or not the server carried it out.                  *)
(*                                                                         *)
(* A text is a number, and chunks into as many chunks as its value.        *)
(***************************************************************************)
EXTENDS Naturals, FiniteSets

CONSTANTS
    Sources,            \* source documents
    Texts,              \* contents a source can have; 0 stands for no document
    Configs,            \* chunk configurations
    Names, Protected,   \* collections, and PROTECTED_LEGACY_COLLECTIONS
    Commands,           \* processes running the command line
    MaxBuilds, MaxRuns, MaxInterrupts  \* bounds on builds, commands, interruptions

ASSUME BootstrapConstantsOK ==
    /\ Texts \subseteq Nat \ {0} /\ Protected \subseteq Names /\ "none" \notin Configs
    /\ {MaxBuilds, MaxRuns, MaxInterrupts} \subseteq Nat

VARIABLES
    files,      \* rag/documents: the text on disk of each source
    manifest,   \* rag/manifests/corpus_manifest.json: the texts it lists
    coll,       \* the server's collections
    cmd,        \* the command each process runs
    builds, runs, interrupts

bootVars == <<files, manifest, coll, cmd, builds, runs, interrupts>>

None == "none"

\* compute_fingerprint: the documents on disk and the chunk configuration.
Fingerprint(docs, config) == [docs |-> docs, config |-> config]

\* No fingerprint point: the fingerprint of no documents.
NoMark == Fingerprint([s \in Sources |-> 0], None)

\* chunk_id, with the text of the chunk.
Chunk(s, config, i, text) == [source |-> s, config |-> config, index |-> i, text |-> text]

\* The chunks of every document, as ingest_config makes them.
ChunkSet(fp) ==
    UNION { { Chunk(s, fp.config, i, fp.docs[s]) : i \in 1..fp.docs[s] } : s \in Sources }

NoCollection == [made |-> FALSE, marker |-> NoMark, points |-> {}]

Idle == [pc |-> "idle", name |-> None, config |-> None, rebuild |-> FALSE,
         status |-> FALSE, fp |-> NoMark, count |-> 0, state |-> None, exit |-> None]

\* A release ships documents, a marked collection of them and nothing else.
FirstFiles == [s \in Sources |-> 1]
Legacy(config) ==
    LET fp == Fingerprint(FirstFiles, config)
    IN [made |-> TRUE, marker |-> fp, points |-> ChunkSet(fp)]

Init ==
    /\ files = FirstFiles /\ manifest = FirstFiles
    /\ \E config \in Configs :
         coll = [n \in Names |-> IF n \in Protected THEN Legacy(config) ELSE NoCollection]
    /\ cmd = [p \in Commands |-> Idle]
    /\ builds = 0 /\ runs = 0 /\ interrupts = 0

Running(p) == cmd[p].pc # "idle"

----------------------------------------------------------------------------
\* build(): one file per source of DOCUMENTS, then the manifest.  The file of a
\* source that left DOCUMENTS stays.  A build that stops writes no manifest.
BuildDocuments ==
    /\ builds < MaxBuilds /\ \A p \in Commands : ~Running(p)
    /\ builds' = builds + 1
    /\ \E docs \in [Sources -> Texts \cup {0}], written \in SUBSET Sources :
         LET listed == { s \in Sources : docs[s] # 0 }
         IN /\ listed # {} /\ written \subseteq listed
            /\ files' = [s \in Sources |-> IF s \in written THEN docs[s] ELSE files[s]]
            /\ manifest' = IF written = listed THEN docs ELSE manifest
    /\ UNCHANGED <<coll, cmd, runs, interrupts>>

----------------------------------------------------------------------------
\* No name is protected.
RefusedNever(rebuild, n) == FALSE

\* The protected names are refused before any request.
Refused(rebuild, n) == rebuild /\ n \in Protected

\* main: a status or a bootstrap command.  An operator gives the rebuild flag
\* only while no other command works on the collection.
Begin(p) ==
    /\ ~Running(p) /\ runs < MaxRuns
    /\ \E n \in Names, config \in Configs, rebuild \in BOOLEAN, status \in BOOLEAN :
         /\ status => ~rebuild
         /\ \A q \in Commands :
              Running(q) /\ cmd[q].name = n => ~rebuild /\ ~cmd[q].rebuild
         /\ cmd' = [cmd EXCEPT ![p] =
              [Idle EXCEPT !.pc = IF Refused(rebuild, n) THEN "idle" ELSE "list",
                           !.exit = IF Refused(rebuild, n) THEN "refused" ELSE None,
                           !.name = n, !.config = config, !.rebuild = rebuild,
                           !.status = status, !.fp = Fingerprint(files, config)]]
    /\ runs' = runs + 1
    /\ UNCHANGED <<files, manifest, coll, builds, interrupts>>

Step(p, pc) == cmd[p].pc = pc /\ UNCHANGED <<files, manifest, builds, runs, interrupts>>

Goto(p, pc) == cmd' = [cmd EXCEPT ![p].pc = pc]
Exit(p, code) == cmd' = [cmd EXCEPT ![p].pc = "idle", ![p].exit = code]

Target(p) == coll[cmd[p].name]
SetTarget(p, c) == coll' = [coll EXCEPT ![cmd[p].name] = c]

\* What the command does next in a state that is neither ready nor mismatched.
Decide(p, state) ==
    cmd' = [cmd EXCEPT ![p].state = state,
                       ![p].pc = IF cmd[p].status THEN "idle" ELSE "ensure",
                       ![p].exit = IF cmd[p].status THEN state ELSE None]

\* _collection_status: is the collection there ...
StatusList(p) ==
    /\ Step(p, "list") /\ UNCHANGED coll
    /\ IF Target(p).made THEN Goto(p, "count") ELSE Decide(p, "collection_missing")

Count(c) == Cardinality(c.points) + IF c.marker = NoMark THEN 0 ELSE 1

\* ... how many points has it ...
StatusCount(p) ==
    /\ Step(p, "count") /\ UNCHANGED coll
    /\ IF Target(p).made
         THEN cmd' = [cmd EXCEPT ![p].pc = "marker", ![p].count = Count(Target(p))]
         ELSE Exit(p, "error")

\* ... and what does its marker say.  Only the fingerprint point, or nothing,
\* counts as empty.
StatusMarker(p) ==
    /\ Step(p, "marker") /\ UNCHANGED coll
    /\ IF ~Target(p).made THEN Exit(p, "error")
       ELSE IF cmd[p].count <= 1 THEN Decide(p, "collection_empty")
       ELSE IF Target(p).marker = cmd[p].fp THEN Exit(p, "ready")
       ELSE IF cmd[p].rebuild
              THEN cmd' = [cmd EXCEPT ![p].pc = "delete", ![p].state = "fingerprint_mismatch"]
              ELSE Exit(p, "mismatch")

Delete(p) ==
    /\ Step(p, "delete")
    /\ SetTarget(p, NoCollection) /\ Goto(p, "ensure")

\* ensure_collection: create and mark a missing collection, or compare the marker.
EnsureList(p) ==
    /\ Step(p, "ensure") /\ UNCHANGED coll
    /\ Goto(p, IF Target(p).made THEN "compare" ELSE "create")

Create(p) ==
    /\ Step(p, "create")
    /\ IF Target(p).made
         THEN Exit(p, "error") /\ UNCHANGED coll
         ELSE Goto(p, "mark") /\ SetTarget(p, [NoCollection EXCEPT !.made = TRUE])

Mark(p) ==
    /\ Step(p, "mark")
    /\ IF Target(p).made
         THEN Goto(p, "upsert") /\ SetTarget(p, [Target(p) EXCEPT !.marker = cmd[p].fp])
         ELSE Exit(p, "error") /\ UNCHANGED coll

\* The marker is not compared.
CompareNever(p) ==
    /\ Step(p, "compare") /\ UNCHANGED coll
    /\ IF Target(p).made THEN Goto(p, "upsert") ELSE Exit(p, "error")

Compare(p) ==
    /\ Step(p, "compare") /\ UNCHANGED coll
    /\ IF ~Target(p).made THEN Exit(p, "error")
       ELSE IF Target(p).marker = cmd[p].fp THEN Goto(p, "upsert")
       ELSE Exit(p, "fail_closed")

\* Points are replaced by id: source, configuration and index.
Replace(points, new) ==
    { x \in points : \A y \in new :
        <<x.source, x.config, x.index>> # <<y.source, y.config, y.index>> } \cup new

\* upsert_chunks writes every chunk in one request.
Upsert(p) ==
    /\ Step(p, "upsert")
    /\ IF Target(p).made
         THEN /\ Goto(p, "recount")
              /\ SetTarget(p, [Target(p) EXCEPT
                                 !.points = Replace(@, ChunkSet(cmd[p].fp))])
         ELSE Exit(p, "error") /\ UNCHANGED coll

Recount(p) ==
    /\ Step(p, "recount") /\ UNCHANGED coll
    /\ Exit(p, IF Target(p).made THEN "done" ELSE "error")

\* The process dies, or the request it has just sent raises.
Interrupt(p) ==
    /\ Running(p) /\ interrupts < MaxInterrupts
    /\ interrupts' = interrupts + 1
    /\ Exit(p, "interrupted")
    /\ UNCHANGED <<files, manifest, coll, builds, runs>>

Command(p) ==
    \/ Begin(p)
    \/ StatusList(p) \/ StatusCount(p) \/ StatusMarker(p)
    \/ Delete(p) \/ EnsureList(p) \/ Create(p) \/ Mark(p) \/ Compare(p)
    \/ Upsert(p) \/ Recount(p)
    \/ Interrupt(p)

Next == BuildDocuments \/ \E p \in Commands : Command(p)

Spec == Init /\ [][Next]_bootVars

----------------------------------------------------------------------------
\* A collection that has chunks has exactly the chunks its marker stands for: all
\* of them, of one corpus and one configuration, whatever was interrupted and
\* however many commands ran at once.  System B answers from it.
ReadyIsComplete ==
    \A n \in Names : coll[n].points # {} => coll[n].points = ChunkSet(coll[n].marker)

\* No command ever changes a protected collection that has chunks.
LegacyUntouched ==
    [][\A n \in Protected : coll[n].points # {} => coll'[n] = coll[n]]_bootVars

\* rag/ingest_cli.py:15-18: bootstrap ingests the corpus "if the target collection
\* is missing or empty".  (Checked to be violated: a collection whose creator was
\* interrupted before the marker holds no point at all, counts as empty, and is
\* refused by every later bootstrap.)
EmptyIsBootstrapped ==
    \A p \in Commands :
        ~(cmd[p].exit = "fail_closed" /\ cmd[p].state = "collection_empty" /\ cmd[p].count = 0)
=============================================================================
