------------------------- MODULE RagBootstrapProofs -------------------------
(***************************************************************************)
(* The knowledge base is complete or refused, for any corpus, any number   *)
(* of collections, commands and interruptions: a collection that has       *)
(* chunks has all the chunks of one corpus, and a protected one that has   *)
(* chunks is never written.                                                *)
(*                                                                         *)
(* Neither is inductive alone.  What makes them so is where a command can  *)
(* stand: one about to write the marker owns an empty collection, one      *)
(* about to upsert holds the marker of what it will upsert, and one that   *)
(* may delete is alone.                                                    *)
(***************************************************************************)
EXTENDS RagBootstrap, TLAPS

Marks == [docs : [Sources -> Nat], config : Configs \cup {None}]
Collections == [made : BOOLEAN, marker : Marks, points : SUBSET UNION {ChunkSet(fp) : fp \in Marks}]

\* A command is a record of these fields; what it counted needs no type.
Shaped(c) ==
    c = [pc |-> c.pc, name |-> c.name, config |-> c.config, rebuild |-> c.rebuild,
         status |-> c.status, fp |-> c.fp, count |-> c.count, state |-> c.state, exit |-> c.exit]

Typed ==
    /\ files \in [Sources -> Nat]
    /\ coll \in [Names -> Collections]
    /\ cmd = [p \in Commands |-> cmd[p]] /\ \A p \in Commands : Shaped(cmd[p])

\* What there is of a collection was made as a whole.
CollectionInv(n) ==
    /\ ~coll[n].made => coll[n] = NoCollection
    /\ coll[n].points # {} => coll[n].points = ChunkSet(coll[n].marker)

\* Where a command stands tells what it found.
CommandInv(p) ==
    Running(p) =>
      /\ cmd[p].name \in Names /\ cmd[p].fp \in Marks /\ cmd[p].fp.config \in Configs
      /\ cmd[p].rebuild \in BOOLEAN /\ (cmd[p].rebuild => cmd[p].name \notin Protected)
      /\ cmd[p].pc = "delete" => cmd[p].rebuild
      /\ cmd[p].pc = "mark" =>
           Target(p).made /\ Target(p).marker = NoMark /\ Target(p).points = {}
      /\ cmd[p].pc = "upsert" => Target(p).made /\ Target(p).marker = cmd[p].fp

\* Two commands on one collection: none rebuilds it, and only one created it.
Apart(p, q) ==
    Running(p) /\ Running(q) /\ cmd[p].name = cmd[q].name =>
      /\ ~cmd[p].rebuild /\ ~cmd[q].rebuild
      /\ ~(cmd[p].pc = "mark" /\ cmd[q].pc = "mark")

BootInv ==
    /\ Typed
    /\ \A n \in Names : CollectionInv(n)
    /\ \A p \in Commands : CommandInv(p)
    /\ \A p, q \in Commands : p # q => Apart(p, q)

-----------------------------------------------------------------------------
\* Operators

LEMMA MarkTyped == NoMark \in Marks
BY DEF NoMark, Marks, Fingerprint

LEMMA NothingTyped == NoCollection \in Collections
BY MarkTyped DEF NoCollection, Collections

LEMMA FingerprintTyped ==
    ASSUME NEW docs \in [Sources -> Nat], NEW config \in Configs
    PROVE  Fingerprint(docs, config) \in Marks /\ Fingerprint(docs, config).config \in Configs
BY DEF Fingerprint, Marks

LEMMA MarkIsNobodys == ASSUME NEW fp, fp.config \in Configs PROVE fp # NoMark
BY BootstrapConstantsOK DEF NoMark, Fingerprint, None

\* Writing the chunks a collection has, or writing into an empty one, leaves
\* exactly the chunks written: ids of chunks tell them apart.
LEMMA ReplaceSame == ASSUME NEW new PROVE Replace(new, new) = new /\ Replace({}, new) = new
BY DEF Replace

-----------------------------------------------------------------------------
\* What a step does to the commands

\* Command p goes on to another place; its target and its task stay.
Moves(p, pc) ==
    /\ cmd' = [q \in Commands |-> cmd'[q]] /\ \A q \in Commands : Shaped(cmd'[q])
    /\ \A q \in Commands \ {p} : cmd'[q] = cmd[q]
    /\ cmd'[p].pc = pc /\ cmd'[p].name = cmd[p].name
    /\ cmd'[p].rebuild = cmd[p].rebuild /\ cmd'[p].fp = cmd[p].fp

LEMMA RecordMoves ==
    ASSUME Typed, NEW p \in Commands, NEW c, cmd' = [cmd EXCEPT ![p] = c], Shaped(c),
           c.name = cmd[p].name, c.rebuild = cmd[p].rebuild, c.fp = cmd[p].fp
    PROVE  Moves(p, c.pc)
<1>1. /\ cmd' = [q \in Commands |-> cmd'[q]] /\ \A q \in Commands \ {p} : cmd'[q] = cmd[q]
      /\ cmd'[p] = c
    BY DEF Typed
<1>2. \A q \in Commands : Shaped(cmd'[q]) BY <1>1 DEF Typed
<1>3. QED BY <1>1, <1>2 DEF Moves

LEMMA GotoMoves ==
    ASSUME Typed, NEW p \in Commands, NEW pc, Goto(p, pc) PROVE Moves(p, pc)
BY DEF Typed, Goto, Moves, Shaped

LEMMA ExitMoves ==
    ASSUME Typed, NEW p \in Commands, NEW code, Exit(p, code) PROVE Moves(p, "idle")
<1>1. PICK c : c = [cmd[p] EXCEPT !.pc = "idle", !.exit = code] OBVIOUS
<1>2. cmd' = [cmd EXCEPT ![p] = c] BY <1>1 DEF Typed, Exit
<1>3. Shaped(cmd[p]) BY DEF Typed
<1>4. c = [pc |-> "idle", name |-> cmd[p].name, config |-> cmd[p].config,
           rebuild |-> cmd[p].rebuild, status |-> cmd[p].status, fp |-> cmd[p].fp,
           count |-> cmd[p].count, state |-> cmd[p].state, exit |-> code]
    BY <1>1, <1>3 DEF Shaped
<1>5. /\ Shaped(c) /\ c.pc = "idle"
      /\ c.name = cmd[p].name /\ c.rebuild = cmd[p].rebuild /\ c.fp = cmd[p].fp
    BY <1>4 DEF Shaped
<1>6. Moves(p, c.pc) BY <1>2, <1>5, RecordMoves
<1>7. QED BY <1>5, <1>6

LEMMA DecideMoves ==
    ASSUME Typed, NEW p \in Commands, NEW state, Decide(p, state)
    PROVE  Moves(p, IF cmd[p].status THEN "idle" ELSE "ensure")
<1>1. PICK c : c = [cmd[p] EXCEPT !.state = state,
                                  !.pc = IF cmd[p].status THEN "idle" ELSE "ensure",
                                  !.exit = IF cmd[p].status THEN state ELSE None]
    OBVIOUS
<1>2. cmd' = [cmd EXCEPT ![p] = c] BY <1>1 DEF Typed, Decide
<1>3. Shaped(cmd[p]) BY DEF Typed
<1>4. c = [pc |-> IF cmd[p].status THEN "idle" ELSE "ensure",
           name |-> cmd[p].name, config |-> cmd[p].config,
           rebuild |-> cmd[p].rebuild, status |-> cmd[p].status, fp |-> cmd[p].fp,
           count |-> cmd[p].count, state |-> state,
           exit |-> IF cmd[p].status THEN state ELSE None]
    BY <1>1, <1>3 DEF Shaped
<1>5. /\ Shaped(c) /\ c.pc = IF cmd[p].status THEN "idle" ELSE "ensure"
      /\ c.name = cmd[p].name /\ c.rebuild = cmd[p].rebuild /\ c.fp = cmd[p].fp
    BY <1>4 DEF Shaped
<1>6. Moves(p, c.pc) BY <1>2, <1>5, RecordMoves
<1>7. QED BY <1>5, <1>6

-----------------------------------------------------------------------------
\* What a running command has to leave as its collection when it goes on to pc, for
\* itself and for the others that work on it.
Fits(p, pc, c) ==
    /\ ~c.made => c = NoCollection
    /\ c.points # {} => c.points = ChunkSet(c.marker)
    /\ pc = "delete" => cmd[p].rebuild
    /\ pc = "mark" => c.made /\ c.marker = NoMark /\ c.points = {}
    /\ pc = "upsert" => c.made /\ c.marker = cmd[p].fp
    /\ \A q \in Commands \ {p} : Running(q) /\ cmd[q].name = cmd[p].name =>
         /\ cmd[q].pc = "mark" => pc # "mark" /\ c.made /\ c.marker = NoMark /\ c.points = {}
         /\ cmd[q].pc = "upsert" => c.made /\ c.marker = cmd[q].fp

LEMMA StepKeeps ==
    ASSUME BootInv, NEW p \in Commands, Running(p), NEW pc, Moves(p, pc), NEW c \in Collections,
           files' = files, coll' = [coll EXCEPT ![cmd[p].name] = c], Fits(p, pc, c)
    PROVE  BootInv'
<1>1. Typed /\ CommandInv(p) BY DEF BootInv
<1>2. cmd[p].name \in Names BY <1>1 DEF CommandInv
<1>3. /\ coll'[cmd[p].name] = c
      /\ \A n \in Names : n # cmd[p].name => coll'[n] = coll[n]
    BY <1>1, <1>2 DEF Typed
<1>4. /\ cmd'[p].pc = pc /\ cmd'[p].name = cmd[p].name
      /\ cmd'[p].rebuild = cmd[p].rebuild /\ cmd'[p].fp = cmd[p].fp
      /\ \A q \in Commands \ {p} : cmd'[q] = cmd[q]
    BY DEF Moves
<1>5. Typed' BY <1>1, <1>2 DEF Typed, Moves
<1>6. \A n \in Names : CollectionInv(n)' BY <1>3 DEF BootInv, CollectionInv, Fits
<1>7. CommandInv(p)' BY <1>1, <1>3, <1>4 DEF CommandInv, Running, Target, Fits
<1>8. ASSUME NEW q \in Commands, q # p PROVE CommandInv(q)'
    <2>1. CommandInv(q) BY DEF BootInv
    <2>2. CASE cmd[q].name = cmd[p].name
        BY <1>3, <1>4, <1>8, <2>1, <2>2 DEF CommandInv, Running, Target, Fits
    <2>3. CASE cmd[q].name # cmd[p].name
        BY <1>3, <1>4, <1>8, <2>1, <2>3 DEF CommandInv, Running, Target
    <2>4. QED BY <2>2, <2>3
<1>9. ASSUME NEW q \in Commands, NEW r \in Commands, q # r PROVE Apart(q, r)'
    <2>1. Apart(q, r) BY <1>9 DEF BootInv
    <2>2. CASE q = p BY <1>4, <1>9, <2>1, <2>2 DEF Apart, Running, Fits
    <2>3. CASE r = p BY <1>4, <1>9, <2>1, <2>3 DEF Apart, Running, Fits
    <2>4. CASE q # p /\ r # p BY <1>4, <1>9, <2>1, <2>4 DEF Apart, Running
    <2>5. QED BY <2>2, <2>3, <2>4
<1>10. QED BY <1>5, <1>6, <1>7, <1>8, <1>9 DEF BootInv

\* A step that only looks.
LEMMA LookKeeps ==
    ASSUME BootInv, NEW p \in Commands, Running(p), NEW pc, Moves(p, pc),
           UNCHANGED <<files, coll>>, pc # "mark", pc = "delete" => cmd[p].rebuild,
           pc = "upsert" => Target(p).made /\ Target(p).marker = cmd[p].fp
    PROVE  BootInv'
<1>1. Typed /\ CommandInv(p) BY DEF BootInv
<1>2. cmd[p].name \in Names BY <1>1 DEF CommandInv
<1>3. PICK c \in Collections : c = Target(p) BY <1>1, <1>2 DEF Typed, Target
<1>4. coll' = [coll EXCEPT ![cmd[p].name] = c] /\ files' = files
    BY <1>1, <1>2, <1>3 DEF Typed, Target
<1>5. \A q \in Commands \ {p} : Running(q) /\ cmd[q].name = cmd[p].name =>
        /\ cmd[q].pc = "mark" => c.made /\ c.marker = NoMark /\ c.points = {}
        /\ cmd[q].pc = "upsert" => c.made /\ c.marker = cmd[q].fp
    BY <1>3 DEF BootInv, CommandInv, Target
<1>6. CollectionInv(cmd[p].name) BY <1>2 DEF BootInv
<1>7. Fits(p, pc, c) BY <1>3, <1>5, <1>6 DEF Fits, CollectionInv, Target
<1>8. QED BY <1>4, <1>7, StepKeeps

-----------------------------------------------------------------------------
\* The steps

LEMMA Here ==
    ASSUME BootInv, NEW p \in Commands, NEW pc, pc # "idle", Step(p, pc)
    PROVE  /\ Typed /\ Running(p) /\ cmd[p].pc = pc /\ files' = files
           /\ CommandInv(p) /\ CollectionInv(cmd[p].name)
           /\ cmd[p].name \in Names /\ cmd[p].fp \in Marks /\ cmd[p].fp.config \in Configs
           /\ Target(p) = coll[cmd[p].name] /\ Target(p) \in Collections
<1>1. Typed /\ Running(p) /\ cmd[p].pc = pc /\ files' = files /\ CommandInv(p)
    BY DEF BootInv, Step, Running
<1>2. cmd[p].name \in Names /\ cmd[p].fp \in Marks /\ cmd[p].fp.config \in Configs
    BY <1>1 DEF CommandInv
<1>3. QED BY <1>1, <1>2 DEF BootInv, Typed, Target

LEMMA StatusKeeps ==
    ASSUME BootInv, NEW p \in Commands, StatusList(p) \/ StatusCount(p) PROVE BootInv'
<1>1. CASE StatusList(p)
    <2>1. Step(p, "list") /\ coll' = coll BY <1>1 DEF StatusList
    <2>2. Typed /\ Running(p) /\ files' = files BY <2>1, Here
    <2>3. CASE Target(p).made
        <3>1. Moves(p, "count") BY <1>1, <2>2, <2>3, GotoMoves DEF StatusList
        <3>2. QED BY <2>1, <2>2, <3>1, LookKeeps
    <2>4. CASE ~Target(p).made
        <3>1. Moves(p, IF cmd[p].status THEN "idle" ELSE "ensure")
            BY <1>1, <2>2, <2>4, DecideMoves DEF StatusList
        <3>2. PICK pc \in {"idle", "ensure"} : Moves(p, pc) BY <3>1
        <3>3. QED BY <2>1, <2>2, <3>2, LookKeeps
    <2>5. QED BY <2>3, <2>4
<1>2. CASE StatusCount(p)
    <2>1. Step(p, "count") /\ coll' = coll BY <1>2 DEF StatusCount
    <2>2. Typed /\ Running(p) /\ files' = files BY <2>1, Here
    <2>3. CASE Target(p).made
        <3>1. PICK c : c = [cmd[p] EXCEPT !.pc = "marker", !.count = Count(Target(p))] OBVIOUS
        <3>2. cmd' = [cmd EXCEPT ![p] = c] BY <1>2, <2>2, <2>3, <3>1 DEF StatusCount, Typed
        <3>3. Shaped(cmd[p]) BY <2>2 DEF Typed
        <3>4. c = [pc |-> "marker", name |-> cmd[p].name, config |-> cmd[p].config,
                   rebuild |-> cmd[p].rebuild, status |-> cmd[p].status, fp |-> cmd[p].fp,
                   count |-> Count(Target(p)), state |-> cmd[p].state, exit |-> cmd[p].exit]
            BY <3>1, <3>3 DEF Shaped
        <3>5. /\ Shaped(c) /\ c.pc = "marker"
              /\ c.name = cmd[p].name /\ c.rebuild = cmd[p].rebuild /\ c.fp = cmd[p].fp
            BY <3>4 DEF Shaped
        <3>6. Moves(p, c.pc) BY <2>2, <3>2, <3>5, RecordMoves
        <3>7. Moves(p, "marker") BY <3>5, <3>6
        <3>8. QED BY <2>1, <2>2, <3>7, LookKeeps
    <2>4. CASE ~Target(p).made
        <3>1. Moves(p, "idle") BY <1>2, <2>2, <2>4, ExitMoves DEF StatusCount
        <3>2. QED BY <2>1, <2>2, <3>1, LookKeeps
    <2>5. QED BY <2>3, <2>4
<1>3. QED BY <1>1, <1>2

LEMMA StatusMarkerKeeps ==
    ASSUME BootInv, NEW p \in Commands, StatusMarker(p) PROVE BootInv'
<1>1. Step(p, "marker") /\ coll' = coll BY DEF StatusMarker
<1>2. Typed /\ Running(p) /\ files' = files BY <1>1, Here
<1>3. CASE \E code : Exit(p, code)
    <2>1. Moves(p, "idle") BY <1>2, <1>3, ExitMoves
    <2>2. QED BY <1>1, <1>2, <2>1, LookKeeps
<1>4. CASE Decide(p, "collection_empty")
    <2>1. Moves(p, IF cmd[p].status THEN "idle" ELSE "ensure") BY <1>2, <1>4, DecideMoves
    <2>2. PICK pc \in {"idle", "ensure"} : Moves(p, pc) BY <2>1
    <2>3. QED BY <1>1, <1>2, <2>2, LookKeeps
<1>5. CASE cmd[p].rebuild /\ cmd' = [cmd EXCEPT ![p].pc = "delete",
                                                ![p].state = "fingerprint_mismatch"]
    <2>1. PICK c : c = [cmd[p] EXCEPT !.pc = "delete", !.state = "fingerprint_mismatch"] OBVIOUS
    <2>2. cmd' = [cmd EXCEPT ![p] = c] BY <1>2, <1>5, <2>1 DEF Typed
    <2>3. Shaped(cmd[p]) BY <1>2 DEF Typed
    <2>4. c = [pc |-> "delete", name |-> cmd[p].name, config |-> cmd[p].config,
               rebuild |-> cmd[p].rebuild, status |-> cmd[p].status, fp |-> cmd[p].fp,
               count |-> cmd[p].count, state |-> "fingerprint_mismatch", exit |-> cmd[p].exit]
        BY <2>1, <2>3 DEF Shaped
    <2>5. /\ Shaped(c) /\ c.pc = "delete"
          /\ c.name = cmd[p].name /\ c.rebuild = cmd[p].rebuild /\ c.fp = cmd[p].fp
        BY <2>4 DEF Shaped
    <2>6. Moves(p, c.pc) BY <1>2, <2>2, <2>5, RecordMoves
    <2>7. Moves(p, "delete") BY <2>5, <2>6
    <2>8. QED BY <1>1, <1>2, <1>5, <2>7, LookKeeps
<1>6. QED BY <1>3, <1>4, <1>5 DEF StatusMarker

LEMMA DeleteKeeps ==
    ASSUME BootInv, NEW p \in Commands, Delete(p) PROVE BootInv'
<1>1. Step(p, "delete") BY DEF Delete
<1>2. Typed /\ Running(p) /\ files' = files BY <1>1, Here
<1>3. Moves(p, "ensure") BY <1>2, GotoMoves DEF Delete
<1>4. cmd[p].rebuild BY <1>1, Here DEF CommandInv
<1>5. \A q \in Commands \ {p} : ~(Running(q) /\ cmd[q].name = cmd[p].name)
    BY <1>2, <1>4 DEF BootInv, Apart
<1>6. Fits(p, "ensure", NoCollection) BY <1>5 DEF Fits, NoCollection
<1>7. coll' = [coll EXCEPT ![cmd[p].name] = NoCollection] BY DEF Delete, SetTarget
<1>8. QED BY <1>2, <1>3, <1>6, <1>7, NothingTyped, StepKeeps

LEMMA EnsureKeeps ==
    ASSUME BootInv, NEW p \in Commands, EnsureList(p) \/ Compare(p) \/ Recount(p) PROVE BootInv'
<1>1. CASE EnsureList(p)
    <2>1. Step(p, "ensure") /\ coll' = coll BY <1>1 DEF EnsureList
    <2>2. Typed /\ Running(p) /\ files' = files BY <2>1, Here
    <2>3. PICK pc \in {"compare", "create"} : Goto(p, pc) BY <1>1 DEF EnsureList
    <2>4. Moves(p, pc) BY <2>2, <2>3, GotoMoves
    <2>5. QED BY <2>1, <2>2, <2>4, LookKeeps
<1>2. CASE Compare(p)
    <2>1. Step(p, "compare") /\ coll' = coll BY <1>2 DEF Compare
    <2>2. Typed /\ Running(p) /\ files' = files BY <2>1, Here
    <2>3. CASE \E code : Exit(p, code)
        <3>1. Moves(p, "idle") BY <2>2, <2>3, ExitMoves
        <3>2. QED BY <2>1, <2>2, <3>1, LookKeeps
    <2>4. CASE Target(p).made /\ Target(p).marker = cmd[p].fp /\ Goto(p, "upsert")
        <3>1. Moves(p, "upsert") BY <2>2, <2>4, GotoMoves
        <3>2. QED BY <2>1, <2>2, <2>4, <3>1, LookKeeps
    <2>5. QED BY <1>2, <2>3, <2>4 DEF Compare
<1>3. CASE Recount(p)
    <2>1. Step(p, "recount") /\ coll' = coll BY <1>3 DEF Recount
    <2>2. Typed /\ Running(p) /\ files' = files BY <2>1, Here
    <2>3. Moves(p, "idle") BY <1>3, <2>2, ExitMoves DEF Recount
    <2>4. QED BY <2>1, <2>2, <2>3, LookKeeps
<1>4. QED BY <1>1, <1>2, <1>3

\* A collection that is not there is created by one command only: whoever else
\* was about to create it finds it made.
LEMMA CreateKeeps ==
    ASSUME BootInv, NEW p \in Commands, Create(p) PROVE BootInv'
<1>1. Step(p, "create") BY DEF Create
<1>2. Typed /\ Running(p) /\ files' = files /\ CollectionInv(cmd[p].name) BY <1>1, Here
<1>3. CASE Target(p).made
    <2>1. Moves(p, "idle") /\ coll' = coll BY <1>2, <1>3, ExitMoves DEF Create
    <2>2. QED BY <1>2, <2>1, LookKeeps
<1>4. CASE ~Target(p).made
    <2>1. Moves(p, "mark") BY <1>2, <1>4, GotoMoves DEF Create
    <2>2. PICK c : c = [NoCollection EXCEPT !.made = TRUE] OBVIOUS
    <2>3. c = [made |-> TRUE, marker |-> NoMark, points |-> {}] BY <2>2 DEF NoCollection
    <2>4. c \in Collections BY <2>3, MarkTyped DEF Collections
    <2>5. coll' = [coll EXCEPT ![cmd[p].name] = c] BY <1>4, <2>2 DEF Create, SetTarget
    <2>6. \A q \in Commands \ {p} : Running(q) /\ cmd[q].name = cmd[p].name =>
            cmd[q].pc \notin {"mark", "upsert"}
        BY <1>4 DEF BootInv, CommandInv, Target
    <2>7. Fits(p, "mark", c) BY <2>3, <2>6 DEF Fits
    <2>8. QED BY <1>2, <2>1, <2>4, <2>5, <2>7, StepKeeps
<1>5. QED BY <1>3, <1>4

LEMMA MarkKeeps ==
    ASSUME BootInv, NEW p \in Commands, Mark(p) PROVE BootInv'
<1>1. Step(p, "mark") BY DEF Mark
<1>2. /\ Typed /\ Running(p) /\ files' = files /\ cmd[p].pc = "mark" /\ CommandInv(p)
      /\ cmd[p].fp \in Marks /\ Target(p) \in Collections
    BY <1>1, Here
<1>3. Target(p).made /\ Target(p).marker = NoMark /\ Target(p).points = {}
    BY <1>2 DEF CommandInv
<1>4. Moves(p, "upsert") BY <1>2, <1>3, GotoMoves DEF Mark
<1>5. PICK c : c = [Target(p) EXCEPT !.marker = cmd[p].fp] OBVIOUS
<1>6. /\ c \in Collections /\ c.made /\ c.marker = cmd[p].fp /\ c.points = {}
    BY <1>2, <1>3, <1>5 DEF Collections
<1>7. coll' = [coll EXCEPT ![cmd[p].name] = c] BY <1>3, <1>5 DEF Mark, SetTarget
<1>8. \A q \in Commands \ {p} : Running(q) /\ cmd[q].name = cmd[p].name =>
        cmd[q].pc # "mark" /\ cmd[q].pc # "upsert"
    <2>1. ASSUME NEW q \in Commands \ {p}, Running(q), cmd[q].name = cmd[p].name
          PROVE  cmd[q].pc # "mark" /\ cmd[q].pc # "upsert"
        <3>1. Apart(p, q) /\ CommandInv(q) BY <2>1 DEF BootInv
        <3>2. cmd[q].pc # "mark" BY <1>2, <2>1, <3>1 DEF Apart
        <3>3. cmd[q].fp # NoMark BY <2>1, <3>1, MarkIsNobodys DEF CommandInv
        <3>4. Target(q) = Target(p) BY <2>1 DEF Target
        <3>5. QED BY <1>3, <2>1, <3>1, <3>2, <3>3, <3>4 DEF CommandInv
    <2>2. QED BY <2>1
<1>9. Fits(p, "upsert", c) BY <1>6, <1>8 DEF Fits
<1>10. QED BY <1>2, <1>4, <1>6, <1>7, <1>9, StepKeeps

\* Whatever was upserted before under this marker was the same chunks.
LEMMA UpsertWrites ==
    ASSUME BootInv, NEW p \in Commands, Upsert(p)
    PROVE  /\ Target(p).made /\ Target(p).marker = cmd[p].fp
           /\ SetTarget(p, [Target(p) EXCEPT !.points = ChunkSet(cmd[p].fp)])
<1>1. Step(p, "upsert") BY DEF Upsert
<1>2. /\ Running(p) /\ cmd[p].pc = "upsert" /\ CommandInv(p) /\ CollectionInv(cmd[p].name)
      /\ Target(p) = coll[cmd[p].name]
    BY <1>1, Here
<1>3. Target(p).made /\ Target(p).marker = cmd[p].fp BY <1>2 DEF CommandInv
<1>4. Target(p).points = {} \/ Target(p).points = ChunkSet(cmd[p].fp)
    BY <1>2, <1>3 DEF CollectionInv
<1>5. Replace(Target(p).points, ChunkSet(cmd[p].fp)) = ChunkSet(cmd[p].fp)
    BY <1>4, ReplaceSame
<1>6. QED BY <1>3, <1>5 DEF Upsert

LEMMA UpsertKeeps ==
    ASSUME BootInv, NEW p \in Commands, Upsert(p) PROVE BootInv'
<1>1. Step(p, "upsert") BY DEF Upsert
<1>2. /\ Typed /\ Running(p) /\ files' = files
      /\ cmd[p].fp \in Marks /\ Target(p) \in Collections
    BY <1>1, Here
<1>3. Target(p).made /\ Target(p).marker = cmd[p].fp BY UpsertWrites
<1>4. Moves(p, "recount") BY <1>2, <1>3, GotoMoves DEF Upsert
<1>5. PICK c : c = [Target(p) EXCEPT !.points = ChunkSet(cmd[p].fp)] OBVIOUS
<1>6. /\ c \in Collections /\ c.made /\ c.marker = cmd[p].fp
      /\ c.points = ChunkSet(c.marker)
    BY <1>2, <1>3, <1>5 DEF Collections
<1>7. coll' = [coll EXCEPT ![cmd[p].name] = c] BY <1>5, UpsertWrites DEF SetTarget
<1>8. \A q \in Commands \ {p} : Running(q) /\ cmd[q].name = cmd[p].name =>
        /\ cmd[q].pc # "mark"
        /\ cmd[q].pc = "upsert" => cmd[q].fp = cmd[p].fp
    <2>1. ASSUME NEW q \in Commands \ {p}, Running(q), cmd[q].name = cmd[p].name
          PROVE  cmd[q].pc # "mark" /\ (cmd[q].pc = "upsert" => cmd[q].fp = cmd[p].fp)
        <3>1. CommandInv(q) /\ CommandInv(p) BY DEF BootInv
        <3>2. cmd[p].fp # NoMark BY <1>2, <3>1, MarkIsNobodys DEF CommandInv
        <3>3. Target(q) = Target(p) BY <2>1 DEF Target
        <3>4. QED BY <1>3, <2>1, <3>1, <3>2, <3>3 DEF CommandInv
    <2>2. QED BY <2>1
<1>9. Fits(p, "recount", c) BY <1>6, <1>8 DEF Fits
<1>10. QED BY <1>2, <1>4, <1>6, <1>7, <1>9, StepKeeps

LEMMA InterruptKeeps ==
    ASSUME BootInv, NEW p \in Commands, Interrupt(p) PROVE BootInv'
<1>1. Typed /\ Running(p) /\ UNCHANGED <<files, coll>> BY DEF BootInv, Interrupt
<1>2. Moves(p, "idle") BY <1>1, ExitMoves DEF Interrupt
<1>3. QED BY <1>1, <1>2, LookKeeps

\* A command that begins has nothing yet; a rebuild begins alone and not on a
\* protected collection.
LEMMA BeginKeeps ==
    ASSUME BootInv, NEW p \in Commands, Begin(p) PROVE BootInv'
<1>1. Typed /\ UNCHANGED <<files, coll>> BY DEF BootInv, Begin
<1>2. PICK n \in Names, config \in Configs, rebuild \in BOOLEAN, status \in BOOLEAN :
         /\ status => ~rebuild
         /\ \A q \in Commands :
              Running(q) /\ cmd[q].name = n => ~rebuild /\ ~cmd[q].rebuild
         /\ cmd' = [cmd EXCEPT ![p] =
              [Idle EXCEPT !.pc = IF Refused(rebuild, n) THEN "idle" ELSE "list",
                           !.exit = IF Refused(rebuild, n) THEN "refused" ELSE None,
                           !.name = n, !.config = config, !.rebuild = rebuild,
                           !.status = status, !.fp = Fingerprint(files, config)]]
    BY Zenon DEF Begin
<1>3. PICK pc, exit, fp : /\ pc = (IF Refused(rebuild, n) THEN "idle" ELSE "list")
                         /\ exit = (IF Refused(rebuild, n) THEN "refused" ELSE None)
                         /\ fp = Fingerprint(files, config)
    OBVIOUS
<1>4. PICK c : c = [Idle EXCEPT !.pc = pc, !.exit = exit, !.name = n, !.config = config,
                                !.rebuild = rebuild, !.status = status, !.fp = fp]
    OBVIOUS
<1>5. c = [pc |-> pc, name |-> n, config |-> config, rebuild |-> rebuild, status |-> status,
           fp |-> fp, count |-> 0, state |-> None, exit |-> exit]
    BY <1>4 DEF Idle
<1>6. /\ Shaped(c) /\ c.pc = pc /\ c.name = n /\ c.rebuild = rebuild /\ c.fp = fp
    BY <1>5 DEF Shaped
<1>7. cmd' = [cmd EXCEPT ![p] = c] BY <1>2, <1>3, <1>4
<1>8. cmd'[p] = c /\ \A q \in Commands \ {p} : cmd'[q] = cmd[q]
    BY <1>1, <1>7 DEF Typed
<1>9. /\ pc \in {"idle", "list"} /\ (pc = "list" /\ rebuild => n \notin Protected)
      /\ fp \in Marks /\ fp.config \in Configs
    BY <1>1, <1>3, FingerprintTyped DEF Refused, Typed
<1>10. Typed' BY <1>1, <1>6, <1>7, <1>8 DEF Typed
<1>11. \A m \in Names : CollectionInv(m)' BY <1>1 DEF BootInv, CollectionInv
<1>12. CommandInv(p)' BY <1>1, <1>6, <1>8, <1>9 DEF CommandInv, Running
<1>13. ASSUME NEW q \in Commands, q # p PROVE CommandInv(q)'
    BY <1>1, <1>8, <1>13 DEF BootInv, CommandInv, Running, Target
<1>14. ASSUME NEW q \in Commands, NEW r \in Commands, q # r PROVE Apart(q, r)'
    <2>1. CASE q = p BY <1>2, <1>6, <1>8, <1>9, <1>14, <2>1 DEF Apart, Running
    <2>2. CASE r = p BY <1>2, <1>6, <1>8, <1>9, <1>14, <2>2 DEF Apart, Running
    <2>3. CASE q # p /\ r # p BY <1>8, <1>14, <2>3 DEF BootInv, Apart, Running
    <2>4. QED BY <2>1, <2>2, <2>3
<1>15. QED BY <1>10, <1>11, <1>12, <1>13, <1>14 DEF BootInv

\* Documents are only built while no command runs.
LEMMA BuildKeeps ==
    ASSUME BootInv, BuildDocuments PROVE BootInv'
<1>1. UNCHANGED <<coll, cmd>> BY DEF BuildDocuments
<1>2. files' \in [Sources -> Nat]
    <2>1. PICK docs \in [Sources -> Texts \cup {0}], written \in SUBSET Sources :
            files' = [s \in Sources |-> IF s \in written THEN docs[s] ELSE files[s]]
        BY DEF BuildDocuments
    <2>2. files \in [Sources -> Nat] BY DEF BootInv, Typed
    <2>3. Texts \cup {0} \subseteq Nat BY BootstrapConstantsOK
    <2>4. QED BY <2>1, <2>2, <2>3
<1>3. Typed' BY <1>1, <1>2 DEF BootInv, Typed
<1>4. QED BY <1>1, <1>3 DEF BootInv, CollectionInv, CommandInv, Apart, Running, Target

LEMMA BootInit == Init => BootInv
<1> SUFFICES ASSUME Init PROVE BootInv OBVIOUS
<1>1. FirstFiles \in [Sources -> Nat] BY DEF FirstFiles
<1>2. PICK config \in Configs :
        coll = [n \in Names |-> IF n \in Protected THEN Legacy(config) ELSE NoCollection]
    BY DEF Init
<1>3. Fingerprint(FirstFiles, config) \in Marks BY <1>1, FingerprintTyped
<1>4. /\ Legacy(config) \in Collections /\ Legacy(config).made
      /\ Legacy(config).points = ChunkSet(Legacy(config).marker)
    BY <1>3 DEF Legacy, Collections
<1>5. cmd = [p \in Commands |-> Idle] BY DEF Init
<1>6. Typed
    <2>1. coll \in [Names -> Collections] BY <1>2, <1>4, NothingTyped
    <2>2. Shaped(Idle) BY DEF Shaped, Idle
    <2>3. cmd = [p \in Commands |-> cmd[p]] /\ \A p \in Commands : Shaped(cmd[p])
        BY <1>5, <2>2
    <2>4. files \in [Sources -> Nat] BY <1>1 DEF Init
    <2>5. QED BY <2>1, <2>3, <2>4 DEF Typed
<1>7. \A n \in Names : CollectionInv(n)
    BY <1>2, <1>4 DEF CollectionInv, NoCollection
<1>8. \A p \in Commands : ~Running(p) BY <1>5 DEF Running, Idle
<1>9. QED BY <1>6, <1>7, <1>8 DEF BootInv, CommandInv, Apart

LEMMA BootNext == BootInv /\ [Next]_bootVars => BootInv'
<1> SUFFICES ASSUME BootInv, [Next]_bootVars PROVE BootInv' OBVIOUS
<1>1. CASE BuildDocuments BY <1>1, BuildKeeps
<1>2. ASSUME NEW p \in Commands, Command(p) PROVE BootInv'
    BY <1>2, BeginKeeps, StatusKeeps, StatusMarkerKeeps, DeleteKeeps, EnsureKeeps,
       CreateKeeps, MarkKeeps, UpsertKeeps, InterruptKeeps DEF Command
<1>3. CASE UNCHANGED bootVars
    BY <1>3 DEF bootVars, BootInv, Typed, CollectionInv, CommandInv, Apart, Running, Target
<1>4. QED BY <1>1, <1>2, <1>3 DEF Next

\* Where every command stands, in every reachable state (ingest_cli.cmd_bootstrap,
\* qdrant_store.ensure_collection).
THEOREM BootInvariance == Spec => []BootInv
BY BootInit, BootNext, PTL DEF Spec

-----------------------------------------------------------------------------
\* A collection that has chunks has all the chunks of the corpus its marker names,
\* whatever was interrupted and however many commands ran at once
\* (ingest_cli.cmd_bootstrap, qdrant_store.upsert_chunks).
THEOREM ReadyMeansComplete == Spec => []ReadyIsComplete
<1>1. BootInv => ReadyIsComplete BY DEF BootInv, CollectionInv, ReadyIsComplete
<1>2. QED BY <1>1, BootInvariance, PTL

LEMMA LegacyStep ==
    ASSUME BootInv, [Next]_bootVars, NEW n \in Protected, coll[n].points # {}
    PROVE  coll'[n] = coll[n]
<1>1. n \in Names BY BootstrapConstantsOK
<1>2. CASE BuildDocuments BY <1>2 DEF BuildDocuments
<1>3. ASSUME NEW p \in Commands, Command(p) PROVE coll'[n] = coll[n]
    <2>1. CASE Begin(p) BY <2>1 DEF Begin
    <2>2. CASE StatusList(p) \/ StatusCount(p) \/ StatusMarker(p)
        BY <2>2 DEF StatusList, StatusCount, StatusMarker
    <2>3. CASE EnsureList(p) \/ Compare(p) \/ Recount(p) \/ Interrupt(p)
        BY <2>3 DEF EnsureList, Compare, Recount, Interrupt
    <2>4. CASE Delete(p)
        <3>1. Step(p, "delete") BY <2>4 DEF Delete
        <3>2. CommandInv(p) /\ Running(p) /\ cmd[p].pc = "delete" BY <3>1, Here
        <3>3. cmd[p].name # n BY <3>2 DEF CommandInv
        <3>4. QED BY <1>1, <2>4, <3>3 DEF BootInv, Typed, Delete, SetTarget
    <2>5. CASE Create(p)
        <3>1. Step(p, "create") BY <2>5 DEF Create
        <3>2. CollectionInv(cmd[p].name) /\ Target(p) = coll[cmd[p].name] BY <3>1, Here
        <3>3. ~Target(p).made => cmd[p].name # n BY <3>2 DEF CollectionInv, NoCollection
        <3>4. QED BY <1>1, <2>5, <3>3 DEF BootInv, Typed, Create, SetTarget
    <2>6. CASE Mark(p)
        <3>1. Step(p, "mark") BY <2>6 DEF Mark
        <3>2. CommandInv(p) /\ Running(p) /\ cmd[p].pc = "mark" /\ Target(p) = coll[cmd[p].name]
            BY <3>1, Here
        <3>3. cmd[p].name # n BY <3>2 DEF CommandInv
        <3>4. QED BY <1>1, <2>6, <3>3 DEF BootInv, Typed, Mark, SetTarget
    <2>7. CASE Upsert(p)
        <3>1. Step(p, "upsert") BY <2>7 DEF Upsert
        <3>2. CollectionInv(cmd[p].name) /\ Target(p) = coll[cmd[p].name] /\ Target(p) \in Collections
            BY <3>1, Here
        <3>3. Target(p).marker = cmd[p].fp BY <2>7, UpsertWrites
        <3>4. CASE cmd[p].name = n
            <4>1. Target(p).points = ChunkSet(cmd[p].fp) BY <3>2, <3>3, <3>4 DEF CollectionInv
            <4>2. [Target(p) EXCEPT !.points = ChunkSet(cmd[p].fp)] = Target(p)
                BY <3>2, <4>1 DEF Collections
            <4>3. coll' = [coll EXCEPT ![n] = coll[n]]
                BY <2>7, <3>2, <3>4, <4>2, UpsertWrites DEF SetTarget
            <4>4. QED BY <1>1, <4>3 DEF BootInv, Typed
        <3>5. CASE cmd[p].name # n
            <4>1. PICK c : coll' = [coll EXCEPT ![cmd[p].name] = c]
                BY <2>7, UpsertWrites DEF SetTarget
            <4>2. QED BY <1>1, <3>5, <4>1 DEF BootInv, Typed
        <3>6. QED BY <3>4, <3>5
    <2>8. QED BY <1>3, <2>1, <2>2, <2>3, <2>4, <2>5, <2>6, <2>7 DEF Command
<1>4. CASE UNCHANGED bootVars BY <1>4 DEF bootVars
<1>5. QED BY <1>2, <1>3, <1>4 DEF Next

\* No command changes a protected collection that has chunks, with or without the
\* rebuild flag (ingest_cli.cmd_bootstrap, PROTECTED_LEGACY_COLLECTIONS).
THEOREM LegacyIsUntouched == Spec => LegacyUntouched
<1>1. BootInv /\ [Next]_bootVars =>
        [\A n \in Protected : coll[n].points # {} => coll'[n] = coll[n]]_bootVars
    BY LegacyStep
<1>2. QED BY <1>1, BootInvariance, PTL DEF Spec, LegacyUntouched
=============================================================================
