-------------------------- MODULE ChatTurnsProofs --------------------------
(***************************************************************************)
(* What a client of handle_chat_turn is told is what the transcript holds, *)
(* and the session grows as ChatLog allows, for any number of turns,       *)
(* repairs, corrections, crashes and faults, any decisions of the model    *)
(* and any history.  The history the model is shown is a gapless stretch   *)
(* of what counts as context, within its bounds.                           *)
(***************************************************************************)
EXTENDS ChatTurns, SequenceTheorems, WellFoundedInduction, TLAPS

RunRow == [trip : (SUBSET Patches) \cup {NoTrip}, by : Turns \cup {NoTurn}]

Working == {"guard", "history", "query", "classify", "language", "resolve", "create"}
Persisting == {"persist_read", "persist_write"}
Stored == {"ok", "rejected", "unavailable"}

FieldNames == {"pc", "run", "arabic", "context", "tries", "decision", "made", "seen", "plan",
               "reply"}

\* A thread is a record of these fields; what its context holds does not matter here.
Fields(x) == x = [f \in FieldNames |-> x[f]]

HasRun(t) == \E i \in DOMAIN runs : runs[i].by = t

Told(t, reply) ==
    \E i \in DOMAIN transcript :
        /\ transcript[i].turn = t
        /\ transcript[i].status = StatusFor[reply]
        /\ transcript[i].included <=> reply = "ok"

\* The thread of turn t is at x: until it creates its run there is none, until it
\* is answered there is no row of it, and an answer agrees with its rows.
Fits(t, x) ==
    /\ Fields(x) /\ x.decision \in Decision /\ x.arabic \in BOOLEAN
    /\ x.pc \in {"idle", "replied", "lost"} \cup ThreadPcs
    /\ x.pc \in {"idle"} \cup Working => ~HasRun(t)
    /\ x.pc \in Working => x.run \in DOMAIN runs
    /\ x.pc = "create" => runs[x.run].trip # NoTrip
    /\ x.pc \in {"resolve", "create"} => (x.arabic => x.decision.arabic)
    /\ x.pc \in Persisting => x.plan \in Stored
    /\ x.pc # "replied" => x.reply = "none" /\ ~Recorded(t)
    /\ x.reply \in Stored => Told(t, x.reply)
    /\ x.reply \in {"denied", "error"} => ~Recorded(t)

ChatInv ==
    /\ runs \in Seq(RunRow)
    /\ transcript \in Seq(Row)
    /\ WholePairs
    /\ turn = [t \in Turns |-> turn[t]]
    /\ \A t \in Turns : Fits(t, turn[t])

LEMMA NoDecisionTyped == NoDecision \in Decision /\ Decisions \subseteq Decision
BY ChatConstantsOK DEF NoDecision, Decision, ChatConstantsOK

LEMMA FallbackTyped == ASSUME NEW arabic \in BOOLEAN PROVE Fallback(arabic) \in Decision
<1>1. PICK d : d = NoDecision OBVIOUS
<1>2. d \in Decision BY <1>1, NoDecisionTyped
<1>3. [d EXCEPT !.arabic = arabic] \in Decision BY <1>2 DEF Decision
<1>4. QED BY <1>1, <1>3 DEF Fallback

LEMMA FirstRunsTyped == FirstRuns \subseteq Seq(RunRow)
<1>1. ASSUME NEW trip \in {{}, NoTrip} PROVE <<[trip |-> trip, by |-> NoTurn]>> \in Seq(RunRow)
    <2>1. [trip |-> trip, by |-> NoTurn] \in RunRow BY DEF RunRow
    <2>2. QED BY <2>1
<1>2. QED BY <1>1 DEF FirstRuns

LEMMA ChatInit == Init => ChatInv
<1> SUFFICES ASSUME Init PROVE ChatInv OBVIOUS
<1>1. runs \in Seq(RunRow) BY FirstRunsTyped DEF Init
<1>2. transcript \in Seq(Row) /\ DOMAIN transcript = {} /\ Len(transcript) = 0
    BY DEF Init
<1>3. WholePairs BY <1>2 DEF WholePairs
<1>4. ASSUME NEW t \in Turns PROVE Fits(t, turn[t])
    <2>1. turn[t] = NewTurn BY DEF Init
    <2>2. ~HasRun(t)
        BY ChatConstantsOK DEF Init, FirstRuns, HasRun, ChatConstantsOK
    <2>3. ~Recorded(t) BY <1>2 DEF Recorded
    <2>4. Fields(NewTurn) BY DEF Fields, FieldNames, NewTurn
    <2>5. QED
        BY <2>1, <2>2, <2>3, <2>4, NoDecisionTyped
        DEF Fits, NewTurn, Working, Persisting, Stored, ThreadPcs
<1>5. QED BY <1>1, <1>2, <1>3, <1>4 DEF ChatInv, Init

-----------------------------------------------------------------------------
\* A thread that moves on without the database keeps the invariant if it is where it
\* may be.
LEMMA MoveKeeps ==
    ASSUME ChatInv, NEW t \in Turns, NEW x, UNCHANGED <<runs, transcript>>,
           turn' = [turn EXCEPT ![t] = x], Fits(t, x)
    PROVE  ChatInv'
<1>1. UNCHANGED <<runs, transcript>> /\ turn' = [turn EXCEPT ![t] = x] OBVIOUS
<1>2. turn' = [u \in Turns |-> turn'[u]] BY <1>1 DEF ChatInv
<1>3. ASSUME NEW u \in Turns PROVE Fits(u, turn'[u])
    BY <1>1 DEF ChatInv
<1>4. ASSUME NEW u \in Turns PROVE Fits(u, turn[u])'
    BY <1>1, <1>3 DEF Fits, Fields, HasRun, Told, Recorded
<1>5. QED BY <1>1, <1>2, <1>4 DEF ChatInv, WholePairs

LEMMA BecomesKeeps ==
    ASSUME ChatInv, NEW t \in Turns, NEW x, Becomes(t, x), Fits(t, x)
    PROVE  ChatInv'
<1>1. UNCHANGED <<runs, transcript>> /\ turn' = [turn EXCEPT ![t] = x] BY DEF Becomes
<1>2. QED BY <1>1, MoveKeeps

LEMMA NewTurnFields ==
    Fields(NewTurn) /\ NewTurn.decision \in Decision /\ NewTurn.arabic \in BOOLEAN
    /\ NewTurn.plan = "none" /\ NewTurn.reply = "none"
BY NoDecisionTyped DEF Fields, FieldNames, NewTurn

LEMMA PlannedFields ==
    ASSUME NEW t, NEW plan
    PROVE  /\ Fields(Planned(t, plan)) /\ Planned(t, plan).decision \in Decision
           /\ Planned(t, plan).arabic \in BOOLEAN
           /\ Planned(t, plan).pc = "persist_read" /\ Planned(t, plan).plan = plan
           /\ Planned(t, plan).reply = "none"
BY NewTurnFields DEF Planned, Fields, FieldNames

\* A turn that is answered without a row, or given up.
LEMMA UnrecordedFits ==
    ASSUME ChatInv, NEW t \in Turns, turn[t].pc # "replied", NEW x, Fields(x),
           x.decision \in Decision, x.arabic \in BOOLEAN,
           \/ x.pc = "replied" /\ x.reply \in {"denied", "error"}
           \/ x.pc = "lost" /\ x.reply = "none"
    PROVE  Fits(t, x)
<1>1. ~Recorded(t) BY DEF ChatInv, Fits
<1>2. QED BY <1>1 DEF Fits, Working, Persisting, Stored, ThreadPcs

\* A turn whose answer is decided and is only to be stored.
LEMMA PersistingFits ==
    ASSUME ChatInv, NEW t \in Turns, turn[t].pc # "replied", NEW x, Fields(x),
           x.decision \in Decision, x.arabic \in BOOLEAN, x.pc \in Persisting,
           x.plan \in Stored, x.reply = "none"
    PROVE  Fits(t, x)
<1>1. ~Recorded(t) BY DEF ChatInv, Fits
<1>2. QED BY <1>1 DEF Fits, Working, Persisting, Stored, ThreadPcs

LEMMA PlanKeeps ==
    ASSUME ChatInv, NEW t \in Turns, turn[t].pc # "replied", NEW plan \in Stored,
           Becomes(t, Planned(t, plan))
    PROVE  ChatInv'
<1>1. Fits(t, Planned(t, plan)) BY PlannedFields, PersistingFits DEF Persisting
<1>2. QED BY <1>1, BecomesKeeps

\* A thread that stays before its run, with another decision, context or count.
LEMMA WorkingFits ==
    ASSUME ChatInv, NEW t \in Turns, turn[t].pc \in {"idle"} \cup Working,
           NEW x, Fields(x), x.pc \in Working, x.run \in DOMAIN runs,
           x.decision \in Decision, x.arabic \in BOOLEAN, x.reply = turn[t].reply,
           x.pc = "create" => runs[x.run].trip # NoTrip,
           x.pc \in {"resolve", "create"} => (x.arabic => x.decision.arabic)
    PROVE  Fits(t, x)
<1>1. Fits(t, turn[t]) BY DEF ChatInv
<1>2. x.reply = "none" /\ ~Recorded(t) /\ ~HasRun(t) BY <1>1 DEF Fits, Working
<1>3. QED BY <1>2 DEF Fits, Working, Persisting, Stored, ThreadPcs

LEMMA WorkKeeps ==
    ASSUME ChatInv, NEW t \in Turns, turn[t].pc \in {"idle"} \cup Working,
           NEW x, Fields(x), x.pc \in Working, x.run \in DOMAIN runs,
           x.decision \in Decision, x.arabic \in BOOLEAN, x.reply = turn[t].reply,
           x.pc = "create" => runs[x.run].trip # NoTrip,
           x.pc \in {"resolve", "create"} => (x.arabic => x.decision.arabic), Becomes(t, x)
    PROVE  ChatInv'
BY WorkingFits, BecomesKeeps

-----------------------------------------------------------------------------
LEMMA LookUpKeeps == ASSUME ChatInv, NEW t \in Turns, LookUp(t) PROVE ChatInv'
<1>1. turn[t].pc = "idle" BY DEF LookUp, At
<1>2. Fits(t, turn[t]) BY DEF ChatInv
<1>3. ASSUME NEW r \in DOMAIN runs, NEW arabic \in BOOLEAN,
             Becomes(t, [turn[t] EXCEPT !.pc = "guard", !.run = r, !.arabic = arabic])
      PROVE  ChatInv'
    <2> DEFINE x == [turn[t] EXCEPT !.pc = "guard", !.run = r, !.arabic = arabic]
    <2>1. Fields(x) /\ x.pc = "guard" /\ x.run = r /\ x.decision = turn[t].decision
            /\ x.reply = turn[t].reply /\ x.arabic = arabic
        BY <1>2 DEF Fits, Fields, FieldNames
    <2>2. QED BY <1>1, <1>2, <1>3, <2>1, WorkKeeps DEF Fits, Working
<1>4. CASE Becomes(t, [turn[t] EXCEPT !.pc = "replied", !.reply = "denied"])
    <2> DEFINE x == [turn[t] EXCEPT !.pc = "replied", !.reply = "denied"]
    <2>1. Fields(x) /\ x.pc = "replied" /\ x.reply = "denied" /\ x.decision = turn[t].decision
            /\ x.arabic = turn[t].arabic
        BY <1>2 DEF Fits, Fields, FieldNames
    <2>2. Fits(t, x) BY <1>1, <1>2, <2>1 DEF Fits, Working, Persisting, Stored
    <2>3. QED BY <1>4, <2>2, BecomesKeeps
<1>5. QED BY <1>3, <1>4 DEF LookUp

\* What a working thread knows of itself.
LEMMA WorkingKnows ==
    ASSUME ChatInv, NEW t \in Turns, turn[t].pc \in Working
    PROVE  Fields(turn[t]) /\ turn[t].decision \in Decision /\ turn[t].arabic \in BOOLEAN
             /\ turn[t].run \in DOMAIN runs /\ turn[t].pc # "replied"
BY DEF ChatInv, Fits, Working

LEMMA CheckMessageKeeps == ASSUME ChatInv, NEW t \in Turns, CheckMessage(t) PROVE ChatInv'
<1>1. turn[t].pc = "guard" /\ turn[t].pc \in Working BY DEF CheckMessage, At, Working
<1>2. CASE Becomes(t, Planned(t, "rejected")) BY <1>1, <1>2, PlanKeeps DEF Stored
<1>3. CASE Becomes(t, [turn[t] EXCEPT !.pc = "history"])
    <2> DEFINE x == [turn[t] EXCEPT !.pc = "history"]
    <2>1. Fields(x) /\ x.pc = "history" /\ x.run = turn[t].run /\ x.decision = turn[t].decision
            /\ x.reply = turn[t].reply /\ x.arabic = turn[t].arabic
        BY <1>1, WorkingKnows DEF Fields, FieldNames
    <2>2. QED BY <1>1, <1>3, <2>1, WorkingKnows, WorkKeeps DEF Working
<1>4. QED BY <1>2, <1>3 DEF CheckMessage

LEMMA LoadHistoryKeeps == ASSUME ChatInv, NEW t \in Turns, LoadHistory(t) PROVE ChatInv'
<1>1. turn[t].pc = "history" /\ turn[t].pc \in Working BY DEF LoadHistory, At, Working
<1>2. PICK history : Becomes(t, [turn[t] EXCEPT !.pc = "query", !.context = history])
    BY DEF LoadHistory
<1> DEFINE x == [turn[t] EXCEPT !.pc = "query", !.context = history]
<1>3. Fields(x) /\ x.pc = "query" /\ x.run = turn[t].run /\ x.decision = turn[t].decision
        /\ x.reply = turn[t].reply /\ x.arabic = turn[t].arabic
    BY <1>1, WorkingKnows DEF Fields, FieldNames
<1>4. QED BY <1>1, <1>2, <1>3, WorkingKnows, WorkKeeps DEF Working

LEMMA AnswerFromStateKeeps ==
    ASSUME ChatInv, NEW t \in Turns, AnswerFromState(t) PROVE ChatInv'
<1>1. turn[t].pc = "query" /\ turn[t].pc \in Working BY DEF AnswerFromState, At, Working
<1>2. CASE Becomes(t, Planned(t, "ok")) BY <1>1, <1>2, PlanKeeps DEF Stored
<1>3. CASE Becomes(t, [turn[t] EXCEPT !.pc = "classify"])
    <2> DEFINE x == [turn[t] EXCEPT !.pc = "classify"]
    <2>1. Fields(x) /\ x.pc = "classify" /\ x.run = turn[t].run /\ x.decision = turn[t].decision
            /\ x.reply = turn[t].reply /\ x.arabic = turn[t].arabic
        BY <1>1, WorkingKnows DEF Fields, FieldNames
    <2>2. QED BY <1>1, <1>3, <2>1, WorkingKnows, WorkKeeps DEF Working
<1>4. QED BY <1>2, <1>3 DEF AnswerFromState

LEMMA ClassifyKeeps == ASSUME ChatInv, NEW t \in Turns, Classify(t) PROVE ChatInv'
<1>1. turn[t].pc = "classify" /\ turn[t].pc \in Working BY DEF Classify, At, Working
<1> DEFINE again == [turn[t] EXCEPT !.tries = @ + 1]
<1>2. Fields(again) /\ again.pc = "classify" /\ again.run = turn[t].run
        /\ again.decision = turn[t].decision /\ again.reply = turn[t].reply /\ again.arabic = turn[t].arabic
    BY <1>1, WorkingKnows DEF Fields, FieldNames
<1>3. CASE Becomes(t, again)
    BY <1>1, <1>2, <1>3, WorkingKnows, WorkKeeps DEF Working
<1>4. ASSUME NEW d \in Decision,
             Becomes(t, [turn[t] EXCEPT !.pc = "language", !.decision = d, !.tries = 0])
      PROVE  ChatInv'
    <2> DEFINE x == [turn[t] EXCEPT !.pc = "language", !.decision = d, !.tries = 0]
    <2>1. Fields(x) /\ x.pc = "language" /\ x.run = turn[t].run /\ x.decision = d
            /\ x.reply = turn[t].reply /\ x.arabic = turn[t].arabic
        BY <1>1, WorkingKnows DEF Fields, FieldNames
    <2>2. QED BY <1>1, <1>4, <2>1, WorkingKnows, WorkKeeps DEF Working
<1>5. CASE Becomes(t, [turn[t] EXCEPT !.pc = "language", !.tries = 0,
                         !.decision = Fallback(turn[t].arabic)])
    <2> DEFINE x == [turn[t] EXCEPT !.pc = "language", !.tries = 0,
                                    !.decision = Fallback(turn[t].arabic)]
    <2>1. Fields(x) /\ x.pc = "language" /\ x.run = turn[t].run
            /\ x.decision = Fallback(turn[t].arabic) /\ x.reply = turn[t].reply /\ x.arabic = turn[t].arabic
        BY <1>1, WorkingKnows DEF Fields, FieldNames
    <2>2. QED BY <1>1, <1>5, <2>1, WorkingKnows, WorkKeeps, FallbackTyped DEF Working
<1>6. CASE Becomes(t, Planned(t, "unavailable")) BY <1>1, <1>6, PlanKeeps DEF Stored
<1>7. QED BY <1>3, <1>4, <1>5, <1>6, NoDecisionTyped DEF Classify

LEMMA ResolvePatchKeeps == ASSUME ChatInv, NEW t \in Turns, ResolvePatch(t) PROVE ChatInv'
<1>1. turn[t].pc = "resolve" /\ turn[t].pc \in Working BY DEF ResolvePatch, At, Working
<1>2. CASE Becomes(t, Planned(t, "ok")) BY <1>1, <1>2, PlanKeeps DEF Stored
<1>3. CASE AsksForRun(turn[t].decision, Trip(t))
             /\ Becomes(t, [turn[t] EXCEPT !.pc = "create"])
    <2> DEFINE x == [turn[t] EXCEPT !.pc = "create"]
    <2>1. Fields(x) /\ x.pc = "create" /\ x.run = turn[t].run /\ x.decision = turn[t].decision
            /\ x.reply = turn[t].reply /\ x.arabic = turn[t].arabic
        BY <1>1, WorkingKnows DEF Fields, FieldNames
    <2>2. runs[x.run].trip # NoTrip /\ (x.arabic => x.decision.arabic)
        BY <1>1, <1>3, <2>1 DEF AsksForRun, Trip, ChatInv, Fits
    <2>3. QED BY <1>1, <1>3, <2>1, <2>2, WorkingKnows, WorkKeeps DEF Working
<1>4. QED BY <1>2, <1>3 DEF ResolvePatch

LEMMA CorrectLanguageKeeps ==
    ASSUME ChatInv, NEW t \in Turns, CorrectLanguage(t) PROVE ChatInv'
<1>1. turn[t].pc = "language" /\ turn[t].pc \in Working BY DEF CorrectLanguage, At, Working
<1>2. CASE /\ ~turn[t].arabic \/ turn[t].decision.arabic
           /\ Becomes(t, [turn[t] EXCEPT !.pc = "resolve", !.context = <<>>, !.tries = 0])
    <2> DEFINE x == [turn[t] EXCEPT !.pc = "resolve", !.context = <<>>, !.tries = 0]
    <2>1. Fields(x) /\ x.pc = "resolve" /\ x.run = turn[t].run /\ x.decision = turn[t].decision
            /\ x.reply = turn[t].reply /\ x.arabic = turn[t].arabic
        BY <1>1, WorkingKnows DEF Fields, FieldNames
    <2>2. QED BY <1>1, <1>2, <2>1, WorkingKnows, WorkKeeps DEF Working
<1>3. ASSUME NEW d \in Decision, Becomes(t, [turn[t] EXCEPT !.decision = d])
      PROVE  ChatInv'
    <2> DEFINE x == [turn[t] EXCEPT !.decision = d]
    <2>1. Fields(x) /\ x.pc = "language" /\ x.run = turn[t].run /\ x.decision = d
            /\ x.reply = turn[t].reply /\ x.arabic = turn[t].arabic
        BY <1>1, WorkingKnows DEF Fields, FieldNames
    <2>2. QED BY <1>1, <1>3, <2>1, WorkingKnows, WorkKeeps DEF Working
<1>4. CASE Becomes(t, [turn[t] EXCEPT !.decision.arabic = TRUE])
    <2>1. PICK d : d = turn[t].decision OBVIOUS
    <2>2. [d EXCEPT !.arabic = TRUE] \in Decision
        BY <1>1, <2>1, WorkingKnows DEF Decision
    <2>3. Becomes(t, [turn[t] EXCEPT !.decision = [d EXCEPT !.arabic = TRUE]]) BY <1>4, <2>1
    <2>4. QED BY <1>3, <2>2, <2>3
<1>5. CASE Becomes(t, [turn[t] EXCEPT !.tries = @ + 1])
    <2> DEFINE x == [turn[t] EXCEPT !.tries = @ + 1]
    <2>1. Fields(x) /\ x.pc = "language" /\ x.run = turn[t].run /\ x.decision = turn[t].decision
            /\ x.reply = turn[t].reply /\ x.arabic = turn[t].arabic
        BY <1>1, WorkingKnows DEF Fields, FieldNames
    <2>2. QED BY <1>1, <1>5, <2>1, WorkingKnows, WorkKeeps DEF Working
<1>6. QED BY <1>2, <1>3, <1>4, <1>5, NoDecisionTyped DEF CorrectLanguage

LEMMA CreateRunKeeps == ASSUME ChatInv, NEW t \in Turns, CreateRun(t) PROVE ChatInv'
<1> DEFINE row == [trip |-> Trip(t) \cup turn[t].decision.patch, by |-> t]
           x == [Planned(t, "ok") EXCEPT !.made = Len(runs) + 1]
<1>1. turn[t].pc = "create" /\ turn[t].pc \in Working BY DEF CreateRun, At, Working
<1>2. runs' = Append(runs, row) /\ transcript' = transcript /\ turn' = [turn EXCEPT ![t] = x]
    BY DEF CreateRun
<1>3. row \in RunRow
    <2>1. runs \in Seq(RunRow) BY DEF ChatInv
    <2>2. runs[turn[t].run] \in RunRow BY <1>1, <2>1, WorkingKnows
    <2>3. Trip(t) # NoTrip BY <1>1 DEF ChatInv, Fits, Trip
    <2>4. Trip(t) \subseteq Patches BY <2>2, <2>3 DEF RunRow, Trip
    <2>5. turn[t].decision.patch \subseteq Patches BY <1>1, WorkingKnows DEF Decision
    <2>6. QED BY <2>4, <2>5 DEF RunRow
<1>4. /\ runs' \in Seq(RunRow) /\ DOMAIN runs' = DOMAIN runs \cup {Len(runs) + 1}
      /\ \A i \in DOMAIN runs : runs'[i] = runs[i]
      /\ runs'[Len(runs) + 1].by = t
    <2>1. runs \in Seq(RunRow) BY DEF ChatInv
    <2>2. PICK r : r = row OBVIOUS
    <2>3. r \in RunRow /\ runs' = Append(runs, r) /\ r.by = t BY <1>2, <1>3, <2>2
    <2>4. QED BY <2>1, <2>3, AppendProperties
<1>5. Fields(x) /\ x.pc = "persist_read" /\ x.decision \in Decision /\ x.arabic \in BOOLEAN
        /\ x.plan = "ok" /\ x.reply = "none"
    BY PlannedFields DEF Fields, FieldNames
<1>6. Fits(t, x) BY <1>1, <1>5, PersistingFits DEF Persisting, Stored
<1>7. turn' = [u \in Turns |-> turn'[u]] BY <1>2 DEF ChatInv
<1>8. ASSUME NEW u \in Turns PROVE Fits(u, turn[u])'
    <2>1. PICK y : y = turn'[u] OBVIOUS
    <2>2. Fits(u, y) BY <1>2, <1>6, <2>1 DEF ChatInv
    <2>3. u # t => (HasRun(u)' <=> HasRun(u)) BY <1>4 DEF HasRun
    <2>4. (Told(u, y.reply)' <=> Told(u, y.reply)) /\ (Recorded(u)' <=> Recorded(u))
        BY <1>2 DEF Told, Recorded
    <2>5. \A i \in DOMAIN runs : i \in DOMAIN runs' /\ runs'[i] = runs[i] BY <1>4
    <2>6. u = t => y.pc = "persist_read" BY <1>2, <1>5, <2>1 DEF ChatInv
    <2>7. Fits(u, y)' BY <2>2, <2>3, <2>4, <2>5, <2>6 DEF Fits, Fields, Working
    <2>8. QED BY <2>1, <2>7 DEF Fits, Fields, Told
<1>9. QED BY <1>2, <1>4, <1>7, <1>8 DEF ChatInv, WholePairs

LEMMA PersistReadKeeps == ASSUME ChatInv, NEW t \in Turns, PersistRead(t) PROVE ChatInv'
<1> DEFINE x == [turn[t] EXCEPT !.pc = "persist_write", !.seen = Len(transcript)]
<1>1. turn[t].pc = "persist_read" /\ Becomes(t, x) BY DEF PersistRead, At
<1>2. Fits(t, turn[t]) BY DEF ChatInv
<1>3. Fields(x) /\ x.pc = "persist_write" /\ x.decision = turn[t].decision
        /\ x.arabic = turn[t].arabic /\ x.plan = turn[t].plan /\ x.reply = turn[t].reply
    BY <1>2 DEF Fits, Fields, FieldNames
<1>4. Fits(t, x) BY <1>1, <1>2, <1>3, PersistingFits DEF Fits, Persisting
<1>5. QED BY <1>1, <1>4, BecomesKeeps

LEMMA HalfOf ==
    ASSUME NEW n \in Nat, n % 2 = 0
    PROVE  (n + 2) % 2 = 0 /\ (n + 2) \div 2 = n \div 2 + 1 /\ 2 * (n \div 2) = n
             /\ n \div 2 \in Nat
OBVIOUS

\* An exchange that is stored extends the transcript by its two rows.
Stores(t, reply) ==
    \E q \in Row, a \in Row :
        /\ transcript' = transcript \o <<q, a>>
        /\ q.role = "user" /\ a.role = "assistant"
        /\ q.turn = t /\ a.turn = t
        /\ q.status = StatusFor[reply] /\ a.status = StatusFor[reply]
        /\ q.included <=> reply = "ok"

LEMMA PairStored ==
    ASSUME NEW t \in Turns, turn[t].plan \in Stored, NEW sizes \in MessageSizes \X MessageSizes,
           transcript' = transcript \o Pair(t, sizes)
    PROVE  Stores(t, turn[t].plan)
<1>1. StatusFor[turn[t].plan] \in Statuses BY DEF StatusFor, Statuses, Stored
<1> DEFINE row(role, n) == [turn |-> t, role |-> role, status |-> StatusFor[turn[t].plan],
                            included |-> turn[t].plan = "ok", size |-> n]
<1>2. PICK q : q = row("user", sizes[1]) OBVIOUS
<1>3. PICK a : a = row("assistant", sizes[2]) OBVIOUS
<1>4. q \in Row /\ a \in Row BY <1>1, <1>2, <1>3 DEF Row
<1>5. transcript' = transcript \o <<q, a>> BY <1>2, <1>3 DEF Pair
<1>6. /\ q.role = "user" /\ a.role = "assistant" /\ q.turn = t /\ a.turn = t
      /\ q.status = StatusFor[turn[t].plan] /\ a.status = StatusFor[turn[t].plan]
      /\ q.included <=> turn[t].plan = "ok"
    BY <1>2, <1>3
<1>7. QED BY <1>4, <1>5, <1>6 DEF Stores

LEMMA StoresExtends ==
    ASSUME transcript \in Seq(Row), NEW t \in Turns, NEW reply, Stores(t, reply)
    PROVE  /\ transcript' \in Seq(Row) /\ Len(transcript') = Len(transcript) + 2
           /\ DOMAIN transcript' = DOMAIN transcript \cup {Len(transcript) + 1, Len(transcript) + 2}
           /\ \A i \in DOMAIN transcript : transcript'[i] = transcript[i]
           /\ LET q == transcript'[Len(transcript) + 1]
                  a == transcript'[Len(transcript) + 2]
              IN /\ q.role = "user" /\ a.role = "assistant" /\ q.turn = t /\ a.turn = t
                 /\ q.status = StatusFor[reply] /\ a.status = StatusFor[reply]
                 /\ q.included <=> reply = "ok"
<1>1. PICK q \in Row, a \in Row :
        /\ transcript' = transcript \o <<q, a>>
        /\ q.role = "user" /\ a.role = "assistant"
        /\ q.turn = t /\ a.turn = t
        /\ q.status = StatusFor[reply] /\ a.status = StatusFor[reply]
        /\ q.included <=> reply = "ok"
    BY DEF Stores
<1>2. <<q, a>> \in Seq(Row) /\ Len(<<q, a>>) = 2 OBVIOUS
<1>3. /\ transcript' \in Seq(Row) /\ Len(transcript') = Len(transcript) + 2
      /\ \A i \in 1..(Len(transcript) + 2) :
            transcript'[i] = IF i <= Len(transcript) THEN transcript[i]
                             ELSE <<q, a>>[i - Len(transcript)]
    BY <1>1, <1>2, ConcatProperties
<1>4. Len(transcript) \in Nat /\ DOMAIN transcript = 1..Len(transcript)
        /\ DOMAIN transcript' = 1..(Len(transcript) + 2)
    BY <1>3, LenProperties
<1>5. transcript'[Len(transcript) + 1] = q /\ transcript'[Len(transcript) + 2] = a
    BY <1>3, <1>4
<1>6. QED BY <1>1, <1>3, <1>4, <1>5

LEMMA StoresWhole ==
    ASSUME transcript \in Seq(Row), WholePairs, NEW t \in Turns, NEW reply, Stores(t, reply)
    PROVE  WholePairs'
<1> DEFINE n == Len(transcript)
<1>1. n \in Nat /\ DOMAIN transcript = 1..n BY LenProperties
<1>2. n % 2 = 0 BY DEF WholePairs
<1>3. Len(transcript') = n + 2 /\ (n + 2) % 2 = 0 /\ (n + 2) \div 2 = n \div 2 + 1
        /\ 2 * (n \div 2) = n /\ n \div 2 \in Nat
    BY <1>1, <1>2, HalfOf, StoresExtends
<1>4. ASSUME NEW i \in 1..((n + 2) \div 2)
      PROVE  /\ transcript'[2*i - 1].role = "user" /\ transcript'[2*i].role = "assistant"
             /\ transcript'[2*i - 1].turn = transcript'[2*i].turn
             /\ transcript'[2*i - 1].status = transcript'[2*i].status
    <2>1. CASE i = n \div 2 + 1
        <3>1. 2*i - 1 = n + 1 /\ 2*i = n + 2 BY <1>1, <1>3, <2>1
        <3>2. QED BY <3>1, StoresExtends
    <2>2. CASE i \in 1..(n \div 2)
        <3>1. 2*i - 1 \in 1..n /\ 2*i \in 1..n BY <1>1, <1>3, <2>2
        <3>2. transcript'[2*i - 1] = transcript[2*i - 1] /\ transcript'[2*i] = transcript[2*i]
            BY <1>1, <3>1, StoresExtends
        <3>3. QED BY <2>2, <3>2 DEF WholePairs
    <2>3. QED BY <1>1, <1>3, <2>1, <2>2
<1>5. QED BY <1>3, <1>4 DEF WholePairs

LEMMA StoresTells ==
    ASSUME transcript \in Seq(Row), NEW t \in Turns, NEW reply, Stores(t, reply)
    PROVE  /\ Told(t, reply)'
           /\ \A u \in Turns : u # t => (Recorded(u)' <=> Recorded(u))
           /\ \A u \in Turns : \A r \in Stored : Told(u, r) => Told(u, r)'
<1> DEFINE n == Len(transcript)
<1>1. transcript'[n + 1].turn = t /\ transcript'[n + 2].turn = t
        /\ transcript'[n + 1].status = StatusFor[reply]
        /\ (transcript'[n + 1].included <=> reply = "ok")
        /\ DOMAIN transcript' = DOMAIN transcript \cup {n + 1, n + 2}
        /\ \A i \in DOMAIN transcript : transcript'[i] = transcript[i]
    BY StoresExtends
<1>2. Told(t, reply)' BY <1>1 DEF Told
<1>3. ASSUME NEW u \in Turns, u # t PROVE Recorded(u)' <=> Recorded(u)
    BY <1>1, <1>3 DEF Recorded
<1>4. ASSUME NEW u \in Turns, NEW r \in Stored, Told(u, r) PROVE Told(u, r)'
    BY <1>1, <1>4 DEF Told
<1>5. QED BY <1>2, <1>3, <1>4

LEMMA RepliedTurn ==
    ASSUME NEW t, NEW made, NEW reply
    PROVE  LET x == [NewTurn EXCEPT !.pc = "replied", !.reply = reply, !.made = made]
           IN Fields(x) /\ x.pc = "replied" /\ x.reply = reply /\ x.decision \in Decision
                /\ x.arabic \in BOOLEAN
BY NewTurnFields DEF Fields, FieldNames

LEMMA PersistWriteKeeps == ASSUME ChatInv, NEW t \in Turns, PersistWrite(t) PROVE ChatInv'
<1>1. turn[t].pc = "persist_write" /\ UNCHANGED runs BY DEF PersistWrite, At
<1>2. turn[t].plan \in Stored BY <1>1 DEF ChatInv, Fits, Persisting
<1>3. CASE turn' = Replied(t, "error") /\ UNCHANGED transcript
    <2> DEFINE x == [NewTurn EXCEPT !.pc = "replied", !.reply = "error", !.made = turn[t].made]
    <2>1. Fields(x) /\ x.pc = "replied" /\ x.reply = "error" /\ x.decision \in Decision
            /\ x.arabic \in BOOLEAN
        BY RepliedTurn
    <2>2. Fits(t, x) BY <1>1, <2>1, UnrecordedFits
    <2>3. QED BY <1>1, <1>3, <2>2, MoveKeeps DEF Replied
<1>4. ASSUME NEW sizes \in MessageSizes \X MessageSizes,
             transcript' = transcript \o Pair(t, sizes), turn' = Replied(t, turn[t].plan)
      PROVE  ChatInv'
    <2>1. PICK plan \in Stored : plan = turn[t].plan BY <1>2
    <2> DEFINE x == [NewTurn EXCEPT !.pc = "replied", !.reply = plan, !.made = turn[t].made]
    <2>2. transcript \in Seq(Row) /\ WholePairs /\ Stores(t, plan)
        BY <1>4, <2>1, PairStored DEF ChatInv
    <2>3. transcript' \in Seq(Row) /\ WholePairs' BY <2>2, StoresExtends, StoresWhole
    <2>4. /\ Told(t, plan)'
          /\ \A u \in Turns : u # t => (Recorded(u)' <=> Recorded(u))
          /\ \A u \in Turns : \A r \in Stored : Told(u, r) => Told(u, r)'
        BY <2>2, StoresTells
    <2>5. turn' = [turn EXCEPT ![t] = x] BY <1>4, <2>1 DEF Replied
    <2>6. Fields(x) /\ x.pc = "replied" /\ x.reply = plan /\ x.decision \in Decision
            /\ x.arabic \in BOOLEAN
        BY RepliedTurn
    <2>7. ASSUME NEW u \in Turns PROVE Fits(u, turn[u])'
        <3>1. PICK y : y = turn'[u] OBVIOUS
        <3>2. HasRun(u)' <=> HasRun(u) BY <1>1 DEF HasRun
        <3>3. Fits(u, y)'
            <4>1. CASE u = t
                <5>1. y = x BY <2>5, <3>1, <4>1 DEF ChatInv
                <5>2. QED BY <2>4, <2>6, <4>1, <5>1 DEF Fits, Fields, Working, Persisting, Stored
            <4>2. CASE u # t
                <5>1. Fits(u, y) BY <2>5, <3>1, <4>2 DEF ChatInv
                <5>2. QED BY <1>1, <2>4, <3>2, <4>2, <5>1 DEF Fits, Fields
            <4>3. QED BY <4>1, <4>2
        <3>4. QED BY <3>1, <3>3 DEF Fits, Fields, Told
    <2>8. turn' = [u \in Turns |-> turn'[u]] BY <2>5 DEF ChatInv
    <2>9. QED BY <1>1, <2>3, <2>7, <2>8 DEF ChatInv
<1>5. QED BY <1>3, <1>4 DEF PersistWrite

LEMMA FailKeeps == ASSUME ChatInv, NEW t \in Turns, Fail(t) PROVE ChatInv'
<1> DEFINE x == [NewTurn EXCEPT !.pc = "replied", !.reply = "error", !.made = turn[t].made]
<1>1. turn[t].pc # "replied" /\ UNCHANGED <<runs, transcript>> /\ turn' = [turn EXCEPT ![t] = x]
    BY DEF Fail, ThreadPcs, Replied
<1>2. Fields(x) /\ x.pc = "replied" /\ x.reply = "error" /\ x.decision \in Decision
        /\ x.arabic \in BOOLEAN
    BY RepliedTurn
<1>3. Fits(t, x) BY <1>1, <1>2, UnrecordedFits
<1>4. QED BY <1>1, <1>3, MoveKeeps

LEMMA CrashKeeps == ASSUME ChatInv, Crash PROVE ChatInv'
<1> DEFINE lost == [NewTurn EXCEPT !.pc = "lost"]
<1>1. UNCHANGED <<runs, transcript>>
        /\ turn' = [t \in Turns |-> IF turn[t].pc \in ThreadPcs THEN lost ELSE turn[t]]
    BY DEF Crash
<1>2. Fields(lost) /\ lost.pc = "lost" /\ lost.reply = "none" /\ lost.decision \in Decision
        /\ lost.arabic \in BOOLEAN
    BY NewTurnFields DEF Fields, FieldNames
<1>3. ASSUME NEW t \in Turns PROVE Fits(t, turn[t])'
    <2>1. PICK y : y = turn'[t] OBVIOUS
    <2>2. Fits(t, y)
        <3>1. CASE turn[t].pc \in ThreadPcs
            <4>1. turn[t].pc # "replied" /\ y = lost BY <1>1, <2>1, <3>1 DEF ThreadPcs
            <4>2. QED BY <1>2, <4>1, UnrecordedFits
        <3>2. CASE turn[t].pc \notin ThreadPcs BY <1>1, <2>1, <3>2 DEF ChatInv
        <3>3. QED BY <3>1, <3>2
    <2>3. (HasRun(t)' <=> HasRun(t)) /\ (Recorded(t)' <=> Recorded(t))
        BY <1>1 DEF HasRun, Recorded
    <2>4. QED BY <1>1, <2>1, <2>2, <2>3 DEF Fits, Fields, Told
<1>4. QED BY <1>1, <1>3 DEF ChatInv, WholePairs

LEMMA ChatNext == ChatInv /\ [Next]_chatVars => ChatInv'
<1> SUFFICES ASSUME ChatInv, [Next]_chatVars PROVE ChatInv' OBVIOUS
<1>1. CASE Crash BY <1>1, CrashKeeps
<1>2. ASSUME NEW t \in Turns, LookUp(t) \/ HandleTurn(t) \/ Fail(t) PROVE ChatInv'
    BY <1>2, LookUpKeeps, CheckMessageKeeps, LoadHistoryKeeps, AnswerFromStateKeeps,
       ClassifyKeeps, CorrectLanguageKeeps, ResolvePatchKeeps, CreateRunKeeps, PersistReadKeeps,
       PersistWriteKeeps, FailKeeps
    DEF HandleTurn
<1>3. CASE UNCHANGED chatVars
    <2>1. UNCHANGED <<runs, transcript, turn>> BY <1>3 DEF chatVars
    <2>2. ASSUME NEW t \in Turns PROVE Fits(t, turn[t])'
        BY <2>1 DEF ChatInv, Fits, Fields, Told, HasRun, Recorded
    <2>3. QED BY <2>1, <2>2 DEF ChatInv, WholePairs
<1>4. QED BY <1>1, <1>2, <1>3 DEF Next

-----------------------------------------------------------------------------
\* The invariant that carries the three results below: rows come in typed pairs, a thread
\* on its way has no row, one that may still make a run has made none, one about to
\* persist knows its answer (chat_service.py handle_chat_turn).
THEOREM ChatInvariance == Spec => []ChatInv
BY ChatInit, ChatNext, PTL DEF Spec

\* append_chat_turn_pair leaves no half an exchange, whatever fails or races.
THEOREM PairsAreWhole == Spec => []WholePairs
<1>1. ChatInv => WholePairs BY DEF ChatInv
<1>2. QED BY <1>1, ChatInvariance, PTL

\* handle_chat_turn tells its client what append_chat_turn_pair stored.
THEOREM RepliesAreTrue == Spec => []ReplyMatchesTranscript
<1>1. ChatInv => ReplyMatchesTranscript
    BY DEF ChatInv, Fits, Told, Stored, ReplyMatchesTranscript
<1>2. QED BY <1>1, ChatInvariance, PTL

-----------------------------------------------------------------------------
Pairs == [i \in 1..(Len(transcript) \div 2) |->
            [turn |-> transcript[2*i].turn, status |-> transcript[2*i].status]]

LEMMA StoresAppends ==
    ASSUME transcript \in Seq(Row), WholePairs, NEW t \in Turns, NEW reply, Stores(t, reply)
    PROVE  Pairs' = Append(Pairs, [turn |-> t, status |-> StatusFor[reply]])
<1> DEFINE n == Len(transcript)
           m == n \div 2
<1>1. n \in Nat /\ DOMAIN transcript = 1..n BY LenProperties
<1>2. Len(transcript') = n + 2 /\ (n + 2) \div 2 = m + 1 /\ 2 * m = n /\ m \in Nat
    BY <1>1, HalfOf, StoresExtends DEF WholePairs
<1>3. ASSUME NEW i \in 1..m PROVE transcript'[2*i] = transcript[2*i]
    <2>1. 2*i \in 1..n BY <1>2
    <2>2. QED BY <1>1, <2>1, StoresExtends
<1>4. 2 * (m + 1) = n + 2 BY <1>2
<1>5. transcript'[2 * (m + 1)].turn = t /\ transcript'[2 * (m + 1)].status = StatusFor[reply]
    BY <1>4, StoresExtends
<1>6. PICK p : p = [turn |-> t, status |-> StatusFor[reply]] OBVIOUS
<1>7. Pairs' = [i \in 1..(m + 1) |-> IF i = m + 1 THEN p ELSE Pairs[i]]
    <2>1. Pairs' = [i \in 1..(m + 1) |->
                      [turn |-> transcript'[2*i].turn, status |-> transcript'[2*i].status]]
        BY <1>2 DEF Pairs
    <2>2. ASSUME NEW i \in 1..(m + 1)
          PROVE  [turn |-> transcript'[2*i].turn, status |-> transcript'[2*i].status]
                   = IF i = m + 1 THEN p ELSE Pairs[i]
        <3>1. CASE i = m + 1 BY <1>5, <1>6, <3>1
        <3>2. CASE i # m + 1
            <4>1. i \in 1..m BY <1>2, <3>2
            <4>2. QED BY <1>3, <3>2, <4>1 DEF Pairs
        <3>3. QED BY <3>1, <3>2
    <2>3. QED BY <2>1, <2>2
<1>8. Append(Pairs, p) = [i \in 1..(m + 1) |-> IF i = m + 1 THEN p ELSE Pairs[i]]
    <2>1. Pairs = [i \in 1..m |-> Pairs[i]] /\ Len(Pairs) = m
        BY <1>2 DEF Pairs
    <2>2. QED BY <1>2, <2>1
<1>9. QED BY <1>6, <1>7, <1>8

LEMMA UnrecordedPairs ==
    ASSUME transcript \in Seq(Row), WholePairs, NEW t \in Turns, ~Recorded(t)
    PROVE  \A i \in DOMAIN Pairs : Pairs[i].turn # t
<1>1. Len(transcript) \in Nat /\ DOMAIN transcript = 1..Len(transcript) BY LenProperties
<1>2. ASSUME NEW i \in 1..(Len(transcript) \div 2) PROVE 2*i \in DOMAIN transcript
    BY <1>1, HalfOf DEF WholePairs
<1>3. QED BY <1>2 DEF Pairs, Recorded

LEMMA LogUnchanged ==
    ASSUME UNCHANGED <<runs, transcript>> PROVE UNCHANGED Log!chatLogVars
BY DEF Log!chatLogVars

LEMMA CreateRunRevises ==
    ASSUME ChatInv, NEW t \in Turns, CreateRun(t) PROVE Log!Next
<1>1. turn[t].pc = "create" /\ turn[t].pc \in Working BY DEF CreateRun, At, Working
<1>2. runs' = Append(runs, [trip |-> Trip(t) \cup turn[t].decision.patch, by |-> t])
        /\ transcript' = transcript
    BY DEF CreateRun
<1>3. \A i \in DOMAIN runs : runs[i].by # t BY <1>1 DEF ChatInv, Fits, HasRun
<1>4. \A i \in DOMAIN Pairs : Pairs[i].turn # t
    <2>1. ~Recorded(t) BY <1>1 DEF ChatInv, Fits
    <2>2. QED BY <2>1, UnrecordedPairs DEF ChatInv
<1>5. turn[t].run \in DOMAIN runs /\ turn[t].decision.patch \in SUBSET Patches
    BY <1>1, WorkingKnows DEF Decision
<1>6. Pairs' = Pairs BY <1>2 DEF Pairs
<1>7. Log!Revise(t, turn[t].run, turn[t].decision.patch)
    BY <1>2, <1>3, <1>4, <1>6 DEF Log!Revise, Pairs, Trip
<1>8. QED BY <1>5, <1>7 DEF Log!Next

LEMMA PersistWriteRecords ==
    ASSUME ChatInv, NEW t \in Turns, PersistWrite(t)
    PROVE  Log!Next \/ UNCHANGED <<runs, transcript>>
<1>1. turn[t].pc = "persist_write" /\ UNCHANGED runs BY DEF PersistWrite, At
<1>2. turn[t].plan \in Stored /\ ~Recorded(t) BY <1>1 DEF ChatInv, Fits, Persisting
<1>3. ASSUME NEW sizes \in MessageSizes \X MessageSizes, transcript' = transcript \o Pair(t, sizes)
      PROVE  Log!Next
    <2>1. PICK plan \in Stored : plan = turn[t].plan BY <1>2
    <2>2. transcript \in Seq(Row) /\ WholePairs /\ Stores(t, plan)
        BY <1>3, <2>1, PairStored DEF ChatInv
    <2>3. Pairs' = Append(Pairs, [turn |-> t, status |-> StatusFor[plan]]) BY <2>2, StoresAppends
    <2>4. \A i \in DOMAIN Pairs : Pairs[i].turn # t BY <1>2, <2>2, UnrecordedPairs
    <2>5. Log!Record(t, StatusFor[plan]) BY <1>1, <2>3, <2>4 DEF Log!Record, Pairs
    <2>6. StatusFor[plan] \in Statuses BY DEF StatusFor, Statuses, Stored
    <2>7. QED BY <2>5, <2>6 DEF Log!Next
<1>4. QED BY <1>1, <1>3 DEF PersistWrite

\* Turns racing for the numbers of the transcript and for a base run, with any failures,
\* make only the steps of ChatLog: whole pairs and one run each (handle_chat_turn,
\* append_chat_turn_pair).
THEOREM ChatImplementation == Spec => ImplementsChatLog
<1>1. Init => Log!Init
    <2> SUFFICES ASSUME Init PROVE Log!Init OBVIOUS
    <2>1. Len(transcript) \div 2 = 0 BY DEF Init
    <2>2. Pairs = <<>> BY <2>1 DEF Pairs
    <2>3. QED BY <2>2 DEF Init, Log!Init, Pairs
<1>2. ChatInv /\ [Next]_chatVars => [Log!Next]_Log!chatLogVars
    <2> SUFFICES ASSUME ChatInv, [Next]_chatVars
                 PROVE  Log!Next \/ UNCHANGED <<runs, transcript>>
        BY LogUnchanged
    <2>1. CASE Crash BY <2>1 DEF Crash
    <2>2. CASE UNCHANGED chatVars BY <2>2 DEF chatVars
    <2>3. ASSUME NEW t \in Turns, LookUp(t) \/ HandleTurn(t) \/ Fail(t)
          PROVE  Log!Next \/ UNCHANGED <<runs, transcript>>
        <3>1. CASE CreateRun(t) BY <3>1, CreateRunRevises
        <3>2. CASE PersistWrite(t) BY <3>2, PersistWriteRecords
        <3>3. CASE LookUp(t) \/ Fail(t) BY <3>3 DEF LookUp, Fail, Becomes
        <3>4. CASE CheckMessage(t) \/ LoadHistory(t) \/ AnswerFromState(t) \/ Classify(t)
            BY <3>4 DEF CheckMessage, LoadHistory, AnswerFromState, Classify, Becomes
        <3>5. CASE CorrectLanguage(t) \/ ResolvePatch(t) \/ PersistRead(t)
            BY <3>5 DEF CorrectLanguage, ResolvePatch, PersistRead, Becomes
        <3>6. QED BY <2>3, <3>1, <3>2, <3>3, <3>4, <3>5 DEF HandleTurn
    <2>4. QED BY <2>1, <2>2, <2>3 DEF Next
<1>3. QED BY <1>1, <1>2, ChatInvariance, PTL DEF Spec, ImplementsChatLog, Log!Spec

\* _enforce_response_language lets no decision out in another language than the client's.
THEOREM ArabicIsAnswered == Spec => []ArabicAnswered
<1>1. ChatInv => ArabicAnswered BY DEF ChatInv, Fits, ArabicAnswered
<1>2. QED BY <1>1, ChatInvariance, PTL

-----------------------------------------------------------------------------
\* What the model is shown as history

\* A nonempty set of naturals has a least element.
LEMMA Least ==
    ASSUME NEW S \in SUBSET Nat, S # {}
    PROVE  \E x \in S : \A y \in S : x <= y
<1> DEFINE Less == {ss \in Nat \X Nat : ss[1] < ss[2]}
<1>1. IsWellFoundedOn(Less, Nat)
    BY NatLessThanWellFounded, Zenon DEF OpToRel
<1>2. PICK x \in S : \A y \in S : ~(<<y, x>> \in Less)
    <2> HIDE DEF Less
    <2> QED BY <1>1, WFMin
<1>3. ASSUME NEW y \in S PROVE ~(y < x) BY <1>2
<1> QED BY <1>3

\* ... and one with a bound has a greatest.
LEMMA Greatest ==
    ASSUME NEW n \in Nat, NEW S \in SUBSET (0..n), S # {}
    PROVE  \E x \in S : \A y \in S : y <= x
<1> DEFINE T == {n - x : x \in S}
<1>0. \A x \in S : x \in Nat /\ x <= n
    OBVIOUS
<1>1. T \in SUBSET Nat /\ T # {}
    <2>1. PICK x \in S : TRUE OBVIOUS
    <2>2. n - x \in T OBVIOUS
    <2> QED BY <1>0, <2>2
<1>2. PICK y \in T : \A z \in T : y <= z
    <2> HIDE DEF T
    <2> QED BY <1>1, Least
<1>3. PICK x \in S : y = n - x
    OBVIOUS
<1>4. ASSUME NEW z \in S PROVE z <= x
    <2>1. n - z \in T OBVIOUS
    <2>2. n - x <= n - z BY <1>2, <1>3, <2>1
    <2>3. x \in Nat /\ z \in Nat BY <1>0
    <2> QED BY <2>2, <2>3
<1> QED BY <1>4

\* The selection is well defined.
LEMMA ChosenDef ==
    ASSUME NEW rows, Len(rows) \in Nat
    PROVE  Chosen(rows) = [n \in 0..Len(rows) |->
               IF n = 0 THEN <<>>
               ELSE IF rows[n].included THEN Append(Chosen(rows)[n - 1], rows[n])
                                        ELSE Chosen(rows)[n - 1]]
<1> DEFINE Next1(s, n) == IF rows[n].included THEN Append(s, rows[n]) ELSE s
           Rounds(g, m) == [n \in 0..m |-> IF n = 0 THEN <<>> ELSE Next1(g[n - 1], n)]
           Exists(m) == \E g : g = Rounds(g, m)
           bad == {m \in 0..Len(rows) : ~Exists(m)}
<1>0. Chosen(rows) = CHOOSE g : g = Rounds(g, Len(rows))
    BY DEF Chosen
<1> HIDE DEF Next1
<1>1. ASSUME bad # {} PROVE FALSE
    <2>1. bad \in SUBSET Nat OBVIOUS
    <2>2. PICK m \in bad : \A k \in bad : m <= k
        <3> HIDE DEF bad
        <3> QED BY <1>1, <2>1, Least
    <2>3. m \in 0..Len(rows) /\ ~Exists(m) OBVIOUS
    <2>4. m # 0
        <3>1. [n \in 0..0 |-> <<>>] = Rounds([n \in 0..0 |-> <<>>], 0) OBVIOUS
        <3> QED BY <2>3, <3>1
    <2>5. m - 1 \in 0..Len(rows) /\ m - 1 \notin bad /\ m \in Nat
        BY <2>2, <2>3, <2>4
    <2>6. PICK g : g = Rounds(g, m - 1) BY <2>5
    <2> DEFINE h == [n \in 0..m |-> IF n = m THEN Next1(g[m - 1], m) ELSE g[n]]
    <2>7. \A n \in 0..m - 1 : g[n] = IF n = 0 THEN <<>> ELSE Next1(g[n - 1], n)
        BY <2>6
    <2>8. ASSUME NEW n \in 0..m PROVE h[n] = IF n = 0 THEN <<>> ELSE Next1(h[n - 1], n)
        <3>1. CASE n = m BY <2>4, <2>5, <3>1
        <3>2. CASE n # m BY <2>5, <2>7, <3>2
        <3> QED BY <3>1, <3>2
    <2>9. h = Rounds(h, m)
        <3>1. h = [n \in 0..m |-> h[n]] OBVIOUS
        <3> HIDE DEF h
        <3> QED BY <2>8, <3>1
    <2> QED BY <2>3, <2>9
<1>2. Len(rows) \notin bad BY <1>1
<1>3. PICK g : g = Rounds(g, Len(rows)) BY <1>2
<1>4. Chosen(rows) = Rounds(Chosen(rows), Len(rows)) BY <1>0, <1>3
<1> QED BY <1>4 DEF Next1

\* One row at a time.
LEMMA ChosenStep ==
    ASSUME NEW rows \in Seq(Row)
    PROVE  /\ Chosen(rows)[0] = <<>>
           /\ \A n \in 1..Len(rows) :
                Chosen(rows)[n] = IF rows[n].included THEN Append(Chosen(rows)[n - 1], rows[n])
                                                      ELSE Chosen(rows)[n - 1]
<1>1. Len(rows) \in Nat OBVIOUS
<1>2. DEFINE f == Chosen(rows)
<1>3. f = [n \in 0..Len(rows) |->
             IF n = 0 THEN <<>>
             ELSE IF rows[n].included THEN Append(f[n - 1], rows[n]) ELSE f[n - 1]]
    BY <1>1, ChosenDef
<1> HIDE DEF f
<1>4. f[0] = <<>> BY <1>1, <1>3
<1>5. ASSUME NEW n \in 1..Len(rows)
      PROVE  f[n] = IF rows[n].included THEN Append(f[n - 1], rows[n]) ELSE f[n - 1]
    <2>1. n \in 0..Len(rows) /\ n # 0 BY <1>1
    <2>2. f[n] = IF n = 0 THEN <<>>
             ELSE IF rows[n].included THEN Append(f[n - 1], rows[n]) ELSE f[n - 1]
        BY <1>3, <2>1
    <2> QED BY <2>1, <2>2
<1> QED BY <1>4, <1>5 DEF f

LEMMA ChosenTyped ==
    ASSUME NEW rows \in Seq(Row)
    PROVE  \A n \in 0..Len(rows) : Chosen(rows)[n] \in Seq(Row)
<1> DEFINE bad == {n \in 0..Len(rows) : Chosen(rows)[n] \notin Seq(Row)}
<1>1. ASSUME bad # {} PROVE FALSE
    <2>1. bad \in SUBSET Nat OBVIOUS
    <2>2. PICK n \in bad : \A k \in bad : n <= k
        <3> HIDE DEF bad
        <3> QED BY <1>1, <2>1, Least
    <2>3. n \in 0..Len(rows) /\ Chosen(rows)[n] \notin Seq(Row) /\ Len(rows) \in Nat
        OBVIOUS
    <2>4. n # 0
        <3>1. Chosen(rows)[0] = <<>> /\ <<>> \in Seq(Row) BY ChosenStep
        <3> QED BY <2>3, <3>1
    <2>5. n \in 1..Len(rows) /\ n - 1 \in 0..Len(rows) /\ n - 1 \notin bad
        <3> HIDE DEF bad
        <3> QED BY <2>2, <2>3, <2>4
    <2>6. Chosen(rows)[n - 1] \in Seq(Row) /\ rows[n] \in Row BY <2>5
    <2>7. Append(Chosen(rows)[n - 1], rows[n]) \in Seq(Row) BY <2>6
    <2>8. Chosen(rows)[n] \in Seq(Row) BY <2>5, <2>6, <2>7, ChosenStep
    <2> QED BY <2>2, <2>8
<1> QED BY <1>1

LEMMA RowsAssociate ==
    ASSUME NEW p \in Seq(Row), NEW q \in Seq(Row), NEW r \in Seq(Row)
    PROVE  (p \o q) \o r = p \o (q \o r)
BY ConcatAssociative

LEMMA AppendAssociates ==
    ASSUME NEW p \in Seq(Row), NEW q \in Seq(Row), NEW x \in Row
    PROVE  Append(p \o q, x) = p \o Append(q, x)
<1>1. p \o q \in Seq(Row) /\ <<x>> \in Seq(Row) OBVIOUS
<1>2. Append(p \o q, x) = (p \o q) \o <<x>> BY <1>1, AppendIsConcat
<1>3. Append(q, x) = q \o <<x>> BY AppendIsConcat
<1> QED BY <1>1, <1>2, <1>3, ConcatAssociative

\* Selecting from a transcript that grew adds to what was selected before.
LEMMA ChosenOfConcat ==
    ASSUME NEW a \in Seq(Row), NEW b \in Seq(Row)
    PROVE  ContextRows(a \o b) = ContextRows(a) \o ContextRows(b)
<1> DEFINE ab == a \o b
           C == Chosen(ab)
           A == Chosen(a)
           B == Chosen(b)
           bad == {n \in 0..Len(a) : C[n] # A[n]}
           worse == {n \in 0..Len(b) : C[Len(a) + n] # A[Len(a)] \o B[n]}
<1>1. /\ ab \in Seq(Row) /\ Len(ab) = Len(a) + Len(b) /\ Len(a) \in Nat /\ Len(b) \in Nat
      /\ \A n \in 1..Len(a) : ab[n] = a[n]
      /\ \A n \in 1..Len(b) : ab[Len(a) + n] = b[n]
    OBVIOUS
<1> HIDE DEF ab
<1>2. /\ C[0] = <<>> /\ A[0] = <<>> /\ B[0] = <<>>
      /\ \A n \in 1..Len(ab) : C[n] = IF ab[n].included THEN Append(C[n - 1], ab[n]) ELSE C[n - 1]
      /\ \A n \in 1..Len(a) : A[n] = IF a[n].included THEN Append(A[n - 1], a[n]) ELSE A[n - 1]
      /\ \A n \in 1..Len(b) : B[n] = IF b[n].included THEN Append(B[n - 1], b[n]) ELSE B[n - 1]
    BY <1>1, ChosenStep
<1>3. /\ \A n \in 0..Len(a) : A[n] \in Seq(Row)
      /\ \A n \in 0..Len(b) : B[n] \in Seq(Row)
    BY ChosenTyped
<1> HIDE DEF A, B, C
<1>4. ASSUME bad # {} PROVE FALSE
    <2>1. bad \in SUBSET Nat OBVIOUS
    <2>2. PICK n \in bad : \A k \in bad : n <= k
        <3> HIDE DEF bad
        <3> QED BY <1>4, <2>1, Least
    <2>3. n \in 1..Len(a) /\ n - 1 \in 0..Len(a) /\ n - 1 \notin bad
        BY <1>1, <1>2, <2>2
    <2>4. C[n - 1] = A[n - 1] /\ ab[n] = a[n] /\ n \in 1..Len(ab)
        BY <1>1, <2>3
    <2>5. C[n] = A[n] BY <1>2, <2>3, <2>4
    <2> QED BY <2>2, <2>5
<1>5. C[Len(a)] = A[Len(a)] BY <1>1, <1>4
<1>6. ASSUME worse # {} PROVE FALSE
    <2>1. worse \in SUBSET Nat
        <3>1. \A n \in worse : n \in 0..Len(b) OBVIOUS
        <3> HIDE DEF worse
        <3> QED BY <1>1, <3>1
    <2>2. PICK n \in worse : \A k \in worse : n <= k
        <3> HIDE DEF worse
        <3> QED BY <1>6, <2>1, Least
    <2>3. n \in 0..Len(b) /\ C[Len(a) + n] # A[Len(a)] \o B[n] OBVIOUS
    <2>4. A[Len(a)] \in Seq(Row) BY <1>1, <1>3
    <2>5. n # 0
        <3>1. A[Len(a)] \o B[0] = A[Len(a)] BY <1>2, <2>4
        <3>2. Len(a) + 0 = Len(a) BY <1>1
        <3> QED BY <1>5, <2>3, <3>1, <3>2
    <2>6. n \in 1..Len(b) /\ n - 1 \in 0..Len(b) /\ n - 1 \notin worse
        <3> HIDE DEF worse
        <3> QED BY <1>1, <2>2, <2>3, <2>5
    <2>7. C[Len(a) + (n - 1)] = A[Len(a)] \o B[n - 1] BY <2>6
    <2>8. Len(a) + n \in 1..Len(ab) /\ Len(a) + n - 1 = Len(a) + (n - 1) /\ ab[Len(a) + n] = b[n]
        BY <1>1, <2>6
    <2>9. C[Len(a) + n] = IF b[n].included THEN Append(C[Len(a) + (n - 1)], b[n])
                                           ELSE C[Len(a) + (n - 1)]
        <3>1. C[Len(a) + n] = IF ab[Len(a) + n].included
                                THEN Append(C[Len(a) + n - 1], ab[Len(a) + n])
                                ELSE C[Len(a) + n - 1]
            BY <1>2, <2>8
        <3> QED BY <2>8, <3>1
    <2>10. B[n] = IF b[n].included THEN Append(B[n - 1], b[n]) ELSE B[n - 1]
        BY <1>2, <2>6
    <2>11. B[n - 1] \in Seq(Row) /\ b[n] \in Row
        BY <1>3, <2>6
    <2>12. Append(A[Len(a)] \o B[n - 1], b[n]) = A[Len(a)] \o Append(B[n - 1], b[n])
        BY <2>4, <2>11, AppendAssociates
    <2> QED BY <2>3, <2>7, <2>9, <2>10, <2>12
<1>7. C[Len(a) + Len(b)] = A[Len(a)] \o B[Len(b)]
    <2>1. Len(b) \in 0..Len(b) BY <1>1
    <2> QED BY <1>6, <2>1
<1> QED BY <1>1, <1>7 DEF A, B, C, ab, ContextRows

\* The newest n rows are the end of the rows.
LEMMA LastRowsAreTheEnd ==
    ASSUME NEW rows \in Seq(Row), NEW n \in Nat
    PROVE  /\ LastRows(rows, n) \in Seq(Row) /\ Len(LastRows(rows, n)) <= n
           /\ \E p \in Seq(Row) : rows = p \o LastRows(rows, n)
<1> DEFINE l == Len(rows)
           first == IF l > n THEN l - n + 1 ELSE 1
           p == SubSeq(rows, 1, first - 1)
           q == SubSeq(rows, first, l)
<1>1. l \in Nat /\ first \in Nat /\ first >= 1 /\ first - 1 <= l /\ first - 1 \in Nat
        /\ l - first + 1 <= n /\ l - first + 1 \in Nat
    OBVIOUS
<1>2. LastRows(rows, n) = q BY DEF LastRows
<1> HIDE DEF first
<1>3. p \in Seq(Row) /\ Len(p) = first - 1 /\ \A i \in 1..first - 1 : p[i] = rows[i]
    BY <1>1
<1>4. q \in Seq(Row) /\ Len(q) = l - first + 1
        /\ \A i \in 1..l - first + 1 : q[i] = rows[first + i - 1]
    BY <1>1
<1> HIDE DEF p, q
<1>5. p \o q \in Seq(Row) /\ Len(p \o q) = l
    BY <1>1, <1>3, <1>4
<1>6. ASSUME NEW i \in 1..l PROVE (p \o q)[i] = rows[i]
    <2>1. CASE i <= first - 1 BY <1>1, <1>3, <1>4, <2>1
    <2>2. CASE i > first - 1
        <3>1. i - (first - 1) \in 1..l - first + 1 /\ first + (i - (first - 1)) - 1 = i
            BY <1>1, <2>2
        <3>2. (p \o q)[i] = q[i - (first - 1)] BY <1>1, <1>3, <1>4, <2>2
        <3> QED BY <1>4, <3>1, <3>2
    <2>3. i <= first - 1 \/ i > first - 1
        <3>1. i \in Nat /\ first \in Nat BY <1>1
        <3> QED BY <3>1
    <2> QED BY <2>1, <2>2, <2>3
<1>7. rows = p \o q BY <1>5, <1>6, SeqEqual
<1> QED BY <1>1, <1>2, <1>3, <1>4, <1>7

LEMMA LastNone == ASSUME NEW rows \in Seq(Row) PROVE SizeOf(LastRows(rows, 0)) = 0
<1>1. LastRows(rows, 0) = <<>>
    <2>1. LastRows(rows, 0) \in Seq(Row) /\ Len(LastRows(rows, 0)) <= 0
        BY LastRowsAreTheEnd
    <2> QED BY <2>1, EmptySeq
<1> DEFINE g == [n \in 0..0 |-> 0]
           Size(f) == [n \in 0..Len(<<>>) |-> IF n = 0 THEN 0 ELSE f[n - 1] + <<>>[n].size]
<1>2. g = Size(g) OBVIOUS
<1>3. SizeOf(<<>>) = (CHOOSE f : f = Size(f))[Len(<<>>)] BY DEF SizeOf
<1>4. PICK f : f = (CHOOSE f1 : f1 = Size(f1)) OBVIOUS
<1>5. f = Size(f) BY <1>2, <1>4
<1>6. f[0] = 0 BY <1>5
<1> QED BY <1>1, <1>3, <1>4, <1>6

\* ctx is a gapless stretch of the context rows of a transcript, within both bounds.
Shown(ctx, rows) ==
    /\ ctx \in Seq(Row) /\ Len(ctx) <= HistoryMessages /\ SizeOf(ctx) <= HistoryChars
    /\ \E p \in Seq(Row), q \in Seq(Row) : ContextRows(rows) = p \o (ctx \o q)

LEMMA ContextRowsTyped == ASSUME NEW rows \in Seq(Row) PROVE ContextRows(rows) \in Seq(Row)
<1>1. Len(rows) \in 0..Len(rows) OBVIOUS
<1> QED BY <1>1, ChosenTyped DEF ContextRows

LEMMA HistoryIsShown ==
    ASSUME NEW rows \in Seq(Row)
    PROVE  Shown(BoundedHistory(rows), rows)
<1> DEFINE recent == LastRows(rows, HistoryRows)
           kept == LastRows(ContextRows(recent), HistoryMessages)
           fits == {n \in 0..Len(kept) : SizeOf(LastRows(kept, n)) <= HistoryChars}
           best == CHOOSE n \in fits : \A m \in fits : m <= n
           ctx == LastRows(kept, best)
<1>0. {HistoryRows, HistoryMessages, HistoryChars} \subseteq Nat
    BY ChatConstantsOK DEF ChatConstantsOK
<1>1. BoundedHistory(rows) = ctx BY DEF BoundedHistory
<1>2. recent \in Seq(Row) /\ \E p \in Seq(Row) : rows = p \o recent
    BY <1>0, LastRowsAreTheEnd
<1>3. PICK p1 \in Seq(Row) : rows = p1 \o recent BY <1>2
<1>4. ContextRows(p1) \in Seq(Row) /\ ContextRows(recent) \in Seq(Row)
    BY <1>2, <1>3, ContextRowsTyped
<1>5. ContextRows(rows) = ContextRows(p1) \o ContextRows(recent)
    BY <1>2, <1>3, ChosenOfConcat
<1>6. /\ kept \in Seq(Row) /\ Len(kept) <= HistoryMessages
      /\ \E p \in Seq(Row) : ContextRows(recent) = p \o kept
    <2> HIDE DEF recent
    <2> QED BY <1>0, <1>4, LastRowsAreTheEnd
<1>7. PICK p2 \in Seq(Row) : ContextRows(recent) = p2 \o kept BY <1>6
<1> HIDE DEF recent, kept
<1>8. best \in fits
    <2>1. Len(kept) \in Nat /\ 0 \in 0..Len(kept) BY <1>6
    <2>2. 0 \in fits BY <1>0, <1>6, <2>1, LastNone
    <2>3. fits \in SUBSET (0..Len(kept)) OBVIOUS
    <2>4. \E n \in fits : \A m \in fits : m <= n
        <3> HIDE DEF fits
        <3> QED BY <2>1, <2>2, <2>3, Greatest
    <2> HIDE DEF fits
    <2> QED BY <2>4
<1>9. best \in 0..Len(kept) /\ SizeOf(ctx) <= HistoryChars BY <1>8
<1>10. best \in Nat /\ best <= HistoryMessages
    <2> HIDE DEF best
    <2> QED BY <1>0, <1>6, <1>9
<1> HIDE DEF best
<1>11. /\ ctx \in Seq(Row) /\ Len(ctx) <= best
       /\ \E p \in Seq(Row) : kept = p \o ctx
    BY <1>6, <1>10, LastRowsAreTheEnd
<1>12. PICK p3 \in Seq(Row) : kept = p3 \o ctx BY <1>11
<1> HIDE DEF ctx
<1>13. Len(ctx) <= HistoryMessages
    <2>1. Len(ctx) \in Nat BY <1>11
    <2> QED BY <1>0, <1>10, <1>11, <2>1
<1> DEFINE p == (ContextRows(p1) \o p2) \o p3
<1>14. p \in Seq(Row) /\ ContextRows(rows) = p \o ctx
    <2>1. PICK c \in Seq(Row) : c = ContextRows(p1) BY <1>4
    <2>2. c \o p2 \in Seq(Row) /\ p2 \o p3 \in Seq(Row) /\ p3 \o ctx \in Seq(Row)
        BY <1>11
    <2>3. (c \o p2) \o p3 \in Seq(Row) BY <2>2
    <2>4. ContextRows(rows) = c \o (p2 \o (p3 \o ctx)) BY <1>5, <1>7, <1>12, <2>1
    <2>5. c \o (p2 \o (p3 \o ctx)) = (c \o p2) \o (p3 \o ctx) BY <2>2, RowsAssociate
    <2>6. (c \o p2) \o (p3 \o ctx) = ((c \o p2) \o p3) \o ctx
        <3>1. PICK cp \in Seq(Row) : cp = c \o p2 BY <2>2
        <3>2. (cp \o p3) \o ctx = cp \o (p3 \o ctx) BY <1>11, RowsAssociate
        <3> QED BY <3>1, <3>2
    <2> QED BY <2>1, <2>3, <2>4, <2>5, <2>6
<1> HIDE DEF p
<1>15. <<>> \in Seq(Row) /\ ctx \o <<>> = ctx BY <1>11
<1> QED BY <1>1, <1>9, <1>11, <1>13, <1>14, <1>15 DEF Shown

\* What was shown stays a stretch of the context rows as the transcript grows.
LEMMA StillShown ==
    ASSUME NEW rows \in Seq(Row), NEW more \in Seq(Row), NEW ctx, Shown(ctx, rows)
    PROVE  Shown(ctx, rows \o more)
<1>1. PICK p \in Seq(Row), q \in Seq(Row) : ContextRows(rows) = p \o (ctx \o q)
    BY DEF Shown
<1>2. ctx \in Seq(Row) BY DEF Shown
<1>3. PICK c \in Seq(Row) : c = ContextRows(more) BY ContextRowsTyped
<1>4. ContextRows(rows \o more) = (p \o (ctx \o q)) \o c
    BY <1>1, <1>3, ChosenOfConcat
<1>5. ctx \o q \in Seq(Row) /\ q \o c \in Seq(Row) BY <1>2
<1>6. (p \o (ctx \o q)) \o c = p \o ((ctx \o q) \o c)
    <2>1. PICK cq \in Seq(Row) : cq = ctx \o q BY <1>5
    <2>2. (p \o cq) \o c = p \o (cq \o c) BY RowsAssociate
    <2> QED BY <2>1, <2>2
<1>7. (ctx \o q) \o c = ctx \o (q \o c) BY <1>2, RowsAssociate
<1>8. ContextRows(rows \o more) = p \o (ctx \o (q \o c)) BY <1>4, <1>6, <1>7
<1> QED BY <1>5, <1>8 DEF Shown

LEMMA ShownIsAStretch ==
    ASSUME NEW rows, NEW ctx, Shown(ctx, rows)
    PROVE  \E k \in 0..Len(ContextRows(rows)) :
              /\ k + Len(ctx) <= Len(ContextRows(rows))
              /\ ctx = SubSeq(ContextRows(rows), k + 1, k + Len(ctx))
<1>1. PICK p \in Seq(Row), q \in Seq(Row) : ContextRows(rows) = p \o (ctx \o q)
    BY DEF Shown
<1>2. ctx \in Seq(Row) BY DEF Shown
<1> DEFINE k == Len(p)
           n == Len(ctx)
           all == p \o (ctx \o q)
           s == SubSeq(all, k + 1, k + n)
<1>3. k \in Nat /\ n \in Nat /\ Len(q) \in Nat /\ ctx \o q \in Seq(Row)
        /\ Len(ctx \o q) = n + Len(q)
    BY <1>2
<1>4. all \in Seq(Row) /\ Len(all) = k + n + Len(q)
        /\ \A i \in 1..n : all[k + i] = ctx[i]
    <2>1. all \in Seq(Row) /\ Len(all) = k + n + Len(q) BY <1>3
    <2>2. ASSUME NEW i \in 1..n PROVE all[k + i] = ctx[i]
        <3>1. (ctx \o q)[i] = ctx[i] BY <1>2
        <3>2. k + i > k /\ k + i <= k + Len(ctx \o q) /\ (k + i) - k = i BY <1>3
        <3>3. all[k + i] = (ctx \o q)[i] BY <1>3, <3>2
        <3> QED BY <3>1, <3>3
    <2> QED BY <2>1, <2>2
<1> HIDE DEF all
<1>5. s \in Seq(Row) /\ Len(s) = n /\ \A i \in 1..n : s[i] = all[k + i]
    <2>1. /\ k + 1 \in 1..(k + n + 1) /\ k + n <= Len(all) /\ k + n - (k + 1) + 1 = n
        BY <1>3, <1>4
    <2>2. s \in Seq(Row) /\ Len(s) = n BY <1>3, <1>4, <2>1
    <2>3. ASSUME NEW i \in 1..n PROVE s[i] = all[k + i]
        <3>1. (k + 1) + i - 1 = k + i BY <1>3
        <3> QED BY <1>3, <1>4, <2>1, <3>1
    <2> QED BY <2>2, <2>3
<1> HIDE DEF s
<1>6. s = ctx BY <1>2, <1>4, <1>5, SeqEqual
<1>7. k \in 0..Len(all) /\ k + n <= Len(all) BY <1>3, <1>4
<1> QED BY <1>1, <1>6, <1>7 DEF all, s

\* The phases in which the decision is made with the history at hand.
Reads == {"query", "classify", "language"}

HistoryInv ==
    \A t \in Turns : turn[t].pc \in Reads => Shown(turn[t].context, transcript)

\* A thread at x reads what it read before, or what it has just been shown.
ReadsOn(t, x) ==
    x.pc \in Reads => \/ turn[t].pc \in Reads /\ x.context = turn[t].context
                      \/ Shown(x.context, transcript)

LEMMA HistoryKept ==
    ASSUME ChatInv, HistoryInv,
           transcript' = transcript \/ \E more \in Seq(Row) : transcript' = transcript \o more,
           \A t \in Turns : ReadsOn(t, turn'[t])
    PROVE  HistoryInv'
<1>1. ASSUME NEW t \in Turns, turn'[t].pc \in Reads PROVE Shown(turn'[t].context, transcript')
    <2>1. Shown(turn'[t].context, transcript) BY <1>1 DEF HistoryInv, ReadsOn
    <2>2. PICK ctx : ctx = turn'[t].context OBVIOUS
    <2>3. PICK rows : rows = transcript' OBVIOUS
    <2>4. Shown(ctx, transcript) /\ transcript \in Seq(Row) BY <2>1, <2>2 DEF ChatInv
    <2>5. Shown(ctx, rows) BY <2>3, <2>4, StillShown
    <2> QED BY <2>2, <2>3, <2>5
<1>2. ASSUME NEW t \in Turns, turn'[t].pc \in Reads PROVE Shown(turn[t].context, transcript)'
    BY <1>1, <1>2 DEF Shown
<1> QED BY <1>2 DEF HistoryInv

LEMMA ReadsOnAlone ==
    ASSUME ChatInv, HistoryInv, NEW t \in Turns, NEW x, turn' = [turn EXCEPT ![t] = x],
           transcript' = transcript \/ \E more \in Seq(Row) : transcript' = transcript \o more,
           ReadsOn(t, x)
    PROVE  HistoryInv'
<1>1. ASSUME NEW u \in Turns PROVE ReadsOn(u, turn'[u])
    BY DEF ChatInv, ReadsOn
<1> QED BY <1>1, HistoryKept

LEMMA HistoryNext == ChatInv /\ HistoryInv /\ [Next]_chatVars => HistoryInv'
<1> SUFFICES ASSUME ChatInv, HistoryInv, [Next]_chatVars PROVE HistoryInv' OBVIOUS
<1>1. ASSUME NEW t \in Turns, NEW x, Becomes(t, x), x.pc \notin Reads PROVE HistoryInv'
    BY <1>1, ReadsOnAlone DEF Becomes, ReadsOn
<1>2. ASSUME NEW t \in Turns, NEW x, Becomes(t, x), turn[t].pc \in Reads,
             x.context = turn[t].context
      PROVE  HistoryInv'
    BY <1>2, ReadsOnAlone DEF Becomes, ReadsOn
<1>3. \A t : \A plan : Planned(t, plan).pc \notin Reads
    BY PlannedFields DEF Reads
<1>4. ASSUME NEW t \in Turns PROVE Fields(turn[t]) BY DEF ChatInv, Fits
<1>5. CASE Crash
    <2>1. transcript' = transcript
            /\ turn' = [t \in Turns |-> IF turn[t].pc \in ThreadPcs
                                          THEN [NewTurn EXCEPT !.pc = "lost"] ELSE turn[t]]
        BY <1>5 DEF Crash
    <2>2. ASSUME NEW t \in Turns PROVE ReadsOn(t, turn'[t])
        <3>1. [NewTurn EXCEPT !.pc = "lost"].pc \notin Reads BY DEF NewTurn, Reads
        <3> QED BY <2>1, <3>1 DEF ReadsOn
    <2> QED BY <2>1, <2>2, HistoryKept
<1>6. ASSUME NEW t \in Turns, LookUp(t) PROVE HistoryInv'
    <2>1. ASSUME NEW r, NEW arabic
          PROVE  [turn[t] EXCEPT !.pc = "guard", !.run = r, !.arabic = arabic].pc \notin Reads
        BY <1>4 DEF Fields, FieldNames, Reads
    <2>2. [turn[t] EXCEPT !.pc = "replied", !.reply = "denied"].pc \notin Reads
        BY <1>4 DEF Fields, FieldNames, Reads
    <2> QED BY <1>1, <1>6, <2>1, <2>2 DEF LookUp
<1>7. ASSUME NEW t \in Turns, CheckMessage(t) PROVE HistoryInv'
    <2>1. [turn[t] EXCEPT !.pc = "history"].pc \notin Reads
        BY <1>4 DEF Fields, FieldNames, Reads
    <2> QED BY <1>1, <1>3, <1>7, <2>1 DEF CheckMessage
<1>8. ASSUME NEW t \in Turns, LoadHistory(t) PROVE HistoryInv'
    <2>1. PICK history : history = BoundedHistory(transcript) OBVIOUS
    <2>2. Shown(history, transcript) BY <2>1, HistoryIsShown DEF ChatInv
    <2>3. Becomes(t, [turn[t] EXCEPT !.pc = "query", !.context = history])
        BY <1>8, <2>1 DEF LoadHistory
    <2>4. [turn[t] EXCEPT !.pc = "query", !.context = history].context = history
        BY <1>4 DEF Fields, FieldNames
    <2> QED BY <2>2, <2>3, <2>4, ReadsOnAlone DEF Becomes, ReadsOn
<1>9. ASSUME NEW t \in Turns, AnswerFromState(t) PROVE HistoryInv'
    <2>1. turn[t].pc \in Reads BY <1>9 DEF AnswerFromState, At, Reads
    <2>2. [turn[t] EXCEPT !.pc = "classify"].context = turn[t].context
        BY <1>4 DEF Fields, FieldNames
    <2> QED BY <1>1, <1>2, <1>3, <1>9, <2>1, <2>2 DEF AnswerFromState
<1>10. ASSUME NEW t \in Turns, Classify(t) PROVE HistoryInv'
    <2>1. turn[t].pc \in Reads BY <1>10 DEF Classify, At, Reads
    <2>2. [turn[t] EXCEPT !.tries = @ + 1].context = turn[t].context
        BY <1>4 DEF Fields, FieldNames
    <2>3. ASSUME NEW d
          PROVE  /\ [turn[t] EXCEPT !.pc = "language", !.decision = d, !.tries = 0].context
                      = turn[t].context
                 /\ [turn[t] EXCEPT !.pc = "language", !.tries = 0, !.decision = d].context
                      = turn[t].context
        BY <1>4 DEF Fields, FieldNames
    <2> QED BY <1>1, <1>2, <1>3, <1>10, <2>1, <2>2, <2>3 DEF Classify
<1>11. ASSUME NEW t \in Turns, CorrectLanguage(t) PROVE HistoryInv'
    <2>1. turn[t].pc \in Reads BY <1>11 DEF CorrectLanguage, At, Reads
    <2>2. [turn[t] EXCEPT !.pc = "resolve", !.context = <<>>, !.tries = 0].pc \notin Reads
        BY <1>4 DEF Fields, FieldNames, Reads
    <2>3. /\ [turn[t] EXCEPT !.tries = @ + 1].context = turn[t].context
          /\ [turn[t] EXCEPT !.decision.arabic = TRUE].context = turn[t].context
          /\ \A d : [turn[t] EXCEPT !.decision = d].context = turn[t].context
        BY <1>4 DEF Fields, FieldNames
    <2> QED BY <1>1, <1>2, <1>11, <2>1, <2>2, <2>3 DEF CorrectLanguage
<1>12. ASSUME NEW t \in Turns, ResolvePatch(t) PROVE HistoryInv'
    <2>1. [turn[t] EXCEPT !.pc = "create"].pc \notin Reads
        BY <1>4 DEF Fields, FieldNames, Reads
    <2> QED BY <1>1, <1>3, <1>12, <2>1 DEF ResolvePatch
<1>13. ASSUME NEW t \in Turns, CreateRun(t) PROVE HistoryInv'
    <2> DEFINE x == [Planned(t, "ok") EXCEPT !.made = Len(runs) + 1]
    <2>1. x.pc \notin Reads BY PlannedFields DEF Fields, FieldNames, Reads
    <2>2. transcript' = transcript /\ turn' = [turn EXCEPT ![t] = x] BY <1>13 DEF CreateRun
    <2> QED BY <2>1, <2>2, ReadsOnAlone DEF ReadsOn
<1>14. ASSUME NEW t \in Turns, PersistRead(t) PROVE HistoryInv'
    <2>1. [turn[t] EXCEPT !.pc = "persist_write", !.seen = Len(transcript)].pc \notin Reads
        BY <1>4 DEF Fields, FieldNames, Reads
    <2> QED BY <1>1, <1>14, <2>1 DEF PersistRead
<1>15. ASSUME NEW t \in Turns, NEW reply, turn' = Replied(t, reply),
              transcript' = transcript \/ \E more \in Seq(Row) : transcript' = transcript \o more
       PROVE  HistoryInv'
    <2> DEFINE x == [NewTurn EXCEPT !.pc = "replied", !.reply = reply, !.made = turn[t].made]
    <2>1. x.pc \notin Reads BY RepliedTurn DEF Reads
    <2>2. turn' = [turn EXCEPT ![t] = x] BY <1>15 DEF Replied
    <2> QED BY <1>15, <2>1, <2>2, ReadsOnAlone DEF ReadsOn
<1>16. ASSUME NEW t \in Turns, PersistWrite(t) PROVE HistoryInv'
    <2>1. turn[t].plan \in Stored BY <1>16 DEF PersistWrite, At, ChatInv, Fits, Persisting
    <2>2. ASSUME NEW sizes \in MessageSizes \X MessageSizes,
                 transcript' = transcript \o Pair(t, sizes)
          PROVE  \E more \in Seq(Row) : transcript' = transcript \o more
        <3>0. Stores(t, turn[t].plan) BY <2>1, <2>2, PairStored
        <3>1. PICK q \in Row, a \in Row : transcript' = transcript \o <<q, a>>
            BY <3>0 DEF Stores
        <3>2. <<q, a>> \in Seq(Row) OBVIOUS
        <3> QED BY <3>1, <3>2
    <2> QED BY <1>15, <1>16, <2>2 DEF PersistWrite
<1>17. ASSUME NEW t \in Turns, Fail(t) PROVE HistoryInv'
    BY <1>15, <1>17 DEF Fail
<1>18. CASE UNCHANGED chatVars
    BY <1>18 DEF chatVars, HistoryInv, Shown
<1> QED
    BY <1>5, <1>6, <1>7, <1>8, <1>9, <1>10, <1>11, <1>12, <1>13, <1>14, <1>16, <1>17, <1>18
    DEF Next, HandleTurn

\* What _load_bounded_history hands to the model stays, while other turns are recorded, a
\* gapless stretch of the messages that count as context, within both bounds.
THEOREM HistoryIsHonest == Spec => []ContextHonest
<1>1. Init => HistoryInv
    BY DEF Init, NewTurn, HistoryInv, Reads
<1>2. HistoryInv => ContextHonest
    <2> SUFFICES ASSUME HistoryInv, NEW t \in Turns,
                        turn[t].pc \in {"query", "classify", "language"}
                 PROVE  Shown(turn[t].context, transcript)
        BY ShownIsAStretch DEF ContextHonest, Shown
    <2> QED BY DEF HistoryInv, Reads
<1> QED BY <1>1, <1>2, HistoryNext, ChatInvariance, PTL DEF Spec
=============================================================================
