----------------------------- MODULE ChatTurns -----------------------------
(***************************************************************************)
(* POST /v1/chat/turns on one session (chat_service.py, run_store.py).     *)
(*                                                                         *)
(*   get_run -> message guard -> bounded history -> state query            *)
(*     -> model decision, with repairs -> language correction              *)
(*     -> patch and trip guard -> create_run -> append_chat_turn_pair      *)
(*                                                                         *)
(* Each turn is a request thread of its own.  Every RunStore method opens  *)
(* its own connection; append_chat_turn_pair reads MAX(sequence_number)    *)
(* before its transaction begins, so it is a read and a write here.  The   *)
(* chat model and the guards (phase4, a separate repository) are external: *)
(* any answer of the right shape.  A trip is the set of patches applied to *)
(* the session's first trip.                                               *)
(***************************************************************************)
EXTENDS Naturals, Sequences

CONSTANTS
    Turns,            \* chat turn requests of the session
    NoTurn,           \* the run was not made by a chat turn
    Patches,          \* changes a turn can ask for
    Decisions,        \* decisions the chat model may take in this instance
    NoTrip,           \* the trip of a run created without trip_request, no set of patches
    MaxRepairs,       \* MAX_CHAT_DECISION_REPAIRS
    MaxCorrections,   \* MAX_CHAT_LANGUAGE_CORRECTIONS
    HistoryRows,      \* _MAX_HISTORY_ROWS_FETCHED
    HistoryMessages,  \* _MAX_HISTORY_MESSAGES
    HistoryChars,     \* _MAX_HISTORY_TOTAL_CHARS
    MessageSizes,     \* lengths of stored messages (_truncate_for_storage)
    MaxCrashes,       \* bound on process crashes
    MaxFaults         \* bound on failed calls

Decision == [intent : {"explain_plan", "modify_trip", "regenerate_trip", "clarify"},
             asks   : BOOLEAN,          \* requires_clarification
             patch  : SUBSET Patches,   \* what _resolve_patch recognises of it
             arabic : BOOLEAN]          \* assistant_message is in Arabic

ASSUME ChatConstantsOK ==
    /\ Decisions \subseteq Decision
    /\ {MaxRepairs, MaxCorrections, HistoryRows, HistoryMessages, HistoryChars,
        MaxCrashes, MaxFaults} \subseteq Nat
    /\ MessageSizes \subseteq Nat
    /\ NoTurn \notin Turns /\ ~(NoTrip \subseteq Patches)

VARIABLES
    runs,        \* the session's rows of table runs
    transcript,  \* the session's rows of table chat_turns, by sequence_number
    turn,        \* request threads of handle_chat_turn
    crashes, faults

chatVars == <<runs, transcript, turn, crashes, faults>>

-----------------------------------------------------------------------------
Statuses == {"completed", "rejected", "provider_failed"}

\* The status a pair is stored with, by the reply its turn is heading for.
StatusFor == [ok |-> "completed", rejected |-> "rejected", unavailable |-> "provider_failed"]

Row == [turn     : Turns,
        role     : {"user", "assistant"},
        status   : Statuses,
        included : BOOLEAN,         \* include_in_context
        size     : MessageSizes]

NoDecision == [intent |-> "clarify", asks |-> TRUE, patch |-> {}, arabic |-> FALSE]

\* _safe_clarify_fallback speaks the target language.
Fallback(arabic) == [NoDecision EXCEPT !.arabic = arabic]

ThreadPcs == {"guard", "history", "query", "classify", "language", "resolve", "create",
              "persist_read", "persist_write"}

NewTurn == [pc |-> "idle", run |-> 0, arabic |-> FALSE, context |-> <<>>, tries |-> 0,
            decision |-> NoDecision, made |-> 0, seen |-> 0,
            plan |-> "none", reply |-> "none"]

FirstRuns == {<<[trip |-> trip, by |-> NoTurn]>> : trip \in {{}, NoTrip}}

Init ==
    /\ runs \in FirstRuns
    /\ transcript = <<>>
    /\ turn = [t \in Turns |-> NewTurn]
    /\ crashes = 0
    /\ faults = 0

At(t, pc) == turn[t].pc = pc
Trip(t) == runs[turn[t].run].trip

\* The turn moves on within its thread; nothing is stored.
Becomes(t, new) ==
    /\ turn' = [turn EXCEPT ![t] = new]
    /\ UNCHANGED <<runs, transcript, crashes, faults>>

\* The thread's answer is decided: what is left is _persist_turn, and the other
\* locals of the thread do not matter any more.
Planned(t, plan) ==
    [NewTurn EXCEPT !.pc = "persist_read", !.plan = plan]

-----------------------------------------------------------------------------
\* handle_chat_turn

\* get_run: the session's run the client names, or none of this session.
LookUp(t) ==
    /\ At(t, "idle")
    /\ \/ \E r \in DOMAIN runs, arabic \in BOOLEAN :
            Becomes(t, [turn[t] EXCEPT !.pc = "guard", !.run = r, !.arabic = arabic])
       \/ Becomes(t, [turn[t] EXCEPT !.pc = "replied", !.reply = "denied"])

\* check_input on the message alone.
CheckMessage(t) ==
    /\ At(t, "guard")
    /\ \/ Becomes(t, Planned(t, "rejected"))
       \/ Becomes(t, [turn[t] EXCEPT !.pc = "history"])

SizeOf(rows) ==
    LET size[n \in 0..Len(rows)] == IF n = 0 THEN 0 ELSE size[n - 1] + rows[n].size
    IN  size[Len(rows)]

LastRows(rows, n) == SubSeq(rows, IF Len(rows) > n THEN Len(rows) - n + 1 ELSE 1, Len(rows))

\* include_in_context, one row after the other.
Chosen(rows) ==
    LET chosen[n \in 0..Len(rows)] ==
          IF n = 0 THEN <<>>
          ELSE IF rows[n].included THEN Append(chosen[n - 1], rows[n]) ELSE chosen[n - 1]
    IN  chosen

ContextRows(rows) == Chosen(rows)[Len(rows)]

\* Mutant: include_in_context is not looked at.
BoundedHistoryUnfiltered(rows) == LastRows(LastRows(rows, HistoryRows), HistoryMessages)

\* The newest messages that count as context, oldest dropped until they fit.
BoundedHistory(rows) ==
    LET kept == LastRows(ContextRows(LastRows(rows, HistoryRows)), HistoryMessages)
        fits == {n \in 0..Len(kept) : SizeOf(LastRows(kept, n)) <= HistoryChars}
    IN LastRows(kept, CHOOSE n \in fits : \A m \in fits : m <= n)

\* _load_bounded_history
LoadHistory(t) ==
    /\ At(t, "history")
    /\ Becomes(t, [turn[t] EXCEPT !.pc = "query", !.context = BoundedHistory(transcript)])

\* A factual question about a known trip is answered without the model.
AnswerFromState(t) ==
    /\ At(t, "query")
    /\ \/ Trip(t) # NoTrip /\ Becomes(t, Planned(t, "ok"))
       \/ Becomes(t, [turn[t] EXCEPT !.pc = "classify"])

\* Mutant: the last transport failure starts the repair budget over.
ClassifyResetsBudget(t) ==
    /\ At(t, "classify")
    /\ \/ \E d \in Decisions :
            Becomes(t, [turn[t] EXCEPT !.pc = "language", !.decision = d, !.tries = 0])
       \/ Becomes(t, [turn[t] EXCEPT !.tries = IF @ = MaxRepairs THEN 0 ELSE @ + 1])
       \/ Becomes(t, Planned(t, "unavailable"))

\* _classify_with_repairs: one call of the model.
Classify(t) ==
    /\ At(t, "classify")
    /\ LET last == turn[t].tries = MaxRepairs
           again == [turn[t] EXCEPT !.tries = @ + 1]
       IN \/ \E d \in Decisions :
               Becomes(t, [turn[t] EXCEPT !.pc = "language", !.decision = d, !.tries = 0])
          \/ \* not JSON, or not a decision
             IF last
               THEN Becomes(t, [turn[t] EXCEPT !.pc = "language", !.tries = 0,
                                   !.decision = Fallback(turn[t].arabic)])
               ELSE Becomes(t, again)
          \/ \* QwenTransportError, transient or not
             \E transient \in BOOLEAN :
                IF transient /\ ~last
                  THEN Becomes(t, again)
                  ELSE Becomes(t, Planned(t, "unavailable"))

\* Mutant: the decision is kept, without the fallback message.
CorrectLanguageGivesUp(t) ==
    /\ At(t, "language")
    /\ IF ~turn[t].arabic \/ turn[t].decision.arabic \/ turn[t].tries = MaxCorrections
         THEN Becomes(t, [turn[t] EXCEPT !.pc = "resolve", !.context = <<>>, !.tries = 0])
         ELSE \/ Becomes(t, [turn[t] EXCEPT !.tries = @ + 1])
              \/ \E d \in {d \in Decisions : d.arabic} :
                   Becomes(t, [turn[t] EXCEPT !.decision = d])

\* _enforce_response_language: one look at the message, or one corrective call.
\* A correction that is in Arabic replaces the whole decision.
CorrectLanguage(t) ==
    /\ At(t, "language")
    /\ IF ~turn[t].arabic \/ turn[t].decision.arabic
         THEN Becomes(t, [turn[t] EXCEPT !.pc = "resolve", !.context = <<>>, !.tries = 0])
         ELSE IF turn[t].tries = MaxCorrections
         THEN Becomes(t, [turn[t] EXCEPT !.decision.arabic = TRUE])
         ELSE \/ Becomes(t, [turn[t] EXCEPT !.tries = @ + 1])
              \/ \E d \in {d \in Decisions : d.arabic} :
                   Becomes(t, [turn[t] EXCEPT !.decision = d])

\* The decision calls for a new run, as far as the trip guard has no objection.
AsksForRun(d, trip) ==
    /\ d.intent \in {"modify_trip", "regenerate_trip"} /\ ~d.asks
    /\ trip # NoTrip
    /\ d.intent = "modify_trip" => d.patch # {}

ResolvePatch(t) ==
    /\ At(t, "resolve")
    /\ \/ Becomes(t, Planned(t, "ok"))   \* nothing asked for, or patch_rejected
       \/ /\ AsksForRun(turn[t].decision, Trip(t))
          /\ Becomes(t, [turn[t] EXCEPT !.pc = "create"])

\* Mutant: the run is made and the thread retries.
CreateRunTwice(t) ==
    /\ At(t, "create")
    /\ runs' = Append(runs, [trip |-> Trip(t) \cup turn[t].decision.patch, by |-> t])
    /\ turn' = [turn EXCEPT ![t] = IF turn[t].made = 0
                 THEN [turn[t] EXCEPT !.made = Len(runs) + 1] ELSE Planned(t, "ok")]
    /\ UNCHANGED <<transcript, crashes, faults>>

\* RunService.create_run in the same session, without an idempotency key.
CreateRun(t) ==
    /\ At(t, "create")
    /\ runs' = Append(runs, [trip |-> Trip(t) \cup turn[t].decision.patch, by |-> t])
    /\ turn' = [turn EXCEPT ![t] = [Planned(t, "ok") EXCEPT !.made = Len(runs) + 1]]
    /\ UNCHANGED <<transcript, crashes, faults>>

\* append_chat_turn_pair: SELECT MAX(sequence_number) ...
PersistRead(t) ==
    /\ At(t, "persist_read")
    /\ Becomes(t, [turn[t] EXCEPT !.pc = "persist_write", !.seen = Len(transcript)])

Pair(t, sizes) ==
    LET r(role, n) == [turn |-> t, role |-> role, status |-> StatusFor[turn[t].plan],
                       included |-> turn[t].plan = "ok", size |-> n]
    IN <<r("user", sizes[1]), r("assistant", sizes[2])>>

Replied(t, reply) ==
    [turn EXCEPT ![t] = [NewTurn EXCEPT !.pc = "replied", !.reply = reply, !.made = turn[t].made]]

\* Mutant: no rollback when the second INSERT fails.
PersistWriteNoRollback(t) ==
    /\ At(t, "persist_write")
    /\ \E sizes \in MessageSizes \X MessageSizes :
         \/ /\ transcript' = transcript \o Pair(t, sizes)
            /\ turn' = Replied(t, turn[t].plan)
         \/ /\ transcript' = transcript \o <<Pair(t, sizes)[1]>>
            /\ turn' = Replied(t, "error")
    /\ UNCHANGED <<runs, crashes, faults>>

\* Mutant: INSERT OR IGNORE.
PersistWriteIgnoresConflict(t) ==
    /\ At(t, "persist_write")
    /\ turn' = Replied(t, turn[t].plan)
    /\ IF turn[t].seen = Len(transcript)
         THEN \E sizes \in MessageSizes \X MessageSizes :
                transcript' = transcript \o Pair(t, sizes)
         ELSE UNCHANGED transcript
    /\ UNCHANGED <<runs, crashes, faults>>

\* ... and the two INSERTs, one transaction.  UNIQUE(session_id,
\* sequence_number) refuses them when another turn was recorded in between.
PersistWrite(t) ==
    /\ At(t, "persist_write")
    /\ IF turn[t].seen = Len(transcript)
         THEN /\ \E sizes \in MessageSizes \X MessageSizes :
                   transcript' = transcript \o Pair(t, sizes)
              /\ turn' = Replied(t, turn[t].plan)
         ELSE /\ turn' = Replied(t, "error")
              /\ UNCHANGED transcript
    /\ UNCHANGED <<runs, crashes, faults>>

\* A database call fails, the provider factory raises, or midnight passes
\* between the two trip guards: an unhandled exception, 500.
Fail(t) ==
    /\ turn[t].pc \in ThreadPcs /\ faults < MaxFaults
    /\ turn' = Replied(t, "error")
    /\ faults' = faults + 1
    /\ UNCHANGED <<runs, transcript, crashes>>

Crash ==
    /\ crashes < MaxCrashes
    /\ crashes' = crashes + 1
    /\ turn' = [t \in Turns |-> IF turn[t].pc \in ThreadPcs
                                  THEN [NewTurn EXCEPT !.pc = "lost"] ELSE turn[t]]
    /\ UNCHANGED <<runs, transcript, faults>>

HandleTurn(t) ==
    \/ CheckMessage(t) \/ LoadHistory(t) \/ AnswerFromState(t) \/ Classify(t)
    \/ CorrectLanguage(t) \/ ResolvePatch(t) \/ CreateRun(t)
    \/ PersistRead(t) \/ PersistWrite(t)

Next == Crash \/ \E t \in Turns : LookUp(t) \/ HandleTurn(t) \/ Fail(t)

Spec == Init /\ [][Next]_chatVars

\* A request thread runs; calls of the model return or time out.
FairSpec == Spec /\ \A t \in Turns : WF_chatVars(HandleTurn(t))

-----------------------------------------------------------------------------
\* Properties

Recorded(t) == \E i \in DOMAIN transcript : transcript[i].turn = t

\* What a client is told is what the transcript holds, under races for the
\* sequence number, failed calls and crashes: 200 means the exchange is stored
\* and will be context, 422 and 503 that it is stored and will not be, 500 or an
\* unknown run that nothing was stored.
ReplyMatchesTranscript ==
    \A t \in Turns :
        /\ turn[t].reply \in {"ok", "rejected", "unavailable"} =>
             \E i \in DOMAIN transcript :
                /\ transcript[i].turn = t
                /\ transcript[i].status = StatusFor[turn[t].reply]
                /\ transcript[i].included <=> turn[t].reply = "ok"
        /\ turn[t].reply \in {"denied", "error"} \/ turn[t].pc = "lost" => ~Recorded(t)

\* What the model is shown as history: only messages that count as context, a
\* gapless stretch of them in transcript order, within both bounds, while other
\* turns of the session are being recorded.
ContextHonest ==
    \A t \in Turns :
        turn[t].pc \in {"query", "classify", "language"} =>
            LET rows == ContextRows(transcript)
                ctx == turn[t].context
            IN /\ Len(ctx) <= HistoryMessages /\ SizeOf(ctx) <= HistoryChars
               /\ \E k \in 0..Len(rows) :
                    k + Len(ctx) <= Len(rows) /\ ctx = SubSeq(rows, k + 1, k + Len(ctx))

\* An Arabic conversation is never answered in another language, whichever call
\* of the model fails.
ArabicAnswered ==
    \A t \in Turns :
        turn[t].arabic /\ turn[t].pc \in {"resolve", "create"} => turn[t].decision.arabic

\* Every turn is answered unless the process crashes: repairs and corrections are
\* bounded.
TurnsAnswered == \A t \in Turns : At(t, "guard") ~> turn[t].pc \in {"replied", "lost"}

Log == INSTANCE ChatLog WITH
         pairs <- [i \in 1..(Len(transcript) \div 2) |->
                     [turn |-> transcript[2*i].turn, status |-> transcript[2*i].status]]

\* Turns racing for the same sequence numbers and the same base run still add
\* whole pairs and one run each, in the order ChatLog allows.
ImplementsChatLog == Log!Spec

\* The rows come in whole pairs: no turn of the transcript is left dangling.
WholePairs ==
    /\ Len(transcript) % 2 = 0
    /\ \A i \in 1..(Len(transcript) \div 2) :
         /\ transcript[2*i - 1].role = "user" /\ transcript[2*i].role = "assistant"
         /\ transcript[2*i - 1].turn = transcript[2*i].turn
         /\ transcript[2*i - 1].status = transcript[2*i].status

\* chat_service.py: "every turn is persisted atomically".  (Checked to be
\* violated: the loser of a race for the sequence number has made its run and
\* leaves no trace in the transcript.)
ReplansAreRecorded ==
    \A t \in Turns :
        (turn[t].made # 0 /\ turn[t].pc = "replied") => Recorded(t)
=============================================================================
