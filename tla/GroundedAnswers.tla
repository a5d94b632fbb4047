-------------------------- MODULE GroundedAnswers --------------------------
(***************************************************************************)
(* rag/answer_service.py answers one question from retrieved chunks, with  *)
(* a language model of rag/llm_providers.py: the HTTP attempts of one      *)
(* call, the repairs of a call whose reply does not validate, and every    *)
(* way to degrade.                                                         *)
(*                                                                         *)
(* A claim names the chunks its quotation occurs in, the chunks it cites,  *)
(* and whether its words overlap theirs.  Prompts, pacing and the length   *)
(* of a wait are left out.                                                 *)
(***************************************************************************)
EXTENDS Retrieval, FiniteSetsExt

CONSTANTS
    Languages, LanguageOf,  \* languages, and the language of each source
    Queries,                \* the queries that are asked
    Objects,                \* the objects a reply can hold
    Signals,                \* for each chunk, how strongly its fitting sentences fit
    KnownPois,              \* the places of the catalog
    PostAttempts,           \* max_attempts (6 in the code)
    TransientAttempts,      \* _MAX_TRANSIENT_TRANSPORT_ATTEMPTS (3)
    Attempts                \* max_retries + 1 (3)

VARIABLES
    query, question,    \* what is asked
    items,              \* what the search found for it
    provider,           \* "none", "hosted" (Groq, Qwen) or "local" (Ollama)
    pc,
    attempt,            \* replies that did not validate
    posts, transients,  \* attempts of the current call, and those of them that broke
    result

answerVars == <<query, question, items, provider, pc, attempt, posts, transients, result>>

NoResult == [text |-> "none", refused |-> FALSE, claims |-> {}, cites |-> {},
             degraded |-> FALSE, reason |-> "none", how |-> "none", fallback |-> FALSE]

Init ==
    /\ query \in Queries
    /\ question \in [live : BOOLEAN, language : Languages, signal : Signals]
    /\ provider \in {"none", "hosted", "local"}
    /\ items = <<>> /\ pc = "asked" /\ attempt = 0 /\ posts = 0 /\ transients = 0
    /\ result = NoResult

Retrieved == { items[i].chunk : i \in DOMAIN items }

Unchanged == UNCHANGED <<query, question, items, provider, attempt, posts, transients>>

Answer(r) == pc' = "answered" /\ result' = r

Refusal(reason, degraded) ==
    [NoResult EXCEPT !.text = "refusal", !.refused = TRUE,
                     !.degraded = degraded, !.reason = reason]

\* _degrade_to_catalog: the facts of a known place, or the refusal.
Catalog ==
    [Refusal("retrieval_unavailable_or_zero_result", TRUE)
       EXCEPT !.text = IF query.poi \in KnownPois THEN "catalog" ELSE "refusal"]

\* answer, up to the first request: the live-data gate, retrieval, a provider.
Ask ==
    /\ pc = "asked"
    /\ IF question.live
         THEN Answer(Refusal("live_data_required", FALSE)) /\ UNCHANGED items
         ELSE /\ items' = Search(query)
              /\ IF items' = <<>> \/ provider = "none"
                   THEN Answer(Catalog)
                   ELSE pc' = "posting" /\ UNCHANGED result
    /\ UNCHANGED <<query, question, provider, attempt, posts, transients>>

----------------------------------------------------------------------------
\* The sentences that fit the question, each an item and a place in its chunk, best
\* first; _has_question_relevant_context asks whether there is one.
Relevant == UNION { {i} \X DOMAIN question.signal[items[i].chunk] : i \in DOMAIN items }
FitOrder ==
    LET fit == [s \in Relevant |-> question.signal[items[s[1]].chunk][s[2]]]
    IN { p \in Relevant \X Relevant :
           \/ fit[p[1]] > fit[p[2]]
           \/ /\ fit[p[1]] = fit[p[2]]
              /\ \/ p[1][1] < p[2][1]
                 \/ p[1][1] = p[2][1] /\ p[1][2] < p[2][2] }

\* _extractive_fallback: the two best sentences, copied and cited.
Extract(reason) ==
    LET selected == { items[s[1]].chunk : s \in Best(Relevant, FitOrder, 2) }
    IN IF selected = {}
         THEN [Refusal(reason, TRUE) EXCEPT !.how = "no_relevant_extractive_sentence"]
         ELSE [NoResult EXCEPT !.text = "extract", !.cites = selected, !.degraded = TRUE,
                               !.reason = reason, !.how = "used_relevant_extractive_fallback",
                               !.fallback = TRUE]

\* _validate_claims_shape
Shaped(object) ==
    /\ object.status \in {"grounded", "insufficient"}
    /\ \A i \in DOMAIN object.claims : object.claims[i].shaped
    /\ (object.status = "insufficient") <=> (object.claims = <<>>)

\* _cited_chunks_share_question_language, by the sources the items name.
SameLanguage(claim) ==
    \A i \in DOMAIN items :
        items[i].chunk \in claim.cites =>
            /\ items[i].source # NoSource
            /\ LanguageOf[items[i].source] = question.language

QuotedAnywhere(claim) ==
    /\ claim.cites \subseteq Retrieved
    /\ claim.quoted \cap Retrieved # {}
    /\ SameLanguage(claim) => claim.overlaps

\* A claim cites retrieved chunks only, quotes one of them, and in the question's
\* own language also shares their words.
Supported(claim) ==
    /\ claim.cites \subseteq Retrieved
    /\ claim.quoted \cap claim.cites # {}
    /\ SameLanguage(claim) => claim.overlaps

\* _validate_claims_against_context
Valid(object) ==
    Shaped(object) /\ \A i \in DOMAIN object.claims : Supported(object.claims[i])

\* What answer makes of a valid object.  It tests each claim once more.
FromObject(object) ==
    LET claims == { object.claims[i] : i \in DOMAIN object.claims }
        kept == { claim \in claims : Supported(claim) }
    IN IF object.status = "insufficient"
         THEN IF Relevant # {}
                THEN Extract("model_reported_insufficient_despite_question_relevant_context")
                ELSE Refusal("none", FALSE)
       ELSE IF kept = {} THEN Refusal("none", FALSE)
       ELSE [NoResult EXCEPT !.text = "claims", !.claims = kept,
                             !.cites = UNION { claim.cites : claim \in kept }]

----------------------------------------------------------------------------
\* The call did not validate: it is made again, with the error in the prompt,
\* until the attempts of _bounded_retry_generate_json are used up.
Repair ==
    IF attempt + 1 = Attempts
      THEN Answer(Extract("structured_generation_failed_after_retries")) /\ Unchanged
      ELSE /\ attempt' = attempt + 1 /\ posts' = 0 /\ transients' = 0
           /\ pc' = "posting"
           /\ UNCHANGED <<query, question, items, provider, result>>

\* A completion: the last object of the reply that validates.
Reply ==
    /\ pc = "posting"
    /\ \E reply \in UNION { [1..n -> Objects] : n \in 0..2 } :
         LET valid == { i \in DOMAIN reply : Valid(reply[i]) }
         IN IF valid # {} THEN Answer(FromObject(reply[Max(valid)])) /\ Unchanged
            ELSE Repair

\* A body that is no completion, or Ollama's connection reset while it is read.
BadBody == pc = "posting" /\ Repair

\* An exception answer does not catch: a quota, an HTTP error, an unknown host,
\* and from Ollama every URLError and timeout.
Raise(error) ==
    Answer([NoResult EXCEPT !.text = "raised", !.reason = error]) /\ Unchanged

Definitive == pc = "posting" /\ Raise("url_error")

\* A 429: wait and post again, unless the wait is too long or this was the last.
RateLimited ==
    /\ pc = "posting" /\ provider = "hosted"
    /\ \E long \in BOOLEAN :
         IF long \/ posts + 1 = PostAttempts THEN Raise("rate_limit")
         ELSE /\ posts' = posts + 1
              /\ UNCHANGED <<query, question, items, provider, pc, attempt, transients, result>>

\* A reset, a timeout or a failed handshake has a budget of its own, but spends
\* one of the attempts: behind the last one the loop ends, and the code asserts.
Transient ==
    /\ pc = "posting" /\ provider = "hosted"
    /\ transients' = transients + 1 /\ posts' = posts + 1
    /\ IF transients' = TransientAttempts
         THEN pc' = "answered" /\ result' = Extract("provider_transport_failed_after_retries")
         ELSE /\ pc' = IF posts' = PostAttempts THEN "asserting" ELSE "posting"
              /\ UNCHANGED result
    /\ UNCHANGED <<query, question, items, provider, attempt>>

\* The assertion is an error like any other to the repair loop.
Asserted == pc = "asserting" /\ Repair

Next ==
    \/ Ask \/ Reply \/ BadBody \/ Definitive \/ RateLimited \/ Transient \/ Asserted

Spec == Init /\ [][Next]_answerVars

----------------------------------------------------------------------------
\* The result of a search holds what the caller asked for: at most top_k chunks,
\* none twice and never the marker; with a client that answers, a dense search
\* leaves out no matching chunk that ranks higher, and a fused one never puts a
\* chunk behind one that both rankings put behind it.
SearchIsFaithful ==
    pc # "asked" /\ ~question.live =>
    LET ranks == [i \in DOMAIN items |-> items[i].chunk]
        dense == { c \in Chunks : Matches(query, c) }
        sparse == Bm25Search(query)
        Before(a, b, S, order) == a \in S /\ (b \in S => <<a, b>> \in order)
    IN /\ Len(items) <= query.topK /\ Retrieved \subseteq Chunks
       /\ Cardinality(Retrieved) = Len(items)
       /\ query.client = "up" /\ query.mode = "dense" =>
            ranks = InOrder(Best(dense, DenseOrder(query), query.topK), DenseOrder(query))
       /\ query.client = "up" /\ query.mode = "hybrid_rrf" =>
            \A a, b \in Chunks :
                /\ b \in Retrieved
                /\ Before(a, b, dense, DenseOrder(query)) /\ Before(a, b, sparse, SparseOrder(query))
                => \E i, j \in DOMAIN ranks : i < j /\ ranks[i] = a /\ ranks[j] = b

\* Whatever the model, the network and the retriever did, an answer that is no
\* refusal cites retrieved chunks only, and every claim of it quotes one of the
\* chunks it cites; dense retrieval knows every language, so there a claim about
\* chunks of the question's own language shares their words too.  A live-data
\* question is refused.  An outage is told in the reason, never taken for an
\* answer of the model.
AnswersAreGrounded ==
    pc = "answered" /\ result.text # "raised" =>
        /\ result.refused <=> result.cites = {}
        /\ result.cites \subseteq Retrieved
        /\ question.live => result.refused
        /\ \A claim \in result.claims :
             /\ claim.shaped /\ claim.cites \subseteq result.cites
             /\ claim.quoted \cap claim.cites # {}
             /\ query.mode = "dense"
                  /\ (\A c \in claim.cites : LanguageOf[Source[c]] = question.language)
                  => claim.overlaps
        /\ result.text = "extract" =>
             result.degraded /\ \A c \in result.cites : question.signal[c] # <<>>
        /\ transients = TransientAttempts <=>
             result.degraded /\ result.reason = "provider_transport_failed_after_retries"
=============================================================================
