---------------------------- MODULE ToolsProofs ----------------------------
(***************************************************************************)
(* What one tool call rests on, for any rates, times to live, horizons and *)
(* answers, and any number of callers, threshold and cool-down: theorems   *)
(* about ToolsSpec, whose behaviours follow the evidence of a run, one     *)
(* call of a provider adapter, or the circuit breaker.                     *)
(***************************************************************************)
EXTENDS MCTools, ToolEvidenceProofs

-----------------------------------------------------------------------------
\* The provider policy

\* Whatever is not a success has a status that comes without data.
LEMMA FailureStatus ==
    ASSUME NEW r, P!ReplyStatus(r) # "success"
    PROVE  P!ReplyStatus(r) \in P!NoDataStatuses
BY DEF P!ReplyStatus, P!ClassifyHttpStatus, P!NoDataStatuses, P!ResultStatuses

LEMMA NoData ==
    ASSUME NEW status \in P!NoDataStatuses
    PROVE  P!DataMode(status) = "unavailable" /\ P!Completeness(status) = 0 /\ status # "success"
BY DEF P!DataMode, P!Completeness, P!NoDataStatuses, P!ResultStatuses

\* A wait before one of the two possible retries never exceeds the cap.
LEMMA BackoffCapped ==
    ASSUME NEW policy \in {P!DefaultPolicy, P!SerpApiPolicy},
           NEW attempt \in {0, 1}, NEW hint \in {P!NoHint, 3, 99}
    PROVE  P!Backoff(attempt, policy, hint) \in 0..policy.cap
<1>1. 2^attempt \in {1, 2}
  <2>1. CASE attempt = 0 BY <2>1
  <2>2. CASE attempt = 1 BY <2>2
  <2> QED BY <2>1, <2>2
<1> DEFINE wanted == IF hint # P!NoHint THEN hint ELSE policy.base * 2^attempt
<1>2. policy.base \in 1..2 /\ policy.cap \in 1..16
  BY DEF P!DefaultPolicy, P!SerpApiPolicy
<1>3. wanted \in Nat
  BY <1>1, <1>2 DEF P!NoHint
<1>4. P!Backoff(attempt, policy, hint) = IF wanted < policy.cap THEN wanted ELSE policy.cap
  BY DEF P!Backoff
<1> QED
  <2> HIDE DEF wanted
  <2> QED BY <1>2, <1>3, <1>4

\* Every hint that a reply can carry is one of three.
LEMMA Hints == ASSUME NEW bodies, NEW r \in P!Replies(bodies) PROVE r.hint \in {P!NoHint, 3, 99}
BY DEF P!Replies

\* Only an answer of status 200 succeeds, and it has a body of the kind asked for.
LEMMA SuccessHasBody ==
    ASSUME NEW bodies, NEW r \in P!Replies(bodies), P!ReplyStatus(r) = "success"
    PROVE  r.body \in bodies
<1>1. CASE r \in [code : {0, 400, 404, 503}, hint : {P!NoHint}, body : {"none"}]
  BY <1>1 DEF P!ReplyStatus, P!ClassifyHttpStatus
<1>2. CASE r \in [code : {429}, hint : {P!NoHint, 3, 99}, body : {"none"}]
  BY <1>2 DEF P!ReplyStatus, P!ClassifyHttpStatus
<1> QED BY <1>1, <1>2 DEF P!Replies

-----------------------------------------------------------------------------
\* The normalisation loop of a search

\* The loop's rounds are well defined.
LEMMA KeptDef ==
    ASSUME NEW raw, Len(raw) \in Nat
    PROVE  P!Kept(raw) = [n \in 0..Len(raw) |-> IF n = 0 THEN <<>> ELSE P!Keep(P!Kept(raw)[n - 1], raw[n])]
<1> DEFINE Rounds(g, m) == [n \in 0..m |-> IF n = 0 THEN <<>> ELSE P!Keep(g[n - 1], raw[n])]
           Exists(m) == \E g : g = Rounds(g, m)
           bad == {m \in 0..Len(raw) : ~Exists(m)}
<1>1. ASSUME bad # {} PROVE FALSE
  <2>1. bad \in SUBSET Nat
    OBVIOUS
  <2>2. PICK m \in bad : \A k \in bad : m <= k
    <3> HIDE DEF bad
    <3> QED BY <1>1, <2>1, LeastExists
  <2>3. m \in 0..Len(raw) /\ ~Exists(m)
    OBVIOUS
  <2>4. m # 0
    <3>1. [n \in 0..0 |-> <<>>] = Rounds([n \in 0..0 |-> <<>>], 0)
      OBVIOUS
    <3> QED BY <2>3, <3>1
  <2>5. m - 1 \in 0..Len(raw) /\ m - 1 \notin bad /\ m \in Nat
    BY <2>2, <2>3, <2>4
  <2>6. PICK g : g = Rounds(g, m - 1)
    BY <2>5
  <2> DEFINE h == [n \in 0..m |-> IF n = m THEN P!Keep(g[m - 1], raw[m]) ELSE g[n]]
  <2>7. \A n \in 0..m - 1 : g[n] = IF n = 0 THEN <<>> ELSE P!Keep(g[n - 1], raw[n])
    BY <2>6
  <2>8. ASSUME NEW n \in 0..m PROVE h[n] = IF n = 0 THEN <<>> ELSE P!Keep(h[n - 1], raw[n])
    <3>1. CASE n = m
      BY <2>4, <2>5, <3>1
    <3>2. CASE n # m
      BY <2>5, <2>7, <3>2
    <3> QED BY <3>1, <3>2
  <2>9. h = Rounds(h, m)
    <3>1. h = [n \in 0..m |-> h[n]]
      OBVIOUS
    <3> HIDE DEF h
    <3> QED BY <2>8, <3>1
  <2> QED BY <2>3, <2>9
<1>2. Len(raw) \notin bad
  BY <1>1
<1>3. PICK g : g = Rounds(g, Len(raw))
  BY <1>2
<1>4. P!Kept(raw) = CHOOSE kept : kept = Rounds(kept, Len(raw))
  BY DEF P!Kept
<1> QED BY <1>3, <1>4

\* The instance counts as this module does.
LEMMA SameCardinality == ASSUME NEW S PROVE P!Cardinality(S) = Cardinality(S)
BY DEF Cardinality, P!Cardinality

\* Where an entry occurs first, the first ones up to a place, and those of them that
\* the limit leaves.
Firsts(raw) == {i \in DOMAIN raw : raw[i] # "unusable" /\ \A j \in 1..i - 1 : raw[j] # raw[i]}
Upto(raw, n) == {j \in Firsts(raw) : j <= n}
Places(raw, n) == {k \in Upto(raw, n) : Cardinality(Upto(raw, k)) <= HardMaxResults}

LEMMA UptoFinite ==
    ASSUME NEW S, NEW raw \in Seq(S), NEW n \in Nat
    PROVE  IsFiniteSet(Upto(raw, n)) /\ Cardinality(Upto(raw, n)) \in Nat
<1>1. IsFiniteSet(1..Len(raw)) /\ Upto(raw, n) \subseteq 1..Len(raw)
  <2>1. IsFiniteSet(1..Len(raw))
    BY FS_Interval
  <2> QED BY <2>1 DEF Upto, Firsts
<1>2. IsFiniteSet(Upto(raw, n))
  BY <1>1, FS_Subset
<1> QED BY <1>2, FS_CardinalityType

\* One more place counts if its entry occurs there first.
LEMMA UptoNext ==
    ASSUME NEW S, NEW raw \in Seq(S), NEW n \in 1..Len(raw)
    PROVE  /\ n \in Firsts(raw) => /\ Upto(raw, n) = Upto(raw, n - 1) \cup {n}
                                   /\ Cardinality(Upto(raw, n)) = Cardinality(Upto(raw, n - 1)) + 1
           /\ n \notin Firsts(raw) => Upto(raw, n) = Upto(raw, n - 1)
<1>1. Firsts(raw) \subseteq Nat
  BY DEF Firsts
<1>2. n \in Firsts(raw) => Upto(raw, n) = Upto(raw, n - 1) \cup {n}
  BY <1>1 DEF Upto
<1>3. n \notin Firsts(raw) => Upto(raw, n) = Upto(raw, n - 1)
  BY <1>1 DEF Upto
<1>4. n \notin Upto(raw, n - 1)
  BY DEF Upto
<1>5. IsFiniteSet(Upto(raw, n - 1))
  BY UptoFinite
<1>6. Cardinality(Upto(raw, n - 1) \cup {n}) = Cardinality(Upto(raw, n - 1)) + 1
  BY <1>4, <1>5, FS_AddElement
<1> QED BY <1>2, <1>3, <1>6

\* What the loop has kept after n entries.
KeptFirsts(raw, S, n) ==
    LET kept == P!Kept(raw)[n]
        count == Cardinality(Upto(raw, n))
    IN  /\ kept \in Seq(S)
        /\ Len(kept) = IF count <= HardMaxResults THEN count ELSE HardMaxResults
        /\ P!Range(kept) = {raw[k] : k \in Places(raw, n)}

LEMMA RangeOfAppend ==
    ASSUME NEW S, NEW s \in Seq(S), NEW e \in S
    PROVE  /\ Append(s, e) \in Seq(S) /\ Len(Append(s, e)) = Len(s) + 1
           /\ P!Range(Append(s, e)) = P!Range(s) \cup {e}
<1>1. Append(s, e) \in Seq(S) /\ Len(Append(s, e)) = Len(s) + 1
  OBVIOUS
<1>2. \A i \in 1..Len(s) : Append(s, e)[i] = s[i]
  OBVIOUS
<1>3. Append(s, e)[Len(s) + 1] = e
  OBVIOUS
<1>4. DOMAIN Append(s, e) = 1..Len(s) + 1 /\ DOMAIN s = 1..Len(s) /\ Len(s) \in Nat
  OBVIOUS
<1>5. \A x : x \in P!Range(Append(s, e)) <=> x \in P!Range(s) \cup {e}
  <2> SUFFICES ASSUME NEW x PROVE x \in P!Range(Append(s, e)) <=> x \in P!Range(s) \cup {e}
    OBVIOUS
  <2>1. ASSUME x \in P!Range(Append(s, e)) PROVE x \in P!Range(s) \cup {e}
    <3>1. PICK i \in 1..Len(s) + 1 : x = Append(s, e)[i]
      BY <1>4, <2>1 DEF P!Range
    <3>2. CASE i = Len(s) + 1 BY <1>3, <3>1, <3>2
    <3>3. CASE i \in 1..Len(s) BY <1>2, <1>4, <3>1, <3>3 DEF P!Range
    <3> QED BY <1>4, <3>2, <3>3
  <2>2. ASSUME x \in P!Range(s) PROVE x \in P!Range(Append(s, e))
    <3>1. PICK i \in 1..Len(s) : x = s[i]
      BY <1>4, <2>2 DEF P!Range
    <3>2. x = Append(s, e)[i] /\ i \in 1..Len(s) + 1
      BY <1>2, <1>4, <3>1
    <3> QED BY <1>4, <3>2 DEF P!Range
  <2>3. e \in P!Range(Append(s, e))
    <3>1. Len(s) + 1 \in DOMAIN Append(s, e)
      BY <1>4
    <3> QED BY <1>3, <3>1 DEF P!Range
  <2> QED BY <2>1, <2>2, <2>3
<1> QED BY <1>1, <1>5

LEMMA KeptNext ==
    ASSUME NEW S, NEW raw \in Seq(S), NEW n \in 1..Len(raw), KeptFirsts(raw, S, n - 1)
    PROVE  KeptFirsts(raw, S, n)
<1> DEFINE kept == P!Kept(raw)[n - 1]
           count == Cardinality(Upto(raw, n - 1))
           e == raw[n]
<1>1. P!Kept(raw)[n] = P!Keep(kept, e)
  BY KeptDef
<1>2. /\ kept \in Seq(S) /\ P!Range(kept) = {raw[k] : k \in Places(raw, n - 1)}
      /\ Len(kept) = IF count <= HardMaxResults THEN count ELSE HardMaxResults
  BY DEF KeptFirsts
<1>3. count \in Nat /\ HardMaxResults \in Nat /\ e \in S
  BY UptoFinite, ToolsConstantsOK
<1>4. \A k \in Upto(raw, n - 1) : k \in Nat /\ k < n
  BY DEF Upto, Firsts
<1> HIDE DEF kept, count, e
<1>5. CASE n \in Firsts(raw)
  <2>1. Upto(raw, n) = Upto(raw, n - 1) \cup {n} /\ Cardinality(Upto(raw, n)) = count + 1
    BY <1>5, UptoNext DEF count
  <2>2. e # "unusable" /\ \A j \in 1..n - 1 : raw[j] # e
    BY <1>5 DEF Firsts, e
  <2>3. e \notin P!Range(kept)
    <3>1. \A k \in Places(raw, n - 1) : k \in 1..n - 1
      BY <1>4 DEF Places, Upto, Firsts
    <3> QED BY <1>2, <2>2, <3>1
  <2>4. CASE count < HardMaxResults
    <3>1. Len(kept) # HardMaxResults
      BY <1>2, <1>3, <2>4
    <3>2. P!Keep(kept, e) = Append(kept, e)
      BY <2>2, <2>3, <3>1 DEF P!Keep
    <3>3. /\ Append(kept, e) \in Seq(S) /\ Len(Append(kept, e)) = Len(kept) + 1
          /\ P!Range(Append(kept, e)) = P!Range(kept) \cup {e}
      BY <1>2, <1>3, RangeOfAppend
    <3>4. Places(raw, n) = Places(raw, n - 1) \cup {n}
      <4>1. Cardinality(Upto(raw, n)) <= HardMaxResults
        BY <1>3, <2>1, <2>4
      <4>2. ASSUME NEW k PROVE k \in Places(raw, n) <=> k \in Places(raw, n - 1) \cup {n}
        BY <2>1, <4>1 DEF Places
      <4> QED BY <4>2
    <3>5. P!Range(Append(kept, e)) = {raw[k] : k \in Places(raw, n)}
      BY <1>2, <3>3, <3>4 DEF e
    <3>6. Len(kept) + 1 = IF count + 1 <= HardMaxResults THEN count + 1 ELSE HardMaxResults
      BY <1>2, <1>3, <2>4
    <3> QED BY <1>1, <2>1, <3>2, <3>3, <3>5, <3>6 DEF KeptFirsts
  <2>5. CASE ~(count < HardMaxResults)
    <3>1. Len(kept) = HardMaxResults
      BY <1>2, <1>3, <2>5
    <3>2. P!Keep(kept, e) = kept
      BY <3>1 DEF P!Keep
    <3>3. Places(raw, n) = Places(raw, n - 1)
      <4>1. ~(Cardinality(Upto(raw, n)) <= HardMaxResults)
        BY <1>3, <2>1, <2>5
      <4>2. ASSUME NEW k PROVE k \in Places(raw, n) <=> k \in Places(raw, n - 1)
        BY <2>1, <4>1 DEF Places
      <4> QED BY <4>2
    <3>4. HardMaxResults = IF count + 1 <= HardMaxResults THEN count + 1 ELSE HardMaxResults
      BY <1>3, <2>5
    <3> QED BY <1>1, <1>2, <2>1, <3>1, <3>2, <3>3, <3>4 DEF KeptFirsts
  <2> QED BY <2>4, <2>5
<1>6. CASE n \notin Firsts(raw)
  <2>1. Upto(raw, n) = Upto(raw, n - 1)
    BY <1>6, UptoNext
  <2>2. Places(raw, n) = Places(raw, n - 1)
    BY <2>1 DEF Places
  <2>3. P!Keep(kept, e) = kept
    <3>1. CASE e = "unusable" \/ Len(kept) = HardMaxResults
      BY <3>1 DEF P!Keep
    <3>2. CASE e # "unusable" /\ Len(kept) # HardMaxResults
      <4> DEFINE same == {j \in 1..n - 1 : raw[j] = e}
      <4>1. same # {}
        BY <1>6, <3>2 DEF Firsts, e
      <4>2. PICK j \in same : \A k \in same : j <= k
        <5>1. same \in SUBSET Nat
          OBVIOUS
        <5> HIDE DEF same
        <5> QED BY <4>1, <5>1, LeastExists
      <4>3. j \in 1..n - 1 /\ raw[j] = e /\ \A k \in 1..j - 1 : raw[k] # e
        BY <4>2
      <4>4. j \in Firsts(raw)
        BY <3>2, <4>3 DEF Firsts
      <4>5. count <= HardMaxResults
        BY <1>2, <1>3, <3>2
      <4>6. Cardinality(Upto(raw, j)) <= count
        <5>1. Upto(raw, j) \subseteq Upto(raw, n - 1)
          BY <4>3 DEF Upto, Firsts
        <5>2. IsFiniteSet(Upto(raw, n - 1))
          BY UptoFinite
        <5> QED BY <5>1, <5>2, FS_Subset DEF count
      <4>7. Cardinality(Upto(raw, j)) \in Nat
        BY <4>3, UptoFinite
      <4>8. j \in Places(raw, n - 1)
        BY <1>3, <4>3, <4>4, <4>5, <4>6, <4>7 DEF Places, Upto
      <4> QED BY <1>2, <4>3, <4>8 DEF P!Keep
    <3> QED BY <3>1, <3>2
  <2> QED BY <1>1, <1>2, <2>1, <2>2, <2>3 DEF KeptFirsts, count
<1> QED BY <1>5, <1>6

LEMMA KeptAll ==
    ASSUME NEW S, NEW raw \in Seq(S)
    PROVE  \A n \in 0..Len(raw) : KeptFirsts(raw, S, n)
<1> DEFINE bad == {n \in 0..Len(raw) : ~KeptFirsts(raw, S, n)}
<1>1. KeptFirsts(raw, S, 0)
  <2>1. P!Kept(raw)[0] = <<>>
    BY KeptDef
  <2>2. Upto(raw, 0) = {} /\ Places(raw, 0) = {}
    BY DEF Upto, Places, Firsts
  <2>3. Cardinality({}) = 0
    BY FS_EmptySet
  <2>4. P!Range(<<>>) = {}
    BY DEF P!Range
  <2>5. <<>> \in Seq(S) /\ Len(<<>>) = 0 /\ {raw[k] : k \in {}} = {} /\ HardMaxResults \in Nat
    BY ToolsConstantsOK
  <2>6. Cardinality(Upto(raw, 0)) = 0 /\ {raw[k] : k \in Places(raw, 0)} = {}
    BY <2>2, <2>3
  <2>7. /\ P!Kept(raw)[0] \in Seq(S) /\ Len(P!Kept(raw)[0]) = 0 /\ P!Range(P!Kept(raw)[0]) = {}
        /\ 0 <= HardMaxResults
    BY <2>1, <2>4, <2>5
  <2> QED BY <2>6, <2>7 DEF KeptFirsts
<1>2. ASSUME bad # {} PROVE FALSE
  <2>1. bad \in SUBSET Nat
    OBVIOUS
  <2>2. PICK n \in bad : \A k \in bad : n <= k
    <3> HIDE DEF bad
    <3> QED BY <1>2, <2>1, LeastExists
  <2>3. n \in 1..Len(raw) /\ n - 1 \in 0..Len(raw) /\ n - 1 \notin bad
    BY <1>1, <2>2
  <2> QED BY <2>2, <2>3, KeptNext
<1> QED BY <1>2

\* The loop keeps the first usable entries, each once, up to the limit.
LEMMA CollectKeepsFirsts ==
    ASSUME NEW S, NEW raw \in Seq(S)
    PROVE  P!Range(P!Collect(raw)) = P!FirstUsable(raw)
<1> DEFINE Chosen == {k \in Firsts(raw) : P!Cardinality(Upto(raw, k)) <= HardMaxResults}
<1>1. KeptFirsts(raw, S, Len(raw))
  BY KeptAll
<1>2. Upto(raw, Len(raw)) = Firsts(raw)
  BY DEF Upto, Firsts
<1>3. Chosen = Places(raw, Len(raw))
  BY <1>2, SameCardinality DEF Places
<1>4. P!FirstUsable(raw) = {raw[i] : i \in Chosen}
  BY DEF P!FirstUsable, Firsts, Upto
<1> HIDE DEF Chosen
<1> QED BY <1>1, <1>3, <1>4 DEF KeptFirsts, P!Collect

-----------------------------------------------------------------------------
\* The invariant of a call

Queries == {{}} \cup P!WeatherQueries \cup P!FlightQueries \cup P!WebQueries

CallRecords ==
    [adapter : {"none", "fx", "weather", "flights", "web"}, query : Queries, begun : Nat,
     stage : {"none", "rate", "geocode", "forecast", "archive", "search"}, attempt : Nat,
     spent : Nat, answers : Nat, days : Int, year : Nat, sampled : SUBSET Int]

\* The cached rate is the one really received last, no later than it was received.
RateInv ==
    /\ now \in Nat
    /\ cache = P!NoEntry \/ cache \in [value : Rates, stored : Nat, ttl : {CacheTtl}]
    /\ got \in [rate : Nat, at : Nat] /\ got.rate = cache.value
    /\ cache.stored <= got.at /\ got.at <= now

StagesOf == [none |-> {"none"}, fx |-> {"rate"}, weather |-> {"geocode", "forecast", "archive"},
             flights |-> {"search"}, web |-> {"search"}]

\* A fetch of a rate is under way only where the cache was no hit when it began; a
\* weather call is for a range of days to come; and an attempt costs at most its
\* timeout and the cap of the wait after it.
CallInv ==
    /\ call \in CallRecords /\ call.begun <= now
    /\ call.stage \in StagesOf[call.adapter]
    /\ call.adapter = "fx" /\ cache # P!NoEntry => call.begun - cache.stored > CacheTtl
    /\ call.adapter = "weather" => /\ call.query \in P!WeatherQueries
                                   /\ call.query.from \in 0..call.query.to
    /\ call.adapter \in {"fx", "weather"} => call.attempt <= 2 /\ call.spent <= 36 * call.attempt
    /\ call.adapter \in {"flights", "web"} => call.attempt <= 1 /\ call.spent <= 60 * call.attempt

\* Who quotes a rate has it in the cache.
QuoteInv == out.adapter = "fx" /\ out.status = "success" => cache # P!NoEntry

ProviderInv == RateInv /\ CallInv /\ QuoteInv /\ P!HonestEnvelope /\ P!SearchesAreFaithful

LEMMA IdleTyped == P!Idle \in CallRecords
BY DEF P!Idle, CallRecords, Queries

LEMMA ProviderInit == P!Init => ProviderInv
<1> SUFFICES ASSUME P!Init PROVE ProviderInv
  OBVIOUS
<1>1. RateInv
  BY DEF P!Init, RateInv, P!NoEntry
<1>2. CallInv
  BY IdleTyped DEF P!Init, CallInv, P!Idle, StagesOf
<1>3. P!HonestEnvelope
  BY DEF P!Init, P!HonestEnvelope, P!NoEnvelope
<1> QED BY <1>1, <1>2, <1>3 DEF ProviderInv, QuoteInv, P!Init, P!NoEnvelope, P!SearchesAreFaithful

\* No call in progress, after a step.
LEMMA IdleFits == ASSUME call' = P!Idle, now' \in Nat PROVE CallInv'
BY IdleTyped DEF CallInv, P!Idle, StagesOf

\* An adapter that is at rest.
LEMMA QuietCall == ASSUME P!Quiet PROVE call.adapter = "none" /\ call.stage = "none"
BY DEF P!Quiet, P!Idle

\* What a started call is.
LEMMA StartedCall ==
    ASSUME NEW adapter \in {"fx", "weather", "flights", "web"}, NEW query \in Queries,
           NEW stage \in StagesOf[adapter], P!Start(adapter, query, stage), now \in Nat
    PROVE  /\ call' \in CallRecords
           /\ call'.adapter = adapter /\ call'.query = query /\ call'.stage = stage
           /\ call'.begun = now /\ call'.attempt = 0 /\ call'.spent = 0
           /\ out' = P!NoEnvelope
<1> DEFINE b == P!Idle
<1>1. b \in CallRecords /\ b.attempt = 0 /\ b.spent = 0 BY IdleTyped DEF P!Idle
<1>2. call' = [b EXCEPT !.adapter = adapter, !.query = query, !.stage = stage, !.begun = now]
  BY DEF P!Start
<1>3. stage \in {"none", "rate", "geocode", "forecast", "archive", "search"}
  BY DEF StagesOf
<1>4. out' = P!NoEnvelope
  BY DEF P!Start
<1> HIDE DEF b
<1> QED BY <1>1, <1>2, <1>3, <1>4 DEF CallRecords

\* A retry keeps the call within what its attempts may cost.
LEMMA RetryFits ==
    ASSUME CallInv, NEW policy, NEW bodies, NEW r \in P!Replies(bodies),
           call.adapter # "none", UNCHANGED <<now, cache>>,
           policy = IF call.adapter \in {"flights", "web"} THEN P!SerpApiPolicy ELSE P!DefaultPolicy,
           P!Verdict(policy, call.attempt, r) = "waits", P!Retry(policy, r)
    PROVE  CallInv'
<1> DEFINE wait == P!Backoff(call.attempt, policy, r.hint)
<1>1. call \in CallRecords /\ call.attempt \in Nat /\ call.spent \in Nat
  BY DEF CallInv, CallRecords
<1>2. call.attempt # policy.retries
  BY DEF P!Verdict
<1>3. call.attempt \in {0, 1} /\ call.attempt < policy.retries
  BY <1>1, <1>2 DEF CallInv, CallRecords, P!SerpApiPolicy, P!DefaultPolicy
<1>4. wait \in 0..policy.cap
  BY <1>3, BackoffCapped, Hints
<1>5. call' = [call EXCEPT !.attempt = @ + 1, !.spent = @ + policy.timeout + wait]
  BY DEF P!Retry
<1> HIDE DEF wait
<1>6. policy.timeout \in Nat /\ policy.cap \in Nat
  BY DEF P!SerpApiPolicy, P!DefaultPolicy
<1>7. call' \in CallRecords
  <2>1. wait \in Nat
    BY <1>4, <1>6
  <2>2. call.attempt + 1 \in Nat /\ call.spent + policy.timeout + wait \in Nat
    BY <1>1, <1>6, <2>1
  <2> QED BY <1>1, <1>5, <2>2 DEF CallRecords
<1>8. /\ call'.attempt = call.attempt + 1 /\ call'.spent = call.spent + policy.timeout + wait
      /\ call'.adapter = call.adapter /\ call'.stage = call.stage /\ call'.query = call.query
      /\ call'.begun = call.begun
  BY <1>1, <1>5 DEF CallRecords
<1>9. CASE call.adapter \in {"flights", "web"}
  BY <1>1, <1>3, <1>4, <1>7, <1>8, <1>9 DEF CallInv, P!SerpApiPolicy
<1>10. CASE call.adapter \in {"fx", "weather"}
  <2>1. policy = P!DefaultPolicy
    BY <1>10
  <2>2. policy.timeout = 20 /\ policy.cap = 16
    BY <2>1 DEF P!DefaultPolicy
  <2>3. call'.attempt <= 2 /\ call'.spent <= 36 * call'.attempt
    <3>1. call.spent <= 36 * call.attempt
      BY <1>10 DEF CallInv
    <3>2. wait \in 0..16 /\ call'.spent = call.spent + 20 + wait
      BY <1>4, <1>8, <2>2
    <3> QED BY <1>1, <1>3, <1>8, <3>1, <3>2
  <2> QED BY <1>7, <1>8, <1>10, <2>3 DEF CallInv
<1> QED BY <1>1, <1>9, <1>10 DEF CallRecords

-----------------------------------------------------------------------------
\* Envelopes

\* Only a search that succeeded has something to be faithful to.
LEMMA NoSearch == ASSUME out'.adapter \notin {"flights", "web"} PROVE P!SearchesAreFaithful'
BY DEF P!SearchesAreFaithful

LEMMA EmptySearch ==
    ASSUME out'.data = {}, out'.source = <<>> PROVE P!SearchesAreFaithful'
<1>1. P!FirstUsable(<<>>) = {}
  BY DEF P!FirstUsable
<1> QED BY <1>1 DEF P!SearchesAreFaithful


LEMMA NothingServed ==
    ASSUME out' = P!NoEnvelope
    PROVE  P!HonestEnvelope' /\ P!SearchesAreFaithful' /\ out'.status # "success"
BY NoSearch DEF P!HonestEnvelope, P!NoEnvelope

LEMMA DegradedIsHonest ==
    ASSUME NEW adapter, NEW status \in P!NoDataStatuses, out' = P!Degraded(adapter, status)
    PROVE  P!HonestEnvelope' /\ P!SearchesAreFaithful' /\ out'.status # "success"
<1>1. /\ out'.status = status /\ out'.mode = P!DataMode(status) /\ out'.cache = "bypass"
      /\ out'.complete = P!Completeness(status) /\ out'.data = {} /\ out'.source = <<>>
  BY DEF P!Degraded, P!Envelope
<1>2. P!HonestEnvelope' /\ out'.status # "success"
  BY <1>1, NoData DEF P!HonestEnvelope
<1> QED BY <1>1, <1>2, EmptySearch

LEMMA FxShape ==
    ASSUME NEW status, NEW mode, NEW cacheStatus, NEW rate \in Nat \ {0},
           NEW e, e = P!FxEnvelope(status, mode, cacheStatus, rate)
    PROVE  /\ e.adapter = "fx" /\ e.status = status /\ e.mode = mode /\ e.cache = cacheStatus
           /\ e.age = call.begun - cache.stored /\ e.data = {rate} /\ e.answers = call.answers
BY DEF P!FxEnvelope, P!Envelope

\* A positive time to live tells an entry from none.
LEMMA Cached ==
    ASSUME RateInv, cache # P!NoEntry
    PROVE  /\ cache.value \in Rates /\ cache.value \in Nat \ {0} /\ cache.stored \in Nat
           /\ cache.ttl = CacheTtl /\ cache.ttl # 0
BY ToolsConstantsOK DEF RateInv

LEMMA NoneCached == CacheTtl \in Nat \ {0} /\ P!CacheStatus(P!NoEntry, now) # "hit"
BY ToolsConstantsOK DEF P!CacheStatus, P!NoEntry

-----------------------------------------------------------------------------
\* FX rates

LEMMA FxBeginKeeps ==
    ASSUME ProviderInv, P!FxBegin
    PROVE  ProviderInv' /\ P!FreshOrMarked /\ out'.adapter # "weather"
<1>1. RateInv /\ RateInv' /\ UNCHANGED <<now, cache, got>>
  BY DEF ProviderInv, P!FxBegin, RateInv
<1>2. now \in Nat /\ got.at \in Nat /\ cache.stored <= got.at /\ got.rate = cache.value
  BY <1>1 DEF RateInv
<1>3. CASE P!CacheStatus(cache, now) = "hit"
  <2>1. cache # P!NoEntry
    BY <1>3, NoneCached
  <2>2. /\ cache.value \in Nat \ {0} /\ cache.stored \in Nat /\ cache.ttl = CacheTtl
        /\ cache.ttl # 0
    BY <1>1, <2>1, Cached
  <2>3. ~(now - cache.stored > CacheTtl)
    BY <1>3, <2>2 DEF P!CacheStatus
  <2>4. now - got.at <= CacheTtl
    BY <1>2, <2>2, <2>3, NoneCached
  <2> DEFINE e == P!FxEnvelope("success", "live", "hit", cache.value)
  <2>5. out' = [e EXCEPT !.age = now - cache.stored] /\ call' = P!Idle
    BY <1>3 DEF P!FxBegin, P!Finish
  <2>6. /\ out'.adapter = "fx" /\ out'.status = "success" /\ out'.mode = "live"
        /\ out'.cache = "hit" /\ out'.data = {cache.value}
    BY <2>2, <2>5 DEF P!FxEnvelope, P!Envelope
  <2>7. P!HonestEnvelope'
    BY <1>1, <1>2, <2>6 DEF P!HonestEnvelope
  <2>8. P!FreshOrMarked
    BY <2>4, <2>6 DEF P!FreshOrMarked
  <2>9. CallInv'
    BY <1>1, <1>2, <2>5, IdleFits
  <2>10. QuoteInv'
    BY <1>1, <2>1 DEF QuoteInv
  <2> QED BY <1>1, <2>6, <2>7, <2>8, <2>9, <2>10, NoSearch DEF ProviderInv
<1>4. CASE P!CacheStatus(cache, now) # "hit"
  <2>1. P!Start("fx", {}, "rate")
    BY <1>4 DEF P!FxBegin
  <2>2. {} \in Queries /\ "rate" \in StagesOf["fx"]
    BY DEF Queries, StagesOf
  <2>3. /\ call' \in CallRecords /\ call'.adapter = "fx" /\ call'.stage = "rate"
        /\ call'.begun = now /\ call'.attempt = 0 /\ call'.spent = 0 /\ out' = P!NoEnvelope
    BY <1>2, <2>1, <2>2, StartedCall
  <2>4. cache # P!NoEntry => now - cache.stored > CacheTtl
    BY <1>1, <1>4, Cached DEF P!CacheStatus
  <2>5. CallInv'
    BY <1>1, <1>2, <2>2, <2>3, <2>4 DEF CallInv
  <2>6. P!HonestEnvelope' /\ P!SearchesAreFaithful' /\ P!FreshOrMarked /\ QuoteInv'
        /\ out'.adapter # "weather"
    BY <2>3, NothingServed DEF P!FreshOrMarked, QuoteInv, P!NoEnvelope
  <2> QED BY <1>1, <2>5, <2>6 DEF ProviderInv
<1> QED BY <1>3, <1>4

\* After a failed fetch the rate of any age is served, marked, or none at all.
LEMMA FallbackKeeps ==
    ASSUME ProviderInv, call.stage = "rate", NEW status \in P!NoDataStatuses,
           P!Finish(P!FxFallback(status)), UNCHANGED <<now, cache, got>>
    PROVE  ProviderInv' /\ P!FreshOrMarked /\ out'.adapter = "fx"
<1>1. RateInv /\ RateInv' /\ CallInv
  BY DEF ProviderInv, RateInv
<1>2. CallInv'
  BY <1>1, IdleFits DEF P!Finish, RateInv
<1>3. out' = P!FxFallback(status)
  BY DEF P!Finish
<1>4. CASE cache = P!NoEntry
  <2>1. out' = P!Degraded("fx", status)
    BY <1>3, <1>4 DEF P!FxFallback
  <2>2. out'.adapter = "fx"
    BY <2>1 DEF P!Degraded, P!Envelope
  <2> QED BY <1>1, <1>2, <2>1, <2>2, DegradedIsHonest DEF ProviderInv, QuoteInv, P!FreshOrMarked
<1>5. CASE cache # P!NoEntry
  <2>1. cache.value \in Nat \ {0}
    BY <1>1, <1>5, Cached
  <2>2. call.adapter = "fx"
    BY <1>1 DEF CallInv, CallRecords, StagesOf
  <2>3. call.begun - cache.stored > CacheTtl
    BY <1>1, <1>5, <2>2 DEF CallInv
  <2>4. out' = P!FxEnvelope("success", "cached", "stale", cache.value)
    BY <1>3, <1>5 DEF P!FxFallback
  <2>5. /\ out'.adapter = "fx" /\ out'.status = "success" /\ out'.mode = "cached"
        /\ out'.cache = "stale" /\ out'.age > CacheTtl /\ out'.data = {cache.value}
    BY <2>1, <2>3, <2>4, FxShape
  <2>6. P!HonestEnvelope'
    BY <1>1, <2>5 DEF P!HonestEnvelope, RateInv
  <2>7. QuoteInv'
    BY <1>5 DEF QuoteInv
  <2> QED BY <1>1, <1>2, <2>5, <2>6, <2>7, NoSearch DEF ProviderInv, P!FreshOrMarked
<1> QED BY <1>4, <1>5

LEMMA FxReplyKeeps ==
    ASSUME ProviderInv, NEW r \in P!Replies(Rates \cup {0}), P!FxReply(r)
    PROVE  ProviderInv' /\ P!FreshOrMarked /\ (out' = out \/ out'.adapter = "fx")
<1> DEFINE verdict == P!Verdict(P!DefaultPolicy, call.attempt, r)
<1>1. RateInv /\ CallInv /\ call.stage = "rate" /\ now' = now /\ now \in Nat
  BY DEF ProviderInv, P!FxReply, RateInv
<1>2. call.adapter = "fx" /\ call.begun \in Nat
  BY <1>1 DEF CallInv, CallRecords, StagesOf
<1>3. CASE verdict = "waits"
  <2>1. P!Retry(P!DefaultPolicy, r) /\ UNCHANGED <<cache, got, out>>
    BY <1>3 DEF P!FxReply
  <2>2. CallInv'
    BY <1>1, <1>2, <1>3, <2>1, RetryFits
  <2>3. RateInv' /\ P!HonestEnvelope' /\ P!FreshOrMarked
    BY <1>1, <2>1 DEF ProviderInv, RateInv, P!HonestEnvelope, P!FreshOrMarked
  <2> QED BY <2>1, <2>2, <2>3 DEF ProviderInv, QuoteInv, P!SearchesAreFaithful
<1>4. CASE verdict = "failed"
  <2>1. P!Finish(P!FxFallback(P!ReplyStatus(r))) /\ UNCHANGED <<cache, got>>
    BY <1>4 DEF P!FxReply
  <2>2. P!ReplyStatus(r) \in P!NoDataStatuses
    BY <1>4, FailureStatus DEF P!Verdict
  <2> QED BY <1>1, <2>1, <2>2, FallbackKeeps
<1>5. CASE verdict = "answered" /\ r.body = 0
  <2>1. P!Finish(P!FxFallback("provider_error")) /\ UNCHANGED <<cache, got>>
    BY <1>5 DEF P!FxReply
  <2>2. "provider_error" \in P!NoDataStatuses
    BY DEF P!NoDataStatuses, P!ResultStatuses
  <2> QED BY <1>1, <2>1, <2>2, FallbackKeeps
<1>6. CASE verdict = "answered" /\ r.body # 0
  <2>1. P!ReplyStatus(r) = "success"
    BY <1>6 DEF P!Verdict
  <2>2. r.body \in Rates /\ r.body \in Nat \ {0}
    BY <1>6, <2>1, SuccessHasBody, ToolsConstantsOK
  <2> DEFINE e == P!FxEnvelope("success", "live", "miss", r.body)
  <2>3. /\ call' = P!Idle /\ out' = [e EXCEPT !.age = 0, !.answers = 1]
        /\ cache' = [value |-> r.body, stored |-> call.begun, ttl |-> CacheTtl]
        /\ got' = [rate |-> r.body, at |-> now]
    BY <1>6 DEF P!FxReply, P!Finish
  <2>4. CallInv'
    BY <1>1, <2>3, IdleFits
  <2>5. RateInv'
    BY <1>1, <1>2, <2>2, <2>3 DEF RateInv, CallInv
  <2>6. /\ out'.adapter = "fx" /\ out'.status = "success" /\ out'.mode = "live"
        /\ out'.cache = "miss" /\ out'.data = {r.body} /\ out'.answers = 1
    BY <2>2, <2>3 DEF P!FxEnvelope, P!Envelope
  <2>7. P!HonestEnvelope'
    BY <2>3, <2>6 DEF P!HonestEnvelope
  <2>8. QuoteInv'
    BY <2>3, NoneCached DEF QuoteInv, P!NoEntry
  <2> QED BY <2>3, <2>4, <2>5, <2>6, <2>7, <2>8, NoSearch DEF ProviderInv, P!FreshOrMarked
<1>7. verdict \in {"waits", "failed", "answered"}
  BY DEF P!Verdict
<1> QED BY <1>3, <1>4, <1>5, <1>6, <1>7

-----------------------------------------------------------------------------
\* Weather

\* The live part of a range is what is not behind the horizon, and the climate part
\* is the rest.
LEMMA RangeParts ==
    ASSUME NEW q \in P!WeatherQueries
    PROVE  /\ P!LiveDays(q) = {d \in q.from..q.to : d <= Horizon}
           /\ P!ClimateDays(q) = {d \in q.from..q.to : d > Horizon}
<1>1. q.from \in Int /\ q.to \in Int /\ Horizon \in Int
  BY ToolsConstantsOK DEF P!WeatherQueries
<1>2. ASSUME NEW d PROVE d \in P!LiveDays(q) <=> d \in q.from..q.to /\ d <= Horizon
  <2>1. CASE q.from <= Horizon /\ q.to < Horizon BY <1>1, <2>1 DEF P!LiveDays
  <2>2. CASE q.from <= Horizon /\ ~(q.to < Horizon) BY <1>1, <2>2 DEF P!LiveDays
  <2>3. CASE ~(q.from <= Horizon) BY <1>1, <2>3 DEF P!LiveDays
  <2> QED BY <2>1, <2>2, <2>3
<1>3. ASSUME NEW d PROVE d \in P!ClimateDays(q) <=> d \in q.from..q.to /\ d > Horizon
  <2>1. CASE q.to > Horizon /\ q.from > Horizon + 1 BY <1>1, <2>1 DEF P!ClimateDays
  <2>2. CASE q.to > Horizon /\ ~(q.from > Horizon + 1) BY <1>1, <2>2 DEF P!ClimateDays
  <2>3. CASE ~(q.to > Horizon) BY <1>1, <2>3 DEF P!ClimateDays
  <2> QED BY <2>1, <2>2, <2>3
<1> QED BY <1>2, <1>3

\* An answer with as many days as the live part has serves all of it.
LEMMA EnoughDays ==
    ASSUME NEW from \in Int, NEW to \in Int, NEW live \in SUBSET (from..to), NEW days \in Int,
           days >= Cardinality(live), NEW some \in SUBSET live
    PROVE  Cardinality(some) <= days
<1>1. IsFiniteSet(from..to)
  BY FS_Interval
<1>2. IsFiniteSet(live)
  BY <1>1, FS_Subset
<1>3. Cardinality(some) <= Cardinality(live) /\ IsFiniteSet(some)
  BY <1>2, FS_Subset
<1>4. Cardinality(live) \in Nat /\ Cardinality(some) \in Nat
  BY <1>2, <1>3, FS_CardinalityType
<1> QED BY <1>3, <1>4

\* Whatever days an answer had and whatever days the sampled years have records of,
\* the merged result is honest about each day.
LEMMA RangeServed ==
    ASSUME ProviderInv, call.adapter = "weather", NEW days \in Int, NEW sampled,
           out' = P!WeatherEnvelope(days, sampled)
    PROVE  P!HonestEnvelope' /\ P!ServesTheRange
<1> DEFINE q == call.query
           asked == q.from..q.to
           beyond == {d \in asked : d > Horizon}
           live == P!LiveDays(q)
           climate == P!ClimateDays(q)
           Served(kind) == {d \in 0..MaxDay : <<d, kind>> \in out'.data}
<1>1. q \in P!WeatherQueries /\ q.from \in 0..q.to /\ call.answers \in Nat
  BY DEF ProviderInv, CallInv, CallRecords
<1>2. q.from \in Nat /\ q.to \in Nat /\ q.from <= q.to /\ q.to <= MaxDay /\ Horizon \in Nat /\ MaxDay \in Nat
  BY <1>1, ToolsConstantsOK DEF P!WeatherQueries
<1>3. live = asked \ beyond /\ climate = beyond
  <2>1. live = {d \in asked : d <= Horizon} /\ climate = beyond
    BY <1>1, RangeParts
  <2>2. \A d \in asked : d <= Horizon <=> ~(d > Horizon)
    BY <1>2
  <2> HIDE DEF live, climate, asked
  <2> QED BY <2>1, <2>2
<1>4. /\ out'.adapter = "weather" /\ out'.status = "success" /\ out'.cache = "bypass"
      /\ out'.mode = P!WeatherMode(live # {}, climate # {})
      /\ out'.data = P!WeatherData(days, sampled) /\ out'.source = <<days, sampled>>
      /\ out'.answers = call.answers + 1
  BY DEF P!WeatherEnvelope, P!Envelope
<1>5. out'.mode \in {"mixed", "historical", "live"}
  BY <1>4 DEF P!WeatherMode
<1>6. P!HonestEnvelope'
  BY <1>1, <1>4, <1>5 DEF P!HonestEnvelope
<1>7. out'.data = {<<d, "forecast">> : d \in {e \in live : P!Cardinality({f \in live : f <= e}) <= days}}
                    \cup {<<d, "climate">> : d \in sampled \cap climate}
  BY <1>4 DEF P!WeatherData
<1>8. live \subseteq asked /\ asked \subseteq 0..MaxDay /\ climate \subseteq asked
  <2>1. asked \subseteq 0..MaxDay
    BY <1>2
  <2> HIDE DEF live, climate, asked
  <2> QED BY <1>3, <2>1
<1>9. ASSUME NEW d
      PROVE /\ d \in Served("forecast") <=> d \in live /\ P!Cardinality({f \in live : f <= d}) <= days
            /\ d \in Served("climate") <=> d \in sampled \cap climate
  <2> HIDE DEF live, climate, asked
  <2> QED BY <1>7, <1>8
<1>10. Served("forecast") \subseteq live /\ Served("climate") \subseteq climate
  <2> HIDE DEF live, climate, Served
  <2> QED BY <1>9
<1>11. days >= Cardinality(live) => Served("forecast") = live
  <2> SUFFICES ASSUME days >= Cardinality(live) PROVE Served("forecast") = live
    OBVIOUS
  <2>1. ASSUME NEW e \in live PROVE P!Cardinality({f \in live : f <= e}) <= days
    <3>1. live \in SUBSET (q.from..q.to)
      BY <1>8
    <3> HIDE DEF live
    <3> DEFINE some == {f \in live : f <= e}
    <3>2. some \in SUBSET live
      OBVIOUS
    <3>3. Cardinality(some) <= days
      <4>1. q.from \in Int /\ q.to \in Int /\ days >= Cardinality(live)
        BY <1>2
      <4> HIDE DEF some, q
      <4> QED BY <3>1, <3>2, <4>1, EnoughDays
    <3> QED BY <3>3, SameCardinality
  <2> HIDE DEF live, Served
  <2> QED BY <1>9, <2>1
<1>12. climate \subseteq sampled => Served("climate") = climate
  <2> HIDE DEF climate, Served
  <2> QED BY <1>9
<1>13. out'.mode = CASE beyond = {} -> "live" [] beyond = asked -> "historical" [] OTHER -> "mixed"
  <2>1. q.from \in asked
    BY <1>2
  <2> HIDE DEF live, climate, beyond, asked
  <2>2. live = {} <=> beyond = asked
    BY <1>3, <1>8
  <2> QED BY <1>3, <1>4, <2>1, <2>2 DEF P!WeatherMode
<1>14. P!ServesTheRange
  <2>1. out'.source[1] = days /\ out'.source[2] = sampled
    BY <1>4
  <2>2. /\ Served("forecast") \subseteq asked \ beyond /\ Served("climate") \subseteq beyond
        /\ out'.source[1] >= P!Cardinality(asked \ beyond) => Served("forecast") = asked \ beyond
        /\ beyond \subseteq out'.source[2] => Served("climate") = beyond
    <3> HIDE DEF live, climate, beyond, asked, Served
    <3> QED BY <1>3, <1>10, <1>11, <1>12, <2>1, SameCardinality
  <2> QED BY <1>13, <2>2 DEF P!ServesTheRange
<1> QED BY <1>6, <1>14

\* What every step of a call gives.
Good == ProviderInv' /\ P!FreshOrMarked /\ P!ServesTheRange

LEMMA RatesRest == ASSUME RateInv, UNCHANGED <<now, cache, got>> PROVE RateInv'
BY DEF RateInv

LEMMA DegradedEnds ==
    ASSUME ProviderInv, NEW adapter, NEW status \in P!NoDataStatuses,
           P!Finish(P!Degraded(adapter, status)), UNCHANGED <<now, cache, got>>
    PROVE  Good
<1>1. RateInv' /\ CallInv'
  BY RatesRest, IdleFits DEF ProviderInv, P!Finish, RateInv
<1>2. P!HonestEnvelope' /\ P!SearchesAreFaithful' /\ out'.status # "success"
  BY DegradedIsHonest DEF P!Finish
<1> QED BY <1>1, <1>2 DEF Good, ProviderInv, QuoteInv, P!FreshOrMarked, P!ServesTheRange

LEMMA RaisedEnds ==
    ASSUME ProviderInv, P!WeatherRaises, UNCHANGED <<now, cache, got>>
    PROVE  Good
<1>1. RateInv' /\ CallInv'
  BY RatesRest, IdleFits DEF ProviderInv, P!Finish, RateInv, P!WeatherRaises
<1> DEFINE e == P!Degraded("weather", "provider_error")
<1>2. "provider_error" \in P!NoDataStatuses
  BY DEF P!NoDataStatuses, P!ResultStatuses
<1>3. out' = [e EXCEPT !.status = "raised"]
  BY DEF P!WeatherRaises, P!Finish
<1>4. /\ out'.status = "raised" /\ out'.mode = "unavailable" /\ out'.cache = "bypass"
      /\ out'.complete = 0 /\ out'.data = {} /\ out'.source = <<>>
  BY <1>2, <1>3, NoData DEF P!Degraded, P!Envelope
<1> QED BY <1>1, <1>4, EmptySearch DEF Good, ProviderInv, QuoteInv, P!HonestEnvelope, P!FreshOrMarked, P!ServesTheRange

LEMMA CallMoves ==
    ASSUME ProviderInv, CallInv', UNCHANGED <<now, cache, got, out>>
    PROVE  Good
<1>1. RateInv'
  BY RatesRest DEF ProviderInv
<1> QED BY <1>1 DEF Good, ProviderInv, QuoteInv, P!HonestEnvelope, P!FreshOrMarked, P!ServesTheRange, P!SearchesAreFaithful

\* A call that passes validation starts with nothing spent.
LEMMA StartIsGood ==
    ASSUME ProviderInv, UNCHANGED <<now, cache, got>>,
           NEW adapter \in {"weather", "flights", "web"}, NEW query \in Queries,
           NEW stage \in StagesOf[adapter], P!Start(adapter, query, stage),
           adapter = "weather" => query \in P!WeatherQueries /\ query.from \in 0..query.to
    PROVE  Good
<1>1. RateInv' /\ now \in Nat
  BY RatesRest DEF ProviderInv, RateInv
<1>2. /\ call' \in CallRecords
      /\ call'.adapter = adapter /\ call'.query = query /\ call'.stage = stage
      /\ call'.begun = now /\ call'.attempt = 0 /\ call'.spent = 0 /\ out' = P!NoEnvelope
  BY <1>1, StartedCall
<1>3. CallInv'
  BY <1>1, <1>2 DEF CallInv
<1>4. P!HonestEnvelope' /\ P!SearchesAreFaithful' /\ out'.status # "success"
  BY <1>2, NothingServed
<1> QED BY <1>1, <1>3, <1>4 DEF Good, ProviderInv, QuoteInv, P!FreshOrMarked, P!ServesTheRange

LEMMA WeatherBeginKeeps ==
    ASSUME ProviderInv, NEW q \in P!WeatherQueries, P!WeatherBegin(q)
    PROVE  Good
<1>1. UNCHANGED <<now, cache, got>>
  BY DEF P!WeatherBegin
<1>2. CASE P!WeatherVerdict(q) # "ok"
  <2>1. P!WeatherVerdict(q) \in P!NoDataStatuses
    BY <1>2 DEF P!WeatherVerdict, P!NoDataStatuses, P!ResultStatuses
  <2>2. P!Finish(P!Degraded("weather", P!WeatherVerdict(q)))
    BY <1>2 DEF P!WeatherBegin
  <2> QED BY <1>1, <2>1, <2>2, DegradedEnds
<1>3. CASE P!WeatherVerdict(q) = "ok"
  <2>1. q.from \in Int /\ q.to \in Int
    BY DEF P!WeatherQueries
  <2>2. q.from \in 0..q.to
    BY <1>3, <2>1 DEF P!WeatherVerdict
  <2>3. PICK stage \in {"geocode", "forecast", "archive"} : P!Start("weather", q, stage)
    BY <1>3 DEF P!WeatherBegin
  <2>4. stage \in StagesOf["weather"] /\ q \in Queries
    BY DEF StagesOf, Queries
  <2> QED BY <1>1, <2>2, <2>3, <2>4, StartIsGood
<1> QED BY <1>2, <1>3

\* What a weather call in progress knows.
LEMMA WeatherCall ==
    ASSUME ProviderInv, call.stage \in {"geocode", "forecast", "archive"}
    PROVE  /\ CallInv /\ call \in CallRecords /\ call.adapter = "weather"
           /\ call.answers \in Nat /\ call.days \in Int /\ call.year \in Nat
           /\ call.sampled \in SUBSET Int
BY DEF ProviderInv, CallInv, CallRecords, StagesOf

LEMMA WeatherFailureKeeps ==
    ASSUME ProviderInv, call.stage \in {"geocode", "forecast", "archive"},
           NEW bodies, NEW r \in P!Replies(bodies), P!ReplyStatus(r) # "success",
           P!WeatherFailure(r), UNCHANGED <<now, cache, got>>
    PROVE  Good
<1>1. CallInv /\ call.adapter = "weather"
  BY WeatherCall
<1>2. CASE P!Verdict(P!DefaultPolicy, call.attempt, r) = "waits"
  <2>1. P!Retry(P!DefaultPolicy, r) /\ UNCHANGED out
    BY <1>2 DEF P!WeatherFailure
  <2>2. CallInv'
    BY <1>1, <1>2, <2>1, RetryFits
  <2> QED BY <2>1, <2>2, CallMoves
<1>3. CASE P!Verdict(P!DefaultPolicy, call.attempt, r) # "waits"
  <2>1. P!Finish(P!Degraded("weather", P!ReplyStatus(r)))
    BY <1>3 DEF P!WeatherFailure
  <2> QED BY <2>1, FailureStatus, DegradedEnds
<1> QED BY <1>2, <1>3

\* The next request of a weather call starts with a full budget.
LEMMA NextRequestFits ==
    ASSUME ProviderInv, call.stage \in {"geocode", "forecast", "archive"}, UNCHANGED <<now, cache>>,
           NEW stage \in {"geocode", "forecast", "archive"}, NEW answers \in Nat,
           NEW days \in Int, NEW year \in Nat, NEW sampled \in SUBSET Int,
           call' = [call EXCEPT !.stage = stage, !.attempt = 0, !.spent = 0, !.answers = answers,
                                !.days = days, !.year = year, !.sampled = sampled]
    PROVE  CallInv'
<1>1. CallInv /\ call \in CallRecords /\ call.adapter = "weather"
  BY WeatherCall
<1>2. call' \in CallRecords
  BY <1>1 DEF CallRecords
<1>3. /\ call'.stage = stage /\ call'.attempt = 0 /\ call'.spent = 0
      /\ call'.adapter = "weather" /\ call'.query = call.query /\ call'.begun = call.begun
  BY <1>1 DEF CallRecords
<1> QED BY <1>1, <1>2, <1>3 DEF CallInv, StagesOf

LEMMA ProviderErrors ==
    /\ "provider_error" \in P!NoDataStatuses /\ "unavailable" \in P!NoDataStatuses
    /\ "rate_limited" \in P!NoDataStatuses
BY DEF P!NoDataStatuses, P!ResultStatuses

LEMMA GeocodeKeeps ==
    ASSUME ProviderInv, NEW r \in P!Replies({"place", "nothing", "junk", "odd"}), P!Geocode(r)
    PROVE  Good
<1>1. call.stage = "geocode" /\ UNCHANGED <<now, cache, got>>
  BY DEF P!Geocode
<1>2. CASE P!ReplyStatus(r) # "success"
  <2>1. P!WeatherFailure(r)
    BY <1>2 DEF P!Geocode
  <2> QED BY <1>1, <1>2, <2>1, WeatherFailureKeeps
<1>3. CASE P!ReplyStatus(r) = "success" /\ r.body = "junk"
  <2>1. P!Finish(P!Degraded("weather", "provider_error"))
    BY <1>3 DEF P!Geocode
  <2> QED BY <1>1, <2>1, ProviderErrors, DegradedEnds
<1>4. CASE P!ReplyStatus(r) = "success" /\ r.body = "nothing"
  <2>1. P!Finish(P!Degraded("weather", "unavailable"))
    BY <1>4 DEF P!Geocode
  <2> QED BY <1>1, <2>1, ProviderErrors, DegradedEnds
<1>5. CASE P!ReplyStatus(r) = "success" /\ r.body = "odd"
  <2>1. P!WeatherRaises
    BY <1>5 DEF P!Geocode
  <2> QED BY <1>1, <2>1, RaisedEnds
<1>6. CASE P!ReplyStatus(r) = "success" /\ r.body \notin {"junk", "nothing", "odd"}
  <2>1. PICK stage \in {"forecast", "archive"} : P!Advance(stage)
    BY <1>6 DEF P!Geocode
  <2>2. UNCHANGED out
    BY <1>6 DEF P!Geocode
  <2>3. CallInv /\ call \in CallRecords /\ call.answers + 1 \in Nat
    BY <1>1, WeatherCall
  <2>4. call' = [call EXCEPT !.stage = stage, !.attempt = 0, !.spent = 0, !.answers = call.answers + 1,
                             !.days = call.days, !.year = call.year, !.sampled = call.sampled]
    BY <2>1, <2>3 DEF P!Advance, CallRecords
  <2>5. CallInv'
    BY <1>1, <2>3, <2>4, WeatherCall, NextRequestFits
  <2> QED BY <1>1, <2>2, <2>5, CallMoves
<1> QED BY <1>2, <1>3, <1>4, <1>5, <1>6

\* A range that was served ends the call.
LEMMA RangeEnds ==
    ASSUME ProviderInv, call.adapter = "weather", NEW days \in Int, NEW sampled,
           P!Finish(P!WeatherEnvelope(days, sampled)), UNCHANGED <<now, cache, got>>
    PROVE  Good
<1>1. RateInv' /\ CallInv'
  BY RatesRest, IdleFits DEF ProviderInv, P!Finish, RateInv
<1>2. P!HonestEnvelope' /\ P!ServesTheRange
  BY RangeServed DEF P!Finish
<1>3. out'.adapter = "weather"
  BY DEF P!Finish, P!WeatherEnvelope, P!Envelope
<1> QED BY <1>1, <1>2, <1>3, NoSearch DEF Good, ProviderInv, QuoteInv, P!FreshOrMarked

LEMMA ForecastKeeps ==
    ASSUME ProviderInv, NEW r \in P!Replies(P!Junk \cup P!Odd \cup 0..Horizon + 1), P!Forecast(r)
    PROVE  Good
<1>1. call.stage = "forecast" /\ UNCHANGED <<now, cache, got>>
  BY DEF P!Forecast
<1>2. call \in CallRecords /\ call.adapter = "weather" /\ call.answers + 1 \in Nat
  BY <1>1, WeatherCall
<1>3. CASE P!ReplyStatus(r) # "success"
  <2>1. P!WeatherFailure(r)
    BY <1>3 DEF P!Forecast
  <2> QED BY <1>1, <1>3, <2>1, WeatherFailureKeeps
<1>4. CASE P!ReplyStatus(r) = "success" /\ r.body \in P!Junk
  <2>1. P!Finish(P!Degraded("weather", "provider_error"))
    BY <1>4 DEF P!Forecast, P!Junk, P!Odd
  <2> QED BY <1>1, <2>1, ProviderErrors, DegradedEnds
<1>5. CASE P!ReplyStatus(r) = "success" /\ r.body \in P!Odd
  <2>1. P!WeatherRaises
    BY <1>5 DEF P!Forecast, P!Junk, P!Odd
  <2> QED BY <1>1, <2>1, RaisedEnds
<1>6. CASE P!ReplyStatus(r) = "success" /\ r.body \notin P!Junk \cup P!Odd
  <2>1. r.body \in P!Junk \cup P!Odd \cup 0..Horizon + 1
    BY <1>6, SuccessHasBody
  <2>2. r.body \in Int
    BY <1>6, <2>1, ToolsConstantsOK
  <2>3. CASE P!ClimateDays(call.query) = {}
    <3>1. P!Finish(P!WeatherEnvelope(r.body, {}))
      BY <1>6, <2>3 DEF P!Forecast
    <3> QED BY <1>1, <1>2, <2>2, <3>1, RangeEnds
  <2>4. CASE P!ClimateDays(call.query) # {}
    <3>1. /\ call' = [P!Answered EXCEPT !.stage = "archive", !.attempt = 0, !.spent = 0, !.days = r.body]
          /\ UNCHANGED out
      BY <1>6, <2>4 DEF P!Forecast
    <3>2. call' = [call EXCEPT !.stage = "archive", !.attempt = 0, !.spent = 0, !.answers = call.answers + 1,
                               !.days = r.body, !.year = call.year, !.sampled = call.sampled]
      BY <1>2, <3>1 DEF P!Answered, CallRecords
    <3>3. CallInv'
      BY <1>1, <1>2, <2>2, <3>2, WeatherCall, NextRequestFits
    <3> QED BY <1>1, <3>1, <3>3, CallMoves
  <2> QED BY <2>3, <2>4
<1> QED BY <1>3, <1>4, <1>5, <1>6

LEMMA ArchiveKeeps ==
    ASSUME ProviderInv, NEW r \in P!Replies({P!Junk, P!Odd} \cup SUBSET (Horizon + 1..MaxDay)),
           P!Archive(r)
    PROVE  Good
<1>1. call.stage = "archive" /\ UNCHANGED <<now, cache, got>>
  BY DEF P!Archive
<1>2. /\ call \in CallRecords /\ call.adapter = "weather" /\ call.answers + 1 \in Nat
      /\ call.days \in Int /\ call.year + 1 \in Nat /\ call.sampled \in SUBSET Int
  BY <1>1, WeatherCall
<1>3. CASE P!ReplyStatus(r) # "success"
  <2>1. P!WeatherFailure(r)
    BY <1>3 DEF P!Archive
  <2> QED BY <1>1, <1>3, <2>1, WeatherFailureKeeps
<1>4. CASE P!ReplyStatus(r) = "success" /\ r.body \in {P!Junk, P!Odd}
  <2>1. P!WeatherRaises
    BY <1>4 DEF P!Archive
  <2> QED BY <1>1, <2>1, RaisedEnds
<1>5. CASE P!ReplyStatus(r) = "success" /\ r.body \notin {P!Junk, P!Odd}
  <2>1. r.body \in {P!Junk, P!Odd} \cup SUBSET (Horizon + 1..MaxDay)
    BY <1>5, SuccessHasBody
  <2>2. Horizon + 1..MaxDay \subseteq Int
    OBVIOUS
  <2> DEFINE sampled == call.sampled \cup r.body
  <2>3. sampled \in SUBSET Int
    BY <1>2, <1>5, <2>1, <2>2
  <2>4. CASE call.year + 1 = SampleYears
    <3>1. P!Finish(P!WeatherEnvelope(call.days, sampled))
      BY <1>5, <2>4 DEF P!Archive
    <3> QED BY <1>1, <1>2, <3>1, RangeEnds
  <2>5. CASE call.year + 1 # SampleYears
    <3>1. /\ call' = [P!Answered EXCEPT !.year = @ + 1, !.attempt = 0, !.spent = 0, !.sampled = sampled]
          /\ UNCHANGED out
      BY <1>5, <2>5 DEF P!Archive
    <3>2. call' = [call EXCEPT !.stage = "archive", !.attempt = 0, !.spent = 0, !.answers = call.answers + 1,
                               !.days = call.days, !.year = call.year + 1, !.sampled = sampled]
      <4> HIDE DEF sampled
      <4> QED BY <1>1, <1>2, <3>1 DEF P!Answered, CallRecords
    <3>3. CallInv'
      <4> HIDE DEF sampled
      <4> QED BY <1>1, <1>2, <2>3, <3>2, NextRequestFits
    <3> QED BY <1>1, <3>1, <3>3, CallMoves
  <2> QED BY <2>4, <2>5
<1> QED BY <1>3, <1>4, <1>5

-----------------------------------------------------------------------------
\* Flights and web evidence

\* A failed check names a status without data.
LEMMA FaultStatus ==
    ASSUME NEW checks \in {P!FlightChecks, P!WebChecks}, NEW faults,
           P!FirstFault(checks, faults) # "ok"
    PROVE  P!FirstFault(checks, faults) \in P!NoDataStatuses
<1> DEFINE failed == {i \in DOMAIN checks : checks[i][1] \in faults}
<1>1. \A i \in DOMAIN checks : checks[i][2] \in P!NoDataStatuses
  BY DEF P!FlightChecks, P!WebChecks, P!NoDataStatuses, P!ResultStatuses
<1>2. DOMAIN checks \subseteq Nat
  BY DEF P!FlightChecks, P!WebChecks
<1>3. failed # {} /\ P!FirstFault(checks, faults) = checks[P!Min(failed)][2]
  BY DEF P!FirstFault
<1>4. P!Min(failed) = Min(failed)
  BY DEF Min, P!Min
<1>5. failed \in SUBSET Nat /\ failed \subseteq DOMAIN checks
  BY <1>2
<1> HIDE DEF failed
<1>6. Min(failed) \in DOMAIN checks
  BY <1>3, <1>5, MinOf
<1> QED BY <1>1, <1>3, <1>4, <1>6

LEMMA SearchBeginKeeps ==
    ASSUME ProviderInv, NEW adapter \in {"flights", "web"},
           NEW checks \in {P!FlightChecks, P!WebChecks}, NEW faults \in P!FlightQueries \cup P!WebQueries,
           P!SearchBegin(adapter, checks, faults)
    PROVE  Good
<1>1. UNCHANGED <<now, cache, got>>
  BY DEF P!SearchBegin
<1>2. CASE P!FirstFault(checks, faults) = "ok"
  <2>1. P!Start(adapter, faults, "search")
    BY <1>2 DEF P!SearchBegin
  <2>2. faults \in Queries /\ "search" \in StagesOf[adapter]
    BY DEF Queries, StagesOf
  <2> QED BY <1>1, <2>1, <2>2, StartIsGood
<1>3. CASE P!FirstFault(checks, faults) # "ok"
  <2>1. P!Finish(P!Degraded(adapter, P!FirstFault(checks, faults)))
    BY <1>3 DEF P!SearchBegin
  <2> QED BY <1>1, <1>3, <2>1, FaultStatus, DegradedEnds
<1> QED BY <1>2, <1>3

LEMMA SearchFailureKeeps ==
    ASSUME ProviderInv, NEW adapter \in {"flights", "web"}, call.adapter = adapter,
           NEW bodies, NEW r \in P!Replies(bodies), ~P!SearchSucceeds(r),
           P!SearchFailure(adapter, r), UNCHANGED <<now, cache, got>>
    PROVE  Good
<1> DEFINE verdict == P!Verdict(P!SerpApiPolicy, call.attempt, r)
<1>1. CallInv
  BY DEF ProviderInv
<1>2. CASE verdict = "waits"
  <2>1. P!Retry(P!SerpApiPolicy, r) /\ UNCHANGED out
    BY <1>2 DEF P!SearchFailure
  <2>2. CallInv'
    BY <1>1, <1>2, <2>1, RetryFits
  <2> QED BY <2>1, <2>2, CallMoves
<1>3. CASE verdict = "failed"
  <2>1. P!Finish(P!Degraded(adapter, P!ReplyStatus(r))) /\ P!ReplyStatus(r) # "success"
    BY <1>3 DEF P!SearchFailure, P!Verdict
  <2> QED BY <2>1, FailureStatus, DegradedEnds
<1>4. CASE verdict = "answered"
  <2>1. P!Finish(P!Degraded(adapter, P!BodyStatus(r.body))) /\ P!ReplyStatus(r) = "success"
    BY <1>4 DEF P!SearchFailure, P!Verdict
  <2>2. P!BodyStatus(r.body) # "success"
    BY <2>1 DEF P!SearchSucceeds
  <2>3. P!BodyStatus(r.body) \in P!NoDataStatuses
    BY <2>2, ProviderErrors DEF P!BodyStatus
  <2> QED BY <2>1, <2>3, DegradedEnds
<1>5. verdict \in {"waits", "failed", "answered"}
  BY DEF P!Verdict
<1> QED BY <1>2, <1>3, <1>4, <1>5

\* A search that succeeded ends the call with what was kept of the answer.
LEMMA SearchEnds ==
    ASSUME ProviderInv, call' = P!Idle, NEW adapter \in {"flights", "web"}, NEW raw \in Seq(P!Raw),
           out' = [P!Envelope(adapter, "success", "live", "bypass", 0, P!Range(P!Collect(raw)))
                     EXCEPT !.source = raw, !.answers = @ + 1],
           UNCHANGED <<now, cache, got>>
    PROVE  Good
<1>1. RateInv' /\ CallInv'
  BY RatesRest, IdleFits DEF ProviderInv, RateInv
<1>2. call.answers \in Nat
  BY DEF ProviderInv, CallInv, CallRecords
<1>3. /\ out'.adapter = adapter /\ out'.status = "success" /\ out'.mode = "live"
      /\ out'.cache = "bypass" /\ out'.answers = call.answers + 1
      /\ out'.data = P!Range(P!Collect(raw)) /\ out'.source = raw
  BY DEF P!Envelope
<1>4. P!HonestEnvelope'
  BY <1>2, <1>3 DEF P!HonestEnvelope
<1>5. P!SearchesAreFaithful'
  BY <1>3, CollectKeepsFirsts DEF P!SearchesAreFaithful
<1> QED BY <1>1, <1>3, <1>4, <1>5
        DEF Good, ProviderInv, QuoteInv, P!FreshOrMarked, P!ServesTheRange

\* What a successful answer holds is a sequence of entries.
LEMMA AnswerIsSequence ==
    ASSUME NEW r \in P!Replies(P!SearchBodies), P!SearchSucceeds(r)
    PROVE  r.body[2] \in Seq(P!Raw)
<1>1. r.body \in P!SearchBodies
  BY SuccessHasBody DEF P!SearchSucceeds
<1>2. r.body \notin {<<"junk">>, <<"error">>, <<"quota">>}
  BY DEF P!SearchSucceeds, P!BodyStatus
<1>3. PICK raw \in P!SeqOf(P!Raw, MaxRaw) : r.body = <<"results", raw>>
  BY <1>1, <1>2 DEF P!SearchBodies
<1>4. raw \in Seq(P!Raw)
  BY ToolsConstantsOK DEF P!SeqOf
<1> QED BY <1>3, <1>4

LEMMA FlightsReplyKeeps ==
    ASSUME ProviderInv, NEW r \in P!Replies(P!SearchBodies), P!FlightsReply(r)
    PROVE  Good
<1>1. call.adapter = "flights" /\ UNCHANGED <<now, cache, got>>
  BY DEF P!FlightsReply
<1>2. CASE P!SearchSucceeds(r)
  <2>1. P!Finish(P!FlightsEnvelope(r.body[2]))
    BY <1>2 DEF P!FlightsReply
  <2> QED BY <1>1, <1>2, <2>1, AnswerIsSequence, SearchEnds DEF P!Finish, P!FlightsEnvelope
<1>3. CASE ~P!SearchSucceeds(r)
  <2>1. P!SearchFailure("flights", r)
    BY <1>3 DEF P!FlightsReply
  <2> QED BY <1>1, <1>3, <2>1, SearchFailureKeeps
<1> QED BY <1>2, <1>3

LEMMA WebReplyKeeps ==
    ASSUME ProviderInv, NEW r \in P!Replies(P!SearchBodies), P!WebReply(r)
    PROVE  Good
<1>1. call.adapter = "web" /\ UNCHANGED <<now, cache, got>>
  BY DEF P!WebReply
<1>2. CASE P!SearchSucceeds(r)
  <2>1. P!Finish(P!WebEnvelope(r.body[2]))
    BY <1>2 DEF P!WebReply
  <2> QED BY <1>1, <1>2, <2>1, AnswerIsSequence, SearchEnds DEF P!Finish, P!WebEnvelope, P!WebItems
<1>3. CASE ~P!SearchSucceeds(r)
  <2>1. P!SearchFailure("web", r)
    BY <1>3 DEF P!WebReply
  <2> QED BY <1>1, <1>3, <2>1, SearchFailureKeeps
<1> QED BY <1>2, <1>3

-----------------------------------------------------------------------------
\* Every step of a provider call

\* A fake answers at once: with its fixed data, or with a failure and none.
LEMMA FakeEnds ==
    ASSUME ProviderInv, NEW adapter \in {"fake_fx", "fake_weather", "fake_flights", "fake_web"},
           NEW status \in P!FakeStatuses \cup {"unsupported"}, NEW data,
           P!Finish(P!FakeEnvelope(adapter, status, data)), UNCHANGED <<now, cache, got>>
    PROVE  Good
<1>1. RateInv' /\ CallInv'
  BY RatesRest, IdleFits DEF ProviderInv, P!Finish, RateInv
<1>2. /\ out'.adapter = adapter /\ out'.status = status /\ out'.mode = P!DataMode(status)
      /\ out'.complete = P!Completeness(status) /\ out'.cache = "bypass" /\ out'.answers = 1
      /\ out'.data = IF status = "success" THEN data ELSE {}
  BY DEF P!Finish, P!FakeEnvelope, P!Envelope
<1>3. status = "success" \/ status \in P!NoDataStatuses
  BY DEF P!FakeStatuses, P!NoDataStatuses, P!ResultStatuses
<1>4. out'.mode # "cached"
  BY <1>2 DEF P!DataMode, P!FakeStatuses
<1>5. P!HonestEnvelope'
  BY <1>2, <1>3, <1>4, NoData DEF P!HonestEnvelope
<1> QED BY <1>1, <1>2, <1>5, NoSearch DEF Good, ProviderInv, QuoteInv, P!FreshOrMarked, P!ServesTheRange

LEMMA FakesKeep == ASSUME ProviderInv, P!Fakes PROVE Good
<1>1. UNCHANGED <<now, cache, got>>
  BY DEF P!Fakes
<1>2. PICK status \in P!FakeStatuses :
          \/ \E s \in {status, "unsupported"} : P!Finish(P!FakeFx(s))
          \/ P!Finish(P!FakeWeather(status))
          \/ P!Finish(P!FakeFlights(status))
          \/ P!Finish(P!FakeWeb(status))
  BY DEF P!Fakes
<1>3. CASE \E s \in {status, "unsupported"} : P!Finish(P!FakeFx(s))
  BY <1>1, <1>3, FakeEnds DEF P!FakeFx
<1>4. CASE P!Finish(P!FakeWeather(status)) BY <1>1, <1>4, FakeEnds DEF P!FakeWeather
<1>5. CASE P!Finish(P!FakeFlights(status)) BY <1>1, <1>5, FakeEnds DEF P!FakeFlights
<1>6. CASE P!Finish(P!FakeWeb(status)) BY <1>1, <1>6, FakeEnds DEF P!FakeWeb
<1> QED BY <1>2, <1>3, <1>4, <1>5, <1>6

LEMMA TickKeeps == ASSUME ProviderInv, P!Tick PROVE Good
<1>1. now \in Nat /\ now' = now + 1 /\ UNCHANGED <<cache, got, call, out>>
  BY DEF P!Tick, ProviderInv, RateInv
<1>2. RateInv'
  BY <1>1 DEF ProviderInv, RateInv
<1>3. CallInv'
  <2>1. call.begun \in Nat /\ call.begun <= now
    BY DEF ProviderInv, CallInv, CallRecords
  <2>2. call'.begun <= now'
    BY <1>1, <2>1
  <2> QED BY <1>1, <2>2 DEF ProviderInv, CallInv
<1> QED BY <1>1, <1>2, <1>3 DEF Good, ProviderInv, QuoteInv, P!HonestEnvelope, P!FreshOrMarked, P!ServesTheRange, P!SearchesAreFaithful

\* A new adapter knows no rate, and has answered nothing yet.
LEMMA NewAdapterKeeps == ASSUME ProviderInv, P!NewAdapter PROVE Good
<1>1. /\ P!Quiet /\ cache' = P!NoEntry /\ got' = [rate |-> 0, at |-> 0] /\ out' = P!NoEnvelope
      /\ UNCHANGED <<now, call>>
  BY DEF P!NewAdapter
<1>2. RateInv'
  BY <1>1 DEF ProviderInv, RateInv, P!NoEntry
<1>3. CallInv'
  BY <1>1 DEF ProviderInv, CallInv
<1> QED BY <1>1, <1>2, <1>3, NothingServed DEF Good, ProviderInv, QuoteInv, P!FreshOrMarked, P!ServesTheRange

LEMMA FxKeeps == ASSUME ProviderInv, P!Fx PROVE Good
<1>1. ProviderInv' /\ P!FreshOrMarked /\ (out' = out \/ out'.adapter # "weather")
  BY FxBeginKeeps, FxReplyKeeps DEF P!Fx
<1> QED BY <1>1 DEF Good, P!ServesTheRange

LEMMA ProviderStep == ASSUME ProviderInv, P!Next PROVE Good
<1>1. CASE P!Weather
  BY <1>1, WeatherBeginKeeps, GeocodeKeeps, ForecastKeeps, ArchiveKeeps DEF P!Weather
<1>2. CASE P!Flights
  <2>1. CASE \E faults \in P!FlightQueries : P!FlightsBegin(faults)
    BY <2>1, SearchBeginKeeps DEF P!FlightsBegin
  <2>2. CASE \E r \in P!Replies(P!SearchBodies) : P!FlightsReply(r)
    BY <2>2, FlightsReplyKeeps
  <2> QED BY <1>2, <2>1, <2>2 DEF P!Flights
<1>3. CASE P!Web
  <2>1. CASE \E faults \in P!WebQueries : P!WebBegin(faults)
    BY <2>1, SearchBeginKeeps DEF P!WebBegin
  <2>2. CASE \E r \in P!Replies(P!SearchBodies) : P!WebReply(r)
    BY <2>2, WebReplyKeeps
  <2> QED BY <1>3, <2>1, <2>2 DEF P!Web
<1> QED BY <1>1, <1>2, <1>3, TickKeeps, NewAdapterKeeps, FxKeeps, FakesKeep DEF P!Next

LEMMA ProviderRests ==
    ASSUME ProviderInv, UNCHANGED providerVars
    PROVE  ProviderInv'
<1>1. UNCHANGED <<now, cache, got>> /\ UNCHANGED <<call, out>>
  BY DEF providerVars
<1> QED BY <1>1 DEF ProviderInv, QuoteInv, RateInv, CallInv, P!HonestEnvelope, P!SearchesAreFaithful

\* Whichever part a behaviour follows, a step of it is a step of the provider call or
\* leaves it alone.
LEMMA ToolsStep ==
    ASSUME ProviderInv, [ToolsNext]_<<part, evidenceVars, providerVars, breakerVars>>
    PROVE  Good \/ (ProviderInv' /\ UNCHANGED providerVars)
<1>1. CASE P!Next
  <2>1. Good
    BY <1>1, ProviderStep
  <2> QED BY <2>1
<1>2. CASE UNCHANGED providerVars
  BY <1>2, ProviderRests
<1> QED BY <1>1, <1>2 DEF ToolsNext

THEOREM ProviderInvariance == ToolsSpec => []ProviderInv
<1>1. ToolsInit => ProviderInv
  BY ProviderInit DEF ToolsInit
<1>2. ProviderInv /\ [ToolsNext]_<<part, evidenceVars, providerVars, breakerVars>> => ProviderInv'
  BY ToolsStep DEF Good
<1> QED BY <1>1, <1>2, PTL DEF ToolsSpec

\* Whatever the providers answer and however often they fail, an envelope has data
\* only with status success, from an answer to this call or from the cache, and a
\* failure is never dressed up (fx_frankfurter.py, weather_openmeteo.py,
\* flights_serpapi.py, web_evidence_serpapi.py).
THEOREM HonestEnvelopes == ToolsSpec => []HonestEnvelope
<1>1. ProviderInv => HonestEnvelope
  BY DEF ProviderInv, HonestEnvelope
<1> QED BY <1>1, ProviderInvariance, PTL

\* The attempts of a request and the waits between them, hints of the provider
\* included, end within the minute (RetryPolicy, compute_backoff_seconds).
THEOREM CallsAreBounded == ToolsSpec => []BoundedCalls
<1>1. ASSUME ProviderInv PROVE BoundedCalls
  <2>1. call.attempt \in Nat /\ call.spent \in Nat
    BY <1>1 DEF ProviderInv, CallInv, CallRecords
  <2>2. call.adapter \in {"flights", "web"} => call.spent + 50 <= 120
    BY <1>1, <2>1 DEF ProviderInv, CallInv
  <2>3. call.adapter \in {"fx", "weather"} => call.spent + 20 <= 120
    BY <1>1, <2>1 DEF ProviderInv, CallInv
  <2> QED BY <2>2, <2>3 DEF BoundedCalls, P!BoundedCalls, P!SerpApiPolicy, P!DefaultPolicy
<1> QED BY <1>1, ProviderInvariance, PTL

\* A rate is called live only within its time to live; an older one is served only
\* after a failed fetch, and says so (FrankfurterFxProvider.fetch_rate).
THEOREM FxHitsAreFresh == ToolsSpec => FxHitIsFresh
<1>1. ASSUME ProviderInv, [ToolsNext]_<<part, evidenceVars, providerVars, breakerVars>>
      PROVE  [P!FreshOrMarked]_providerVars
  BY <1>1, ToolsStep DEF Good
<1>2. FxHitIsFresh <=> [][P!FreshOrMarked]_providerVars
  BY DEF FxHitIsFresh, P!FxHitIsFresh, P!providerVars, providerVars
<1> QED BY <1>1, <1>2, ProviderInvariance, PTL DEF ToolsSpec

\* Each day of a range is served as what it is, forecast or climate, and missing only
\* where the answers lacked it (OpenMeteoWeatherProvider.fetch_weather).
THEOREM RangesAreServed == ToolsSpec => WeatherServesTheRange
<1>1. ASSUME ProviderInv, [ToolsNext]_<<part, evidenceVars, providerVars, breakerVars>>
      PROVE  [P!ServesTheRange]_providerVars
  BY <1>1, ToolsStep DEF Good
<1>2. WeatherServesTheRange <=> [][P!ServesTheRange]_providerVars
  BY DEF WeatherServesTheRange, P!WeatherServesTheRange, P!providerVars, providerVars
<1> QED BY <1>1, <1>2, ProviderInvariance, PTL DEF ToolsSpec
-----------------------------------------------------------------------------
\* Prices

LEMMA NearestUnit ==
    ASSUME NEW n \in Nat, NEW d \in Nat \ {0}
    PROVE  /\ P!RoundHalfUp(n, d) \in Int
           /\ 2 * d * P!RoundHalfUp(n, d) \in 2 * n + d - (2 * d - 1)..2 * n + d
<1> DEFINE a == 2 * n + d
           m == 2 * d
<1>1. a \in Nat /\ m \in Nat \ {0}
  OBVIOUS
<1>2. ASSUME NEW x \in Nat, NEW y \in Nat \ {0}
      PROVE  y * (x \div y) <= x /\ x < y * (x \div y) + y /\ x \div y \in Int /\ y * (x \div y) \in Int
  OBVIOUS
<1> HIDE DEF a, m
<1>3. a \div m \in Int /\ m * (a \div m) \in Int /\ m * (a \div m) <= a /\ a < m * (a \div m) + m
  BY <1>1, <1>2
<1>4. m * (a \div m) \in a - (m - 1)..a
  BY <1>1, <1>3
<1> QED BY <1>3, <1>4 DEF a, m, P!RoundHalfUp

\* The two directions of a quote, which is a positive rate in hundredths.
LEMMA NearestPrice ==
    ASSUME NEW a \in Nat, NEW rate \in Nat \ {0}
    PROVE  /\ 200 * P!Convert(a, rate, TRUE) \in 2 * a * rate - 99..2 * a * rate + 100
           /\ 2 * rate * P!Convert(a, rate, FALSE) \in 200 * a - (rate - 1)..200 * a + rate
<1>1. a * rate \in Nat /\ a * 100 \in Nat
  OBVIOUS
<1>2. 2 * 100 * P!RoundHalfUp(a * rate, 100) \in 2 * (a * rate) + 100 - (2 * 100 - 1)..2 * (a * rate) + 100
  BY <1>1, NearestUnit
<1>3. 2 * rate * P!RoundHalfUp(a * 100, rate) \in 2 * (a * 100) + rate - (2 * rate - 1)..2 * (a * 100) + rate
  BY <1>1, NearestUnit
<1>4. 2 * (a * rate) = 2 * a * rate /\ 2 * (a * 100) = 200 * a /\ 2 * a * rate \in Nat
  BY <1>1
<1>5. P!Convert(a, rate, TRUE) = P!RoundHalfUp(a * rate, 100)
  BY DEF P!Convert
<1>6. P!Convert(a, rate, FALSE) = P!RoundHalfUp(a * 100, rate)
  BY DEF P!Convert
<1>7. 200 * P!Convert(a, rate, TRUE) \in 2 * a * rate - 99..2 * a * rate + 100
  <2>1. 2 * a * rate + 100 - (2 * 100 - 1) = 2 * a * rate - 99
    BY <1>4
  <2>2. P!RoundHalfUp(a * rate, 100) \in Int
    BY <1>1, NearestUnit
  <2>3. 2 * 100 * P!RoundHalfUp(a * rate, 100) = 200 * P!RoundHalfUp(a * rate, 100)
    BY <2>2
  <2> QED BY <1>2, <1>4, <1>5, <2>1, <2>3
<1>8. 2 * rate * P!Convert(a, rate, FALSE) \in 200 * a - (rate - 1)..200 * a + rate
  <2>1. 200 * a + rate - (2 * rate - 1) = 200 * a - (rate - 1)
    OBVIOUS
  <2> QED BY <1>3, <1>4, <1>6, <2>1
<1> QED BY <1>7, <1>8

\* A search result is the first usable entries of the answer, each once, up to the
\* limit (_normalize_itineraries, _normalize_results); and whatever rate a call came
\* back with, fresh or stale, a price converted with it is the nearest minor unit,
\* halves up (money.convert_minor_units).
THEOREM FaithfulResults == ToolsSpec => []ResultsAreFaithful
<1>1. ASSUME ProviderInv, P!Quotable
      PROVE  P!Quote \in Nat \ {0}
  <2>1. out.data = {got.rate}
    BY <1>1 DEF ProviderInv, P!HonestEnvelope, P!Quotable
  <2>2. cache # P!NoEntry /\ got.rate = cache.value
    BY <1>1 DEF ProviderInv, QuoteInv, RateInv, P!Quotable
  <2>3. got.rate \in Nat \ {0}
    BY <1>1, <2>2, Cached DEF ProviderInv
  <2> QED BY <2>1, <2>3 DEF P!Quote
<1>2. ProviderInv => P!PricesAreNearest
  BY <1>1, NearestPrice, ToolsConstantsOK DEF P!PricesAreNearest
<1>3. ProviderInv => ResultsAreFaithful
  BY <1>2 DEF ProviderInv, ResultsAreFaithful, P!ResultsAreFaithful
<1> QED BY <1>3, ProviderInvariance, PTL

-----------------------------------------------------------------------------
\* The circuit breaker

\* The breaker's own counter is the failures in a row: what it forgets when it
\* closes is what a success ends, and opening resets nothing.
CountInv ==
    /\ failures \in Nat /\ failures = inRow
    /\ state \in {"closed", "open", "half_open"}
    /\ state = "closed" => failures < FailureThreshold
    /\ state # "closed" => failures > 0

LEMMA CountInit == B!Init => CountInv
BY ToolsConstantsOK DEF B!Init, CountInv

\* A failure moves the counter and the state together: at the threshold, or while
\* half open, the breaker is open after it.
LEMMA FailureKeeps ==
    ASSUME CountInv, NEW c \in Callers, B!RecordFailure(c)
    PROVE  CountInv'
<1>1. failures' = failures + 1 /\ inRow' = inRow + 1
  BY DEF B!RecordFailure
<1>2. CASE state = "half_open" \/ failures' >= FailureThreshold
  BY <1>1, <1>2 DEF B!RecordFailure, CountInv
<1>3. CASE ~(state = "half_open" \/ failures' >= FailureThreshold)
  BY <1>1, <1>3, ToolsConstantsOK DEF B!RecordFailure, CountInv
<1> QED BY <1>2, <1>3

LEMMA CountNext ==
    ASSUME CountInv, [ToolsNext]_<<part, evidenceVars, providerVars, breakerVars>>
    PROVE  CountInv'
<1>1. CASE UNCHANGED breakerVars
  BY <1>1 DEF breakerVars, CountInv
<1>2. CASE B!Next
  <2>1. CASE B!Tick
    BY <2>1 DEF B!Tick, CountInv
  <2>2. ASSUME NEW c \in Callers, B!Ask(c) PROVE CountInv'
    BY <2>2 DEF B!Ask, CountInv
  <2>3. ASSUME NEW c \in Callers, B!RecordSuccess(c) PROVE CountInv'
    BY <2>3, ToolsConstantsOK DEF B!RecordSuccess, CountInv
  <2> QED BY <1>2, <2>1, <2>2, <2>3, FailureKeeps DEF B!Next
<1> QED BY <1>1, <1>2 DEF ToolsNext

\* However late and concurrent reports interleave, a closed breaker has seen fewer
\* failures in a row than its threshold, and one that is not closed has seen one
\* since any success (CircuitBreaker.record_failure, record_success).
THEOREM BreakerTripsInTime == ToolsSpec => []TripsInTime
<1>1. ToolsInit => CountInv
  BY CountInit DEF ToolsInit
<1>2. CountInv /\ [ToolsNext]_<<part, evidenceVars, providerVars, breakerVars>> => CountInv'
  BY CountNext
<1>3. CountInv => TripsInTime
  BY DEF CountInv, TripsInTime, B!TripsInTime
<1> QED BY <1>1, <1>2, <1>3, PTL DEF ToolsSpec

-----------------------------------------------------------------------------
\* The evidence of a run, beside them

\* What holds of the evidence alone (ToolEvidenceProofs) holds beside the others.
THEOREM EvidenceBeside ==
    ToolsSpec => [](StaysAreEvidence /\ PlansAreCoherent /\ OneQuoteIsEnough)
<1>1. ToolsInit => EvidenceInv
  BY EvidenceInit DEF ToolsInit
<1>2. EvidenceInv /\ [ToolsNext]_<<part, evidenceVars, providerVars, breakerVars>> => EvidenceInv'
  BY EvidenceNext DEF ToolsNext
<1>3. EvidenceInv => StaysAreEvidence /\ PlansAreCoherent /\ OneQuoteIsEnough
  BY DEF EvidenceInv
<1> QED BY <1>1, <1>2, <1>3, PTL DEF ToolsSpec
=============================================================================
