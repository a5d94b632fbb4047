--------------------------- MODULE ProviderCalls ---------------------------
(***************************************************************************)
(* One call at a time of a provider adapter: FX rates (fx_frankfurter.py), *)
(* weather (weather_openmeteo.py), flights (flights_serpapi.py) and web    *)
(* evidence (web_evidence_serpapi.py), down to the HTTP transport, and the *)
(* fakes that stand in for them.  An adapter validates the request, makes  *)
(* one or several bounded requests, reads the answers and returns one      *)
(* envelope.  Days are counted from today; clock and cache ages are coarse.*)
(***************************************************************************)
EXTENDS ProviderPolicy, FiniteSets, SequencesExt

CONSTANTS
    Rates,      \* FX rates, in hundredths
    CacheTtl,   \* cache_ttl_seconds
    MaxNow,     \* bound on the clock
    Horizon,    \* MAX_FORECAST_DAYS_AHEAD
    MaxDay,     \* last day a query names
    SampleYears,    \* CLIMATE_SAMPLE_YEAR_COUNT
    Offers,     \* identities of flights and of web pages
    MaxRaw,     \* bound on the entries of a search answer
    HardMaxResults,
    Amounts     \* prices to convert

VARIABLES
    now,
    cache,  \* the FX adapter's cached rate
    got,    \* history: the last rate really received by this adapter, and when
    call,   \* the call in progress
    out     \* the envelope of the last call, as far as the properties read it

providerVars == <<now, cache, got, call, out>>

NoEntry == [value |-> 0, stored |-> 0, ttl |-> 0]

\* A call knows the request it has reached, its attempts there, the time they
\* took at worst, what it collected (forecast days, and the days of the climate part
\* that a sampled year has a record of) and how many answers it has had.
Idle == [adapter |-> "none", query |-> {}, begun |-> 0, stage |-> "none", attempt |-> 0,
         spent |-> 0, answers |-> 0, days |-> 0, year |-> 0, sampled |-> {}]
NoEnvelope == [adapter |-> "none", status |-> "none", mode |-> "none", complete |-> 0,
               cache |-> "none", age |-> 0, data |-> {}, source |-> <<>>, answers |-> 0]

\* The envelope every adapter builds; data is what its result carries, source what
\* the answers had: the entries of a search, the days of a forecast and of the archive.
Envelope(adapter, status, mode, cacheStatus, age, data) ==
    [adapter |-> adapter, status |-> status, mode |-> mode, complete |-> Completeness(status),
     cache |-> cacheStatus, age |-> age, data |-> data, source |-> <<>>, answers |-> call.answers]

Degraded(adapter, status) == Envelope(adapter, status, DataMode(status), "bypass", 0, {})

Finish(envelope) == call' = Idle /\ out' = envelope

Start(adapter, query, stage) ==
    /\ call' = [Idle EXCEPT !.adapter = adapter, !.query = query, !.stage = stage, !.begun = now]
    /\ out' = NoEnvelope

Quiet == call = Idle

\* The sleep before a retry counts as much as the attempt it follows.
Retry(policy, r) ==
    call' = [call EXCEPT !.attempt = @ + 1,
                         !.spent = @ + policy.timeout + Backoff(call.attempt, policy, r.hint)]

\* The next request of the same call starts with a full budget.
Advance(stage) ==
    call' = [call EXCEPT !.stage = stage, !.attempt = 0, !.spent = 0, !.answers = @ + 1]

Answered == [call EXCEPT !.answers = @ + 1]

Init ==
    /\ now = 0 /\ cache = NoEntry /\ got = [rate |-> 0, at |-> 0]
    /\ call = Idle /\ out = NoEnvelope

Tick == now < MaxNow /\ now' = now + 1 /\ UNCHANGED <<cache, got, call, out>>

-----------------------------------------------------------------------------
\* FX rates

\* RunService builds a new adapter, with an empty cache, for every run.
NewAdapter ==
    /\ Quiet /\ cache # NoEntry
    /\ cache' = NoEntry /\ got' = [rate |-> 0, at |-> 0] /\ out' = NoEnvelope
    /\ UNCHANGED <<now, call>>

FxEnvelope(status, mode, cacheStatus, rate) ==
    [Envelope("fx", status, mode, cacheStatus, call.begun - cache.stored, {rate})
        EXCEPT !.data = IF rate = 0 THEN {} ELSE {rate}]

FxBegin ==
    /\ Quiet
    /\ IF CacheStatus(cache, now) = "hit"
         THEN Finish([FxEnvelope("success", "live", "hit", cache.value) EXCEPT !.age = now - cache.stored])
         ELSE Start("fx", {}, "rate")
    /\ UNCHANGED <<now, cache, got>>

\* A rate of any age is served rather than none, and says so.
FxFallback(status) ==
    IF cache # NoEntry THEN FxEnvelope("success", "cached", "stale", cache.value)
                       ELSE Degraded("fx", status)

\* A rate is stored as of the moment the call began.
FxReply(r) ==
    /\ call.stage = "rate"
    /\ CASE Verdict(DefaultPolicy, call.attempt, r) = "waits" ->
              Retry(DefaultPolicy, r) /\ UNCHANGED <<cache, got, out>>
         [] Verdict(DefaultPolicy, call.attempt, r) = "failed" ->
              Finish(FxFallback(ReplyStatus(r))) /\ UNCHANGED <<cache, got>>
         [] Verdict(DefaultPolicy, call.attempt, r) = "answered" /\ r.body = 0 ->
              Finish(FxFallback("provider_error")) /\ UNCHANGED <<cache, got>>
         [] OTHER ->
              /\ Finish([FxEnvelope("success", "live", "miss", r.body) EXCEPT !.age = 0, !.answers = 1])
              /\ cache' = [value |-> r.body, stored |-> call.begun, ttl |-> CacheTtl]
              /\ got' = [rate |-> r.body, at |-> now]
    /\ UNCHANGED now

\* Body 0 is JSON that does not parse into a rate.
Fx == FxBegin \/ \E r \in Replies(Rates \cup {0}) : FxReply(r)

\* quote_from_envelope: any successful envelope with a rate, stale ones included.
Quotable == out.adapter = "fx" /\ out.status = "success" /\ out.data # {}
Quote == CHOOSE rate \in out.data : TRUE

-----------------------------------------------------------------------------
\* Weather

\* binding and tests name a place; coordinates may be given instead.
WeatherQueries == [from : -1..MaxDay, to : -1..MaxDay, place : {"named", "coordinates", "blank", "off_globe"}]

WeatherVerdict(q) ==
    CASE q.from > q.to -> "invalid_request"
      [] q.from <= q.to /\ q.from < 0 -> "unsupported"
      [] q.from \in 0..q.to /\ q.place \in {"blank", "off_globe"} -> "invalid_request"
      [] OTHER -> "ok"

\* The part within the forecast horizon, and the part that climate of earlier
\* years has to stand in for.
LiveDays(q) == IF q.from <= Horizon THEN q.from..(IF q.to < Horizon THEN q.to ELSE Horizon) ELSE {}

\* The day after the horizon is in neither part.
ClimateDaysOffByOne(q) == IF q.to > Horizon THEN (IF q.from > Horizon + 2 THEN q.from ELSE Horizon + 2)..q.to ELSE {}

ClimateDays(q) == IF q.to > Horizon THEN (IF q.from > Horizon + 1 THEN q.from ELSE Horizon + 1)..q.to ELSE {}

WeatherBegin(q) ==
    /\ Quiet
    /\ CASE WeatherVerdict(q) # "ok" -> Finish(Degraded("weather", WeatherVerdict(q)))
         [] WeatherVerdict(q) = "ok" /\ q.place = "named" -> Start("weather", q, "geocode")
         [] OTHER -> Start("weather", q, IF LiveDays(q) # {} THEN "forecast" ELSE "archive")
    /\ UNCHANGED <<now, cache, got>>

\* What the merged result says of each day: a forecast (today alone: an observation)
\* for as many days as the answer had, and an aggregate of the days that at least one
\* sampled year has a record of.
WeatherData(days, sampled) ==
    LET live == LiveDays(call.query)
    IN  {<<d, "forecast">> : d \in {e \in live : Cardinality({f \in live : f <= e}) <= days}}
          \cup {<<d, "climate">> : d \in sampled \cap ClimateDays(call.query)}

WeatherMode(live, climate) ==
    CASE live /\ climate -> "mixed"
      [] ~live /\ climate -> "historical"
      [] OTHER -> "live"

WeatherEnvelope(days, sampled) ==
    [Envelope("weather", "success",
              WeatherMode(LiveDays(call.query) # {}, ClimateDays(call.query) # {}), "bypass", 0,
              WeatherData(days, sampled)) EXCEPT !.source = <<days, sampled>>, !.answers = @ + 1]

\* JSON of an unexpected shape makes the adapter raise, and nothing in fetch_weather
\* catches it.
WeatherRaises == Finish([Degraded("weather", "provider_error") EXCEPT !.status = "raised"])

\* Every request of a call has its own retry budget; the first that fails ends
\* the call, and what was collected before is not served.
WeatherFailure(r) ==
    CASE Verdict(DefaultPolicy, call.attempt, r) = "waits" -> Retry(DefaultPolicy, r) /\ UNCHANGED out
      [] OTHER -> Finish(Degraded("weather", ReplyStatus(r)))

Geocode(r) ==
    /\ call.stage = "geocode"
    /\ CASE ReplyStatus(r) # "success" -> WeatherFailure(r)
         [] ReplyStatus(r) = "success" /\ r.body = "junk" -> Finish(Degraded("weather", "provider_error"))
         [] ReplyStatus(r) = "success" /\ r.body = "nothing" -> Finish(Degraded("weather", "unavailable"))
         [] ReplyStatus(r) = "success" /\ r.body = "odd" -> WeatherRaises
         [] OTHER -> /\ Advance(IF LiveDays(call.query) # {} THEN "forecast" ELSE "archive")
                     /\ UNCHANGED out
    /\ UNCHANGED <<now, cache, got>>

Junk == {-1}    \* not JSON
Odd == {-2}     \* JSON, but not an object

\* The body of a forecast is the number of days it has, that of an archive answer the
\* days of the climate part it has usable records of.
Forecast(r) ==
    /\ call.stage = "forecast"
    /\ CASE ReplyStatus(r) # "success" -> WeatherFailure(r)
         [] ReplyStatus(r) = "success" /\ r.body \in Junk -> Finish(Degraded("weather", "provider_error"))
         [] ReplyStatus(r) = "success" /\ r.body \in Odd -> WeatherRaises
         [] ReplyStatus(r) = "success" /\ r.body \notin Junk \cup Odd /\ ClimateDays(call.query) = {} ->
              Finish(WeatherEnvelope(r.body, {}))
         [] OTHER -> /\ call' = [Answered EXCEPT !.stage = "archive", !.attempt = 0, !.spent = 0,
                                                 !.days = r.body]
                     /\ UNCHANGED out
    /\ UNCHANGED <<now, cache, got>>

\* One request per sampled year; the first that fails ends the call.
Archive(r) ==
    /\ call.stage = "archive"
    /\ CASE ReplyStatus(r) # "success" -> WeatherFailure(r)
         [] ReplyStatus(r) = "success" /\ r.body \in {Junk, Odd} -> WeatherRaises
         [] OTHER ->
              LET sampled == call.sampled \cup r.body
              IN  IF call.year + 1 = SampleYears
                    THEN Finish(WeatherEnvelope(call.days, sampled))
                    ELSE /\ call' = [Answered EXCEPT !.year = @ + 1, !.attempt = 0, !.spent = 0,
                                                     !.sampled = sampled]
                         /\ UNCHANGED out
    /\ UNCHANGED <<now, cache, got>>

Weather ==
    \/ \E q \in WeatherQueries : WeatherBegin(q)
    \/ \E r \in Replies({"place", "nothing", "junk", "odd"}) : Geocode(r)
    \/ \E r \in Replies(Junk \cup Odd \cup 0..Horizon + 1) : Forecast(r)
    \/ \E r \in Replies({Junk, Odd} \cup SUBSET (Horizon + 1..MaxDay)) : Archive(r)

-----------------------------------------------------------------------------
\* Flights and web evidence: SerpApi

\* The first check a query fails decides, in the order of the code.
FirstFault(checks, faults) ==
    LET failed == {i \in DOMAIN checks : checks[i][1] \in faults}
    IN  IF failed = {} THEN "ok" ELSE checks[Min(failed)][2]

FlightChecks == <<
    <<"cancelled", "cancelled">>, <<"no_key", "unavailable">>, <<"bad_route", "invalid_request">>,
    <<"round_trip", "unsupported">>, <<"bad_date", "invalid_request">>, <<"date_range", "unsupported">>,
    <<"past_date", "unsupported">>, <<"no_passengers", "invalid_request">>, <<"bad_cabin", "invalid_request">> >>

WebChecks == <<
    <<"cancelled", "cancelled">>, <<"no_key", "unavailable">>,
    <<"blank_query", "invalid_request">>, <<"no_results_wanted", "invalid_request">> >>

FlightQueries == {faults \in SUBSET {FlightChecks[i][1] : i \in DOMAIN FlightChecks} : Cardinality(faults) <= 2}
WebQueries == SUBSET {WebChecks[i][1] : i \in DOMAIN WebChecks}

\* An entry of an answer: an offer or page with an identity (flight_id, canonical
\* URL), or one that a field is missing from or wrong in.
Raw == Offers \cup {"unusable"}
SearchBodies == {<<"junk">>, <<"error">>, <<"quota">>} \cup {<<"results", raw>> : raw \in SeqOf(Raw, MaxRaw)}

\* The loop ends only when the entries do.
KeepUnbounded(kept, entry) ==
    IF entry = "unusable" \/ entry \in Range(kept) THEN kept ELSE Append(kept, entry)

\* One round of the normalisation loop: skip what is unusable, skip what was seen,
\* stop at the limit.
Keep(kept, entry) ==
    IF entry = "unusable" \/ entry \in Range(kept) \/ Len(kept) = HardMaxResults
      THEN kept ELSE Append(kept, entry)

\* What is kept after each number of entries.
Kept(raw) ==
    LET kept[n \in 0..Len(raw)] == IF n = 0 THEN <<>> ELSE Keep(kept[n - 1], raw[n])
    IN  kept

Collect(raw) == Kept(raw)[Len(raw)]

\* Both search adapters build their envelope from the entries they kept.
FlightsEnvelope(raw) ==
    [Envelope("flights", "success", "live", "bypass", 0, Range(Collect(raw)))
        EXCEPT !.source = raw, !.answers = @ + 1]

\* Pages: an unsafe URL makes an entry unusable, long texts are cut, not dropped.
WebItems(raw) == Collect(raw)
WebEnvelope(raw) ==
    [Envelope("web", "success", "live", "bypass", 0, Range(WebItems(raw)))
        EXCEPT !.source = raw, !.answers = @ + 1]

SearchBegin(adapter, checks, faults) ==
    /\ Quiet
    /\ IF FirstFault(checks, faults) = "ok"
         THEN Start(adapter, faults, "search")
         ELSE Finish(Degraded(adapter, FirstFault(checks, faults)))
    /\ UNCHANGED <<now, cache, got>>

\* An answer of status 200 may still say that the search failed.
BodyStatus(body) ==
    CASE body[1] = "quota" -> "rate_limited"
      [] body[1] \in {"junk", "error"} -> "provider_error"
      [] OTHER -> "success"

\* The parts that both adapters have in copies of their own.
SearchFailure(adapter, r) ==
    CASE Verdict(SerpApiPolicy, call.attempt, r) = "waits" -> Retry(SerpApiPolicy, r) /\ UNCHANGED out
      [] Verdict(SerpApiPolicy, call.attempt, r) = "failed" -> Finish(Degraded(adapter, ReplyStatus(r)))
      [] OTHER -> Finish(Degraded(adapter, BodyStatus(r.body)))

SearchSucceeds(r) == ReplyStatus(r) = "success" /\ BodyStatus(r.body) = "success"

FlightsReply(r) ==
    /\ call.adapter = "flights"
    /\ IF SearchSucceeds(r) THEN Finish(FlightsEnvelope(r.body[2])) ELSE SearchFailure("flights", r)
    /\ UNCHANGED <<now, cache, got>>

WebReply(r) ==
    /\ call.adapter = "web"
    /\ IF SearchSucceeds(r) THEN Finish(WebEnvelope(r.body[2])) ELSE SearchFailure("web", r)
    /\ UNCHANGED <<now, cache, got>>

FlightsBegin(faults) == SearchBegin("flights", FlightChecks, faults)
WebBegin(faults) == SearchBegin("web", WebChecks, faults)

Flights ==
    \/ \E faults \in FlightQueries : FlightsBegin(faults)
    \/ \E r \in Replies(SearchBodies) : FlightsReply(r)

Web ==
    \/ \E faults \in WebQueries : WebBegin(faults)
    \/ \E r \in Replies(SearchBodies) : WebReply(r)

-----------------------------------------------------------------------------
\* The fakes of fx.py, weather.py, flights.py and web_evidence.py: a fixed
\* success, or a fixed failure without data.

FakeStatuses == {"success", "unavailable", "timeout", "rate_limited", "provider_error", "cancelled"}

FakeEnvelope(adapter, status, data) ==
    [Envelope(adapter, status, DataMode(status), "bypass", 0, IF status = "success" THEN data ELSE {})
        EXCEPT !.answers = 1]

\* The fake rate provider also knows pairs it has no rate for.
FakeFx(status) == FakeEnvelope("fake_fx", status, Rates)
FakeWeather(status) == FakeEnvelope("fake_weather", status, {<<0, "forecast">>})
FakeFlights(status) == FakeEnvelope("fake_flights", status, {"flight_fake_001"})
FakeWeb(status) == FakeEnvelope("fake_web", status, {"fake-result"})

Fakes ==
    /\ Quiet
    /\ \E status \in FakeStatuses :
          \/ \E s \in {status, "unsupported"} : Finish(FakeFx(s))
          \/ Finish(FakeWeather(status))
          \/ Finish(FakeFlights(status))
          \/ Finish(FakeWeb(status))
    /\ UNCHANGED <<now, cache, got>>

Next == Tick \/ NewAdapter \/ Fx \/ Weather \/ Flights \/ Web \/ Fakes

Spec == Init /\ [][Next]_providerVars

-----------------------------------------------------------------------------
\* Properties

\* An envelope says what happened: data only with status success, and only from an
\* answer to this call or a rate that was really received before; a failure is
\* never dressed up as live, complete or empty-but-successful.
HonestEnvelope ==
    /\ out.status # "success" => out.data = {} /\ out.mode \in {"unavailable", "none"} /\ out.complete = 0
    /\ out.data # {} => out.answers > 0 \/ out.cache \in {"hit", "stale"}
    /\ out.mode = "cached" <=> out.cache = "stale"
    /\ out.adapter = "fx" /\ out.status = "success" => out.data = {got.rate}

\* A rate served from the cache as fresh was received within the time to live; an
\* older one is served only after a fetch failed, and is marked.
FreshOrMarked ==
    out' # out /\ out'.adapter = "fx" /\ out'.status = "success" =>
        \/ out'.cache = "hit" /\ out'.mode = "live" /\ now - got.at <= CacheTtl
        \/ out'.cache = "miss" /\ got'.at = now
        \/ out'.cache = "stale" /\ call.stage = "rate" /\ out'.age > CacheTtl

FxHitIsFresh == [][FreshOrMarked]_providerVars

\* No day behind the horizon is called a forecast and no other is called climate; a
\* day is missing only if the answers lacked it; and the label of the result says
\* which kinds of day the range was made of.
ServesTheRange ==
    out' # out /\ out'.adapter = "weather" /\ out'.status = "success" =>
        LET asked == call.query.from..call.query.to
            beyond == {d \in asked : d > Horizon}
            Served(kind) == {d \in 0..MaxDay : <<d, kind>> \in out'.data}
        IN  /\ Served("forecast") \subseteq asked \ beyond /\ Served("climate") \subseteq beyond
            /\ out'.source[1] >= Cardinality(asked \ beyond) => Served("forecast") = asked \ beyond
            /\ beyond \subseteq out'.source[2] => Served("climate") = beyond
            /\ out'.mode = (CASE beyond = {} -> "live" [] beyond = asked -> "historical"
                               [] OTHER -> "mixed")

WeatherServesTheRange == [][ServesTheRange]_providerVars

\* A SerpApi call ends within the 60 second deadline its constants were chosen for,
\* and no single request of the other adapters takes longer than that either,
\* whatever the provider asks callers to wait.
BoundedCalls ==
    Quiet \/ (/\ call.adapter \in {"flights", "web"} => call.spent + SerpApiPolicy.timeout <= 120
              /\ call.adapter \in {"fx", "weather"} => call.spent + DefaultPolicy.timeout <= 120)

\* The first usable entries, each once, up to the limit.
FirstUsable(source) ==
    LET firsts == {i \in DOMAIN source : /\ source[i] # "unusable"
                                         /\ \A j \in 1..i - 1 : source[j] # source[i]}
    IN  {source[i] : i \in {k \in firsts : Cardinality({j \in firsts : j <= k}) <= HardMaxResults}}

\* A search result holds what an answer has of them.
SearchesAreFaithful == out.adapter \in {"flights", "web"} => out.data = FirstUsable(out.source)

\* A price is converted to the nearest minor unit, halves up, in both directions.
PricesAreNearest ==
    Quotable => \A a \in Amounts :
        /\ 200 * Convert(a, Quote, TRUE) \in 2 * a * Quote - 99..2 * a * Quote + 100
        /\ 2 * Quote * Convert(a, Quote, FALSE) \in 200 * a - (Quote - 1)..200 * a + Quote

\* What a caller reads off an envelope is what the provider said.
ResultsAreFaithful == SearchesAreFaithful /\ PricesAreNearest
=============================================================================
