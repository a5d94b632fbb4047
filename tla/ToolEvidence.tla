---------------------------- MODULE ToolEvidence ----------------------------
(***************************************************************************)
(* The tool calls of one planning run (tool_executor.py and its MCP, A2A   *)
(* and provider bindings), and the budget summary made of what they found. *)
(*                                                                         *)
(* A run's graph (external) calls tools one after the other, in any order, *)
(* and appends one observation per call; the executor itself keeps         *)
(* nothing.  What it forwards to another service it takes from earlier     *)
(* observations, never from the model's words: that is the evidence.       *)
(* A call of System B is a stream of task updates that a timeout can cut.  *)
(***************************************************************************)
EXTENDS Naturals, Sequences, SequencesExt, FiniteSetsExt

CONSTANTS
    Stays,          \* stays Travel MCP can return: [id, name, located, price]
    NoPrice,        \* a stay without a nightly price
    Amounts,        \* minor units
    MaxResults,     \* result_limit of search_stays
    MaxCandidates,  \* stay candidates a plan request takes
    Unknown,        \* a stay_id no search ever returned
    MaxCalls,       \* bound on the calls of a run
    MaxUpdates      \* bound on the updates of one A2A task

Currencies == {"TRY", "USD", "EUR"}
Ids == {s.id : s \in Stays}
Names == {s.name : s \in Stays}

ASSUME EvidenceConstantsOK ==
    /\ \A s \in Stays : {"id", "name", "located", "price"} = DOMAIN s
    /\ \A s \in Stays : s.located \in BOOLEAN /\ s.price \in Amounts \cup {NoPrice}
    /\ Amounts \subseteq Nat /\ NoPrice \notin Amounts
    /\ Unknown \notin Ids \cup Names
    /\ {MaxResults, MaxCandidates, MaxCalls, MaxUpdates} \subseteq Nat

VARIABLES
    trip,          \* the normalized trip request: its currency and its nights
    observations,  \* what the run's calls returned, oldest first
    task,          \* the A2A task in flight
    summary        \* the budget summary, once the graph is done

evidenceVars == <<trip, observations, task, summary>>

-----------------------------------------------------------------------------
\* Values

NoTrip == [currency |-> "none", nights |-> 0]
Trips == {NoTrip} \cup [currency : Currencies, nights : 0..2]

Actions == {"get_weather", "web_search", "search_flights", "search_stays",
            "estimate_fair_price", "call_istanbul_expert"}

ResultStatuses == {"success", "invalid_request", "unavailable", "timeout", "provider_error"}

\* `used' are the stay ids the call forwarded; `weather' the observation whose
\* result went out as weather_context; both are kept for the properties only.
Observation == [action  : Actions,
                status  : ResultStatuses,
                stays   : Seq(Stays),
                fares   : SUBSET Amounts,
                fareIn  : Currencies,
                used    : Seq(Ids),
                weather : Nat]

Blank(action, status) ==
    [action |-> action, status |-> status, stays |-> <<>>, fares |-> {}, fareIn |-> "TRY",
     used |-> <<>>, weather |-> 0]

TaskStates == {"unspecified", "working", "completed", "failed"}

NoTask == [open |-> FALSE, state |-> "unspecified", artifacts |-> <<>>, updates |-> 0,
           used |-> <<>>, weather |-> 0]

NoSummary == [made |-> FALSE, quote |-> FALSE, flight |-> {}, stay |-> {}]

Init ==
    /\ trip \in Trips
    /\ observations = <<>>
    /\ task = NoTask
    /\ summary = NoSummary

Idle == ~task.open /\ ~summary.made /\ Len(observations) < MaxCalls

Observe(o) ==
    /\ observations' = Append(observations, o)
    /\ UNCHANGED <<trip, summary>>

-----------------------------------------------------------------------------
\* Direct bindings: _call_provider_binding turns any exception into provider_error

LookAround ==
    /\ Idle
    /\ \E action \in {"get_weather", "web_search"}, status \in ResultStatuses :
         Observe(Blank(action, status))
    /\ UNCHANGED task

\* Mutant: dollars are the default.
FlightCurrencyDollar(currency) == IF currency = "TRY" THEN "TRY" ELSE "USD"

\* _trip_currency: the trip's currency if flights can be priced in it.
FlightCurrency(currency) == IF currency \in {"TRY", "USD"} THEN currency ELSE "TRY"

SearchFlights ==
    /\ Idle
    /\ \/ \E fares \in SUBSET Amounts :
            Observe([Blank("search_flights", "success") EXCEPT
                       !.fares = fares, !.fareIn = FlightCurrency(trip.currency)])
       \/ \E status \in ResultStatuses \ {"success"} : Observe(Blank("search_flights", status))
    /\ UNCHANGED task

-----------------------------------------------------------------------------
\* Travel MCP

\* What call_tool can meet, and the status it makes of it.
McpStatus ==
    [ok |-> "success", tool_error |-> "provider_error", timeout |-> "timeout",
     exception |-> "provider_error", unavailable_code |-> "unavailable",
     invalid_code |-> "invalid_request", other_code |-> "provider_error"]

McpFailures == {McpStatus[reply] : reply \in DOMAIN McpStatus \ {"ok"}}

Results == UNION {[1..n -> Stays] : n \in 0..MaxResults}

SearchStays ==
    /\ Idle
    /\ \/ \E found \in Results :
            Observe([Blank("search_stays", McpStatus["ok"]) EXCEPT !.stays = found])
       \/ \E status \in McpFailures : Observe(Blank("search_stays", status))
    /\ UNCHANGED task

\* Successful searches that found one of the wanted stays.
Searches(obs, wanted) ==
    {i \in DOMAIN obs : /\ obs[i].action = "search_stays" /\ obs[i].status = "success"
                        /\ \E n \in DOMAIN obs[i].stays : obs[i].stays[n] \in wanted}

\* Mutant: any search of the run counts.
KnownStaysOldest(obs) ==
    LET found == Searches(obs, Stays)
    IN IF found = {} THEN <<>> ELSE obs[Min(found)].stays

\* The stays of the most recent search that found any.
KnownStays(obs) ==
    LET found == Searches(obs, Stays)
    IN IF found = {} THEN <<>> ELSE obs[Max(found)].stays

\* _validated_stay_id: an id of a known stay, or its name; the first that matches.
ValidatedStay(said, obs) ==
    LET known == KnownStays(obs)
        named == {n \in DOMAIN known : known[n].name = said}
    IN IF \E n \in DOMAIN known : known[n].id = said THEN {said}
       ELSE IF named # {} THEN {known[Min(named)].id}
       ELSE {}

EstimateFairPrice ==
    /\ Idle
    /\ \E said \in Ids \cup Names \cup {Unknown} :
         LET valid == ValidatedStay(said, observations)
         IN IF valid = {}
              THEN Observe(Blank("estimate_fair_price", "invalid_request"))
              ELSE \E id \in valid, status \in {McpStatus["ok"]} \cup McpFailures :
                     Observe([Blank("estimate_fair_price", status) EXCEPT !.used = <<id>>])
    /\ UNCHANGED task

-----------------------------------------------------------------------------
\* System B over A2A

\* The n-th smallest of a set of positions.
Nth(positions, n) ==
    CHOOSE p \in positions : Cardinality({q \in positions : q <= p}) = n

\* _build_local_plan_request's candidates: the located stays of the first
\* search, oldest first, that has one.
Candidates(obs) ==
    LET found == Searches(obs, {s \in Stays : s.located})
        stays == obs[Min(found)].stays
        located == {n \in DOMAIN stays : stays[n].located}
    IN IF found = {} THEN <<>>
       ELSE [n \in 1..Min({Cardinality(located), MaxCandidates}) |-> stays[Nth(located, n)].id]

\* Mutant: a failed get_weather is forwarded too.
WeatherContextAnyStatus(obs) ==
    LET asked == {i \in DOMAIN obs : obs[i].action = "get_weather"}
    IN IF asked # {} THEN Max(asked) ELSE 0

\* weather_context: the last get_weather, if it succeeded.
WeatherContext(obs) ==
    LET asked == {i \in DOMAIN obs : obs[i].action = "get_weather"}
    IN IF asked # {} /\ obs[Max(asked)].status = "success" THEN Max(asked) ELSE 0

CallExpert ==
    /\ Idle
    /\ IF trip = NoTrip \/ Candidates(observations) = <<>>
         THEN Observe(Blank("call_istanbul_expert", "invalid_request")) /\ UNCHANGED task
         ELSE /\ task' = [NoTask EXCEPT !.open = TRUE,
                                        !.used = Candidates(observations),
                                        !.weather = WeatherContext(observations)]
              /\ UNCHANGED <<trip, observations, summary>>

\* A task, status_update or artifact_update of the stream.
Update ==
    /\ task.open /\ task.updates < MaxUpdates
    /\ \E state \in TaskStates, artifacts \in UNION {[1..n -> {"object", "text"}] : n \in 0..1} :
         task' = [task EXCEPT !.state = state, !.artifacts = @ \o artifacts, !.updates = @ + 1]
    /\ UNCHANGED <<trip, observations, summary>>

CloseTask(status) ==
    /\ task.open
    /\ Observe([Blank("call_istanbul_expert", status) EXCEPT
                  !.used = task.used, !.weather = task.weather])
    /\ task' = NoTask

\* The stream is over: only an artifact of a completed task is evidence.
StreamEnds ==
    CloseTask(IF /\ task.state = "completed"
                 /\ \E n \in DOMAIN task.artifacts : task.artifacts[n] = "object"
                THEN "success" ELSE "provider_error")

\* asyncio.wait_for, whatever has been received by then; or an exception.
StreamCut == \E status \in {"timeout", "provider_error"} : CloseTask(status)

-----------------------------------------------------------------------------
\* build_budget_summary, once the graph has ended

Cheapest(prices) == Min(prices)

\* The fares or the nightly prices of an observation.
Prices(o) ==
    IF o.action = "search_flights" THEN o.fares
    ELSE {o.stays[n].price : n \in DOMAIN o.stays} \ {NoPrice}

\* The first successful call of this action that found a price.
FirstPriced(obs, action) ==
    LET found == {i \in DOMAIN obs : /\ obs[i].action = action /\ obs[i].status = "success"
                                     /\ Prices(obs[i]) # {}}
    IN IF found = {} THEN {} ELSE {obs[Min(found)]}

\* convert_minor_units knows the trip's currency and the one the quote is for.
Entry(amount, currency, quote) ==
    [amount |-> amount, currency |-> currency,
     normalized |-> currency = trip.currency \/ currency \in quote]

\* The one FX pair: any of the currencies that are not the trip's; the rate may
\* not be available.
Summarize ==
    /\ ~task.open /\ ~summary.made /\ trip # NoTrip
    /\ LET fares == {[amount |-> Cheapest(Prices(o)), currency |-> o.fareIn] :
                       o \in FirstPriced(observations, "search_flights")}
           nights == IF trip.nights = 0 THEN {} ELSE
                     {[amount |-> Cheapest(Prices(o)) * trip.nights, currency |-> "TRY"] :
                       o \in FirstPriced(observations, "search_stays")}
           others == {p.currency : p \in fares \cup nights} \ {trip.currency}
       IN \E quote \in {{}} \cup {{other} : other \in others} :
            summary' = [made |-> TRUE, quote |-> quote # {},
                        flight |-> {Entry(p.amount, p.currency, quote) : p \in fares},
                        stay |-> {Entry(p.amount, p.currency, quote) : p \in nights}]
    /\ UNCHANGED <<trip, observations, task>>

-----------------------------------------------------------------------------

Next ==
    \/ LookAround \/ SearchFlights \/ SearchStays \/ EstimateFairPrice
    \/ CallExpert \/ Update \/ StreamEnds \/ StreamCut
    \/ Summarize

Spec == Init /\ [][Next]_evidenceVars

-----------------------------------------------------------------------------
\* Properties

Found(i, id) ==
    /\ observations[i].action = "search_stays" /\ observations[i].status = "success"
    /\ \E n \in DOMAIN observations[i].stays : observations[i].stays[n].id = id

\* No invented stay leaves the system: every id that was priced or sent to the
\* expert was returned by a search of this run before that call, and a priced one
\* by no search that a later one had already superseded.
StaysAreEvidence ==
    \A i \in DOMAIN observations :
        \A n \in DOMAIN observations[i].used :
            \E j \in 1..(i - 1) :
                /\ Found(j, observations[i].used[n])
                /\ observations[i].action = "estimate_fair_price" =>
                     \A k \in (j + 1)..(i - 1) : ~(\E id \in Ids : Found(k, id))

\* The plan the expert is asked for has few candidates, each with coordinates in
\* one and the same search, and weather that was really observed.
PlansAreCoherent ==
    \A i \in DOMAIN observations :
        LET o == observations[i]
        IN o.action = "call_istanbul_expert" /\ o.used # <<>> =>
            /\ Len(o.used) <= MaxCandidates
            /\ \E j \in 1..(i - 1) : \A n \in DOMAIN o.used :
                 \E m \in DOMAIN observations[j].stays :
                    observations[j].stays[m].id = o.used[n] /\ observations[j].stays[m].located
            /\ o.weather # 0 =>
                 /\ observations[o.weather].action = "get_weather"
                 /\ observations[o.weather].status = "success"
                 /\ o.weather < i

\* One exchange rate is enough: whatever the trip's currency, the calls of a run
\* price in it or in one other, so with a rate every price can be compared with
\* the budget, and without one only prices in the trip's own currency are.
OneQuoteIsEnough ==
    \A entry \in summary.flight \cup summary.stay :
        entry.normalized <=> summary.quote \/ entry.currency = trip.currency

\* ADR 0014: the expert's stay candidates come "from the most recent successful
\* `search_stays` observation".  (Checked to be violated: they come from the first.)
ExpertUsesLatestStays ==
    \A n \in DOMAIN task.used :
        \E i \in DOMAIN observations :
            /\ Found(i, task.used[n])
            /\ \A j \in DOMAIN observations :
                 j > i => Candidates(<<observations[j]>>) = <<>>
=============================================================================
