------------------------------- MODULE MCTools -------------------------------
(***************************************************************************)
(* What one tool call rests on, for TLC: the tool calls of a run with      *)
(* their evidence (ToolEvidence), a call of one provider adapter           *)
(* (ProviderCalls), and the circuit breaker of the provider policy         *)
(* (CircuitBreaker).  The three share no state and meet at a status only,  *)
(* so that one behaviour follows one of them and leaves the others at rest.*)
(***************************************************************************)
EXTENDS MCToolEvidence

CONSTANTS
    Rates, CacheTtl, MaxNow, Horizon, MaxDay, SampleYears,
    Offers, MaxRaw, HardMaxResults, Prices100,
    Callers, FailureThreshold, OpenDuration, MaxRow

\* A rate is positive, a cached one has some time to live, prices are in minor units.
ASSUME ToolsConstantsOK ==
    /\ Rates \subseteq Nat \ {0} /\ CacheTtl \in Nat \ {0}
    /\ Prices100 \subseteq Nat /\ {Horizon, MaxDay, MaxRaw, HardMaxResults} \subseteq Nat
    /\ FailureThreshold \in Nat \ {0}

VARIABLES
    part,                               \* the component this behaviour follows
    now, cache, got, call, out,         \* ProviderCalls
    state, failures, openedAt, breakerNow, calling, inRow   \* CircuitBreaker

P == INSTANCE ProviderCalls WITH Amounts <- Prices100
B == INSTANCE CircuitBreaker WITH now <- breakerNow

providerVars == <<now, cache, got, call, out>>
breakerVars == <<state, failures, openedAt, breakerNow, calling, inRow>>

Parts == {"evidence", "provider", "breaker"}

ToolsInit ==
    /\ part \in Parts
    /\ Init /\ (part # "evidence" => trip = NoTrip)
    /\ P!Init /\ B!Init

ToolsNext ==
    \/ part = "evidence" /\ Next /\ UNCHANGED <<part, providerVars, breakerVars>>
    \/ part = "provider" /\ P!Next /\ UNCHANGED <<part, evidenceVars, breakerVars>>
    \/ part = "breaker" /\ B!Next /\ UNCHANGED <<part, evidenceVars, providerVars>>

ToolsSpec == ToolsInit /\ [][ToolsNext]_<<part, evidenceVars, providerVars, breakerVars>>

\* A provider's failure is never dressed up as data (ProviderCalls).
HonestEnvelope == P!HonestEnvelope

\* No call outlives the minute it was given (ProviderCalls).
BoundedCalls == P!BoundedCalls

\* Search results are the first usable entries, prices round to the nearest unit
\* (ProviderCalls).
ResultsAreFaithful == P!ResultsAreFaithful

\* A rate is called live only within its time to live (ProviderCalls).
FxHitIsFresh == P!FxHitIsFresh

\* Forecast days are forecast, the others are climate, and the label says which
\* (ProviderCalls).
WeatherServesTheRange == P!WeatherServesTheRange

\* The breaker opens at its threshold, whatever late reports come in (CircuitBreaker).
TripsInTime == B!TripsInTime
=============================================================================
