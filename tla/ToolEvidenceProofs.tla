------------------------- MODULE ToolEvidenceProofs -------------------------
(***************************************************************************)
(* What the tool executor forwards is evidence, for any stays, prices,     *)
(* number of calls and number of task updates.  The invariant adds to the  *)
(* properties what the task in flight carries (the candidates and the      *)
(* weather of the moment it was opened: no observation is made meanwhile)  *)
(* and the one currency fares are asked for.                               *)
(***************************************************************************)
EXTENDS ToolEvidence, FiniteSetTheorems, TLAPS

-----------------------------------------------------------------------------
\* Positions in a sequence

\* A nonempty set of naturals has a least element.
LEMMA LeastExists ==
    ASSUME NEW S \in SUBSET Nat, S # {}
    PROVE  \E x \in S : \A y \in S : x <= y
<1> DEFINE Less == {ss \in Nat \X Nat : ss[1] < ss[2]}
<1>1. IsWellFoundedOn(Less, Nat)
  BY NatLessThanWellFounded, Zenon DEF OpToRel
<1>2. PICK x \in S : \A y \in S : ~(<<y, x>> \in Less)
  <2> HIDE DEF Less
  <2> QED BY <1>1, WFMin
<1>3. ASSUME NEW y \in S PROVE ~(y < x)
  BY <1>2
<1> QED BY <1>3

LEMMA MinOf ==
    ASSUME NEW S \in SUBSET Nat, S # {}
    PROVE  Min(S) \in S /\ \A y \in S : Min(S) <= y
BY LeastExists DEF Min

\* A nonempty set of naturals with a bound has a greatest element.
LEMMA MaxOf ==
    ASSUME NEW n \in Nat, NEW S \in SUBSET (0..n), S # {}
    PROVE  Max(S) \in S /\ \A y \in S : Max(S) >= y
<1> DEFINE T == {n - x : x \in S}
<1>0. \A x \in S : x \in Nat /\ x <= n
  OBVIOUS
<1>1. T \in SUBSET Nat /\ T # {}
  <2>1. \A x \in S : n - x \in Nat
    BY <1>0
  <2> QED BY <2>1
<1>2. PICK t \in T : \A u \in T : t <= u
  BY <1>1, LeastExists
<1>3. PICK x \in S : t = n - x
  OBVIOUS
<1>4. \A y \in S : x >= y
  BY <1>2, <1>3
<1> QED BY <1>4 DEF Max

\* The n-th of a set of positions is there, if there are that many.
LEMMA NthExists ==
    ASSUME NEW k \in Nat, NEW S \in SUBSET (1..k), NEW n \in 1..Cardinality(S)
    PROVE  Nth(S, n) \in S
<1>0. \A x \in S : x \in Nat /\ 1 <= x /\ x <= k
  OBVIOUS
<1>1. ASSUME NEW T \in SUBSET S PROVE IsFiniteSet(T) /\ Cardinality(T) \in Nat
  <2>1. IsFiniteSet(1..k) /\ T \in SUBSET (1..k)
    BY FS_Interval
  <2> QED BY <2>1, FS_Subset, FS_CardinalityType
<1> DEFINE Upto(p) == {q \in S : q <= p}
           Enough == {p \in 0..k : Cardinality(Upto(p)) >= n}
<1>2. k \in Enough
  <2>1. Upto(k) = S
    BY <1>0
  <2>2. Cardinality(S) \in Nat
    BY <1>1
  <2> QED BY <2>1, <2>2
<1>3. PICK p \in Enough : \A q \in Enough : p <= q
  <2>1. Enough \in SUBSET Nat /\ Enough # {}
    BY <1>2
  <2> HIDE DEF Enough
  <2> QED BY <2>1, LeastExists
<1>4. p # 0
  <2>1. \A x \in S : ~(x <= 0)
    BY <1>0
  <2>2. Upto(0) = {}
    BY <2>1
  <2> QED BY <2>2, FS_EmptySet
<1>5. p \in 1..k /\ p - 1 \in 0..k /\ p - 1 \notin Enough
  <2>1. p \in 1..k /\ p - 1 \in 0..k /\ ~(p <= p - 1)
    BY <1>3, <1>4
  <2> QED BY <1>3, <2>1
<1>6. Cardinality(Upto(p - 1)) < n
  BY <1>1, <1>5
<1>7. CASE p \notin S
  <2>1. \A x \in S : x <= p <=> x <= p - 1
    BY <1>0, <1>5, <1>7
  <2>2. Upto(p) = Upto(p - 1)
    BY <2>1
  <2> QED BY <1>1, <1>3, <1>6, <2>2
<1>8. CASE p \in S
  <2>0. \A x \in S : x <= p <=> x <= p - 1 \/ x = p
    BY <1>0, <1>5
  <2>1. Upto(p) = Upto(p - 1) \cup {p} /\ p \notin Upto(p - 1)
    BY <1>5, <1>8, <2>0
  <2>2. Cardinality(Upto(p)) = Cardinality(Upto(p - 1)) + 1
    BY <1>1, <2>1, FS_AddElement
  <2>3. Cardinality(Upto(p)) = n
    BY <1>1, <1>3, <1>6, <2>2
  <2> QED BY <1>8, <2>3 DEF Nth
<1> QED BY <1>7, <1>8
-----------------------------------------------------------------------------
\* Types

Tasks == [open : BOOLEAN, state : TaskStates, artifacts : Seq({"object", "text"}),
          updates : Nat, used : Seq(Ids), weather : Nat]

EvidenceTypes ==
    /\ trip \in Trips
    /\ observations \in Seq(Observation)
    /\ task \in Tasks

\* What a typed observation gives.
LEMMA ObservationTyped ==
    ASSUME NEW o \in Observation
    PROVE  /\ o.stays \in Seq(Stays) /\ o.used \in Seq(Ids) /\ o.weather \in Nat
           /\ o.action \in Actions /\ o.status \in ResultStatuses
           /\ DOMAIN o.stays = 1..Len(o.stays) /\ Len(o.stays) \in Nat
           /\ \A n \in DOMAIN o.stays : o.stays[n] \in Stays /\ o.stays[n].id \in Ids
<1>1. o.stays \in Seq(Stays) /\ o.used \in Seq(Ids) /\ o.weather \in Nat
      /\ o.action \in Actions /\ o.status \in ResultStatuses
  BY DEF Observation
<1>2. \A s \in Stays : s.id \in Ids
  BY DEF Ids
<1> QED BY <1>1, <1>2

LEMMA BlankTyped ==
    ASSUME NEW action \in Actions, NEW status \in ResultStatuses
    PROVE  /\ Blank(action, status) \in Observation
           /\ Blank(action, status).used = <<>>
           /\ Blank(action, status).action = action
           /\ Blank(action, status).status = status
BY DEF Blank, Observation, Currencies

LEMMA McpStatusTyped ==
    McpStatus["ok"] = "success" /\ McpFailures \subseteq ResultStatuses \ {"success"}
<1>1. \A r \in DOMAIN McpStatus \ {"ok"} : McpStatus[r] \in ResultStatuses \ {"success"}
  BY DEF McpStatus, ResultStatuses
<1> QED BY <1>1 DEF McpStatus, McpFailures

-----------------------------------------------------------------------------
\* What the executor takes from earlier observations

\* The searches that found any stay are those that found some id.
LEMMA SearchesFound ==
    ASSUME EvidenceTypes, NEW i \in DOMAIN observations
    PROVE  i \in Searches(observations, Stays) <=> \E id \in Ids : Found(i, id)
<1>1. observations[i] \in Observation
  BY DEF EvidenceTypes
<1> QED BY <1>1, ObservationTyped DEF Searches, Found

LEMMA SearchesTyped ==
    ASSUME EvidenceTypes, NEW wanted
    PROVE  Searches(observations, wanted) \in SUBSET (0..Len(observations))
           /\ Len(observations) \in Nat
           /\ Searches(observations, wanted) \in SUBSET Nat
BY DEF EvidenceTypes, Searches

\* Whatever the model says, a stay that is priced was found, and by no search that a
\* later one has superseded.
LEMMA ValidatedIsEvidence ==
    ASSUME EvidenceTypes, NEW said, NEW id \in ValidatedStay(said, observations)
    PROVE  /\ id \in Ids
           /\ \E j \in DOMAIN observations :
                /\ Found(j, id)
                /\ \A k \in DOMAIN observations : k > j => ~\E other \in Ids : Found(k, other)
<1> DEFINE found == Searches(observations, Stays)
           known == KnownStays(observations)
           named == {n \in DOMAIN known : known[n].name = said}
<1>1. found # {}
  <2>1. CASE found = {}
    <3>1. known = <<>>
      BY <2>1 DEF KnownStays
    <3> QED BY <3>1 DEF ValidatedStay
  <2> QED BY <2>1
<1> DEFINE j == Max(found)
<1>2. j \in found /\ \A k \in found : j >= k
  BY <1>1, SearchesTyped, MaxOf
<1>3. /\ j \in DOMAIN observations /\ observations[j].action = "search_stays"
      /\ observations[j].status = "success"
  BY <1>2 DEF Searches
<1>4. known = observations[j].stays
  BY <1>1 DEF KnownStays
<1>5. observations[j] \in Observation
  BY <1>3 DEF EvidenceTypes
<1>6. \E n \in DOMAIN known : known[n].id = id
  <2> HIDE DEF known
  <2>1. CASE named # {}
    <3>1. named \in SUBSET Nat
      BY <1>4, <1>5, ObservationTyped
    <3>2. Min(named) \in named
      BY <2>1, <3>1, MinOf
    <3> QED BY <3>2 DEF ValidatedStay, known
  <2>2. CASE named = {}
    BY <2>2 DEF ValidatedStay, known
  <2> QED BY <2>1, <2>2
<1>7. Found(j, id) /\ id \in Ids
  BY <1>3, <1>4, <1>5, <1>6, ObservationTyped DEF Found
<1>8. \A k \in DOMAIN observations : k > j => ~\E other \in Ids : Found(k, other)
  <2> HIDE DEF j, found
  <2>1. j \in Nat /\ \A k \in DOMAIN observations : k \in Nat
    BY <1>3 DEF EvidenceTypes
  <2>2. \A k \in found : ~(k > j)
    BY <1>2, <2>1, SearchesTyped DEF found
  <2> QED BY <2>2, SearchesFound DEF found
<1> QED BY <1>3, <1>7, <1>8

\* The expert's candidates are few and located stays of one search.
LEMMA CandidatesAreLocated ==
    ASSUME EvidenceTypes, Candidates(observations) # <<>>
    PROVE  /\ Candidates(observations) \in Seq(Ids)
           /\ Len(Candidates(observations)) <= MaxCandidates
           /\ \E j \in DOMAIN observations :
                /\ observations[j].action = "search_stays"
                /\ observations[j].status = "success"
                /\ \A n \in DOMAIN Candidates(observations) :
                     \E m \in DOMAIN observations[j].stays :
                        /\ observations[j].stays[m].id = Candidates(observations)[n]
                        /\ observations[j].stays[m].located
<1> DEFINE found == Searches(observations, {s \in Stays : s.located})
           j == Min(found)
           stays == observations[j].stays
           located == {n \in DOMAIN stays : stays[n].located}
           many == Min({Cardinality(located), MaxCandidates})
<1>1. found # {}
  BY DEF Candidates
<1>2. j \in found
  BY <1>1, SearchesTyped, MinOf
<1>3. /\ j \in DOMAIN observations /\ observations[j].action = "search_stays"
      /\ observations[j].status = "success" /\ observations[j] \in Observation
  BY <1>2 DEF Searches, EvidenceTypes
<1>4. /\ stays \in Seq(Stays) /\ Len(stays) \in Nat /\ located \in SUBSET (1..Len(stays))
      /\ \A n \in DOMAIN stays : stays[n].id \in Ids
  BY <1>3, ObservationTyped
<1>5. Cardinality(located) \in Nat /\ MaxCandidates \in Nat
  <2>1. IsFiniteSet(1..Len(stays))
    BY <1>4, FS_Interval
  <2> HIDE DEF located
  <2>2. IsFiniteSet(located)
    BY <1>4, <2>1, FS_Subset
  <2> QED BY <2>2, FS_CardinalityType, EvidenceConstantsOK
<1>6. many \in Nat /\ many <= Cardinality(located) /\ many <= MaxCandidates
  <2> HIDE DEF located
  <2> QED BY <1>5, MinOf
<1>7. Candidates(observations) = [n \in 1..many |-> stays[Nth(located, n)].id]
  BY <1>1 DEF Candidates
<1>8. \A n \in 1..many : Nth(located, n) \in located
  <2> HIDE DEF located, many
  <2>1. \A n \in 1..many : n \in 1..Cardinality(located)
    BY <1>5, <1>6
  <2> QED BY <1>4, <2>1, NthExists
<1> HIDE DEF many
<1>9. Candidates(observations) \in Seq(Ids) /\ Len(Candidates(observations)) = many
      /\ DOMAIN Candidates(observations) = 1..many
  <2>1. \A n \in 1..many : stays[Nth(located, n)].id \in Ids
    BY <1>4, <1>8
  <2> HIDE DEF stays, located
  <2> QED BY <1>6, <1>7, <2>1
<1>10. \A n \in 1..many : \E m \in DOMAIN stays :
          stays[m].id = Candidates(observations)[n] /\ stays[m].located
  BY <1>7, <1>8
<1> QED BY <1>3, <1>6, <1>9, <1>10

LEMMA CandidatesTyped ==
    ASSUME EvidenceTypes
    PROVE  Candidates(observations) \in Seq(Ids)
<1>1. <<>> \in Seq(Ids)
  OBVIOUS
<1> QED BY <1>1, CandidatesAreLocated

\* The forwarded weather was observed.
LEMMA WeatherIsObserved ==
    ASSUME EvidenceTypes
    PROVE  /\ WeatherContext(observations) \in Nat
           /\ WeatherContext(observations) # 0 =>
                /\ WeatherContext(observations) \in DOMAIN observations
                /\ observations[WeatherContext(observations)].action = "get_weather"
                /\ observations[WeatherContext(observations)].status = "success"
<1> DEFINE asked == {i \in DOMAIN observations : observations[i].action = "get_weather"}
<1>1. asked \in SUBSET (0..Len(observations)) /\ Len(observations) \in Nat
  BY DEF EvidenceTypes
<1>2. CASE asked = {}
  BY <1>2 DEF WeatherContext
<1>3. CASE asked # {}
  <2>1. Max(asked) \in asked
    BY <1>1, <1>3, MaxOf
  <2>2. Max(asked) \in Nat
    BY <1>1, <2>1
  <2> QED BY <2>1, <2>2 DEF WeatherContext
<1> QED BY <1>2, <1>3
\* With the observations, what is taken from them stays.
LEMMA SameEvidence ==
    observations' = observations =>
        /\ Candidates(observations)' = Candidates(observations)
        /\ WeatherContext(observations)' = WeatherContext(observations)
BY DEF Candidates, WeatherContext, Searches, Nth, Min, Max

-----------------------------------------------------------------------------
\* The inductive invariant

\* The task in flight carries what was observed before the call that opened it.
TaskGrounded ==
    task.open =>
        /\ task.used = Candidates(observations)
        /\ task.weather = WeatherContext(observations)

\* Fares are in the currency the trip's flights are asked for.
FaresInCurrency ==
    \A i \in DOMAIN observations :
        observations[i].action = "search_flights" /\ observations[i].status = "success" =>
            observations[i].fareIn = FlightCurrency(trip.currency)

EvidenceInv ==
    /\ EvidenceTypes
    /\ TaskGrounded
    /\ FaresInCurrency
    /\ StaysAreEvidence
    /\ PlansAreCoherent
    /\ OneQuoteIsEnough

\* What justifies a new observation, read off those before it.
Grounded(o) ==
    /\ \A n \in DOMAIN o.used :
         \E j \in DOMAIN observations :
            /\ Found(j, o.used[n])
            /\ o.action = "estimate_fair_price" =>
                 \A k \in DOMAIN observations : k > j => ~\E id \in Ids : Found(k, id)
    /\ o.action = "call_istanbul_expert" /\ o.used # <<>> =>
         /\ Len(o.used) <= MaxCandidates
         /\ \E j \in DOMAIN observations : \A n \in DOMAIN o.used :
              \E m \in DOMAIN observations[j].stays :
                 observations[j].stays[m].id = o.used[n] /\ observations[j].stays[m].located
         /\ o.weather # 0 =>
              /\ o.weather \in DOMAIN observations
              /\ observations[o.weather].action = "get_weather"
              /\ observations[o.weather].status = "success"
    /\ o.action = "search_flights" /\ o.status = "success" =>
         o.fareIn = FlightCurrency(trip.currency)

\* An observation that forwards nothing needs no justification.
LEMMA NothingForwarded ==
    ASSUME NEW o, o.used = <<>>,
           o.action = "search_flights" /\ o.status = "success" =>
              o.fareIn = FlightCurrency(trip.currency)
    PROVE  Grounded(o)
BY DEF Grounded

\* A justified observation keeps what holds of those before it.
LEMMA ObserveKeeps ==
    ASSUME EvidenceInv, NEW o \in Observation, Observe(o), Grounded(o), task' \in Tasks,
           ~task'.open
    PROVE  EvidenceInv'
<1>1. /\ observations \in Seq(Observation) /\ observations' = Append(observations, o)
      /\ trip' = trip /\ summary' = summary
  BY DEF EvidenceInv, EvidenceTypes, Observe
<1>2. /\ observations' \in Seq(Observation) /\ Len(observations) \in Nat
      /\ DOMAIN observations = 1..Len(observations)
      /\ DOMAIN observations' = 1..(Len(observations) + 1)
      /\ observations'[Len(observations) + 1] = o
      /\ \A i \in DOMAIN observations : observations'[i] = observations[i]
  BY <1>1
<1>3. EvidenceTypes' /\ TaskGrounded' /\ OneQuoteIsEnough'
  BY <1>1, <1>2 DEF EvidenceInv, EvidenceTypes, TaskGrounded, OneQuoteIsEnough
<1>4. \A i \in DOMAIN observations : \A id : Found(i, id)' <=> Found(i, id)
  BY <1>2 DEF Found
<1>5. \A i \in DOMAIN observations' : i \in DOMAIN observations \/ i = Len(observations) + 1
  BY <1>2
<1>6. FaresInCurrency'
  <2>1. ASSUME NEW i \in DOMAIN observations', observations'[i].action = "search_flights",
               observations'[i].status = "success"
        PROVE  observations'[i].fareIn = FlightCurrency(trip.currency)
    BY <1>2, <1>5, <2>1 DEF EvidenceInv, FaresInCurrency, Grounded
  <2> QED BY <1>1, <2>1 DEF FaresInCurrency, FlightCurrency
<1>7. StaysAreEvidence'
  <2>1. ASSUME NEW i \in DOMAIN observations', NEW n \in DOMAIN observations'[i].used,
               NEW stay, stay = observations'[i].used[n]
        PROVE  \E j \in 1..(i - 1) :
                 /\ Found(j, stay)'
                 /\ observations'[i].action = "estimate_fair_price" =>
                      \A k \in (j + 1)..(i - 1) : ~(\E id \in Ids : Found(k, id)')
    <3>1. CASE i \in DOMAIN observations
      <4>1. PICK j \in 1..(i - 1) :
              /\ Found(j, stay)
              /\ observations[i].action = "estimate_fair_price" =>
                   \A k \in (j + 1)..(i - 1) : ~(\E id \in Ids : Found(k, id))
        BY <1>2, <2>1, <3>1 DEF EvidenceInv, StaysAreEvidence
      <4>2. j \in DOMAIN observations /\ \A k \in (j + 1)..(i - 1) : k \in DOMAIN observations
        BY <1>2, <3>1
      <4> QED BY <1>2, <1>4, <3>1, <4>1, <4>2
    <3>2. CASE i = Len(observations) + 1
      <4>1. PICK j \in DOMAIN observations :
              /\ Found(j, stay)
              /\ o.action = "estimate_fair_price" =>
                   \A k \in DOMAIN observations : k > j => ~\E id \in Ids : Found(k, id)
        BY <1>2, <2>1, <3>2 DEF Grounded
      <4>2. j \in 1..(i - 1) /\ \A k \in (j + 1)..(i - 1) : k \in DOMAIN observations /\ k > j
        BY <1>2, <3>2
      <4> QED BY <1>2, <1>4, <3>2, <4>1, <4>2
    <3> QED BY <1>5, <3>1, <3>2
  <2> QED BY <2>1 DEF StaysAreEvidence
<1>8. PlansAreCoherent'
  <2>1. ASSUME NEW i \in DOMAIN observations',
               observations'[i].action = "call_istanbul_expert", observations'[i].used # <<>>
        PROVE  /\ Len(observations'[i].used) <= MaxCandidates
               /\ \E j \in 1..(i - 1) : \A n \in DOMAIN observations'[i].used :
                    \E m \in DOMAIN observations'[j].stays :
                       /\ observations'[j].stays[m].id = observations'[i].used[n]
                       /\ observations'[j].stays[m].located
               /\ observations'[i].weather # 0 =>
                    /\ observations'[observations'[i].weather].action = "get_weather"
                    /\ observations'[observations'[i].weather].status = "success"
                    /\ observations'[i].weather < i
    <3>1. CASE i \in DOMAIN observations
      <4>1. /\ Len(observations[i].used) <= MaxCandidates
            /\ \E j \in 1..(i - 1) : \A n \in DOMAIN observations[i].used :
                 \E m \in DOMAIN observations[j].stays :
                    /\ observations[j].stays[m].id = observations[i].used[n]
                    /\ observations[j].stays[m].located
            /\ observations[i].weather # 0 =>
                 /\ observations[observations[i].weather].action = "get_weather"
                 /\ observations[observations[i].weather].status = "success"
                 /\ observations[i].weather < i
        BY <1>2, <2>1, <3>1 DEF EvidenceInv, PlansAreCoherent
      <4>2. observations[i].weather \in Nat
        BY <1>1, <3>1, ObservationTyped
      <4>3. \A j \in 1..(i - 1) : j \in DOMAIN observations
        BY <1>2, <3>1
      <4>4. observations[i].weather # 0 => observations[i].weather \in DOMAIN observations
        BY <1>2, <3>1, <4>1, <4>2
      <4> QED BY <1>2, <3>1, <4>1, <4>3, <4>4
    <3>2. CASE i = Len(observations) + 1
      <4>1. \A j \in DOMAIN observations : j \in 1..(i - 1) /\ j < i
        BY <1>2, <3>2
      <4>2. o.action = "call_istanbul_expert" /\ o.used # <<>>
        BY <1>2, <2>1, <3>2
      <4>3. PICK j \in DOMAIN observations : \A n \in DOMAIN o.used :
              \E m \in DOMAIN observations[j].stays :
                 observations[j].stays[m].id = o.used[n] /\ observations[j].stays[m].located
        BY <4>2 DEF Grounded
      <4>4. /\ Len(o.used) <= MaxCandidates
            /\ o.weather # 0 =>
                 /\ o.weather \in DOMAIN observations
                 /\ observations[o.weather].action = "get_weather"
                 /\ observations[o.weather].status = "success"
        BY <4>2 DEF Grounded
      <4> QED BY <1>2, <3>2, <4>1, <4>3, <4>4
    <3> QED BY <1>5, <3>1, <3>2
  <2> QED BY <2>1 DEF PlansAreCoherent
<1> QED BY <1>3, <1>6, <1>7, <1>8 DEF EvidenceInv

LEMMA LookAroundKeeps == ASSUME EvidenceInv, LookAround PROVE EvidenceInv'
<1>1. PICK action \in {"get_weather", "web_search"}, status \in ResultStatuses :
        Observe(Blank(action, status))
  BY DEF LookAround
<1>2. action \in Actions /\ action # "search_flights"
  BY DEF Actions
<1>3. task' = task /\ task \in Tasks /\ ~task.open
  BY DEF LookAround, Idle, EvidenceInv, EvidenceTypes
<1> QED BY <1>1, <1>2, <1>3, BlankTyped, NothingForwarded, ObserveKeeps

LEMMA SearchFlightsKeeps == ASSUME EvidenceInv, SearchFlights PROVE EvidenceInv'
<1>1. task' = task /\ task \in Tasks /\ ~task.open /\ trip \in Trips
  BY DEF SearchFlights, Idle, EvidenceInv, EvidenceTypes
<1>2. "search_flights" \in Actions /\ "success" \in ResultStatuses
  BY DEF Actions, ResultStatuses
<1>3. ASSUME NEW fares \in SUBSET Amounts,
             Observe([Blank("search_flights", "success") EXCEPT
                        !.fares = fares, !.fareIn = FlightCurrency(trip.currency)])
      PROVE  EvidenceInv'
  <2> DEFINE b == Blank("search_flights", "success")
             o == [b EXCEPT !.fares = fares, !.fareIn = FlightCurrency(trip.currency)]
  <2>0. b \in Observation /\ b.used = <<>>
    BY <1>2, BlankTyped
  <2>1. FlightCurrency(trip.currency) \in Currencies
    BY DEF FlightCurrency, Currencies
  <2>2. o \in Observation /\ o.used = <<>> /\ o.fareIn = FlightCurrency(trip.currency)
    <3> HIDE DEF b
    <3> QED BY <2>0, <2>1 DEF Observation
  <2> HIDE DEF o
  <2>3. Grounded(o)
    BY <2>2, NothingForwarded
  <2> QED BY <1>1, <1>3, <2>2, <2>3, ObserveKeeps DEF o
<1>4. ASSUME NEW status \in ResultStatuses \ {"success"}, Observe(Blank("search_flights", status))
      PROVE  EvidenceInv'
  BY <1>1, <1>2, <1>4, BlankTyped, NothingForwarded, ObserveKeeps
<1> QED BY <1>3, <1>4 DEF SearchFlights

LEMMA SearchStaysKeeps == ASSUME EvidenceInv, SearchStays PROVE EvidenceInv'
<1>1. task' = task /\ task \in Tasks /\ ~task.open
  BY DEF SearchStays, Idle, EvidenceInv, EvidenceTypes
<1>2. "search_stays" \in Actions /\ "success" \in ResultStatuses
  BY DEF Actions, ResultStatuses
<1>3. ASSUME NEW found \in Results,
             Observe([Blank("search_stays", McpStatus["ok"]) EXCEPT !.stays = found])
      PROVE  EvidenceInv'
  <2> DEFINE b == Blank("search_stays", McpStatus["ok"])
             o == [b EXCEPT !.stays = found]
  <2>0. b \in Observation /\ b.used = <<>> /\ b.action = "search_stays"
    BY <1>2, McpStatusTyped, BlankTyped
  <2>1. found \in Seq(Stays)
    BY EvidenceConstantsOK DEF Results
  <2>2. o \in Observation /\ o.used = <<>> /\ o.action = "search_stays"
    <3> HIDE DEF b
    <3> QED BY <2>0, <2>1 DEF Observation
  <2> HIDE DEF o
  <2>3. Grounded(o)
    BY <2>2, NothingForwarded
  <2> QED BY <1>1, <1>3, <2>2, <2>3, ObserveKeeps DEF o
<1>4. ASSUME NEW status \in McpFailures, Observe(Blank("search_stays", status))
      PROVE  EvidenceInv'
  BY <1>1, <1>2, <1>4, McpStatusTyped, BlankTyped, NothingForwarded, ObserveKeeps
<1> QED BY <1>3, <1>4 DEF SearchStays

LEMMA EstimateKeeps == ASSUME EvidenceInv, EstimateFairPrice PROVE EvidenceInv'
<1>1. task' = task /\ task \in Tasks /\ ~task.open /\ EvidenceTypes
  BY DEF EstimateFairPrice, Idle, EvidenceInv, EvidenceTypes
<1>2. "estimate_fair_price" \in Actions /\ "invalid_request" \in ResultStatuses
  BY DEF Actions, ResultStatuses
<1>3. CASE Observe(Blank("estimate_fair_price", "invalid_request"))
  BY <1>1, <1>2, <1>3, BlankTyped, NothingForwarded, ObserveKeeps
<1>4. ASSUME NEW said, NEW id \in ValidatedStay(said, observations),
             NEW status \in {McpStatus["ok"]} \cup McpFailures,
             Observe([Blank("estimate_fair_price", status) EXCEPT !.used = <<id>>])
      PROVE  EvidenceInv'
  <2> DEFINE b == Blank("estimate_fair_price", status)
             o == [b EXCEPT !.used = <<id>>]
  <2>1. PICK j \in DOMAIN observations :
          /\ Found(j, id)
          /\ \A k \in DOMAIN observations : k > j => ~\E other \in Ids : Found(k, other)
    BY <1>1, <1>4, ValidatedIsEvidence
  <2>2. id \in Ids /\ status \in ResultStatuses
    BY <1>1, <1>4, ValidatedIsEvidence, McpStatusTyped DEF ResultStatuses
  <2>20. <<id>> \in Seq(Ids) /\ b \in Observation /\ b.action = "estimate_fair_price"
    BY <1>2, <2>2, BlankTyped
  <2>3. o \in Observation /\ o.used = <<id>> /\ o.action = "estimate_fair_price"
    <3> HIDE DEF b
    <3> QED BY <2>20 DEF Observation
  <2> HIDE DEF o
  <2>4. \A n \in DOMAIN o.used : o.used[n] = id
    BY <2>3
  <2>5. Grounded(o)
    BY <2>1, <2>3, <2>4 DEF Grounded
  <2> QED BY <1>1, <1>4, <2>3, <2>5, ObserveKeeps DEF o
<1> QED BY <1>3, <1>4 DEF EstimateFairPrice

LEMMA CallExpertKeeps == ASSUME EvidenceInv, CallExpert PROVE EvidenceInv'
<1>1. task \in Tasks /\ ~task.open /\ EvidenceTypes
  BY DEF CallExpert, Idle, EvidenceInv, EvidenceTypes
<1>2. CASE Observe(Blank("call_istanbul_expert", "invalid_request")) /\ UNCHANGED task
  <2>1. "call_istanbul_expert" \in Actions /\ "invalid_request" \in ResultStatuses
    BY DEF Actions, ResultStatuses
  <2> QED BY <1>1, <1>2, <2>1, BlankTyped, NothingForwarded, ObserveKeeps
<1>3. CASE /\ task' = [NoTask EXCEPT !.open = TRUE, !.used = Candidates(observations),
                                     !.weather = WeatherContext(observations)]
           /\ UNCHANGED <<trip, observations, summary>>
  <2>1. Candidates(observations) \in Seq(Ids) /\ WeatherContext(observations) \in Nat
    BY <1>1, CandidatesTyped, WeatherIsObserved
  <2>2. /\ task' \in Tasks /\ task'.used = Candidates(observations)
        /\ task'.weather = WeatherContext(observations)
    <3>1. task' = [open |-> TRUE, state |-> "unspecified", artifacts |-> <<>>, updates |-> 0,
                   used |-> Candidates(observations), weather |-> WeatherContext(observations)]
      BY <1>3 DEF NoTask
    <3>2. <<>> \in Seq({"object", "text"})
      OBVIOUS
    <3> QED BY <2>1, <3>1, <3>2 DEF Tasks, TaskStates
  <2>3. EvidenceTypes' /\ TaskGrounded'
    BY <1>1, <1>3, <2>2, SameEvidence DEF EvidenceTypes, TaskGrounded
  <2> QED BY <1>3, <2>3
          DEF EvidenceInv, FaresInCurrency, FlightCurrency, StaysAreEvidence, PlansAreCoherent, Found,
              OneQuoteIsEnough
<1> QED BY <1>2, <1>3 DEF CallExpert

LEMMA UpdateKeeps == ASSUME EvidenceInv, Update PROVE EvidenceInv'
<1>1. task \in Tasks
  BY DEF EvidenceInv, EvidenceTypes
<1>2. PICK state \in TaskStates, artifacts \in UNION {[1..n -> {"object", "text"}] : n \in 0..1} :
        task' = [task EXCEPT !.state = state, !.artifacts = @ \o artifacts, !.updates = @ + 1]
  BY DEF Update
<1>3. artifacts \in Seq({"object", "text"})
  <2>1. PICK n \in 0..1 : artifacts \in [1..n -> {"object", "text"}]
    OBVIOUS
  <2>2. n \in Nat
    OBVIOUS
  <2> QED BY <2>1, <2>2
<1>4. /\ task' \in Tasks /\ task'.open = task.open /\ task'.used = task.used
      /\ task'.weather = task.weather
  <2>1. task.artifacts \o artifacts \in Seq({"object", "text"}) /\ task.updates + 1 \in Nat
    BY <1>1, <1>3 DEF Tasks
  <2>2. task' = [task EXCEPT !.state = state, !.artifacts = task.artifacts \o artifacts,
                             !.updates = task.updates + 1]
    BY <1>1, <1>2 DEF Tasks
  <2> QED BY <1>1, <2>1, <2>2 DEF Tasks
<1>5. EvidenceTypes' /\ TaskGrounded'
  BY <1>4, SameEvidence DEF Update, EvidenceInv, EvidenceTypes, TaskGrounded
<1> QED BY <1>5 DEF Update, EvidenceInv, FaresInCurrency, FlightCurrency, StaysAreEvidence, PlansAreCoherent, Found,
              OneQuoteIsEnough

LEMMA CloseTaskKeeps ==
    ASSUME EvidenceInv, NEW status \in ResultStatuses, CloseTask(status)
    PROVE  EvidenceInv'
<1> DEFINE b == Blank("call_istanbul_expert", status)
           o == [b EXCEPT !.used = task.used, !.weather = task.weather]
<1>1. /\ EvidenceTypes /\ task \in Tasks /\ Observe(o) /\ task' = NoTask
      /\ task.used = Candidates(observations) /\ task.weather = WeatherContext(observations)
  BY DEF CloseTask, EvidenceInv, EvidenceTypes, TaskGrounded
<1>2. NoTask \in Tasks /\ ~NoTask.open
  <2>1. <<>> \in Seq({"object", "text"}) /\ <<>> \in Seq(Ids)
    OBVIOUS
  <2> QED BY <2>1 DEF NoTask, Tasks, TaskStates
<1>3. /\ o \in Observation /\ o.used = Candidates(observations)
      /\ o.weather = WeatherContext(observations) /\ o.action = "call_istanbul_expert"
  <2>1. task.used \in Seq(Ids) /\ task.weather \in Nat /\ "call_istanbul_expert" \in Actions
    BY <1>1 DEF Tasks, Actions
  <2>2. b \in Observation /\ b.action = "call_istanbul_expert"
    BY <2>1, BlankTyped
  <2> HIDE DEF b
  <2> QED BY <1>1, <2>1, <2>2 DEF Observation
<1> HIDE DEF o
<1>4. Grounded(o)
  <2>1. CASE o.used = <<>>
    BY <1>3, <2>1, NothingForwarded
  <2>2. CASE o.used # <<>>
    <3>1. PICK j \in DOMAIN observations :
            /\ observations[j].action = "search_stays" /\ observations[j].status = "success"
            /\ \A n \in DOMAIN o.used : \E m \in DOMAIN observations[j].stays :
                 /\ observations[j].stays[m].id = o.used[n]
                 /\ observations[j].stays[m].located
      BY <1>1, <1>3, <2>2, CandidatesAreLocated
    <3>2. Len(o.used) <= MaxCandidates
      BY <1>1, <1>3, <2>2, CandidatesAreLocated
    <3>3. o.weather # 0 =>
             /\ o.weather \in DOMAIN observations
             /\ observations[o.weather].action = "get_weather"
             /\ observations[o.weather].status = "success"
      BY <1>1, <1>3, WeatherIsObserved
    <3>4. \A n \in DOMAIN o.used : Found(j, o.used[n])
      BY <3>1 DEF Found
    <3> QED BY <1>3, <3>1, <3>2, <3>3, <3>4 DEF Grounded
  <2> QED BY <2>1, <2>2
<1> QED BY <1>1, <1>2, <1>3, <1>4, ObserveKeeps

\* The prices of the summary are in at most one currency besides the trip's.
LEMMA SummarizeKeeps == ASSUME EvidenceInv, Summarize PROVE EvidenceInv'
<1> DEFINE fares == {[amount |-> Cheapest(Prices(o)), currency |-> o.fareIn] :
                       o \in FirstPriced(observations, "search_flights")}
           nights == IF trip.nights = 0 THEN {} ELSE
                     {[amount |-> Cheapest(Prices(o)) * trip.nights, currency |-> "TRY"] :
                       o \in FirstPriced(observations, "search_stays")}
           others == {p.currency : p \in fares \cup nights} \ {trip.currency}
           c == FlightCurrency(trip.currency)
<1>1. \A o \in FirstPriced(observations, "search_flights") : o.fareIn = c
  <2> DEFINE found == {i \in DOMAIN observations :
                         /\ observations[i].action = "search_flights"
                         /\ observations[i].status = "success"
                         /\ Prices(observations[i]) # {}}
  <2>1. CASE found = {}
    BY <2>1 DEF FirstPriced
  <2>2. CASE found # {}
    <3>1. found \in SUBSET Nat
      BY DEF EvidenceInv, EvidenceTypes
    <3>2. Min(found) \in found
      BY <2>2, <3>1, MinOf
    <3> QED BY <2>2, <3>2 DEF FirstPriced, EvidenceInv, FaresInCurrency
  <2> QED BY <2>1, <2>2
<1>2. \A p \in fares \cup nights : p.currency \in {c, "TRY"}
  BY <1>1
<1>3. \A x, y \in others : x = y
  <2>1. c = trip.currency \/ c = "TRY"
    BY DEF FlightCurrency
  <2> QED BY <1>2, <2>1
<1> HIDE DEF others, fares, nights
<1>4. PICK quote \in {{}} \cup {{other} : other \in others} :
        summary' = [made |-> TRUE, quote |-> quote # {},
                    flight |-> {Entry(p.amount, p.currency, quote) : p \in fares},
                    stay |-> {Entry(p.amount, p.currency, quote) : p \in nights}]
  BY DEF Summarize, fares, nights, others
<1>5. ASSUME NEW p \in fares \cup nights
      PROVE  LET e == Entry(p.amount, p.currency, quote)
             IN e.normalized <=> quote # {} \/ e.currency = trip.currency
  <2>1. p.currency # trip.currency => p.currency \in others
    BY DEF others
  <2>2. quote # {} => \E other \in others : quote = {other}
    OBVIOUS
  <2> QED BY <1>3, <2>1, <2>2 DEF Entry
<1>6. trip' = trip /\ observations' = observations /\ task' = task
  BY DEF Summarize
<1>7. OneQuoteIsEnough'
  <2> SUFFICES ASSUME NEW e \in (summary.flight \cup summary.stay)'
               PROVE  e.normalized <=> summary'.quote \/ e.currency = trip'.currency
    BY DEF OneQuoteIsEnough
  <2>1. PICK p \in fares \cup nights : e = Entry(p.amount, p.currency, quote)
    BY <1>4
  <2>2. summary'.quote <=> quote # {}
    BY <1>4
  <2> QED BY <1>5, <1>6, <2>1, <2>2
<1>8. EvidenceTypes' /\ TaskGrounded'
  BY <1>6, SameEvidence DEF EvidenceInv, EvidenceTypes, TaskGrounded
<1> QED BY <1>6, <1>7, <1>8
        DEF EvidenceInv, FaresInCurrency, FlightCurrency, StaysAreEvidence, PlansAreCoherent, Found

LEMMA EvidenceInit == Init => EvidenceInv
<1> SUFFICES ASSUME Init PROVE EvidenceInv
  OBVIOUS
<1>1. NoTask \in Tasks /\ ~NoTask.open
  <2>1. <<>> \in Seq({"object", "text"}) /\ <<>> \in Seq(Ids)
    OBVIOUS
  <2> QED BY <2>1 DEF NoTask, Tasks, TaskStates
<1>2. EvidenceTypes /\ TaskGrounded
  BY <1>1 DEF Init, EvidenceTypes, TaskGrounded
<1> QED BY <1>2 DEF Init, EvidenceInv, FaresInCurrency, StaysAreEvidence, PlansAreCoherent,
               OneQuoteIsEnough, NoSummary

LEMMA EvidenceNext == EvidenceInv /\ [Next]_evidenceVars => EvidenceInv'
<1> SUFFICES ASSUME EvidenceInv, [Next]_evidenceVars PROVE EvidenceInv'
  OBVIOUS
<1>1. CASE LookAround \/ SearchFlights \/ SearchStays \/ EstimateFairPrice
  BY <1>1, LookAroundKeeps, SearchFlightsKeeps, SearchStaysKeeps, EstimateKeeps
<1>2. CASE CallExpert \/ Update \/ Summarize
  BY <1>2, CallExpertKeeps, UpdateKeeps, SummarizeKeeps
<1>3. CASE StreamEnds \/ StreamCut
  <2>1. {"success", "provider_error", "timeout"} \subseteq ResultStatuses
    BY DEF ResultStatuses
  <2>2. PICK status \in {"success", "provider_error", "timeout"} : CloseTask(status)
    BY <1>3 DEF StreamEnds, StreamCut
  <2> QED BY <2>1, <2>2, CloseTaskKeeps
<1>4. CASE UNCHANGED evidenceVars
  <2>1. EvidenceTypes' /\ TaskGrounded'
    BY <1>4, SameEvidence DEF evidenceVars, EvidenceInv, EvidenceTypes, TaskGrounded
  <2> QED BY <1>4, <2>1
          DEF evidenceVars, EvidenceInv, FaresInCurrency, FlightCurrency, StaysAreEvidence,
              PlansAreCoherent, Found, OneQuoteIsEnough
<1> QED BY <1>1, <1>2, <1>3, <1>4 DEF Next

\* Any calls, in any order, with any answers keep the evidence invariant.
THEOREM EvidenceInvariance == Spec => []EvidenceInv
BY EvidenceInit, EvidenceNext, PTL DEF Spec

\* Every stay that is priced or sent to the expert was found by a search of the run
\* before that call, a priced one by the latest (StaysAreEvidence).
THEOREM NoInventedStay == Spec => []StaysAreEvidence
<1>1. EvidenceInv => StaysAreEvidence
  BY DEF EvidenceInv
<1> QED BY <1>1, EvidenceInvariance, PTL

\* The expert is asked about few, located stays of one search, with weather that was
\* observed before (PlansAreCoherent).
THEOREM CoherentPlans == Spec => []PlansAreCoherent
<1>1. EvidenceInv => PlansAreCoherent
  BY DEF EvidenceInv
<1> QED BY <1>1, EvidenceInvariance, PTL

\* With one exchange rate every price of the summary compares with the budget, and
\* without one those in the trip's currency do (OneQuoteIsEnough).
THEOREM OneQuoteSuffices == Spec => []OneQuoteIsEnough
<1>1. EvidenceInv => OneQuoteIsEnough
  BY DEF EvidenceInv
<1> QED BY <1>1, EvidenceInvariance, PTL
=============================================================================
