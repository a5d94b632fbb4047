SPECIFICATION ToolsSpec
CONSTANTS
    Stays <- MCStays
    NoPrice = NoPrice
    Amounts = {1, 2}
    MaxResults = 2
    MaxCandidates = 1
    Unknown = "s9"
    MaxCalls = 3
    MaxUpdates = 1
    Rates = {3, 150}
    CacheTtl = 1
    MaxNow = 3
    Horizon = 1
    MaxDay = 3
    SampleYears = 2
    Offers = {"a", "b", "c"}
    MaxRaw = 3
    HardMaxResults = 2
    Prices100 = {0, 1, 5, 7}
    Callers = {c1, c2, c3}
    FailureThreshold = 2
    OpenDuration = 1
    MaxRow = 4
CHECK_DEADLOCK FALSE
INVARIANTS StaysAreEvidence PlansAreCoherent OneQuoteIsEnough  BoundedCalls ResultsAreFaithful 
PROPERTIES FxHitIsFresh 
