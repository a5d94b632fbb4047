SPECIFICATION Spec
CONSTANTS
    Stays <- MCStays
    NoPrice = NoPrice
    Amounts = {1, 2}
    MaxResults = 2
    MaxCandidates = 1
    Unknown = "s9"
    MaxCalls = 3
    MaxUpdates = 1
CHECK_DEADLOCK FALSE
INVARIANTS ExpertUsesLatestStays
