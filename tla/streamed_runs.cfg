SPECIFICATION FairStreamSpec
CONSTANTS
    Calls = {c1}
    Keys = {k1}
    NoKey = NoKey
    NoRun = NoRun
    MaxWorkers = 1
    GraphStatuses = {"success", "degraded"}
    MaxTurns = 1
    MaxCrashes = 1
    MaxFaults = 1
    Watched = c1
    Clients = {i1}
    MaxEvents = 6
    MaxDrops = 1
CHECK_DEADLOCK FALSE
INVARIANTS ReceivedOutcomeHolds
PROPERTIES FollowerLearnsOutcome
