SPECIFICATION FairSpec
CONSTANTS
    Calls = {c1, c2}
    Keys = {}
    NoKey = NoKey
    NoRun = NoRun
    MaxWorkers = 1
    GraphStatuses = {"success", "degraded"}
    MaxTurns = 1
    MaxCrashes = 1
    MaxFaults = 0
CHECK_DEADLOCK FALSE
PROPERTIES EveryRunPublishes EveryRunSettles
