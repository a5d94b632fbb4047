SPECIFICATION Spec
CONSTANTS
    Calls = {c1, c2}
    Keys = {k1}
    NoKey = NoKey
    NoRun = NoRun
    MaxWorkers = 1
    GraphStatuses = {"success", "degraded"}
    MaxTurns = 1
    MaxCrashes = 1
    MaxFaults = 0
CHECK_DEADLOCK FALSE
INVARIANTS SettledRunsArePublished
