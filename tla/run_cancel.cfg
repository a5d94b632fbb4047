SPECIFICATION Spec
CONSTANTS
    Calls = {c1}
    Keys = {}
    NoKey = NoKey
    NoRun = NoRun
    MaxWorkers = 1
    GraphStatuses = {"success", "degraded"}
    MaxTurns = 3
    MaxCrashes = 1
    MaxFaults = 1
CHECK_DEADLOCK FALSE
PROPERTIES EarlyCancelEndsCancelled 
