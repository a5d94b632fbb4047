SPECIFICATION Spec
CONSTANTS
    Calls = {c1, c2}
    Keys = {k1}
    NoKey = NoKey
    NoRun = NoRun
    MaxWorkers = 2
    GraphStatuses = {"success", "partial", "degraded"}
    MaxTurns = 1
    MaxCrashes = 1
    MaxFaults = 1
CHECK_DEADLOCK FALSE
SYMMETRY Symmetry
INVARIANTS OneExecutionPerKey TerminalEventReflected LogShape OutcomeConsistent OnlyInterruptedRunsReconciled
PROPERTIES PublishedRunIsFinal ImplementsApi
