SPECIFICATION Spec
CONSTANTS
    Turns = {t1, t2}
    NoTurn = NoTurn
    Patches = {p1}
    Decisions <- MCDecisions
    NoTrip = {none}
    MaxRepairs = 0
    MaxCorrections = 0
    HistoryRows = 4
    HistoryMessages = 2
    HistoryChars = 2
    MessageSizes = {1}
    MaxCrashes = 0
    MaxFaults = 0
CHECK_DEADLOCK FALSE
INVARIANTS ReplansAreRecorded
