SPECIFICATION FairSpec
CONSTANTS
    Turns = {t1, t2}
    NoTurn = NoTurn
    Patches = {p1}
    Decisions <- MCDecisions
    NoTrip = {none}
    MaxRepairs = 2
    MaxCorrections = 1
    HistoryRows = 2
    HistoryMessages = 1
    HistoryChars = 1
    MessageSizes = {1, 2}
    MaxCrashes = 1
    MaxFaults = 1
CHECK_DEADLOCK FALSE
INVARIANTS  WholePairs ContextHonest ArabicAnswered
PROPERTIES TurnsAnswered ImplementsChatLog
