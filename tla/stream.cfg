SPECIFICATION FairSpec
CONSTANTS
    Clients = {i1}
    MaxEvents = 3
    MaxDrops = 3
CHECK_DEADLOCK FALSE
INVARIANTS NoGapNoDuplicate EndsComplete
PROPERTIES Delivered
