SPECIFICATION SessionSpec
CONSTANTS
    SeqSpace = 8
    ViewChunks = 2
    FileChunks = 2
    TurnPlans <- OnePellet
    FaultSets = {{"read"}}
    PlayerMayLeave = FALSE
    EarlyTimeouts = FALSE
    MaxMoves = 2
    LinkCap = 3
CHECK_DEADLOCK FALSE
INVARIANTS
    DataIsOfOpenTransfer
