SPECIFICATION SessionSpec
CONSTANTS
    SeqSpace = 8
    ViewChunks = 1
    FileChunks = 5
    TurnPlans <- OnePellet
    FaultSets = {{}}
    PlayerMayLeave = FALSE
    EarlyTimeouts = FALSE
    MaxMoves = 2
    LinkCap = 3
CHECK_DEADLOCK FALSE
INVARIANTS
    OneTurnPerMove
