SPECIFICATION SessionSpec
CONSTANTS
    SeqSpace = 8
    ViewChunks = 2
    FileChunks = 2
    TurnPlans <- AllPlans
    FaultSets = {{}, {"unavailable", "disk", "interface"}, {"unavailable", "read"}}
    PlayerMayLeave = TRUE
    EarlyTimeouts = TRUE
    MaxMoves = 3
    LinkCap = 3
CHECK_DEADLOCK FALSE
INVARIANTS
    SessionInv
    OneTurnPerMove
    WholeTransfersKeepApart
    LossesFailNothing
PROPERTIES
    ImplementsExchange
