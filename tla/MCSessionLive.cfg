SPECIFICATION FairSession
CONSTANTS
    SeqSpace = 8
    ViewChunks = 2
    FileChunks = 2
    TurnPlans <- AllPlans
    FaultSets = {{}}
    PlayerMayLeave = TRUE
    EarlyTimeouts = FALSE
    MaxMoves = 3
    LinkCap = 3
CHECK_DEADLOCK FALSE
PROPERTIES
    ViewArrives
    EndIsAnswered
