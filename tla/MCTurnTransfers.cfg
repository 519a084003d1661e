SPECIFICATION TurnSpec
CHECK_DEADLOCK FALSE
CONSTANTS
    SeqSpace = 4
    MaxWindow = 2
    FullLen = 31
    LinkCap = 3
    ReadMayFail = TRUE
    Turns <- SmallTurns
INVARIANTS
    MessagesKeepApart
PROPERTY
    ImplementsTurnDelivery
