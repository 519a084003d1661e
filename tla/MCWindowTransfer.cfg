SPECIFICATION Spec
CONSTANTS
    SeqSpace = 4
    MaxWindow = 2
    FullLen = 2
    LinkCap = 3
    ReadMayFail = TRUE
    Message <- SmallMessage
INVARIANTS
    WrittenInOrder
    ConfirmedIsWritten
    ControlIsUnderstood
    DataIsUnderstood
    NoSlotLeak
    LateDataIsAnswered
PROPERTIES
    NeverReopened
    ImplementsDelivery
