SPECIFICATION TimedSpec
CONSTANTS
    SeqSpace = 8
    MaxWindow = 4
    Message <- ShortFile
    FullLen = 2
    LinkCap = 8
    BaseTimeout = 4
    MaxTimeout = 100
    BackoffStep = 5
    MinReceive = 1
    MaxErrors = 25
    ReadMayFail = FALSE
    MaxLosses = 1
    Lossy = {"ACK"}
PROPERTIES
    UnansweredIsSentAgain
