SPECIFICATION PartsSpec
CONSTANTS
    LongNames = {"long"}
    ConfigFiles <- SmallFiles
    Arguments <- SomeArguments
    Answers <- SomeAnswers
    MaxStarts = 2
    MaxEdits = 1
    MapSize = 3
    PaddingRadius = 1
    Elements <- SmallElements
    MapGhosts = {"R", "B"}
    MapFiles <- SmallMaps
    Clients = {c1, c2}
    MaxRetries = 3
    LinkCap = 2
    Lossy = {"INIT", "ACK"}
    EarlyTimeouts = TRUE
    KeysTyped = {"up", "left", "A", "x", "q", " ", "newline"}
    MaxKeys = 3
    TextLen = 8
    Inputs = {"terminal", "file"}
    Pauses = TRUE
    Arrivals = {"outgoing", "stranger", "damaged", "peer"}
    SocketCap = 2
    Timeout = 3
    MaxDelay = 1
    Faults = TRUE
    Counts = {0, 2, 3}
    PingSeqSpace = 2
    PingCap = 2
    PlainFrames <- AllShapes
    FlippedFrames <- Flippable
    MinPayload = 46
    Announcements <- BoundaryMessages
    BaseSequences = {0, 50}
    MaxChunks = 33
    CellCount = 4
    Views <- PairsOfCells
    ForeignBytes <- OtherMessages
CHECK_DEADLOCK FALSE
INVARIANTS
    SettingsAreWhole
    SavedIsLoaded
    MapIsPlayable
    PeerIsPlaying
    TerminalRestored
    OnlyPeerFrames
    ReportsAreTrue
    RoundTrip
    FlipOnlyShortens
    StartIsUnderstood
    ReassemblyRebuilds
    ViewSurvives
PROPERTIES
    TransferEnds
    ServerStops
    ReceiveReturns
