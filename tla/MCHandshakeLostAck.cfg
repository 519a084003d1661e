SPECIFICATION HandshakeSpec
CONSTANTS
    Clients = {c1, c2}
    MaxRetries = 3
    LinkCap = 2
    Lossy = {"ACK"}
    EarlyTimeouts = FALSE
CHECK_DEADLOCK FALSE
INVARIANTS
    AnAnswerConnects
