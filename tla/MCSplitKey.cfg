SPECIFICATION KeyboardSpec
CONSTANTS
    KeysTyped = {"left"}
    MaxKeys = 11
    TextLen = 32
    Inputs = {"terminal"}
    Pauses = FALSE
CHECK_DEADLOCK FALSE
INVARIANT MovesAreKeys
