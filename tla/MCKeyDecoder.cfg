SPECIFICATION FairSpec
CONSTANTS
    Keys = {"y", "k", "/", "ENTER", "ESCAPE", "UP", "DOWN", "DELETE", "ALT_Y", "BACKSPACE", "F2"}
    MaxKeys = 3
    Limit = 3
INVARIANTS
    TypeOK
    KeysAsPressed
    SearchWasTyped
    SignalWasTyped
PROPERTY
    EscapeAnswered
CHECK_DEADLOCK FALSE
