SPECIFICATION Spec
CONSTANTS
    StopSignals = {"SIGINT", "SIGTERM"}
    MaxKeys = 2
INVARIANTS
    LInv
    ExitRestoresTerminal
    OneKeyAfterStop
PROPERTY
    StopHonoured
CHECK_DEADLOCK FALSE
