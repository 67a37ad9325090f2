SPECIFICATION Spec
CONSTANTS
    Pids = {1, 2}
    Self = 2
    MaxStart = 2
    Sorts = {"MEMORY"}
INVARIANTS
    SignalHitsConfirmed
CHECK_DEADLOCK FALSE
