SPECIFICATION FairSpec
CONSTANTS
    Pids = {1, 2}
    Self = 2
    MaxStart = 1
    Sorts = {"MEMORY"}
PROPERTIES
    AlwaysBackToKey
    DeadProcessLeft
CHECK_DEADLOCK FALSE
