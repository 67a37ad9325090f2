SPECIFICATION CpuSpec
CONSTANTS
    Pids = {1, 2, 3, 4, 5}
    Sizes = {0, 1, 2}
    Cap = 2
    MaxPid = 5
    MaxCount = 5
    INITIAL_CAPACITY = 1
    MaxRoom = 6
INVARIANTS
    TInv
    InBounds
    NothingLeaks
    SearchRight
    BusiestShown
PROPERTIES
    EqualsKeepOrder
    ListsEnd
CHECK_DEADLOCK FALSE
