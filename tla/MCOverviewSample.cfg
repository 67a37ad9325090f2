SPECIFICATION Spec
CONSTANTS
    HISTORY_MAX = 2
    MaxSamples = 3
    Zones = {"z1", "z2"}
    MaxTemp = 1
    MaxKib = 2
    MaxBlocks = 3
    Active = {"user"}
    Inactive = {"idle", "iowait"}
    MaxDelta = 1
    Word = 4
INVARIANTS
    TypeOK
    NothingStale
    BarsInRange
    GraphsMatchCards
    HottestNamed
CHECK_DEADLOCK FALSE
