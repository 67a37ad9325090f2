SPECIFICATION Spec
CONSTANTS
    Pids = {1, 2}
    Self = 2
    MaxStart = 1
    MaxTicks = 3
    Word = 8
INVARIANTS
    TypeOK
    NoTickTwice
    SharesAreOwn
CHECK_DEADLOCK FALSE
