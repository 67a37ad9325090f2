SPECIFICATION NetSpec
CONSTANTS
    Interfaces = {"lo", "eth0", "wlan0"}
    MaxBytes = 2
    MaxMoved = 2
    Word = 4
INVARIANTS
    NetTypeOK
    RateIsTraffic
    NoWildRate
CHECK_DEADLOCK FALSE
