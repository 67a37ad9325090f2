SPECIFICATION Spec
CONSTANTS
    Percents = {84, 85, 90, 95}
    Loads = {124, 125}
    Temps = {90}
INVARIANTS
    ComfortIsHealthy
CHECK_DEADLOCK FALSE
