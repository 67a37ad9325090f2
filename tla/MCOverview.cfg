SPECIFICATION Spec
CONSTANTS
    Percents = {84, 85, 90, 95}
    Loads = {124, 125}
    Temps = {89, 90}
INVARIANTS
    TypeOK
    VerdictsAgree
    MenuFollowsTopic
CHECK_DEADLOCK FALSE
