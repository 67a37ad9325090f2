SPECIFICATION Spec
CONSTANTS
    Pids = {1, 2}
    Self = 2
    MaxStart = 1
    Sorts = {"MEMORY"}
PROPERTIES
    SelectionSurvivesRefresh
CHECK_DEADLOCK FALSE
