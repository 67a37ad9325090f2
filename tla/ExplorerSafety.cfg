SPECIFICATION Spec
CONSTANTS
    Pids = {1, 2}
    Self = 2
    MaxStart = 2
    Sorts = {"MEMORY", "PID"}
INVARIANTS
    IInv
    ScreenIsOneInstance
    SignalledWasNamed
    HighlightIsSelection
PROPERTIES
    NoticeIsTrue
    SelectionSticks
    SignalsAreGuarded
CHECK_DEADLOCK FALSE
