SPECIFICATION DisplaySpec
CONSTANTS
    Depth = 3
    MaxEvents = 8
    Callers = {c1, c2}
    WIDTH = 2
    SPACING = 1
    Half = 5
INVARIANTS
    DisplayTypeOK
    ConnectedIsTrue
    AnimationsQueue
PROPERTIES
    ConnectedFollowsLink
    AnimationsEnd
CHECK_DEADLOCK FALSE
