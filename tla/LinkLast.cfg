SPECIFICATION Spec
CONSTANTS
    Depth = 3
    MaxEvents = 8
INVARIANTS
    LastEventWins
CHECK_DEADLOCK FALSE
