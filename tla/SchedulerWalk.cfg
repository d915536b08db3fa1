SPECIFICATION Spec
CONSTANTS
    Fibers = {m, f1, f2}
    Main = m
    Events = {notify, e}
    Notify = notify
    Idle = idle
    None = none
    PerMs = 1
    Wrap = 1
    Sleeps = {0}
    MaxTime = 0
    MaxCalls = 3
    MaxRaises = 1
INVARIANT AllMatchesWoken
CHECK_DEADLOCK FALSE
