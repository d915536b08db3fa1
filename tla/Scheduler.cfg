SPECIFICATION FairSpec
CONSTANTS
    Fibers = {m, f1, f2}
    Main = m
    Events = {notify, e}
    Notify = notify
    Idle = idle
    None = none
    PerMs = 2
    Wrap = 2
    Sleeps = {1}
    MaxTime = 2
    MaxCalls = 3
    MaxRaises = 1
INVARIANTS
    TypeOK
    OnePlace
    WaitersAreHeard
PROPERTIES
    SleepsItsTime
    RunnableRuns
CHECK_DEADLOCK FALSE
