SPECIFICATION FairSpec
CONSTANTS
    Bodies <- ScriptBodies
    W = 8
    RxCapacity = 2
    Horizon = 2
    MaxTokens = 4
    MaxSessions = 2
INVARIANTS
    TypeOK
    ScriptIsWhatWasSaid
    ScriptIsPlayable
    OneIndication
PROPERTIES
    NeverEarly
    ImplementsAlarmClock
    AlarmRings
    InputIsRead
CHECK_DEADLOCK FALSE
