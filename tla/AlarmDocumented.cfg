SPECIFICATION Spec
CONSTANTS
    Bodies <- ScriptBodies
    W = 8
    RxCapacity = 2
    Horizon = 3
    MaxTokens = 4
    MaxSessions = 2
PROPERTIES
    RingsAsDocumented
CHECK_DEADLOCK FALSE
