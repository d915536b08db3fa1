SPECIFICATION FairSpec
CONSTANTS
    Bodies <- ArmBodies
    W = 8
    RxCapacity = 2
    Horizon = 2
    MaxTokens = 2
    MaxSessions = 2
PROPERTIES
    SendReturns
CHECK_DEADLOCK FALSE
