SPECIFICATION PartsSpec
CONSTANTS
    H = 2
    Top = 5
    Start <- Starts
    End <- Ends
    Needs = {2, 3}
    Contexts = {c1, c2}
    Words = {1}
    SIGMA_MAX = 4
    THRESH_HI = 2
    THRESH_LO = 1
    LONG_CLICK_TIME = 3
    HOLD_TIME = 4
    NO_PWMS = 3
    Pins = {p1, p2, p3, p4}
    Freed = Freed
    N = 3
    MAX_QUEUE_DEPTH = 2
    MaxEvents = 3
    MaxInside = 2
    MaxServices = 2
    MaxLines = 2
    MaxClients = 2
    MaxDevices = 1
    None = None
    Frames = {b1, b2, b3, b4, b5}
    MAXIMUM_RX_BUFFERS = 2
    MaxPackets = 4
    MaxSends = 1
INVARIANTS
    PartsTypeOK
    OwnersAreSafe
    RefusesOnlyWhenFull
    ChannelsFollowPins
    ListenersServe
    LinesInOrder
    RadioDelivers
PROPERTIES
    PayloadKept
    PressesClick
CHECK_DEADLOCK FALSE
