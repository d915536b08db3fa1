SPECIFICATION DriversSpec
CONSTANTS
    Senders = {s1, s2}
    None = None
    Capacity = 2
    Carries = {1, 2}
    Lengths = {1, 3}
    MaxCalls = 2
    MaxSessions = 2
    Sizes = {1, 2}
    PortLengths = {2}
    PortCalls = 3
    Frames = {b1, b2, b3}
    MAXIMUM_RX_BUFFERS = 1
    MaxPackets = 2
    MaxSends = 2
    PASSKEY_LEN = 2
    Timeout = 2
    MaxRequests = 3
INVARIANTS
    DriversTypeOK
    StringsArrive
    PasskeyOnDemand
PROPERTIES
    DriversSettle
CHECK_DEADLOCK FALSE
