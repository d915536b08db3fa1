SPECIFICATION FairSpec
CONSTANTS
    Nul = nul
    Bytes = {nul, nl}
    Delimeters = {nl}
    N = 3
    MaxLen = 2
    MaxBytes = 5
INVARIANTS
    TypeOK
    WokenHasData
    ReturnsWhatItTakes
PROPERTIES
    ImplementsByteFifo
    CallsSettle
CHECK_DEADLOCK FALSE
