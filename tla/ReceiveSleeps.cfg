SPECIFICATION FairSpec
CONSTANTS
    Nul = nul
    Bytes = {nul, nl}
    Delimeters = {nl}
    N = 4
    MaxLen = 2
    MaxBytes = 4
PROPERTIES
    SleepEnds
CHECK_DEADLOCK FALSE
