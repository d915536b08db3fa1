SPECIFICATION Spec
CONSTANTS
    Keys = {k1, k2, k3}
    Values = {v1, zero}
    Capacity = 2
    Magic = magic
    Erased = erased
    Corrupt = corrupt
    Zero = zero
    None = none
    MaxCalls = 4
    MaxResets = 2
INVARIANTS
    TypeOK
    NoOverwrite
    ValuesKeepTheirKeys
PROPERTIES
    ImplementsKeyValueStore
CHECK_DEADLOCK FALSE
