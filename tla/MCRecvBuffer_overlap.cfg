SPECIFICATION Spec
CONSTANTS
    U32 = 16
    MaxPackSizes <- Four
    ShrinkSizes <- Four
    HardSizes <- Uint32
INVARIANT BytesIntact
CHECK_DEADLOCK FALSE
