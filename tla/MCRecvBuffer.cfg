SPECIFICATION Spec
CONSTANTS
    U32 = 16
    MaxPackSizes <- Uint32
    ShrinkSizes <- Uint32
    HardSizes <- Uint32
INVARIANTS TypeOK RoomToRead HardLimit
CHECK_DEADLOCK FALSE
