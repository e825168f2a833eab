SPECIFICATION FairSpec
CONSTANTS
    a = a  b = b  k1 = k1  k2 = k2  None = None
    Conn = {a, b}
    Closer = {k1, k2}
    MaxConnection = 1
INVARIANTS Inv WithinMaxConnection NoOrphan
PROPERTIES PlaceFreed ShutdownCompletes
CHECK_DEADLOCK FALSE
