SPECIFICATION FairSpec
CONSTANTS
    u1 = u1  u2 = u2  u3 = u3  k1 = k1  k2 = k2
    User = {u1, u2}
    Op = {"goStart", "Connect", "Send"}
    Closer = {k1, k2}
INVARIANTS TypeOK DisconnectAfterRecv
PROPERTY ShutdownReturns
CHECK_DEADLOCK FALSE
