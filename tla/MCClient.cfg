SPECIFICATION FairSpec
CONSTANTS
    c1 = c1  c2 = c2  u1 = u1  u2 = u2  None = None
    Caller = {c1, c2}
    User = {u1, u2}
    Proto = {"tcp", "udp"}
INVARIANTS Inv Reachable RefusedOnlyWhenDown ShutdownNotLost
PROPERTY CycleBroken
CHECK_DEADLOCK FALSE
