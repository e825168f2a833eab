SPECIFICATION Spec
CONSTANTS
    m1 = m1  m2 = m2  m3 = m3  c1 = c1  c2 = c2
    Msg = {m1, m2}
    Size <- SizeTwo
    Closer = {c1}
    ShutdownMsg = ShutdownMsg
    CMulti = 2
    SndTimeo = FALSE
    Api = {"Send", "SendNoDelay"}
    ShutdownArgs = {TRUE, FALSE}
SYMMETRY Symmetric
INVARIANTS CloseOnce NoMissedClose CallbackAtMostOnce CallbackTellsTruth ChannelFifo NoLostCallback SendContiguous
PROPERTY CloseReason
CHECK_DEADLOCK FALSE
