SPECIFICATION FairSpec
CONSTANTS
    m1 = m1  m2 = m2  m3 = m3  c1 = c1  c2 = c2
    Msg = {m1}
    Size <- SizeTwo
    Closer = {c1}
    ShutdownMsg = ShutdownMsg
    CMulti = 1
    SndTimeo = FALSE
    Api = {"Send", "SendNoDelay"}
    ShutdownArgs = {TRUE, FALSE}
PROPERTIES ClosingCompletes GracefulCompletes EveryCallbackFires
CHECK_DEADLOCK FALSE
