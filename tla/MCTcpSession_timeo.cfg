SPECIFICATION Spec
CONSTANTS
    m1 = m1  m2 = m2  m3 = m3  c1 = c1  c2 = c2
    Msg = {m1, m2, m3}
    Size <- SizeTwo
    Closer = {}
    ShutdownMsg = ShutdownMsg
    CMulti = 1
    SndTimeo = TRUE
    Api = {"Send","SendNoDelay"}
    ShutdownArgs = {FALSE}
SYMMETRY Symmetric
INVARIANTS TypeOK CloseInv SendInv CallbackTellsTruth
PROPERTY RefinesContract
CHECK_DEADLOCK FALSE
