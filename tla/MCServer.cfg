SPECIFICATION FairSpec
CONSTANTS
    srv = srv  grp = grp  i1 = i1  i2 = i2
    Object = {srv, grp, i1, i2}
    None = None
    Key = {"max_pack_size"}
    Value = {"small", "large"}
    Default <- DefaultSmall
    OneThread = TRUE
    Lookup <- HostsKnown
    Digits <- Numbers
    Facade = srv
    Group = grp
    Impl = {i1, i2}
    StartUrl <- FewUrls
    ReadableUrl <- ManyUrls
    MaxHolders = 1
    RandomPort = 80
INVARIANTS Inv Agree Stoppable ReadsAsWritten RoundTrip
PROPERTY ServersFreed
CHECK_DEADLOCK FALSE
