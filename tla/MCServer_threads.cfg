SPECIFICATION Spec
CONSTANTS
    srv = srv  grp = grp  i1 = i1  i2 = i2
    Object = {srv, grp, i1, i2}
    None = None
    Key = {"max_pack_size"}
    Value = {"small", "large"}
    Default <- DefaultSmall
    OneThread = FALSE
    Lookup <- HostsKnown
    Digits <- Numbers
    Facade = srv
    Group = grp
    Impl = {i1, i2}
    StartUrl <- FewUrls
    ReadableUrl <- ManyUrls
    MaxHolders = 1
    RandomPort = 80
INVARIANT UnlinkAssert
CHECK_DEADLOCK FALSE
