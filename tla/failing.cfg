SPECIFICATION Spec
CONSTANTS
    Nil = Nil
    cl1 = cl1
    cl2 = cl2
    srv1 = srv1
    srv2 = srv2
    svc1 = svc1
    svc2 = svc2
    path1 = path1
    FileIds = {cl1, srv1}
    Daemons = {srv1}
    Clients = {cl1}
    ServiceNames = {svc1}
    StoreNames = {path1}
    Visibilities = {TRUE, FALSE}
    AllocMayFail = TRUE
    FdsMayRunOut = TRUE
    BadReplyFds = TRUE
    U64Max = 9
    MaxOpens = 1
    MaxCalls = 2
    MaxSubscribes = 1
    MaxWrites = 2
    MaxAnonymous = 1
INVARIANTS
    CallsAreConserved
    NoLostWakeup
    AnonymousCountsAreExact
CHECK_DEADLOCK FALSE
