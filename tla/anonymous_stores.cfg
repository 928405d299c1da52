SPECIFICATION Spec
CONSTANTS
    Nil = Nil
    cl1 = cl1
    cl2 = cl2
    srv1 = srv1
    srv2 = srv2
    svc1 = svc1
    svc2 = svc2
    path1 = path1
    FileIds = {cl1, cl2, srv1}
    Daemons = {srv1}
    Clients = {cl1, cl2, srv1}
    ServiceNames = {svc1}
    StoreNames = {}
    Visibilities = {}
    AllocMayFail = FALSE
    FdsMayRunOut = FALSE
    BadReplyFds = FALSE
    U64Max = 9
    MaxOpens = 1
    MaxCalls = 0
    MaxSubscribes = 1
    MaxWrites = 2
    MaxAnonymous = 1
SYMMETRY ClientSymmetry
INVARIANTS
    TokensMatchRequests
    AnonymousCountsAreExact
PROPERTIES
    VerdictsAreTold
    ClosingIsTold
CHECK_DEADLOCK FALSE
