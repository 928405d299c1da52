SPECIFICATION FairSpec
CONSTANTS
    Nil = Nil
    cl1 = cl1
    cl2 = cl2
    srv1 = srv1
    srv2 = srv2
    svc1 = svc1
    svc2 = svc2
    path1 = path1
    FileIds = {cl1, srv1, srv2}
    Daemons = {srv1, srv2}
    Clients = {cl1}
    ServiceNames = {svc1}
    StoreNames = {}
    Visibilities = {}
    AllocMayFail = FALSE
    FdsMayRunOut = FALSE
    BadReplyFds = FALSE
    U64Max = 9
    MaxOpens = 2
    MaxCalls = 1
    MaxSubscribes = 0
    MaxWrites = 0
    MaxAnonymous = 0
INVARIANTS
    TokensMatchRequests
    ServedByOpenFiles
PROPERTIES
    CallsAreExecutedOnce
    NoForgedReplies
    CallsSettle
CHECK_DEADLOCK FALSE
