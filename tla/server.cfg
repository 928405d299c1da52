SPECIFICATION Spec
CONSTANTS
    Nil = Nil
    svc1 = svc1
    svc2 = svc2
    Services = {svc1, svc2}
    Forms = {"good", "undecodable", "unknown method"}
    FetchMayFail = TRUE
    MaxRequests = 3
    MaxAnonymous = 1
INVARIANTS
    ServerTypeOK
    
    ToldStoresAreKnown
PROPERTIES
    LaterRequestsStart
CHECK_DEADLOCK FALSE
