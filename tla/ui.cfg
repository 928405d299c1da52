SPECIFICATION Spec
CONSTANTS
    Nil = Nil
    svc1 = svc1
    svc2 = svc2
    Services = {svc1}
    Visibilities = {TRUE, FALSE}
    FetchMayFail = TRUE
    CommandsMayFail = TRUE
    MaxSubscribes = 2
    MaxWrites = 2
INVARIANTS
    UiTypeOK
    ShownIsCurrent
    StraysAreExplained
    NoDeadEntries
PROPERTIES
    ValuesReachTheComponent
    AbandonedConnectionsClose
CHECK_DEADLOCK FALSE
