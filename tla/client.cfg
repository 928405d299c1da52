SPECIFICATION FairSpec
CONSTANTS
    Nil = Nil
    c1 = c1
    c2 = c2
    w1 = w1
    w2 = w2
    d1 = d1
    Callers = {c1, c2}
    Watchers = {w1}
    Drainers = {d1}
    MaxCalls = 2
    MaxEvents = 2
    MaxNews = 1
    MaxArrivals = 3
    BadEvents = {2}
    Abandoners = {c1}
INVARIANTS
    ClientTypeOK
    NothingDiscarded
    NobodyFetchesPastItsReply
    EventsInOrder
PROPERTIES
    CallsAreAnswered
    EventsAreReturned
CHECK_DEADLOCK FALSE
