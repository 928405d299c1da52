SPECIFICATION FairSpec
CONSTANTS
    Nil = Nil
    c1 = c1
    c2 = c2
    w1 = w1
    w2 = w2
    d1 = d1
    Callers = {c1, c2}
    Watchers = {}
    Drainers = {}
    MaxCalls = 2
    MaxEvents = 0
    MaxNews = 0
    MaxArrivals = 2
    BadEvents = {}
    Abandoners = {}
PROPERTIES
    WaitsOnlyForItsReply
CHECK_DEADLOCK FALSE
