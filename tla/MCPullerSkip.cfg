CONSTANTS
    None = None
    a = a
    b = b
    c = c
    SessionOrder <- ThreeSessions
    Healthy = {b}
    PageSize = 1
    EventQueueSize = 2
    HistoryOverlap = 1
    HistoryLookback = 2
    ClockAhead = 0
    MaxPosts = 1
    MaxReconnects = 0
SPECIFICATION FairSpec
PROPERTY SessionsIndependent
CHECK_DEADLOCK FALSE
