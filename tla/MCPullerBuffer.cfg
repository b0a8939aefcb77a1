CONSTANTS
    None = None
    a = a
    b = b
    c = c
    SessionOrder <- TwoSessions
    Healthy = {b}
    PageSize = 1
    EventQueueSize = 2
    HistoryOverlap = 1
    HistoryLookback = 2
    ClockAhead = 0
    MaxPosts = 3
    MaxReconnects = 0
SPECIFICATION FairSpec
PROPERTY SessionsIndependent
CHECK_DEADLOCK FALSE
