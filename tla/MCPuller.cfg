CONSTANTS
    None = None
    a = a
    b = b
    c = c
    SessionOrder <- TwoSessions
    Healthy = {a, b}
    PageSize = 2
    EventQueueSize = 2
    HistoryOverlap = 1
    HistoryLookback = 2
    ClockAhead = 2
    MaxPosts = 3
    MaxReconnects = 1
SPECIFICATION Spec
INVARIANTS TypeOK NothingLost
PROPERTY ImplementsAckedStream
CHECK_DEADLOCK FALSE
