CONSTANTS
    MaxAttempts = 2
    PageLimit = 1
    MaxOthers = 1
SPECIFICATION Spec
INVARIANT PublishedOnce
CHECK_DEADLOCK FALSE
