CONSTANTS
    MaxAttempts = 2
    PageLimit = 1
    MaxOthers = 2
SPECIFICATION Spec
INVARIANTS TypeOK PublishedIsCommitted
PROPERTIES ImplementsAtomicPublish PublishEnds
CHECK_DEADLOCK FALSE
