CONSTANTS
    None = None
    MaxLog = 4
    MaxFailures = 1
SPECIFICATION Spec
INVARIANTS TypeOK ProcessedInOrder
PROPERTIES TickSeesSnapshot SnapshotFixed MessagesProcessed
    ImplementsIngestRounds
CHECK_DEADLOCK FALSE
