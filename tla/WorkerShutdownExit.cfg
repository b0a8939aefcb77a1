SPECIFICATION Spec
CONSTANT MaxReconnects = 2
INVARIANT ShutdownSucceeds
CHECK_DEADLOCK FALSE
