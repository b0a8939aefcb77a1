SPECIFICATION Spec
CONSTANT MaxReconnects = 2
INVARIANTS TypeOK SuccessOnlyOnRequest StreamsClosedOnFailure
PROPERTIES ProcessEnds MissedNoticed
CHECK_DEADLOCK FALSE
