SPECIFICATION SearchSpec
CONSTANT ComponentSize = 5
INVARIANT AcceptedIsChordal
CHECK_DEADLOCK FALSE
