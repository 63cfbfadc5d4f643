SPECIFICATION Spec
CONSTANTS
    Runs = 3
INVARIANTS Reachable
PROPERTIES Recovers
CHECK_DEADLOCK FALSE
