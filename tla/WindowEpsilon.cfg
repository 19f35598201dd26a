SPECIFICATION Spec
CONSTANTS
    W = 3
    MaxOperations = 8
INVARIANT Normalized
CHECK_DEADLOCK FALSE
