SPECIFICATION Spec
CONSTANTS
    W = 3
    MaxOperations = 8
INVARIANTS
    WindowIsRecent
    TwoWorkloads
PROPERTY FollowsWorkload
CHECK_DEADLOCK FALSE
