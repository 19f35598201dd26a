CONSTANTS
    Data = {d1}
    NULL = NULL
    MaxId = 3
    MaxVersion = 2
    MaxHandles = 1
    MaxPins = 1
    CacheSize = 1
    Word = 4
SPECIFICATION Spec
CHECK_DEADLOCK FALSE
INVARIANT CacheBound
