CONSTANTS
    Data = {d1, d2}
    NULL = NULL
    MaxId = 2
    MaxVersion = 2
    MaxHandles = 2
    MaxPins = 2
    CacheSize = 1
    Word = 4
SPECIFICATION Spec
CHECK_DEADLOCK FALSE
INVARIANTS
    NothingLost
    PinnedStays
PROPERTIES
    HeapSpec
