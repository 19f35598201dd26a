CONSTANTS
    Data = {d1}
    NULL = NULL
    MaxId = 3
    MaxVersion = 2
    MaxHandles = 1
    MaxPins = 1
    CacheSize = 1
    Word = 4
SPECIFICATION FairSpec
CHECK_DEADLOCK FALSE
INVARIANTS
    TypeOK
    QueueIsResidents
    FilesExact
    RefcountExact
    NoDangling
    NoLeak
    LeafFlagRight
PROPERTIES
    CounterFollows
    CallsReturn
