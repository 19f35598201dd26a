SPECIFICATION LevelsSpec
CONSTANTS
    Keys = {1, 2, 3, 4, 5, 6}
    None = None
    StartingEpsilon = 400
    StartPivots = 2
    WritePivots = 2
    ReadPivots = 2
    IsDynamic = FALSE
    TunableEpsilonLevel = 0
    OpsBeforeUpdate = 2
    WindowSize = 2
    DefaultOps = 2
    DefaultWindow = 2
    NodeSize = 5
    MinFlush = 1
    CacheSize = 3
    Word = 64
    Ops = {"insert", "delete", "update"}
    MaxUpserts = 14
    MaxQueries = 0
    MaxScans = 0
    Preload = 4
    FreeUpserts = 3
INVARIANTS
    NewerAbove
    DirtyChildBufferEmpty
    BuffersInOrder
    Routing
    ContentsRight
    Balanced
    LeafInserts
