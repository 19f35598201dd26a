SPECIFICATION MixedSpec
CONSTANTS
    Keys = {1, 2, 3, 4}
    None = None
    StartingEpsilon = 400
    StartPivots = 3
    WritePivots = 3
    ReadPivots = 3
    IsDynamic = FALSE
    TunableEpsilonLevel = 0
    OpsBeforeUpdate = 2
    WindowSize = 2
    DefaultOps = 2
    DefaultWindow = 2
    NodeSize = 5
    MinFlush = 1
    CacheSize = 2
    Word = 16
    Ops = {"insert", "delete", "update"}
    MaxUpserts = 4
    MaxQueries = 1
    MaxScans = 0
    Preload = 2
INVARIANTS
    ContentsRight
