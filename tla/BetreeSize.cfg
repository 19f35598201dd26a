SPECIFICATION MixedSpec
CONSTANTS
    Keys = {1, 2, 3, 4, 5, 6}
    None = None
    StartingEpsilon = 400
    StartPivots = 3
    WritePivots = 3
    ReadPivots = 3
    IsDynamic = FALSE
    TunableEpsilonLevel = 0
    OpsBeforeUpdate = 2
    WindowSize = 2
    DefaultOps = 2
    DefaultWindow = 2
    NodeSize = 5
    MinFlush = 1
    CacheSize = 3
    Word = 16
    Ops = {"insert"}
    MaxUpserts = 8
    MaxQueries = 0
    MaxScans = 0
    Preload = 6
INVARIANTS
    MaxSizeRestored
