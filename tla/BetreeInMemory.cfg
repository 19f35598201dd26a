SPECIFICATION MixedSpec
CONSTANTS
    Keys = {1, 2, 3, 4}
    None = None
    StartingEpsilon = 400
    StartPivots = 2
    WritePivots = 2
    ReadPivots = 3
    IsDynamic = TRUE
    TunableEpsilonLevel = 0
    OpsBeforeUpdate = 2
    WindowSize = 2
    DefaultOps = 2
    DefaultWindow = 2
    NodeSize = 5
    MinFlush = 1
    CacheSize = 12
    Word = 16
    Ops = {"delete", "update"}
    MaxUpserts = 5
    MaxQueries = 2
    MaxScans = 1
    Preload = 4
INVARIANTS
    ScanRight
PROPERTIES
    MapSpec
