SPECIFICATION ReadsLastSpec
CONSTANTS
    Keys = {1, 2, 3}
    None = None
    StartingEpsilon = 400
    StartPivots = 5
    WritePivots = 5
    ReadPivots = 5
    IsDynamic = FALSE
    TunableEpsilonLevel = 0
    OpsBeforeUpdate = 2
    WindowSize = 2
    DefaultOps = 2
    DefaultWindow = 2
    NodeSize = 8
    MinFlush = 2
    CacheSize = 2
    Word = 16
    Ops = {"insert", "delete", "update"}
    MaxUpserts = 6
    MaxQueries = 1
    MaxScans = 1
    Preload = 3
INVARIANTS
    ScanRight
PROPERTIES
    MapSpec
