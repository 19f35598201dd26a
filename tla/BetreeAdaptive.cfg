SPECIFICATION MixedSpec
CONSTANTS
    Keys = {1, 2, 3, 4}
    None = None
    StartingEpsilon = 400
    StartPivots = 2
    WritePivots = 2
    ReadPivots = 3
    IsDynamic = TRUE
    TunableEpsilonLevel = 0
    OpsBeforeUpdate = 2
    WindowSize = 2
    DefaultOps = 3
    DefaultWindow = 2
    NodeSize = 5
    MinFlush = 1
    CacheSize = 3
    Word = 16
    Ops = {"update"}
    MaxUpserts = 7
    MaxQueries = 1
    MaxScans = 0
    Preload = 4
INVARIANTS
    LimitsFollowEpsilon
    TypeOK
    OneOwner
    SearchOrder
    PinnedInMemory
PROPERTIES
    AdoptKeeps
    CallsReturn
