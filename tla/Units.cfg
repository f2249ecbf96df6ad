SPECIFICATION UnitsSpec
CONSTANTS
    page = page
    s1 = s1
    s2 = s2
    Page <- page
    Shards <- OneShard
    Targets <- PageAndShard
    MaxInputs = 3
    MaxSockets = 2
    MaxFrames = 1
    MaxQueued = 2
    MaxRefreshes = 1
    MaxSwaps = 1
    MaxNavigations = 1
INVARIANTS
    NeedyUnitsAreMembers
    GoneShardsLetGo
    NoStaleResponse
PROPERTY
    ShowsLatestRender
CHECK_DEADLOCK FALSE
