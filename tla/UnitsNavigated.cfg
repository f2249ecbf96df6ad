SPECIFICATION UnitsSpec
CONSTANTS
    page = page
    s1 = s1
    s2 = s2
    Page <- page
    Shards <- OneShard
    Targets <- PageAndShard
    MaxInputs = 2
    MaxSockets = 1
    MaxFrames = 1
    MaxQueued = 2
    MaxRefreshes = 0
    MaxSwaps = 0
    MaxNavigations = 1
INVARIANT
    MembersOfOpenSocketRun
CHECK_DEADLOCK FALSE
