SPECIFICATION Spec
CONSTANTS
    Pages <- AllPages
    Regions = {"r1", "r2"}
    Shards = {"k1"}
    Parts <- InPart
    MoveBefore = TRUE
    MaxShows = 2
    MaxSteps = 3
INVARIANTS
    ContentArrives
    ScopesFollowContent
PROPERTIES
    IdsKeepTheirNodes
    UserStateStays
CHECK_DEADLOCK FALSE
