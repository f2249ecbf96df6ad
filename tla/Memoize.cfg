SPECIFICATION FairSpec
CONSTANTS
    Callers = {c1, c2}
    Entries = {"outer", "inner"}
    Types = {"lang", "user"}
    Values = {1, 2, 3, 4, 5}
    Nobody = Nobody
    NoValue = NoValue
    Registered <- MCRegistered
    RootScopes <- MCScopes
    Body <- LayeredBody
    MaxCalls = 3
    MaxFailures = 1
    ColdSteps = 12
INVARIANTS
    RunsOncePerBindings
    CachedValuesAreRight
PROPERTY
    CallsReturn
CHECK_DEADLOCK FALSE
