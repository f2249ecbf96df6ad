SPECIFICATION DevSpec
CONSTANTS
    MaxEvents = 2
    Backlog = 2
INVARIANTS
    LatestIsServed
    PressRestarts
    SpinnerEnds
PROPERTY BuildingEnds
CHECK_DEADLOCK FALSE
