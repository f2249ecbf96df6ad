SPECIFICATION FairSpec
CONSTANTS
    t1 = t1
    t2 = t2
    Targets = {t1, t2}
    MaxInputs = 1
    MaxSockets = 2
    MaxFrames = 1
    MaxQueued = 1
INVARIANTS
    SocketFollowsMembers
PROPERTIES
    MembersRunOnceOpen
    GivenUpRunsEnd
CHECK_DEADLOCK FALSE
