SPECIFICATION FairSpec
CONSTANTS
    Ids <- MCIds
    Capacity = 2
    MaxMessages = 5
INVARIANTS
    NoOrphanedRun
PROPERTIES
    ConnectionWindsDown
    ReplyIsNotStuck
CHECK_DEADLOCK FALSE
