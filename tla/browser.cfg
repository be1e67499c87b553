SPECIFICATION FairSpec
CONSTANTS
    Phones = {"p1", "p2"}
    Sessions = {"s1", "s2"}
    MaxTasks = 2
    Attempts = 2
    Worlds <- Several
    MaxTroubles = 2
    MaxActs = 3
INVARIANTS
    NothingAbandoned
PROPERTIES
    PauseHolds
    ReconnectWorks
CHECK_DEADLOCK FALSE
