SPECIFICATION Spec
CONSTANTS
    Names = {"a", "b"}
    MaxCopies = 1
    StableAfter = 2
    MaxProcessed = 20
    Configs <- Several
    Worlds <- AllWorlds
    MaxWrites = 2
    MaxJobs = 3
    MaxFailures = 1
INVARIANTS
    
    QueuedOnce
    
PROPERTIES
    BaselineStays
    OrderlyDeletesDelivered
