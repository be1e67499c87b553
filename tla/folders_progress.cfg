SPECIFICATION FairSpec
CONSTANTS
    Names = {"a", "b"}
    MaxCopies = 1
    StableAfter = 2
    MaxProcessed = 20
    Configs <- JustMoving
    Worlds <- Undisturbed
    MaxWrites = 2
    MaxJobs = 3
    MaxFailures = 1
PROPERTIES
    FilesArrive
