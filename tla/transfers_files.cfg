SPECIFICATION Spec
CONSTANTS
    u1 = u1
    u2 = u2
    d1 = d1
    d2 = d2
    Transfers = {u1, d1, d2}
    Uploads = {u1}
    Names <- MCNames
    NameOf <- OwnName
    Policy <- MixedPolicy
    Concurrency = 2
    QueueLimit = 3
    DuplicateLimit = 3
    MaxRetries = 1
    OverlappingRequests = FALSE
    MayCrash = FALSE
INVARIANTS
    PartialIsOwned
    DownloadReported
