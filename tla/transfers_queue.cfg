SPECIFICATION FairSpec
CONSTANTS
    u1 = u1
    u2 = u2
    d1 = d1
    d2 = d2
    Transfers = {u1, d1}
    Uploads = {u1}
    Names <- MCNames
    NameOf <- SameName
    Policy <- RenameAll
    Concurrency = 1
    QueueLimit = 1
    DuplicateLimit = 3
    MaxRetries = 1
    OverlappingRequests = FALSE
    MayCrash = TRUE
INVARIANTS
    SingleTask
    FinalIsIdle
    UploadStaysRetryable
PROPERTIES
    
    TransfersSettle
    CancelAnswered
    CloseEnds
