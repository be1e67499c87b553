SPECIFICATION OneDirectionSpec
CONSTANTS
    u1 = u1
    u2 = u2
    d1 = d1
    d2 = d2
    Transfers = {u1, u2, d1, d2}
    Uploads = {u1, u2}
    Names <- MCNames
    NameOf <- SameName
    Policy <- RenameAll
    Concurrency = 1
    QueueLimit = 2
    DuplicateLimit = 3
    MaxRetries = 2
    OverlappingRequests = FALSE
    MayCrash = TRUE
SYMMETRY Symmetric
INVARIANTS
    DeliveredIntact
