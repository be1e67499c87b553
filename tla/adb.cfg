SPECIFICATION FairSpec
CONSTANTS
    r1 = r1
    r2 = r2
    Requests = {r1, r2}
    Worlds <- Everything
    RetryAfter = 1
    RefreshAfter = 2
    UsageFor = 1
    MaxTroubles = 2
INVARIANTS
    NoChildLeft
    AnswersAreEvidenced
PROPERTIES
    RequestsEnd
CHECK_DEADLOCK FALSE
