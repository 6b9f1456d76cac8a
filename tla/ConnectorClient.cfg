SPECIFICATION FairSpec
CONSTANTS
    Vendors = {"pagerduty", "servicenow", "confluence"}
    Caps = {1, 4, 9}
    PageLimit = 2
    MaxPages = 3
    MaxRetries = 1
    BackoffBase = 1
    BackoffMax = 2
    RetryAfters <- SomeRetryAfters
    MaxHeld = 7
    MaxGrowth = 2
INVARIANTS
    TypeOK
    Bounded
    ListFaithful
PROPERTIES
    EveryCallAnswered
