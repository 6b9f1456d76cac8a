SPECIFICATION Spec
CONSTANTS
    Principal <- Callers
    Claims <- TokenClaims
    Team <- Teams
    Id = {1, 2, 3}
    Status = {"running", "completed"}
    Filters = {"any", "running"}
    PageSize = 1
    MaxTime = 2
    MaxApprovals = 1
INVARIANTS
    ScopeKept
    PagesExact
CHECK_DEADLOCK FALSE
