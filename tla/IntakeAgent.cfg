SPECIFICATION Spec
CONSTANTS
    Tiers <- DefaultTiers
    MaxAttempts = 2
    MaxToolCalls = 1
    DefaultSeverity = "high"
    MinTriage = "lite"
    Reported = {"low", "critical"}
    GatewayFails = TRUE
    Catalog = {"found", "failed"}
    MaxClaims = 2
INVARIANTS
    GuardrailsHold
    AnswersUsed
    CallsBudgeted
