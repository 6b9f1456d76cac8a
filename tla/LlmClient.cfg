SPECIFICATION Spec
CONSTANTS
    Detectors <- DetectorOrder
    Matching <- MatchingDetectors
    Askers = {"intake", "rca", "unmapped"}
    Unmapped = {"unmapped"}
    Prompts <- TextsOf
    System <- SystemPrompt
    MaxRetries = 1
    AgentAttempts = 2
    Workers = 1
INVARIANTS
    AnswersOwnCall
    RequestsBudgeted
    RedactionKept
PROPERTIES
    NothingSentInVain
    EveryQuestionEnds
