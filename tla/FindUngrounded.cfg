SPECIFICATION Spec
CONSTANTS
    Wired <- AllAgents
    Evidence = {"c1"}
    Invented = {"x1"}
    StatedGrades = {"high", "odd"}
    MaxItems = 1
    MaxAlternatives = 0
    MaxCauses = 1
    MaxSteps = 1
    MaxAttempts = 1
INVARIANT AdvisedOnlyOnEvidence
