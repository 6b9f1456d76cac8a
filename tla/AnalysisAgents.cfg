SPECIFICATION Spec
CONSTANTS
    Wired <- AllAgents
    Evidence = {"c1"}
    Invented = {"x1"}
    StatedGrades = {"high", "medium", "odd"}
    MaxItems = 2
    MaxAlternatives = 1
    MaxCauses = 1
    MaxSteps = 1
    MaxAttempts = 2
INVARIANTS
    AdvisedOnEvidence
    AnswersGuarded
    ModelAttributed
    DegradedEscalates
PROPERTIES
    ImplementsGraph
    AnalysisEnds
