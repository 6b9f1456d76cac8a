SPECIFICATION MCSpec
CONSTANTS
    Starter = s
    Approver = {a1, a2}
    Review = "when_asked"
    MayCrash = TRUE
    Wired <- AllAgents
    MaxPolls = 3
SYMMETRY StreamSymmetry
INVARIANTS
    OutcomeBacked
    RecommendationsGated
    RestsInAgreement
PROPERTIES
    ClosesAtRest
    TellsBackedOutcomes
