SPECIFICATION Spec
CONSTANTS
    Starter = s
    Approver = {a1}
    Review = "anytime"
    MayCrash = FALSE
    Wired <- AllAgents
INVARIANT ReviewSeesDecision
