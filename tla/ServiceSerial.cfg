SPECIFICATION FairSpec
CONSTANTS
    Starter = s
    Approver = {a1, a2}
    Review = "one_by_one"
    MayCrash = TRUE
    Wired <- AllAgents
PROPERTIES
    ImplementsGate
    StartSettles
    DecisionTakesEffect
