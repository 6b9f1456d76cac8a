INIT ArchitectureInit
NEXT ArchitectureNext
CONSTANTS
    Affected <- AffectedLists
    Aliases = {"alias"}
    Related = {"disk"}
    MaxSystems = 2
    MaxDependencies = 1
    MaxRecentChanges = 1
    IncludeChanges = TRUE
    MaxItems = 1
    Gateways = {"connector"}
INVARIANT RelationshipsServed
CHECK_DEADLOCK FALSE
