SPECIFICATION Spec
CONSTANTS
    Chunks <- CorpusChunks
    Episodes <- PastIncidents
    MaxHits = 2
    MaxEpisodes = 1
    MaxContextChunks = 1
    MinSources = 2
    StatedGrades = {"low", "high"}
    KnowledgeTiers = 2
    KnowledgeAttempts = 2
    FreshnessCheck = TRUE
    Affected <- AffectedLists
    Aliases = {"alias"}
    Related = {"disk"}
    MaxSystems = 2
    MaxDependencies = 1
    MaxRecentChanges = 1
    IncludeChanges = TRUE
    MaxItems = 1
    Gateways = {"none", "any"}
INVARIANTS
    KnowledgeSupported
    TopologySound
    FailuresAccounted
PROPERTIES
    EvidenceGathered
