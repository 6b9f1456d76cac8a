SPECIFICATION FairSpec
CONSTANTS
    r1 = r1
    r2 = r2
    r3 = r3
    t1 = t1
    t2 = t2
    k1 = k1
    NoKey = NoKey
    None = None
    Request = {r1, r2, r3}
    Team = {t1, t2}
    Key = {k1}
    Workload <- FullWorkload
INVARIANTS
    ChainIntact
    AuditedExactly
    OneInvestigationPerKey
    NoWaitCycle
PROPERTIES
    VisibleInSeqOrder
    ImplementsChain
    RetryNeverConflicts
    EveryRequestEnds
