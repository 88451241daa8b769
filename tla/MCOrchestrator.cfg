SPECIFICATION FairSpec
CONSTANTS
    l1 = l1
    l2 = l2
    h1 = h1
    h2 = h2
    x1 = x1
    x2 = x2
    e1 = e1
    e2 = e2
    ANY = ANY
    NoScope = NoScope
    NoContext = NoContext
    NoAccount = NoAccount
    Labels = {l1, l2}
    ExplIds = {h1, h2}
    ExpIds = {x1, x2}
    Requirements = {"process_ancestry", "web_request", "scope_records"}
    Entities = {e1}
    ScopeRefs = {1, 2, NoScope}
    ScopeOrder <- MCScopeOrder
    Adapters = {1}
    DefaultAdapter = 1
    Supported = {"process_ancestry", "scope_records"}
    Responses <- MCResponses
    MaxObs = 3
    MaxRows = 2
    TMax = 5
    QMax = 3
    MinNew = 2
    MaxBatch = 2
    MaxCalls = 2
    MaxRetries = 1
INVARIANTS
    TypeOK
    EvidencePartition
    LeftoverExplained
    RejectionHasRefutation
    ResolvedIsUnblocked
PROPERTIES
    RefinesEvidenceFlow
    RecordIsAppendOnly
    Termination
CHECK_DEADLOCK FALSE
