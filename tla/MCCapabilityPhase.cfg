SPECIFICATION Spec
CONSTANTS
    Providers <- MCProviders
    Owner <- MCOwner
    Synonyms <- MCSynonyms
    Graphs <- MCGraphs
    Declared <- MCDeclared
    Hints <- MCHints
    Censuses <- MCCensuses
    Contracts <- MCContracts
    Assigns <- MCAssigns
    Supports <- MCSupports
    NoGoal = NoGoal
    NotCached = NotCached
    ProfilerLimit = 2
    MaxCalls = 3
    BatchSize = 8
    MaxSchema = 2
    MaxHunts = 2
INVARIANTS
    OperationsAreCurrent
    ProofIsProbed
    GoesOnWithWhatIsLeft
    RoutesStartAtSubject
CHECK_DEADLOCK FALSE
