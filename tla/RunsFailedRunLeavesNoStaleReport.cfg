SPECIFICATION Spec
CONSTANTS
    alice = alice
    bob = bob
    web1 = web1
    macbook = macbook
    none = none
    nogoal = nogoal
    NoValue = none
    NoGoal = nogoal
    DeviceWords <- MCDeviceWords
    HostTypes <- MCHostTypes
    SeedTypes <- MCSeedTypes
    MaxCalls = 4
    MaxTokens = 14
    Limits <- MCLimits
    MaxAttempts = 2
    PromptSize <- MCPromptSize
    ReplySize = 1
    Reserve = 2
    Usages <- MCUsages
    MaxRuns = 2
    MaxGaps = 2
    MaxTurns = 2
    Requests <- MCRequests
    Proposals <- MCProposals
    Templated <- MCTemplated
    Questions <- MCQuestions
INVARIANT FailedRunLeavesNoStaleReport
CHECK_DEADLOCK FALSE
