SPECIFICATION Spec
CONSTANTS
    acc = acc
    host = host
    change = change
    mail = mail
    ann = ann
    acct1 = acct1
    acct2 = acct2
    pc = pc
    doc = doc
    addr = addr
    r1 = r1
    r2 = r2
    e1 = e1
    e2 = e2
    who = who
    what = what
    NoValue = NoValue
    NoClaim = NoClaim
    Claims = {acc, host, change, mail}
    Rows = {r1, r2, e1, e2}
    Values = {ann, acct1, acct2, pc, doc, addr}
    Requirements = {who, what}
    Reads <- MCReads
    Event <- MCEvent
    Needs <- MCNeeds
    CompleteOnly = {acc}
    Transitions = {change}
    Unqualified = {}
    MaxDelta = 2
    Subject <- MCSubject
    Input <- MCInput
    Object <- MCObject
    Kind <- MCKind
    Optional = {mail}
    Prerequisite = {acc}
    Rank <- MCRank
    Requires <- MCRequires
    PersonSubject = TRUE
    HasAnalyst = TRUE
    MaxTurns = 6
    MaxQueries = 6
INVARIANTS
    TypeOK
    SupportedIsProved
    OneProofPerRow
    ResolvedIsWhole
CHECK_DEADLOCK FALSE
