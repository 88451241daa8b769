SPECIFICATION FairSpec
CONSTANTS
    account = account
    process = process
    web = web
    text = text
    email = email
    outbound = outbound
    table = table
    Ops = {account, process, web, text, email, outbound, table}
    Form <- MCForm
    Named <- MCNamed
    Limit = 1
    WideLimit = 2
    MaxStored = 5
    MaxPages = 3
    MaxSearches = 2
INVARIANTS
    PagesJoin
    CompleteIsWhole
    LicensedIsAbsent
PROPERTIES
    Termination
CHECK_DEADLOCK FALSE
