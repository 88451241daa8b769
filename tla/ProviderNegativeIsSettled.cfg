SPECIFICATION Spec
CONSTANTS
    account = account
    process = process
    web = web
    text = text
    email = email
    outbound = outbound
    table = table
    Ops = {account, process, web, text, email, outbound, table}
    Form <- MCForm
    Named <- MCNamed
    Limit = 1
    WideLimit = 2
    MaxStored = 4
    MaxPages = 3
    MaxSearches = 2
INVARIANTS
    NegativeIsSettled
CHECK_DEADLOCK FALSE
