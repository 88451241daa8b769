SPECIFICATION Spec
CONSTANTS
    attack = attack
    benign = benign
    web = web
    proc = proc
    file = file
    base = base
    site = site
    host = host
    user = user
    ip = ip
    w1 = w1
    w2 = w2
    p1 = p1
    p2 = p2
    f1 = f1
    gw = gw
    gp = gp
    gf = gf
    NoEntity = NoEntity
    Hypotheses = {attack, benign}
    Requirements = {web, proc, file, base}
    Benign = {benign}
    BoundPairs <- MCBound
    RequirementOrder <- MCOrder
    Primary = web
    Owner <- MCOwner
    EvidenceType <- MCType
    Entities = {site, host, user, ip}
    Domains = {site}
    Asked <- MCAsked
    Compatible <- MCCompatible
    Unplannable <- MCUnplannable
    Untargeted = {file}
    Rows = {w1, w2, p1, p2, f1}
    Row <- MCRow
    Addresses = {ip}
    Day = 1
    HasControls = TRUE
    HasAnalyst = TRUE
    HasEvaluator = TRUE
    MaxTurns = 16
    MaxQueries = 10
    MaxScans = 2
    MaxLlm = 2
    MaxPivots = 1
INVARIANT RefutedHasNoMatch
CHECK_DEADLOCK FALSE
