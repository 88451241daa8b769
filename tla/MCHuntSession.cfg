SPECIFICATION Spec
CONSTANTS
    Events = {"run", "install", "visit", "mail", "monitor"}
    Keys = {1, 2, 3, 4}
    Fields <- MCFields
    Values = {1, 2, 3}
    Ops <- MCOps
    Matches <- MCMatches
    DirectOps <- MCDirectOps
    Returns <- MCReturns
    MaxRows = 1
    MaxAdaptive = 2
INVARIANTS
    ObservedIsAnswered
    OnlyAdmittedRowsBecomeCards
    AnsweredIsBound
    NegativeIsLicensed
CHECK_DEADLOCK FALSE
