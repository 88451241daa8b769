SPECIFICATION Spec
CONSTANTS
    x = x
    y = y
    z = z
    u = u
    v1 = v1
    v2 = v2
    v3 = v3
    NoValue = NoValue
    Variables = {x, y, z, u}
    Values = {v1, v2, v3}
    Operations <- MCOperations
    Plans <- MCPlans
    RowLists <- MCRowLists
    MaxPages = 2
    MaxBindings = 2
INVARIANT CompleteEmptyHasNoRows
CHECK_DEADLOCK FALSE
