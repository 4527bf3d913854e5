SPECIFICATION Spec
CONSTANTS
    a = a
    b = b
    c = c
    d = d
    x = x
    Docs <- MCDocs
    PageSize = 2
    MaxPages = 3
    Kinds <- AllOfThem
    Start <- MCStart
    Listed <- MCListed
    Matched <- MCMatched
    Foreign = {x}
    Hops <- MCHops
    MaxEdits = 2
    None = None
    RowLimit = 2
    PageLimit = 9
INVARIANTS ListIsSound OnlyReadsLeave
CHECK_DEADLOCK FALSE
