SPECIFICATION Spec
CHECK_DEADLOCK FALSE
CONSTANTS
    d1 = d1
    d2 = d2
    None = None
    Docs = {d1, d2}
    Statuses = {"open", "closed"}
    ActiveStatuses = {"open"}
    Approvers = {"a", "b"}
    Runs = {r1, r2, r3, r4}
    MaxClock = 2
    Overlap = FALSE
    Listings <- MCListings
SYMMETRY Symmetry
INVARIANTS
    NewestShownUnlessEmpty
    EventsTellStatus
PROPERTIES
    RelatedStays
    ImplementsStore
