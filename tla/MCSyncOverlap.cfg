SPECIFICATION Spec
CHECK_DEADLOCK FALSE
CONSTANTS
    d1 = d1
    d2 = d2
    None = None
    Docs = {d1, d2}
    Statuses = {"open", "closed"}
    ActiveStatuses = {"open"}
    Approvers = {"a", "b"}
    Runs = {r1, r2, r3}
    MaxClock = 2
    Overlap = TRUE
    Listings <- MCOverlapListings
SYMMETRY Symmetry
INVARIANTS
    TypeOK
    CurrentIsOneMeasurement
    RunsAccountForRows
    HistoryIsKeyed
PROPERTIES
    NeverAnOlderRow
