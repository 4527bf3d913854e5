SPECIFICATION Spec
CHECK_DEADLOCK FALSE
CONSTANTS
    d1 = d1
    d2 = d2
    p1 = p1
    None = None
    Docs = {d1, d2}
    Modules = {"payment", "bizcase"}
    ByIdentity = {"payment"}
    ByProject = {"payment", "bizcase"}
    Projects = {p1}
    ProjectOf <- MCProjectOf
    Mine = {d2}
    Revisions = {1}
    tool = tool
    web = web
    Jobs = {tool, web}
    Streams <- MCStreams
    Order <- MCOrder
    Tools = {tool}
    Batches <- MCBatches
    Listings <- MCListings
    MaxClock = 1
INVARIANTS
    TypeOK
    ModuleIsOneMeasurement
    RunsAccountForHistory
    OnlyPersonalRows
    SummaryTellsRuns
    NothingSkipped
PROPERTIES
    NeverAnOlderMeasurement
    ChangesCounted
    JobsEnd
