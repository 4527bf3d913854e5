SPECIFICATION Spec
CONSTANTS
    t1 = t1
    t2 = t2
    t3 = t3
    t4 = t4
    new = new
    tool = tool
    old = old
    runs = runs
    briefs = briefs
    Threads <- MCThreads
    Processes <- MCProcesses
    ProcessOf <- MCProcessOf
    Known <- MCKnown
    Top = 3
    Tables <- MCTables
    Since <- MCSince
    Found <- MCFound
    None = None
INVARIANTS MigratedAlone
PROPERTIES OnlyForward OperationsEnd
CHECK_DEADLOCK FALSE
