SPECIFICATION Spec
CONSTANTS
    schedule = schedule
    web = web
    Agents <- MCAgents
    WebAgents <- MCWebAgents
    MaxSource = 2
    MaxRuns = 2
    None = None
INVARIANTS InstallerIsHonest
PROPERTIES LiveDataIsKept
CHECK_DEADLOCK FALSE
