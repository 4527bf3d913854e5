SPECIFICATION Spec
CONSTANTS
    schedule = schedule
    web = web
    Agents <- MCAgents
    WebAgents <- MCWebAgents
    MaxSource = 2
    MaxRuns = 2
    None = None
INVARIANTS PreviousStateRestored
CHECK_DEADLOCK FALSE
