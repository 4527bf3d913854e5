SPECIFICATION DaySpec
CONSTANTS
    child = child
    page = page
    purchase = purchase
    Requests <- MCRequests
    Streams <- MCStreams
    Child = child
    Keep = 2
    MaxPreferences = 3
    MaxChanges = 1
INVARIANTS BriefsKnowTheirPreferences DayTellsTruth
PROPERTIES PreferencesAreAList
CHECK_DEADLOCK FALSE
