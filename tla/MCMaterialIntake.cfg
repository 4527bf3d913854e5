SPECIFICATION Spec
CONSTANTS
    a1 = a1
    a2 = a2
    a3 = a3
    c1 = c1
    n1 = n1
    n2 = n2
    Tasks <- MCTasks
    Contents <- MCContents
    Names <- MCNames
    MaxDamage = 1
    None = None
INVARIANTS RowsHaveTheirFiles IngestsAgree
PROPERTIES DamageIsNoticed
CHECK_DEADLOCK FALSE
