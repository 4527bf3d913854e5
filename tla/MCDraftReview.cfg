SPECIFICATION Spec
CHECK_DEADLOCK FALSE
CONSTANTS
    number = number
    remark = remark
    text = text
    None = None
    Fields = {number, remark}
    Required = {number}
    Proposed = {number}
    Values = {text}
    Sound <- MCSound
    Reviewers = {r1, r2}
    MaxVersion = 4
SYMMETRY Symmetry
INVARIANTS
    TypeOK
    AuditAccountsForState
    AuditAccountsForFields
    SourceAgrees
    MemoryIsFresh
    ReadyIsSound
PROPERTIES
    NoBlindCommit
    LockedOnceValidated
    ImplementsLedger
