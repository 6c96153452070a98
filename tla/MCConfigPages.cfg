SPECIFICATION Spec
CONSTANTS
    empty = empty
    dropped_only = dropped_only
    a = a
    a_files = a_files
    Contents = {empty, dropped_only, a, a_files}
    Pristine = empty
    Persistable <- MCPersistable
    Valid = {a, a_files}
    Unusable = {garbled}
    None = None
    Malformed = Malformed
    MaxChanges = 2
INVARIANTS TypeOK NoPristineDraft SavedDraftStaysGone SaveSendsForm FormIsKept OnlyValidSent
CHECK_DEADLOCK FALSE
