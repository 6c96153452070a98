SPECIFICATION ChecklistSpec
CONSTANTS
    Absent = Absent
    Null = Null
    NoFile = NoFile
    GoodNames = {"p"}
    GoodAddresses = {"A1"}
    Files = {"a.xlsx", "b.xlsx"}
    Book <- MCBook
    PreviewRows = 1
    Saved <- MCSaved
    TypedNames = {"p"}
    TypedAliases = {"look"}
    TypedTargets = {"no"}
    TypedLiterals = {"x"}
    TypedAddresses = {"A1"}
    MaxSources = 3
    MaxJoins = 1
    MaxMappings = 3
    MaxConditions = 1
    MaxEdits = 3
INVARIANT ColumnsNeverStale
CHECK_DEADLOCK FALSE
