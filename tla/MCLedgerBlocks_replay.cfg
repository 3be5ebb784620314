CONSTANTS
    Nodes = {n1, n2}
    Blocks <- SmallBlocks
    MaxHeight = 3
    MaxBlockLen = 2
    Span = 5
    MigrationHeight = 2
    CrashPhases <- OutsideMigration
    MaxCrashes = 2
SPECIFICATION Spec
INVARIANTS
    TypeOK
    SameHeightSameState
    SubmissionsKept
    NbEventsExact
    KeysFollowExecution
    MigrationComplete
PROPERTIES NoOverwrite
CHECK_DEADLOCK FALSE
