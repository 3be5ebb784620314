CONSTANTS
    Nodes = {n1}
    Blocks <- SmallBlocks
    MaxHeight = 2
    MaxBlockLen = 2
    Span = 5
    MigrationHeight = 2
    CrashPhases <- AllPhases
    MaxCrashes = 1
SPECIFICATION Spec
INVARIANT MigrationComplete
CHECK_DEADLOCK FALSE
