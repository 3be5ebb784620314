CONSTANTS
    Nodes = {n1}
    Blocks <- SmallBlocks
    MaxHeight = 2
    MaxBlockLen = 2
    Span = 5
    MigrationHeight = 9
    CrashPhases <- AllPhases
    MaxCrashes = 0
SPECIFICATION Spec
INVARIANT InFlightResolvedSeparately
CHECK_DEADLOCK FALSE
