CONSTANTS
    alice = alice
    bob = bob
    acc = acc
    Users = {alice}
    Accounts = {acc}
    Genesis <- TwoAutomatic
    Transactions <- Nested
    SubmitArgs <- LowThreshold
    DefaultArgs = {}
    Payers = {alice}
    Closers = {}
    RoleChanges = {}
    MaxTx = 2
    MaxTimeout = 1
    MaxTime = 1
    MaxFunds = 2
    MaxCrashes = 1
    None = None
    NoTx = NoTx
    Blockchain = TRUE
SPECIFICATION Spec
INVARIANTS RunOnce ExecutedWithQuorum LogMatchesRuns FundsOnlyThroughRuns
PROPERTY RunsNeedQuorum
CHECK_DEADLOCK FALSE
