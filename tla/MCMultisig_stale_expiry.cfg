CONSTANTS
    alice = alice
    bob = bob
    acc = acc
    Users = {alice}
    Accounts = {acc}
    Genesis <- TwoManual
    Transactions <- Payments
    SubmitArgs <- LowThreshold
    DefaultArgs = {}
    Payers = {}
    Closers = {alice}
    RoleChanges = {}
    MaxTx = 1
    MaxTimeout = 1
    MaxTime = 2
    MaxFunds = 1
    MaxCrashes = 0
    None = None
    NoTx = NoTx
    Blockchain = TRUE
SPECIFICATION Spec
INVARIANT ExecutedIsReported
CHECK_DEADLOCK FALSE
