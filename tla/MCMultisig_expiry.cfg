CONSTANTS
    alice = alice
    bob = bob
    acc = acc
    Users = {alice}
    Accounts = {acc}
    Genesis <- TwoManual
    Transactions <- Payments
    SubmitArgs <- LongLow
    DefaultArgs = {}
    Payers = {}
    Closers = {alice}
    RoleChanges = {}
    MaxTx = 2
    MaxTimeout = 1
    MaxTime = 2
    MaxFunds = 1
    MaxCrashes = 1
    None = None
    NoTx = NoTx
    Blockchain = TRUE
SPECIFICATION FairSpec
PROPERTIES SweepComplete EventuallyResolved ImplementsLifecycle
CHECK_DEADLOCK FALSE
