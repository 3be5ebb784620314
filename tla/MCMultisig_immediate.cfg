CONSTANTS
    alice = alice
    bob = bob
    acc = acc
    Users = {alice, bob}
    Accounts = {acc}
    Genesis <- TwoAutomatic
    Transactions <- Leaves
    SubmitArgs <- LowThreshold
    DefaultArgs <- NoArgs
    Payers = {bob}
    Closers = {alice, bob}
    RoleChanges <- BobSubmits
    MaxTx = 1
    MaxTimeout = 1
    MaxTime = 2
    MaxFunds = 1
    MaxCrashes = 1
    None = None
    NoTx = NoTx
    Blockchain = FALSE
SPECIFICATION Spec
INVARIANT TypeOK
PROPERTY RunsNeedQuorum
CHECK_DEADLOCK FALSE
