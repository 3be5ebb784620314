CONSTANTS
    alice = alice
    bob = bob
    Users = {alice, bob}
    MaxAccounts = 1
    Keys = {k1}
    Values = {v1}
    GenesisAcl <- Unowned
    Grants <- BobPuts
    MaxEvents = 5
    MaxCrashes = 1
    None = None
    Modes = {TRUE, FALSE}
SPECIFICATION Spec
INVARIANTS ChainOfOwners LogTellsStore CountMatchesList
PROPERTY AccountsStay
CHECK_DEADLOCK FALSE
