CONSTANTS
    alice = alice
    bob = bob
    server = server
    other = other
    Users = {alice, bob}
    Senders = {alice}
    Root = server
    Others = {other}
    MaxSubresource = 3
    Configs <- AllConfigs
    Creations <- SomeAccounts
    AddedFeatures <- SomeFeatures
    AddedRoles <- SomeRoles
    MaxCreations = 3
    MaxHeight = 2
    MaxCrashes = 1
    None = None
SPECIFICATION Spec
INVARIANTS TypeOK AddressesOnce CreationsComplete QuorumReachable
CHECK_DEADLOCK FALSE
