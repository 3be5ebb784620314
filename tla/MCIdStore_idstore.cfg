CONSTANTS
    alice = alice
    phone = phone
    bob = bob
    carol = carol
    holder = holder
    Clients = {alice, phone, bob, carol}
    AddressOf <- SharedAddresses
    Invalid = {bob}
    Bounds <- FewSeeds
    MaxTries = 2
    GenesisSeeds = {0, 1, 8}
    GenesisKeys = {0, 1, 2}
    Holder = holder
    None = None
    MaxCrashes = 2
    Modes = {TRUE, FALSE}
SPECIFICATION FairSpec
INVARIANTS PhraseIsForever LookupsAgree
PROPERTY RetriesSucceed
CHECK_DEADLOCK FALSE
