CONSTANTS
    mfx = mfx
    abc = abc
    memo = memo
    NumAddrs = 2
    Anonymous = 0
    MaxSymbol = 1
    Tickers = {mfx, abc}
    ExtKeys = {memo}
    Amounts = {1}
    Distributions <- Shares
    Creations <- AroundMaximum
    Updates <- Final
    GenesisTokens <- OneToken
    GenesisBalances <- FirstBalances
    Supply = 2
    CounterRange = 3
    MaxCrashes = 1
    None = None
    Keep = Keep
    NoToken = NoToken
    NoTicker = NoTicker
    Absent = Absent
SPECIFICATION Spec
INVARIANTS TypeOK TickersAgree SupplyMatchesBalances
PROPERTIES ImmutableForever MintWithinMaximum SendsAreCounted
CHECK_DEADLOCK FALSE
