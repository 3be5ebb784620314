---------------------------- MODULE LedgerTokens ----------------------------
(***************************************************************************)
(* Tokens and balances of many-ledger with the token migration active:     *)
(* send, mint, burn, creation and update of tokens, extended information,  *)
(* the account counters of the data attributes, and the difference between *)
(* what a block has written (store) and what is committed (disk).          *)
(*                                                                         *)
(* Merk::get answers from store, but the set of symbols comes from an      *)
(* iterator over the database and only has the committed ones.             *)
(*                                                                         *)
(* Who may send a request is left to the accounts; a request here is one   *)
(* that passed verify_tokens_sender or verify_acl.                         *)
(***************************************************************************)
EXTENDS Integers, FiniteSets

CONSTANTS NumAddrs,      \* addresses 1 .. NumAddrs, in the order of their keys
          Anonymous,     \* the anonymous address, when it is one of them
          MaxSymbol,     \* subresource ids 0 .. MaxSymbol, MAX_SUBRESOURCE_ID
          Tickers,       \* tickers a request may name
          ExtKeys,       \* keys of extended information
          Amounts,       \* amounts of a send
          Distributions, \* maps from addresses to amounts, of mint and burn
          Creations,     \* arguments of tokens.create
          Updates,       \* arguments of tokens.update
          GenesisTokens, \* GenesisTokens[s]: the token s at the start
          GenesisBalances, \* GenesisBalances[s][a]
          Supply,        \* bound on the circulating supply
          CounterRange,  \* 2^64: counters wrap around
          MaxCrashes,
          None,          \* no maximum, no owner
          Keep,          \* an argument of an update that is not given
          NoToken, NoTicker, Absent

Addrs == 1 .. NumAddrs

Symbols == 0 .. MaxSymbol

TokenType ==
    [ticker : Tickers, circulating : Nat, total : Nat, maximum : Nat \cup {None},
     owner : Addrs \cup {None}, ext : SUBSET ExtKeys]

StoreType ==
    [next      : 0 .. MaxSymbol + 1,                      \* subresource counter
     tokens    : [Symbols -> TokenType \cup {NoToken}],   \* /config/symbols/{s}
     tickers   : [Symbols -> Tickers \cup {NoTicker}],    \* /config/symbols
     balances  : [Symbols -> [Addrs -> Nat \cup {Absent}]],
     accounts  : 0 .. CounterRange - 1,           \* ACCOUNT_TOTAL_COUNT
     nonzero   : 0 .. CounterRange - 1]           \* NON_ZERO_ACCOUNT_TOTAL_COUNT

IsDistribution(dist) ==
    /\ DOMAIN dist \subseteq Addrs
    /\ \A a \in DOMAIN dist : dist[a] \in Nat

\* No owner given to a creation is its sender; that is resolved here.
CreationType(c) ==
    /\ c = [ticker |-> c.ticker, dist |-> c.dist, maximum |-> c.maximum,
            owner |-> c.owner, ext |-> c.ext]
    /\ c.ticker \in Tickers
    /\ IsDistribution(c.dist)
    /\ c.maximum \in Nat \cup {None}
    /\ c.owner \in Addrs \cup {None}
    /\ c.ext \subseteq ExtKeys

UpdateType ==
    [ticker : Tickers \cup {Keep}, owner : Addrs \cup {None, Keep}]

ASSUME TokensAssumption ==
    /\ NumAddrs \in Nat
    /\ MaxSymbol \in Nat
    /\ Amounts \subseteq Nat
    /\ \A dist \in Distributions : IsDistribution(dist)
    /\ \A c \in Creations : CreationType(c)
    /\ Updates \subseteq UpdateType
    /\ GenesisTokens \in [Symbols -> TokenType \cup {NoToken}]
    /\ GenesisBalances \in [Symbols -> [Addrs -> Nat \cup {Absent}]]
    /\ Supply \in Nat
    /\ CounterRange \in Nat \ {0}
    /\ MaxCrashes \in Nat
    /\ None \notin Nat
    /\ Absent \notin Nat
    /\ NoToken \notin TokenType
    /\ NoTicker \notin Tickers
    /\ Keep \notin Tickers \cup Addrs \cup {None}

VARIABLES store, disk, crashes

vars == <<store, disk, crashes>>

-----------------------------------------------------------------------------
(* Reading the store.                                                      *)

\* The sum of a distribution, in the order of its addresses.
Total(dist) ==
    LET upTo[a \in 0 .. NumAddrs] ==
            IF a = 0 THEN 0
            ELSE upTo[a - 1] + (IF a \in DOMAIN dist THEN dist[a] ELSE 0)
    IN  upTo[NumAddrs]

\* get_balance: no entry is a balance of zero, and anonymous has none.
get_balance(s, a, sym) ==
    IF a = Anonymous \/ s.balances[sym][a] = Absent THEN 0 ELSE s.balances[sym][a]

\* get_symbols: the iterator sees the committed tokens.
get_symbols(d) == {sym \in Symbols : d.tokens[sym] # NoToken}

\* get_multiple_balances for one symbol, an entry or none.
get_multiple_balances(s, d, a, sym) ==
    IF a # Anonymous /\ sym \in get_symbols(d) THEN s.balances[sym][a] ELSE Absent

TickerTaken(s, ticker) == \E sym \in Symbols : s.tickers[sym] = ticker

PutBalances(s, sym, new) ==
    [s EXCEPT !.balances[sym] =
        [a \in Addrs |-> IF a \in DOMAIN new THEN new[a] ELSE @[a]]]

-----------------------------------------------------------------------------
(* The account counters, which only send keeps.                            *)

Wrapped(n) == n % CounterRange

\* Faulty variant: an emptied destination is not counted as non-zero again.
update_account_countNewOnly(s, from, to, amount, sym) ==
    LET isNew == s.balances[sym][to] = Absent
    IN  [s EXCEPT
           !.accounts = Wrapped(@ + (IF isNew THEN 1 ELSE 0)),
           !.nonzero = Wrapped(@ + (IF isNew THEN 1 ELSE 0)
                                 - (IF get_balance(s, from, sym) = amount THEN 1 ELSE 0))]

update_account_count(s, from, to, amount, sym) ==
    LET isNew == s.balances[sym][to] = Absent
    IN  [s EXCEPT
           !.accounts = Wrapped(@ + (IF isNew THEN 1 ELSE 0)),
           !.nonzero = Wrapped(@ + (IF get_balance(s, to, sym) = 0 THEN 1 ELSE 0)
                                 - (IF get_balance(s, from, sym) = amount THEN 1 ELSE 0))]

-----------------------------------------------------------------------------
\* get_data_from_db counts the entries below /balances, and the non-zero ones.
get_data_from_db(balances) ==
    LET entries == {e \in Symbols \X Addrs : balances[e[1]][e[2]] # Absent}
    IN  [accounts |-> Cardinality(entries),
         nonzero  |-> Cardinality({e \in entries : balances[e[1]][e[2]] # 0})]

\* What the addresses have of a token, an address without an entry nothing.
Held(s, sym) ==
    [a \in Addrs |-> IF s.balances[sym][a] = Absent THEN 0 ELSE s.balances[sym][a]]

\* with_balances refuses a balance of an unknown symbol, and with_tokens takes
\* the supply of a token from the balances.  The counters fit their width.
ASSUME GenesisAssumption ==
    /\ \A sym \in Symbols :
          IF GenesisTokens[sym] = NoToken
          THEN \A a \in Addrs : GenesisBalances[sym][a] = Absent
          ELSE /\ GenesisTokens[sym].circulating =
                      Total(Held([balances |-> GenesisBalances], sym))
               /\ GenesisTokens[sym].total = GenesisTokens[sym].circulating
    /\ get_data_from_db(GenesisBalances).accounts < CounterRange

\* with_balances, with_tokens and the data migration.
Init ==
    /\ store = [next     |-> 0,
                tokens   |-> GenesisTokens,
                tickers  |-> [sym \in Symbols |->
                                IF GenesisTokens[sym] = NoToken
                                THEN NoTicker
                                ELSE GenesisTokens[sym].ticker],
                balances |-> GenesisBalances,
                accounts |-> get_data_from_db(GenesisBalances).accounts,
                nonzero  |-> get_data_from_db(GenesisBalances).nonzero]
    /\ disk = store
    /\ crashes = 0

\* A request succeeded; a refused one leaves everything as it was.
Write(s) == store' = s /\ UNCHANGED <<disk, crashes>>

SendRequest(from, to, sym, amount) ==
    /\ from # to
    /\ amount > 0
    /\ Anonymous \notin {from, to}
    /\ amount <= get_balance(store, from, sym)
    /\ Write(PutBalances(update_account_count(store, from, to, amount, sym), sym,
                         [a \in {from, to} |->
                             IF a = to THEN get_balance(store, to, sym) + amount
                                       ELSE get_balance(store, from, sym) - amount]))

\* Circulating and total supply move together.
ChangeSupply(s, sym, by) ==
    [s EXCEPT !.tokens[sym].circulating = @ + by, !.tokens[sym].total = @ + by]

\* Faulty variant: the symbol is looked up where uncommitted tokens are seen.
CanMintAnySymbol(s, d, sym, dist) ==
    /\ s.tokens[sym] # NoToken
    /\ \A a \in DOMAIN dist : dist[a] > 0
    /\ s.tokens[sym].maximum # None =>
          s.tokens[sym].circulating + Total(dist) <= s.tokens[sym].maximum

\* Faulty variant: each amount is compared alone, without the running sum.
CanMintPerAddress(s, d, sym, dist) ==
    /\ sym \in get_symbols(d)
    /\ \A a \in DOMAIN dist :
          /\ dist[a] > 0
          /\ s.tokens[sym].maximum # None =>
                s.tokens[sym].circulating + dist[a] <= s.tokens[sym].maximum

\* check_symbol_exists and the checks of the loop over the distribution: its
\* running sum passes the maximum somewhere exactly if the whole sum does.
CanMint(s, d, sym, dist) ==
    /\ sym \in get_symbols(d)
    /\ \A a \in DOMAIN dist : dist[a] > 0
    /\ s.tokens[sym].maximum # None =>
          s.tokens[sym].circulating + Total(dist) <= s.tokens[sym].maximum

MintRequest(sym, dist) ==
    /\ CanMint(store, disk, sym, dist)
    /\ store.tokens[sym].circulating + Total(dist) <= Supply
    /\ LET balance(a) == get_multiple_balances(store, disk, a, sym)
       IN  Write(ChangeSupply(
                   PutBalances(store, sym,
                               [a \in DOMAIN dist |->
                                   IF balance(a) = Absent THEN dist[a]
                                                          ELSE balance(a) + dist[a]]),
                   sym, Total(dist)))

\* Faulty variant: the funds are not checked.
CanBurnUnfunded(s, d, sym, dist) ==
    /\ sym \in get_symbols(d)
    /\ \A a \in DOMAIN dist :
          dist[a] > 0 /\ get_multiple_balances(s, d, a, sym) # Absent

\* An address without an entry cannot burn, whatever the amount.
CanBurn(s, d, sym, dist) ==
    /\ sym \in get_symbols(d)
    /\ \A a \in DOMAIN dist :
          LET balance == get_multiple_balances(s, d, a, sym)
          IN  dist[a] > 0 /\ balance # Absent /\ dist[a] <= balance

BurnRequest(sym, dist) ==
    /\ CanBurn(store, disk, sym, dist)
    /\ LET balance(a) == get_multiple_balances(store, disk, a, sym)
       IN  Write(ChangeSupply(
                   PutBalances(store, sym, [a \in DOMAIN dist |-> balance(a) - dist[a]]),
                   sym, - Total(dist)))

-----------------------------------------------------------------------------
(* Creation and update.                                                    *)

\* get_next_subresource: the counter, past the committed symbols.
get_next_subresource(s, d) ==
    CHOOSE k \in s.next .. MaxSymbol + 1 :
        /\ k \notin get_symbols(d)
        /\ \A j \in s.next .. k - 1 : j \in get_symbols(d)

NewToken(c) ==
    [ticker |-> c.ticker, circulating |-> Total(c.dist), total |-> Total(c.dist),
     maximum |-> c.maximum, owner |-> c.owner, ext |-> c.ext]

\* The distribution is put as it is; nothing compares it with the maximum.
CreateRequest(c) ==
    LET sym == get_next_subresource(store, disk)
    IN  /\ ~TickerTaken(store, c.ticker)
        /\ sym \in Symbols
        /\ Write(PutBalances([store EXCEPT
                                 !.next = sym + 1,
                                 !.tokens[sym] = NewToken(c),
                                 !.tickers[sym] = c.ticker],
                             sym, c.dist))

\* Faulty variant: a token without an owner passes as one to change.
OwnedOrFinal(s, sym) == s.tokens[sym] # NoToken

\* get_owner finds a token of this block too, but not an owner of an
\* immutable one.
Owned(s, sym) == s.tokens[sym] # NoToken /\ s.tokens[sym].owner # None

CanUpdate(s, d, sym) == Owned(s, sym) /\ sym \in get_symbols(d)

Given(arg, current) == IF arg = Keep THEN current ELSE arg

\* Faulty variant: the map of tickers is not updated.
UpdateOfInfoOnly(s, sym, u) ==
    [s EXCEPT !.tokens[sym].ticker = Given(u.ticker, @),
              !.tokens[sym].owner = Given(u.owner, @)]

\* update_token with update_symbols.
Update(s, sym, u) ==
    [s EXCEPT !.tickers[sym] = Given(u.ticker, @),
              !.tokens[sym].ticker = Given(u.ticker, @),
              !.tokens[sym].owner = Given(u.owner, @)]

UpdateRequest(sym, u) ==
    /\ CanUpdate(store, disk, sym)
    /\ u.ticker # Keep => ~TickerTaken(store, u.ticker)
    /\ Write(Update(store, sym, u))

AddExtendedInfoRequest(sym, keys) ==
    /\ Owned(store, sym)
    /\ Write([store EXCEPT !.tokens[sym].ext = @ \cup keys])

RemoveExtendedInfoRequest(sym, keys) ==
    /\ Owned(store, sym)
    /\ Write([store EXCEPT !.tokens[sym].ext = @ \ keys])

Commit ==
    /\ disk' = store
    /\ UNCHANGED <<store, crashes>>

\* A crash and the load after it.
Restart ==
    /\ crashes < MaxCrashes
    /\ store' = disk
    /\ crashes' = crashes + 1
    /\ UNCHANGED disk

Next ==
    \/ \E from, to \in Addrs, sym \in Symbols, amount \in Amounts :
          SendRequest(from, to, sym, amount)
    \/ \E sym \in Symbols, dist \in Distributions :
          MintRequest(sym, dist) \/ BurnRequest(sym, dist)
    \/ \E c \in Creations : CreateRequest(c)
    \/ \E sym \in Symbols, u \in Updates : UpdateRequest(sym, u)
    \/ \E sym \in Symbols, keys \in SUBSET ExtKeys \ {{}} :
          \/ AddExtendedInfoRequest(sym, keys)
          \/ RemoveExtendedInfoRequest(sym, keys)
    \/ Commit
    \/ Restart

Spec == Init /\ [][Next]_vars

-----------------------------------------------------------------------------
\* Type invariant.
TypeOK ==
    /\ store \in StoreType
    /\ disk \in StoreType
    /\ crashes \in 0 .. MaxCrashes

(***************************************************************************)
(* Of every token the addresses hold exactly the circulating supply that   *)
(* its information gives, in the block as in the database.  Minting in the *)
(* block that creates a token would lose its first distribution: the       *)
(* balances are read past the committed symbols only.                      *)
(***************************************************************************)
SupplyMatchesBalances ==
    \A s \in {store, disk} : \A sym \in Symbols :
        IF s.tokens[sym] = NoToken
        THEN Total(Held(s, sym)) = 0
        ELSE /\ s.tokens[sym].circulating = Total(Held(s, sym))
             /\ s.tokens[sym].total = s.tokens[sym].circulating

(***************************************************************************)
(* No step takes the circulating supply of an existing token above its     *)
(* maximum.                                                                *)
(***************************************************************************)
MintWithinMaximum ==
    [][\A sym \in Symbols :
          (/\ store.tokens[sym] # NoToken
           /\ store'.tokens[sym] # NoToken
           /\ store'.tokens[sym].circulating > store.tokens[sym].circulating
           /\ store.tokens[sym].maximum # None
           /\ UNCHANGED crashes)
          => store'.tokens[sym].circulating <= store'.tokens[sym].maximum]_vars

(***************************************************************************)
(* The legacy map of tickers and the information of the tokens agree, and  *)
(* no two tokens have the same ticker.                                     *)
(***************************************************************************)
TickersAgree ==
    /\ \A sym \in Symbols :
          store.tickers[sym] = IF store.tokens[sym] = NoToken
                               THEN NoTicker
                               ELSE store.tokens[sym].ticker
    /\ \A s1, s2 \in Symbols :
          s1 # s2 /\ store.tickers[s1] # NoTicker
          => store.tickers[s1] # store.tickers[s2]

(***************************************************************************)
(* A committed token is never replaced, and once it has no owner its       *)
(* ticker, owner, maximum and extended information are settled for ever.   *)
(***************************************************************************)
ImmutableForever ==
    [][\A sym \in get_symbols(disk) :
          /\ disk'.tokens[sym] # NoToken
          /\ disk'.tokens[sym].maximum = disk.tokens[sym].maximum
          /\ disk.tokens[sym].owner = None =>
                /\ disk'.tokens[sym].owner = None
                /\ disk'.tokens[sym].ticker = disk.tokens[sym].ticker
                /\ disk'.tokens[sym].ext = disk.tokens[sym].ext]_vars

Entries(s) == {e \in Symbols \X Addrs : s.balances[e[1]][e[2]] # Absent}

NonZero(s) == {e \in Symbols \X Addrs : get_balance(s, e[2], e[1]) > 0}

(***************************************************************************)
(* A send moves both counters as it moves the balances: by the entries, of *)
(* an address and a symbol, that are new, and by those that become zero or *)
(* non-zero.                                                               *)
(***************************************************************************)
SendsAreCounted ==
    [][(/\ store'.balances # store.balances
        /\ store'.tokens = store.tokens
        /\ UNCHANGED crashes)
       => /\ Wrapped(store'.accounts - store.accounts) =
                Wrapped(Cardinality(Entries(store')) - Cardinality(Entries(store)))
          /\ Wrapped(store'.nonzero - store.nonzero) =
                Wrapped(Cardinality(NonZero(store')) - Cardinality(NonZero(store)))]_vars
=============================================================================
