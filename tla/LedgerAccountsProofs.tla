------------------------- MODULE LedgerAccountsProofs -------------------------
(***************************************************************************)
(* Proofs about LedgerAccounts: type correctness, addresses given once,    *)
(* creations that are complete, and thresholds that can be reached.        *)
(*                                                                         *)
(* Addresses are given once because every address in use lies below the    *)
(* counter it was numbered with, or is a symbol of the initial state that  *)
(* the search for a free number passes over.  Both have to hold of what is *)
(* in memory and of what is committed, with the keys of before or after    *)
(* the migration.                                                          *)
(***************************************************************************)
EXTENDS LedgerAccounts, Induction, FiniteSetTheorems, SequenceTheorems

-----------------------------------------------------------------------------
(* What holds of a tree.                                                   *)

\* An address an account or a token of a request has, or may get.
InUse(s, c, a) ==
    \/ \E i \in DOMAIN s.events : s.events[i] = a
    \/ s.accounts[a] # None
    \/ a \in s.symbols \cup s.infos /\ a \notin c.symbols

\* The counters are past every address in use, and the symbols of the initial
\* state are where get_symbols looks for them.
Numbered(s, c, on) ==
    /\ \A a \in Addresses : InUse(s, c, a) =>
          IF on THEN a[2] < s.counter[a[1]] ELSE a[1] = Root /\ a[2] < s.legacy
    /\ on => c.symbols \subseteq s.infos
    /\ ~on => s.symbols = c.symbols /\ s.infos = {} /\ s.identity["account"] = Root
    /\ \A i, j \in DOMAIN s.events : i # j => s.events[i] # s.events[j]
    /\ \A a \in Addresses : s.accounts[a] # None => a \notin c.symbols /\ a \notin s.symbols

Reached(account) ==
    "multisig" \in account.features => Quorum(account) \in 1 .. Cardinality(Holders(account))

Reachable(s) ==
    \A i \in DOMAIN s.events :
        s.accounts[s.events[i]] # None => Reached(s.accounts[s.events[i]])

NoThresholds == \A args \in Creations \cup AddedFeatures : args.threshold = None

Fine(s, c, on, lost) ==
    /\ s \in StoreType
    /\ lost \/ Numbered(s, c, on)
    /\ lost \/ (NoThresholds => Reachable(s))

\* A creation of the log has its account or its token, or is one of rest.
Complete(s, rest) ==
    \A i \in DOMAIN s.events :
        \/ s.accounts[s.events[i]] # None
        \/ s.events[i] \in s.infos /\ s.events[i] \in s.symbols
        \/ s.events[i] \in rest

Waits(cr) == IF cr = None THEN {} ELSE {cr.address}

\* The migration is active at height h.
IsOn(c, h) == c.migrate # None /\ h >= c.migrate

Pending ==
    creating # None =>
        /\ creating \in Unfinished
        /\ creating.kind = "account" => creating.account \in AccountType
        /\ creating.kind = "token" => creating.address \in store.symbols
        /\ \E i \in DOMAIN store.events : store.events[i] = creating.address
        /\ ~Lost =>
              /\ store.accounts[creating.address] = None
              /\ creating.address \notin config.symbols \cup store.infos
              /\ creating.kind = "account" => creating.address \notin store.symbols
              /\ creating.kind = "account" /\ NoThresholds => Reached(creating.account)

IInv ==
    /\ config \in Configs
    /\ store.height = disk.height
    /\ active \in BOOLEAN /\ Lost \in BOOLEAN
    /\ active <=> IsOn(config, store.height)
    /\ ~config.blockchain => disk = store
    /\ interrupted \subseteq Addresses
    /\ Pending
    /\ Fine(store, config, active, Lost)
    /\ Fine(disk, config, active, Lost)
    /\ Complete(store, interrupted \cup Waits(creating))
    /\ Complete(disk, interrupted \cup (IF config.blockchain THEN {} ELSE Waits(creating)))

-----------------------------------------------------------------------------
(* Numbers.                                                                *)

LEMMA ConfigFacts ==
    ASSUME NEW c \in Configs
    PROVE  /\ c \in ConfigType
           /\ c.migrate \in (0 .. MaxHeight) \cup {None} /\ c.accounts \in Nat
           /\ c.next \in 0 .. MaxSubresource
           /\ c.symbols \subseteq Addresses /\ c.blockchain \in BOOLEAN
           /\ c.token \in Identities \cup {None} /\ c.account \in Identities \cup {None}
           /\ c.migrate \notin {0, None} => c.token \in Identities /\ c.symbol \in c.symbols
<1>1. c \in ConfigType /\ (c.migrate \notin {0, None} => Migratable(c))
  BY AccountsAssumption
<1> QED BY <1>1 DEF ConfigType, Migratable

LEMMA NoneFacts ==
    /\ None \notin AccountType /\ None \notin Nat
    /\ MaxSubresource \in Nat /\ MaxHeight \in Nat
    /\ Root \in Identities
    /\ \A c \in Identities : c # None
BY AccountsAssumption DEF Identities

LEMMA StoreFields ==
    ASSUME NEW s \in StoreType
    PROVE  /\ s.legacy \in 0 .. MaxSubresource + 1
           /\ s.counter \in [Identities -> 0 .. MaxSubresource + 1]
           /\ s.identity \in [{"account", "token"} -> Identities]
           /\ s.symbols \subseteq Addresses /\ s.infos \subseteq Addresses
           /\ s.accounts \in [Addresses -> AccountType \cup {None}]
           /\ s.events \in Seq(Addresses)
           /\ s.height \in 0 .. MaxHeight
BY DEF StoreType

\* The number get_next_subresource stops at.
LEMMA NextFacts ==
    ASSUME NEW s \in StoreType, NEW d, NEW on \in BOOLEAN,
           NEW kind \in {"account", "token"}, CanNumber(s, d, on, kind),
           NEW a, a = get_next_subresource(s, d, on, kind)
    PROVE  /\ a \in Addresses /\ a = <<a[1], a[2]>>
           /\ a[1] = s.identity[kind] /\ a[1] \in Identities
           /\ a[2] \in 0 .. MaxSubresource
           /\ a[2] >= get_subresource_counter(s, on, a[1])
           /\ a \notin get_symbols(s, d, on)
<1> DEFINE id == s.identity[kind]
           free == FreeNumbers(s, d, on, id)
           n == NextNumber(s, d, on, kind)
<1>1. id \in Identities /\ get_subresource_counter(s, on, id) \in Nat
  BY StoreFields, NoneFacts DEF get_subresource_counter
<1>2. free # {} /\ free \in SUBSET Nat
  BY <1>1, NoneFacts DEF CanNumber, FreeNumbers
<1>3. \E k \in free : \A m \in free : k <= m
  <2> HIDE DEF free
  <2> QED BY <1>2, LeastOf
<1>4. n \in free
  BY <1>3 DEF NextNumber
<1>5. /\ n \in get_subresource_counter(s, on, id) .. MaxSubresource
      /\ <<id, n>> \notin get_symbols(s, d, on)
  BY <1>4 DEF FreeNumbers
<1>6. a = <<id, n>>
  BY DEF get_next_subresource
<1> HIDE DEF id, n
<1>7. n \in 0 .. MaxSubresource /\ n >= get_subresource_counter(s, on, id)
  BY <1>1, <1>5, NoneFacts
<1>8. a[1] = id /\ a[2] = n /\ a \in Addresses
  BY <1>1, <1>6, <1>7 DEF Addresses
<1> QED BY <1>1, <1>5, <1>6, <1>7, <1>8 DEF id

\* The tree after the counter moved.
LEMMA CountedFacts ==
    ASSUME NEW s \in StoreType, NEW on \in BOOLEAN, NEW id \in Identities,
           NEW n \in 0 .. MaxSubresource, NEW r, r = Counted(s, on, id, n)
    PROVE  /\ r \in StoreType
           /\ r.identity = s.identity /\ r.symbols = s.symbols /\ r.infos = s.infos
           /\ r.accounts = s.accounts /\ r.events = s.events /\ r.height = s.height
           /\ on => /\ r.legacy = s.legacy /\ r.counter[id] = n + 1
                    /\ \A x \in Identities \ {id} : r.counter[x] = s.counter[x]
           /\ ~on => r.legacy = n + 1 /\ r.counter = s.counter
<1>1. n + 1 \in 0 .. MaxSubresource + 1
  BY NoneFacts
<1>2. CASE on
  <2> DEFINE counter == [s.counter EXCEPT ![id] = n + 1]
  <2>1. counter \in [Identities -> 0 .. MaxSubresource + 1]
    BY <1>1, StoreFields
  <2>2. counter[id] = n + 1 /\ \A x \in Identities \ {id} : counter[x] = s.counter[x]
    BY StoreFields
  <2>3. r = [s EXCEPT !.counter = counter]
    BY <1>2 DEF Counted, key_for_subresource_counter, StoreType
  <2> HIDE DEF counter
  <2>4. /\ r \in StoreType /\ r.counter = counter
        /\ r.identity = s.identity /\ r.symbols = s.symbols /\ r.infos = s.infos
        /\ r.accounts = s.accounts /\ r.events = s.events /\ r.height = s.height
        /\ r.legacy = s.legacy
    BY <2>1, <2>3 DEF StoreType
  <2> QED BY <1>2, <2>2, <2>4
<1>3. CASE ~on
  <2>1. r = [s EXCEPT !.legacy = n + 1]
    BY <1>3 DEF Counted, key_for_subresource_counter
  <2>2. /\ r \in StoreType /\ r.legacy = n + 1 /\ r.counter = s.counter
        /\ r.identity = s.identity /\ r.symbols = s.symbols /\ r.infos = s.infos
        /\ r.accounts = s.accounts /\ r.events = s.events /\ r.height = s.height
    BY <1>1, <2>1 DEF StoreType
  <2> QED BY <1>3, <2>2
<1> QED BY <1>2, <1>3

\* A tree with a new row for an account.
Rewritten(s, a, row) == [s EXCEPT !.accounts[a] = row]

LEMMA RewrittenFacts ==
    ASSUME NEW s \in StoreType, NEW a \in Addresses, NEW row \in AccountType,
           NEW r, r = Rewritten(s, a, row)
    PROVE  /\ r \in StoreType
           /\ r.identity = s.identity /\ r.symbols = s.symbols /\ r.infos = s.infos
           /\ r.legacy = s.legacy /\ r.counter = s.counter
           /\ r.events = s.events /\ r.height = s.height
           /\ r.accounts[a] = row
           /\ \A x \in Addresses \ {a} : r.accounts[x] = s.accounts[x]
<1> DEFINE rows == [s.accounts EXCEPT ![a] = row]
<1>1. rows \in [Addresses -> AccountType \cup {None}]
  BY StoreFields
<1>2. rows[a] = row /\ \A x \in Addresses \ {a} : rows[x] = s.accounts[x]
  BY StoreFields
<1>3. r = [s EXCEPT !.accounts = rows]
  BY DEF Rewritten, StoreType
<1> HIDE DEF rows
<1>4. /\ r \in StoreType /\ r.accounts = rows
      /\ r.identity = s.identity /\ r.symbols = s.symbols /\ r.infos = s.infos
      /\ r.legacy = s.legacy /\ r.counter = s.counter
      /\ r.events = s.events /\ r.height = s.height
  BY <1>1, <1>3 DEF StoreType
<1> QED BY <1>2, <1>4

\* An address with a new number is not in use, nor a symbol.
LEMMA NewIsUnused ==
    ASSUME NEW c \in Configs, NEW s \in StoreType, NEW d, NEW on \in BOOLEAN,
           NEW kind \in {"account", "token"}, ~on => kind = "account",
           Numbered(s, c, on), on => c.symbols \subseteq d.infos,
           CanNumber(s, d, on, kind), NEW a, a = get_next_subresource(s, d, on, kind)
    PROVE  /\ ~InUse(s, c, a) /\ s.accounts[a] = None
           /\ a \notin c.symbols /\ a \notin s.symbols /\ a \notin s.infos
           /\ ~on => a[1] = Root
<1>1. /\ a \in Addresses /\ a[1] = s.identity[kind] /\ a[1] \in Identities
      /\ a[2] \in 0 .. MaxSubresource
      /\ a[2] >= get_subresource_counter(s, on, a[1])
      /\ a \notin get_symbols(s, d, on)
  BY NextFacts
<1>2. s.legacy \in Nat /\ s.counter[a[1]] \in Nat /\ a[2] \in Nat
  BY <1>1, StoreFields, NoneFacts
<1>3. ~InUse(s, c, a)
  <2>1. CASE on
    <3>1. a[2] >= s.counter[a[1]]
      BY <1>1, <2>1 DEF get_subresource_counter
    <3>2. InUse(s, c, a) => a[2] < s.counter[a[1]]
      BY <1>1, <2>1 DEF Numbered
    <3> QED BY <1>2, <3>1, <3>2
  <2>2. CASE ~on
    <3>1. a[2] >= s.legacy
      BY <1>1, <2>2 DEF get_subresource_counter
    <3>2. InUse(s, c, a) => a[2] < s.legacy
      BY <1>1, <2>2 DEF Numbered
    <3> QED BY <1>2, <3>1, <3>2
  <2> QED BY <2>1, <2>2
<1>4. a \notin c.symbols
  BY <1>1 DEF get_symbols, Numbered
<1>5. ~on => a[1] = Root
  BY <1>1 DEF Numbered
<1> QED BY <1>3, <1>4, <1>5 DEF InUse

-----------------------------------------------------------------------------
(* The initial state.                                                      *)

GenesisStep(c, s) ==
    WithAccount(s, c.migrate = 0, get_next_subresource(s, WithTokens(c), c.migrate = 0, "account"))

\* f is the first n accounts of the initial state, one after the other.
Builds(f, c, n) ==
    f = [i \in 0 .. n |-> IF i = 0 THEN WithTokens(c) ELSE GenesisStep(c, f[i - 1])]

LEMMA BuildsExist ==
    ASSUME NEW c \in Configs
    PROVE  \E f : Builds(f, c, c.accounts)
<1> DEFINE N == c.accounts
           S == {n \in 0 .. N : \E f : Builds(f, c, n)}
<1>1. N \in Nat
  BY ConfigFacts
<1>2. 0 \in S
  <2> DEFINE g == [i \in 0 .. 0 |-> WithTokens(c)]
  <2>1. g = [i \in 0 .. 0 |-> IF i = 0 THEN WithTokens(c) ELSE GenesisStep(c, g[i - 1])]
    OBVIOUS
  <2> HIDE DEF g
  <2>2. Builds(g, c, 0)
    BY <2>1 DEF Builds
  <2> QED BY <1>1, <2>2
<1>3. ASSUME NEW n \in S, n < N PROVE n + 1 \in S
  <2>1. PICK f : Builds(f, c, n)
    OBVIOUS
  <2>2. n \in Nat /\ n + 1 \in 0 .. N
    BY <1>1, <1>3
  <2> DEFINE g == [i \in 0 .. n + 1 |-> IF i <= n THEN f[i] ELSE GenesisStep(c, f[n])]
             h == [i \in 0 .. n + 1 |-> IF i = 0 THEN WithTokens(c) ELSE GenesisStep(c, g[i - 1])]
  <2>3. ASSUME NEW i \in 0 .. n + 1 PROVE g[i] = h[i]
    <3>1. CASE i = 0
      <4>1. g[i] = f[0]
        BY <2>2, <3>1
      <4>2. f[0] = WithTokens(c)
        BY <2>1, <2>2 DEF Builds
      <4> QED BY <3>1, <4>1, <4>2
    <3>2. CASE i \in 1 .. n
      <4>1. g[i] = f[i] /\ g[i - 1] = f[i - 1]
        BY <2>2, <3>2
      <4>2. f[i] = GenesisStep(c, f[i - 1])
        <5>1. i \in 0 .. n /\ i # 0
          BY <2>2, <3>2
        <5> QED BY <2>1, <5>1 DEF Builds
      <4>3. h[i] = GenesisStep(c, g[i - 1])
        BY <2>2, <3>2
      <4> QED BY <4>1, <4>2, <4>3
    <3>3. CASE i = n + 1
      <4>1. g[i - 1] = f[n] /\ g[i] = GenesisStep(c, f[n])
        BY <2>2, <3>3
      <4>2. h[i] = GenesisStep(c, g[i - 1])
        BY <2>2, <3>3
      <4> QED BY <4>1, <4>2
    <3> QED BY <2>2, <3>1, <3>2, <3>3
  <2>4. g = h
    <3>1. DOMAIN g = 0 .. n + 1 /\ DOMAIN h = 0 .. n + 1
      OBVIOUS
    <3>2. g = [i \in 0 .. n + 1 |-> g[i]] /\ h = [i \in 0 .. n + 1 |-> h[i]]
      OBVIOUS
    <3> HIDE DEF g, h
    <3>3. [i \in 0 .. n + 1 |-> g[i]] = [i \in 0 .. n + 1 |-> h[i]]
      BY <2>3
    <3> QED BY <3>2, <3>3
  <2>5. Builds(g, c, n + 1)
    BY <2>4 DEF Builds
  <2> HIDE DEF g
  <2> QED BY <2>2, <2>5
<1>4. S \in SUBSET (0 .. N)
  OBVIOUS
<1> HIDE DEF S
<1>5. S = 0 .. N
  BY <1>1, <1>2, <1>3, <1>4, InductionUpTo
<1>6. N \in S
  BY <1>1, <1>5
<1> QED BY <1>6 DEF S

LEMMA AccountsAfterBuilds ==
    ASSUME NEW c \in Configs
    PROVE  Builds(AccountsAfter(c), c, c.accounts)
<1> DEFINE N == c.accounts
           P(f) == f = [i \in 0 .. N |-> IF i = 0 THEN WithTokens(c)
                         ELSE WithAccount(f[i - 1], c.migrate = 0,
                                 get_next_subresource(f[i - 1], WithTokens(c), c.migrate = 0, "account"))]
<1>1. \A f : Builds(f, c, N) <=> P(f)
  BY DEF Builds, GenesisStep
<1>2. \E f : P(f)
  BY <1>1, BuildsExist
<1>3. AccountsAfter(c) = CHOOSE f : P(f)
  BY DEF AccountsAfter
<1>4. P(AccountsAfter(c))
  <2> HIDE DEF P
  <2> QED BY <1>2, <1>3
<1> QED BY <1>1, <1>4

\* An account without roles, as the initial state has them.
LEMMA GenesisAccountType == GenesisAccount \in AccountType
<1> DEFINE plain == [roles |-> [u \in Users |-> {}], features |-> {"multisig"}, threshold |-> None]
<1>1. plain \in AccountType
  BY DEF AccountType, RoleMap, Features
<1>2. DefaultThreshold(plain) \in Nat
  <2>1. Holders(plain) \subseteq Users
    BY DEF Holders
  <2> QED BY <2>1, AccountsAssumption, FS_Subset, FS_CardinalityType DEF DefaultThreshold
<1>3. GenesisAccount = [plain EXCEPT !.threshold = DefaultThreshold(plain)]
  BY DEF GenesisAccount, AddedAccount
<1> HIDE DEF plain
<1> QED BY <1>1, <1>2, <1>3 DEF AccountType

\* What holds while the initial state is built.
Built(s, c) ==
    /\ s \in StoreType
    /\ Numbered(s, c, c.migrate = 0)
    /\ s.symbols = c.symbols
    /\ s.infos = IF c.migrate = 0 THEN c.symbols ELSE {}
    /\ s.events = <<>>
    /\ s.height = 0

LEMMA WithTokensBuilt ==
    ASSUME NEW c \in Configs
    PROVE  Built(WithTokens(c), c)
<1> DEFINE s == WithTokens(c)
           on == c.migrate = 0
           token == IF on /\ c.token # None THEN c.token ELSE Root
           account == IF on /\ c.account # None THEN c.account ELSE Root
           counter == [id \in Identities |-> IF on /\ id = token THEN c.next ELSE 0]
           identity == [kind \in {"account", "token"} |-> IF kind = "token" THEN token ELSE account]
           rows == [a \in Addresses |-> None]
<1>1. token \in Identities /\ account \in Identities
  BY ConfigFacts, NoneFacts
<1>2. counter \in [Identities -> 0 .. MaxSubresource + 1]
  BY ConfigFacts, NoneFacts
<1>3. identity \in [{"account", "token"} -> Identities] /\ (~on => identity["account"] = Root)
  BY <1>1
<1>4. rows \in [Addresses -> AccountType \cup {None}] /\ \A a \in Addresses : rows[a] = None
  OBVIOUS
<1>5. s = [legacy |-> 0, counter |-> counter, identity |-> identity, symbols |-> c.symbols,
           infos |-> IF on THEN c.symbols ELSE {}, accounts |-> rows, events |-> <<>>, height |-> 0]
  BY DEF WithTokens
<1> HIDE DEF counter, identity, rows, on, s
<1>6. s \in StoreType
  BY <1>2, <1>3, <1>4, <1>5, ConfigFacts, NoneFacts, EmptySeq DEF StoreType
<1>7. /\ s.identity = identity /\ s.symbols = c.symbols /\ s.accounts = rows
      /\ s.infos = (IF on THEN c.symbols ELSE {}) /\ s.events = <<>> /\ s.height = 0
  BY <1>5
<1>8. DOMAIN s.events = {}
  BY <1>7, EmptySeq
<1>9. \A a \in Addresses : ~InUse(s, c, a) /\ s.accounts[a] = None
  BY <1>4, <1>7, <1>8 DEF InUse
<1>10. Numbered(s, c, on)
  BY <1>3, <1>7, <1>8, <1>9 DEF Numbered
<1> QED BY <1>6, <1>7, <1>10 DEF Built, on, s

Below(s, c, on) ==
    \A a \in Addresses : InUse(s, c, a) =>
        IF on THEN a[2] < s.counter[a[1]] ELSE a[1] = Root /\ a[2] < s.legacy

\* The counter moves past the one address that comes into use.
LEMMA AdvanceKeeps ==
    ASSUME NEW c, NEW s \in StoreType, NEW on \in BOOLEAN, NEW a \in Addresses,
           a[1] \in Identities, a[2] \in 0 .. MaxSubresource,
           Below(s, c, on), a[2] >= get_subresource_counter(s, on, a[1]),
           ~on => a[1] = Root,
           NEW t, t = Counted(s, on, a[1], a[2]),
           NEW r, r.counter = t.counter, r.legacy = t.legacy,
           \A x \in Addresses : InUse(r, c, x) => InUse(s, c, x) \/ x = a
    PROVE  Below(r, c, on)
<1>1. /\ on => /\ t.counter[a[1]] = a[2] + 1
               /\ \A x \in Identities \ {a[1]} : t.counter[x] = s.counter[x]
      /\ ~on => t.legacy = a[2] + 1
  BY CountedFacts
<1>2. SUFFICES ASSUME NEW x \in Addresses, InUse(r, c, x)
               PROVE  IF on THEN x[2] < r.counter[x[1]] ELSE x[1] = Root /\ x[2] < r.legacy
  BY DEF Below
<1>3. x[1] \in Identities /\ x[2] \in Nat /\ a[2] \in Nat
  BY DEF Addresses
<1>4. s.legacy \in Nat /\ s.counter[x[1]] \in Nat /\ s.counter[a[1]] \in Nat
  BY <1>3, StoreFields
<1>5. CASE on
  <2>1. a[2] >= s.counter[a[1]]
    BY <1>5 DEF get_subresource_counter
  <2> DEFINE id == x[1]
             k == x[2]
             new == r.counter[id]
             old == s.counter[id]
             n == a[2]
  <2>2. id \in Identities /\ k \in Nat /\ n \in Nat /\ old \in Nat
    BY <1>3, <1>4
  <2>3. id = a[1] => new = n + 1 /\ n >= old
    BY <1>1, <1>5, <2>1
  <2>4. id # a[1] => new = old
    BY <1>1, <1>5, <2>2
  <2>5. x = a => id = a[1] /\ k = n
    OBVIOUS
  <2>6. x # a => k < old
    BY <1>2, <1>5 DEF Below
  <2> HIDE DEF id, k, new, old, n
  <2>7. k < new
    BY <2>2, <2>3, <2>4, <2>5, <2>6
  <2> QED BY <1>5, <2>7 DEF id, k, new
<1>6. CASE ~on
  <2>1. a[2] >= s.legacy /\ a[1] = Root /\ r.legacy = a[2] + 1
    BY <1>1, <1>6 DEF get_subresource_counter
  <2>2. CASE x = a
    BY <1>3, <1>6, <2>1, <2>2
  <2>3. CASE x # a
    <3>1. x[1] = Root /\ x[2] < s.legacy
      BY <1>2, <1>6, <2>3 DEF Below
    <3> QED BY <1>3, <1>4, <1>6, <2>1, <3>1
  <2> QED BY <2>2, <2>3
<1> QED BY <1>5, <1>6

\* One account more.
LEMMA GenesisStepBuilt ==
    ASSUME NEW c \in Configs, NEW s, Built(s, c),
           CanNumber(s, WithTokens(c), c.migrate = 0, "account")
    PROVE  Built(GenesisStep(c, s), c)
<1> DEFINE on == c.migrate = 0
           d == WithTokens(c)
           a == get_next_subresource(s, d, on, "account")
           t == Counted(s, on, a[1], a[2])
           r == GenesisStep(c, s)
<1>1. s \in StoreType /\ on \in BOOLEAN /\ Numbered(s, c, on) /\ CanNumber(s, d, on, "account")
  BY DEF Built
<1>2. on => c.symbols \subseteq d.infos
  BY WithTokensBuilt DEF Built
<1>3. a = get_next_subresource(s, d, on, "account") /\ t = Counted(s, on, a[1], a[2])
  OBVIOUS
<1>4. r = Rewritten(t, a, GenesisAccount)
  BY DEF GenesisStep, WithAccount, Rewritten
<1> HIDE DEF on, d, a, t, r
<1>5. /\ a \in Addresses /\ a[1] \in Identities /\ a[2] \in 0 .. MaxSubresource
      /\ a[2] >= get_subresource_counter(s, on, a[1])
  BY <1>1, <1>3, NextFacts
<1>6. /\ ~InUse(s, c, a) /\ a \notin c.symbols /\ a \notin s.symbols
      /\ ~on => a[1] = Root
  BY <1>1, <1>2, <1>3, NewIsUnused
<1>7. /\ t \in StoreType
      /\ t.identity = s.identity /\ t.symbols = s.symbols /\ t.infos = s.infos
      /\ t.accounts = s.accounts /\ t.events = s.events /\ t.height = s.height
  BY <1>1, <1>3, <1>5, CountedFacts
<1>8. /\ r \in StoreType
      /\ r.identity = s.identity /\ r.symbols = s.symbols /\ r.infos = s.infos
      /\ r.legacy = t.legacy /\ r.counter = t.counter
      /\ r.events = s.events /\ r.height = s.height
      /\ \A x \in Addresses \ {a} : r.accounts[x] = s.accounts[x]
  BY <1>4, <1>5, <1>7, RewrittenFacts, GenesisAccountType
<1>9. \A x \in Addresses : InUse(r, c, x) => InUse(s, c, x) \/ x = a
  BY <1>8 DEF InUse
<1>10. Below(s, c, on)
  BY <1>1 DEF Numbered, Below
<1>11. Below(r, c, on)
  BY <1>1, <1>3, <1>5, <1>6, <1>8, <1>9, <1>10, AdvanceKeeps
<1>12. \A x \in Addresses : r.accounts[x] # None => x \notin c.symbols /\ x \notin r.symbols
  BY <1>1, <1>6, <1>8 DEF Numbered
<1>13. Numbered(r, c, on)
  BY <1>1, <1>8, <1>11, <1>12 DEF Numbered, Below
<1> QED BY <1>8, <1>13 DEF Built, on, r

LEMMA WithAccountsBuilt ==
    ASSUME NEW c \in Configs
    PROVE  Built(WithAccounts(c), c)
<1> DEFINE f == AccountsAfter(c)
           N == c.accounts
           S == {n \in 0 .. N : Built(f[n], c)}
<1>1. Builds(f, c, N) /\ N \in Nat
  BY AccountsAfterBuilds, ConfigFacts
<1>2. f[0] = WithTokens(c) /\ \A i \in 1 .. N : f[i] = GenesisStep(c, f[i - 1])
  <2> HIDE DEF f, N
  <2> QED BY <1>1 DEF Builds
<1>3. \A i \in 0 .. N - 1 : CanNumber(f[i], WithTokens(c), c.migrate = 0, "account")
  BY GenesisAssumption
<1> HIDE DEF f, N
<1>4. 0 \in S
  BY <1>1, <1>2, WithTokensBuilt
<1>5. ASSUME NEW n \in S, n < N PROVE n + 1 \in S
  <2>1. n \in 0 .. N - 1 /\ n + 1 \in 1 .. N /\ n + 1 - 1 = n
    BY <1>1, <1>5
  <2>2. f[n + 1] = GenesisStep(c, f[n])
    BY <1>2, <2>1
  <2>3. Built(f[n + 1], c)
    BY <1>3, <2>1, <2>2, GenesisStepBuilt
  <2> QED BY <1>1, <2>1, <2>3
<1>6. S \in SUBSET (0 .. N)
  OBVIOUS
<1> HIDE DEF S
<1>7. S = 0 .. N
  BY <1>1, <1>4, <1>5, <1>6, InductionUpTo
<1>8. N \in S
  BY <1>1, <1>7
<1> QED BY <1>8 DEF S, f, N, WithAccounts

LEMMA InitHolds == Init => IInv
<1> SUFFICES ASSUME Init PROVE IInv
  OBVIOUS
<1>1. /\ config \in Configs /\ store = WithAccounts(config) /\ disk = store
      /\ active = (config.migrate = 0) /\ creating = None /\ interrupted = {} /\ Lost = FALSE
  BY DEF Init, Lost
<1>2. Built(store, config)
  BY <1>1, WithAccountsBuilt
<1>3. store.height = 0 /\ store.events = <<>> /\ DOMAIN store.events = {}
  BY <1>2, EmptySeq DEF Built
<1>4. active <=> IsOn(config, store.height)
  <2>1. IsOn(config, 0) <=> config.migrate = 0
    <3> DEFINE m == config.migrate
    <3>1. m \in (0 .. MaxHeight) \cup {None} /\ MaxHeight \in Nat /\ None # 0
      BY <1>1, ConfigFacts, NoneFacts
    <3> HIDE DEF m
    <3>2. m # None /\ 0 >= m <=> m = 0
      BY <3>1
    <3> QED BY <3>2 DEF IsOn, m
  <2> QED BY <1>1, <1>3, <2>1
<1>5. Fine(store, config, active, Lost)
  BY <1>1, <1>2, <1>3 DEF Fine, Built, Reachable
<1>6. \A rest : Complete(store, rest)
  BY <1>3 DEF Complete
<1>7. Pending
  BY <1>1 DEF Pending
<1> QED BY <1>1, <1>4, <1>5, <1>6, <1>7 DEF IInv

-----------------------------------------------------------------------------
(* Requests.                                                               *)

\* What a change of the tree keeps, whether it is committed at once or not.
LEMMA AppliedKeeps ==
    ASSUME IInv, NEW r, Applied(r), Fine(r, config, active, Lost), r.height = store.height
    PROVE  /\ store' = r
           /\ disk' = IF config.blockchain THEN disk ELSE r
           /\ store'.height = disk'.height /\ store'.height = store.height
           /\ ~config.blockchain => disk' = store'
           /\ Fine(store', config, active, Lost)
           /\ Fine(disk', config, active, Lost)
BY DEF Applied, IInv

\* Address a in the log, and in the symbol list if it is that of a token.
Logged(t, a, kind) ==
    [t EXCEPT !.events = Append(@, a), !.symbols = IF kind = "token" THEN @ \cup {a} ELSE @]

LEMMA LoggedFacts ==
    ASSUME NEW t \in StoreType, NEW a \in Addresses, NEW kind, NEW r, r = Logged(t, a, kind)
    PROVE  /\ r \in StoreType
           /\ r.identity = t.identity /\ r.infos = t.infos /\ r.accounts = t.accounts
           /\ r.legacy = t.legacy /\ r.counter = t.counter /\ r.height = t.height
           /\ kind = "token" => r.symbols = t.symbols \cup {a}
           /\ kind # "token" => r.symbols = t.symbols
           /\ Len(t.events) \in Nat /\ DOMAIN t.events = 1 .. Len(t.events)
           /\ DOMAIN r.events = 1 .. Len(t.events) + 1
           /\ r.events[Len(t.events) + 1] = a
           /\ \A i \in DOMAIN t.events : r.events[i] = t.events[i]
<1> DEFINE log == Append(t.events, a)
           listed == IF kind = "token" THEN t.symbols \cup {a} ELSE t.symbols
<1>1. t.events \in Seq(Addresses) /\ t.symbols \subseteq Addresses
  BY StoreFields
<1>2. /\ log \in Seq(Addresses) /\ Len(t.events) \in Nat /\ DOMAIN t.events = 1 .. Len(t.events)
      /\ DOMAIN log = 1 .. Len(t.events) + 1
      /\ log[Len(t.events) + 1] = a
      /\ \A i \in DOMAIN t.events : log[i] = t.events[i]
  BY <1>1, AppendProperties, LenProperties
<1>3. listed \subseteq Addresses
  BY <1>1
<1>4. r = [t EXCEPT !.events = log, !.symbols = listed]
  BY DEF Logged
<1> HIDE DEF log, listed
<1>5. /\ r \in StoreType /\ r.events = log /\ r.symbols = listed
      /\ r.identity = t.identity /\ r.infos = t.infos /\ r.accounts = t.accounts
      /\ r.legacy = t.legacy /\ r.counter = t.counter /\ r.height = t.height
  BY <1>2, <1>3, <1>4 DEF StoreType
<1> QED BY <1>2, <1>5 DEF listed

LEMMA NumberKeeps ==
    ASSUME IInv, NEW kind \in {"account", "token"}, ~active => kind = "account",
           NEW rest \in AccountType \cup {None}, kind = "account" => rest \in AccountType,
           kind = "account" /\ NoThresholds => Reached(rest),
           Number(kind, rest)
    PROVE  IInv'
<1> DEFINE s == store
           a == get_next_subresource(s, disk, active, kind)
           t == Counted(s, active, a[1], a[2])
           r == Logged(t, a, kind)
           n == Len(t.events) + 1
<1>1. /\ creating = None /\ CanNumber(s, disk, active, kind)
      /\ Applied(r)
      /\ creating' = [kind |-> kind, address |-> a, account |-> rest]
      /\ UNCHANGED <<config, active, interrupted, Lost, crashes>>
  BY DEF Number, Logged, Lost
<1>2. a = get_next_subresource(s, disk, active, kind) /\ t = Counted(s, active, a[1], a[2]) /\ r = Logged(t, a, kind)
  OBVIOUS
<1>3. s \in StoreType /\ active \in BOOLEAN /\ config \in Configs
  BY DEF IInv, Fine
<1> HIDE DEF a, t, r
<1>4. /\ a \in Addresses /\ a[1] \in Identities /\ a[2] \in 0 .. MaxSubresource
      /\ a[2] >= get_subresource_counter(s, active, a[1])
  BY <1>1, <1>2, <1>3, NextFacts
<1>5. /\ t \in StoreType
      /\ t.identity = s.identity /\ t.symbols = s.symbols /\ t.infos = s.infos
      /\ t.accounts = s.accounts /\ t.events = s.events /\ t.height = s.height
  BY <1>2, <1>3, <1>4, CountedFacts
<1>6. /\ r \in StoreType
      /\ r.identity = s.identity /\ r.infos = s.infos /\ r.accounts = s.accounts
      /\ r.legacy = t.legacy /\ r.counter = t.counter /\ r.height = s.height
      /\ kind = "token" => r.symbols = s.symbols \cup {a}
      /\ kind # "token" => r.symbols = s.symbols
      /\ n \in Nat /\ DOMAIN s.events = 1 .. n - 1 /\ DOMAIN r.events = 1 .. n
      /\ r.events[n] = a
      /\ \A i \in DOMAIN s.events : r.events[i] = s.events[i]
  <2>1. /\ r \in StoreType
        /\ r.identity = t.identity /\ r.infos = t.infos /\ r.accounts = t.accounts
        /\ r.legacy = t.legacy /\ r.counter = t.counter /\ r.height = t.height
        /\ kind = "token" => r.symbols = t.symbols \cup {a}
        /\ kind # "token" => r.symbols = t.symbols
        /\ Len(t.events) \in Nat /\ DOMAIN t.events = 1 .. Len(t.events)
        /\ DOMAIN r.events = 1 .. Len(t.events) + 1
        /\ r.events[Len(t.events) + 1] = a
        /\ \A i \in DOMAIN t.events : r.events[i] = t.events[i]
    <3>1. t \in StoreType /\ a \in Addresses /\ r = Logged(t, a, kind)
      BY <1>2, <1>4, <1>5
    <3> HIDE DEF s, n
    <3> QED BY <3>1, LoggedFacts
  <2>2. n \in Nat /\ n - 1 = Len(t.events)
    BY <2>1
  <2>3. Len(t.events) + 1 = n
    OBVIOUS
  <2> HIDE DEF n
  <2> QED BY <1>5, <2>1, <2>2, <2>3
<1> HIDE DEF n
<1>7. \A i \in DOMAIN r.events : i \in DOMAIN s.events \/ i = n
  BY <1>6
<1>8. ~Lost => /\ ~InUse(s, config, a) /\ s.accounts[a] = None
               /\ a \notin config.symbols /\ a \notin s.symbols /\ a \notin s.infos
               /\ ~active => a[1] = Root
  <2>1. SUFFICES ASSUME ~Lost
                 PROVE  /\ ~InUse(s, config, a) /\ s.accounts[a] = None
                        /\ a \notin config.symbols /\ a \notin s.symbols /\ a \notin s.infos
                        /\ ~active => a[1] = Root
    OBVIOUS
  <2>2. Numbered(s, config, active) /\ (active => config.symbols \subseteq disk.infos)
    BY <2>1 DEF IInv, Fine, Numbered
  <2> QED BY <1>1, <1>2, <1>3, <2>2, NewIsUnused
<1>9. ~Lost => Numbered(r, config, active)
  <2>1. SUFFICES ASSUME ~Lost PROVE Numbered(r, config, active)
    OBVIOUS
  <2>2. Numbered(s, config, active)
    BY <2>1 DEF IInv, Fine
  <2>3. \A x \in Addresses : InUse(r, config, x) => InUse(s, config, x) \/ x = a
    BY <1>6, <1>7 DEF InUse
  <2>4. Below(s, config, active)
    BY <2>2 DEF Numbered, Below
  <2>5. Below(r, config, active)
    BY <1>2, <1>3, <1>4, <1>6, <1>8, <2>1, <2>3, <2>4, AdvanceKeeps
  <2>6. \A i, j \in DOMAIN r.events : i # j => r.events[i] # r.events[j]
    <3>1. \A i \in DOMAIN s.events : s.events[i] # a
      BY <1>8, <2>1 DEF InUse
    <3>2. \A i, j \in DOMAIN s.events : i # j => s.events[i] # s.events[j]
      BY <2>2 DEF Numbered
    <3> QED BY <1>6, <1>7, <3>1, <3>2
  <2>7. \A x \in Addresses : r.accounts[x] # None => x \notin config.symbols /\ x \notin r.symbols
    BY <1>6, <1>8, <2>1, <2>2 DEF Numbered
  <2>8. ~active => r.symbols = config.symbols /\ r.infos = {} /\ r.identity["account"] = Root
    BY <1>6, <2>2 DEF Numbered
  <2>9. active => config.symbols \subseteq r.infos
    BY <1>6, <2>2 DEF Numbered
  <2> QED BY <2>5, <2>6, <2>7, <2>8, <2>9 DEF Numbered, Below
<1>10. ~Lost /\ NoThresholds => Reachable(r)
  <2>1. SUFFICES ASSUME ~Lost, NoThresholds PROVE Reachable(r)
    OBVIOUS
  <2>2. Reachable(s)
    BY <2>1 DEF IInv, Fine
  <2> QED BY <1>6, <1>7, <1>8, <2>1, <2>2 DEF Reachable
<1>11. Fine(r, config, active, Lost)
  BY <1>6, <1>9, <1>10 DEF Fine
<1>12. /\ store' = r
       /\ disk' = IF config.blockchain THEN disk ELSE r
       /\ store'.height = disk'.height /\ store'.height = store.height
       /\ ~config.blockchain => disk' = store'
       /\ Fine(store', config, active, Lost)
       /\ Fine(disk', config, active, Lost)
  BY <1>1, <1>6, <1>11, AppliedKeeps
<1>13. /\ creating' \in Unfinished /\ creating' # None /\ creating'.kind = kind
       /\ creating'.address = a /\ creating'.account = rest
  <2>1. creating' \in Unfinished
    BY <1>1, <1>4 DEF Unfinished
  <2> QED BY <1>1, <2>1, AccountsAssumption
<1>14. Complete(r, interrupted \cup {a})
  <2>1. Complete(s, interrupted)
    BY <1>1 DEF IInv, Waits
  <2> QED BY <1>6, <1>7, <2>1 DEF Complete
<1>15. /\ Complete(store', interrupted' \cup Waits(creating'))
       /\ Complete(disk', interrupted' \cup (IF config.blockchain THEN {} ELSE Waits(creating')))
  <2>1. Waits(creating') = {a}
    BY <1>13 DEF Waits
  <2>2. config.blockchain => Complete(disk, interrupted)
    BY DEF IInv
  <2> QED BY <1>1, <1>12, <1>14, <2>1, <2>2
<1>16. Pending'
  <2>1. n \in DOMAIN store'.events /\ store'.events[n] = a
    <3>1. n \in DOMAIN r.events
      <4>1. n - 1 \in Nat
        BY <1>5, <1>6, LenProperties, StoreFields DEF n
      <4> QED BY <1>6, <4>1
    <3> QED BY <1>6, <1>12, <3>1
  <2>2. kind = "token" => a \in store'.symbols
    BY <1>6, <1>12
  <2>3. ~Lost => /\ store'.accounts[a] = None
                 /\ a \notin config.symbols \cup store'.infos
                 /\ kind = "account" => a \notin store'.symbols
    BY <1>6, <1>8, <1>12
  <2> QED BY <1>1, <1>13, <2>1, <2>2, <2>3 DEF Pending
<1> QED BY <1>1, <1>12, <1>15, <1>16 DEF IInv

\* Who holds a role on an account are finitely many, and no fewer when roles
\* are added.
LEMMA HoldersFacts ==
    ASSUME NEW account
    PROVE  Holders(account) \subseteq Users /\ IsFiniteSet(Holders(account))
           /\ Cardinality(Holders(account)) \in Nat
<1>1. Holders(account) \subseteq Users
  BY DEF Holders
<1> QED BY <1>1, AccountsAssumption, FS_Subset, FS_CardinalityType

LEMMA MoreHolders ==
    ASSUME NEW old, NEW new, \A u \in Users : old.roles[u] \subseteq new.roles[u]
    PROVE  Cardinality(Holders(old)) <= Cardinality(Holders(new))
<1>1. Holders(old) \subseteq Holders(new)
  BY DEF Holders
<1>2. IsFiniteSet(Holders(new))
  BY HoldersFacts
<1> QED BY <1>1, <1>2, FS_Subset

LEMMA OwnerCounts ==
    ASSUME NEW account, NEW u \in Users, "owner" \in account.roles[u]
    PROVE  Cardinality(Holders(account)) \in Nat /\ 1 <= Cardinality(Holders(account))
<1> DEFINE k == Cardinality(Holders(account))
<1>1. u \in Holders(account)
  BY DEF Holders
<1>2. k \in Nat /\ (k = 0 <=> Holders(account) = {})
  BY HoldersFacts, FS_EmptySet
<1> HIDE DEF k
<1>3. k \in Nat /\ 1 <= k
  BY <1>1, <1>2
<1> QED BY <1>3 DEF k

\* An account as a request makes it: its sender owns it, so that a threshold
\* left to the ledger is at least one.
LEMMA MadeAccount ==
    ASSUME NEW args \in Creations, NEW sender \in Senders,
           NEW row, row = AddedAccount(OwnedBy(args, sender))
    PROVE  row \in AccountType /\ (NoThresholds => Reached(row))
<1> DEFINE owned == OwnedBy(args, sender)
           k == Cardinality(Holders(owned))
<1>1. args \in AccountType /\ sender \in Users
  BY AccountsAssumption
<1>2. owned \in AccountType /\ "owner" \in owned.roles[sender] /\ owned.threshold = args.threshold
  <2> DEFINE roles == [args.roles EXCEPT ![sender] = @ \cup {"owner"}]
  <2>1. args.roles \in [Users -> SUBSET Roles]
    BY <1>1 DEF AccountType, RoleMap
  <2>2. roles \in [Users -> SUBSET Roles] /\ "owner" \in roles[sender]
    BY <1>1, <2>1 DEF Roles
  <2>3. owned = [args EXCEPT !.roles = roles]
    BY <1>1 DEF OwnedBy, AccountType
  <2> HIDE DEF roles, owned
  <2> QED BY <1>1, <2>2, <2>3 DEF AccountType, RoleMap
<1>3. row = IF "multisig" \in owned.features /\ owned.threshold = None
            THEN [owned EXCEPT !.threshold = k] ELSE owned
  BY DEF AddedAccount, DefaultThreshold
<1> HIDE DEF owned
<1>4. k \in Nat /\ 1 <= k
  BY <1>1, <1>2, OwnerCounts
<1> HIDE DEF k
<1>5. row \in AccountType /\ row.roles = owned.roles /\ row.features = owned.features
  BY <1>2, <1>3, <1>4 DEF AccountType
<1>6. Holders(row) = Holders(owned)
  BY <1>5 DEF Holders
<1>7. ASSUME NoThresholds, "multisig" \in row.features
      PROVE  Quorum(row) \in 1 .. Cardinality(Holders(row))
  <2>1. owned.threshold = None
    BY <1>2, <1>7 DEF NoThresholds
  <2>2. row.threshold = k
    BY <1>2, <1>3, <1>5, <1>7, <2>1 DEF AccountType
  <2>3. Quorum(row) = k /\ Cardinality(Holders(row)) = k
    BY <1>4, <1>6, <2>2, NoneFacts DEF Quorum, k
  <2> QED BY <1>4, <2>3
<1> QED BY <1>5, <1>7 DEF Reached

LEMMA CreateKeeps ==
    ASSUME IInv, NEW sender \in Senders, NEW args \in Creations, Create(sender, args)
    PROVE  IInv'
<1> DEFINE row == AddedAccount(OwnedBy(args, sender))
<1>1. Number("account", row) /\ row = AddedAccount(OwnedBy(args, sender))
  BY DEF Create
<1> HIDE DEF row
<1>2. row \in AccountType /\ (NoThresholds => Reached(row))
  BY <1>1, MadeAccount
<1> QED BY <1>1, <1>2, NumberKeeps

LEMMA CreateTokenKeeps ==
    ASSUME IInv, CreateToken
    PROVE  IInv'
BY NumberKeeps DEF CreateToken

\* A row for an address in use: an account that changes, or a new one.
LEMMA RowKeeps ==
    ASSUME NEW s, NEW c, NEW on, NEW lost \in BOOLEAN, Fine(s, c, on, lost),
           NEW a \in Addresses, NEW row \in AccountType,
           ~lost => InUse(s, c, a) /\ a \notin c.symbols /\ a \notin s.symbols,
           ~lost /\ NoThresholds =>
               ((\E i \in DOMAIN s.events : s.events[i] = a) => Reached(row)),
           NEW r, r = Rewritten(s, a, row)
    PROVE  Fine(r, c, on, lost)
<1>1. s \in StoreType
  BY DEF Fine
<1>2. /\ r \in StoreType
      /\ r.identity = s.identity /\ r.symbols = s.symbols /\ r.infos = s.infos
      /\ r.legacy = s.legacy /\ r.counter = s.counter
      /\ r.events = s.events /\ r.height = s.height
      /\ r.accounts[a] = row
      /\ \A x \in Addresses \ {a} : r.accounts[x] = s.accounts[x]
  BY <1>1, RewrittenFacts
<1>3. ~lost => Numbered(r, c, on)
  <2>1. SUFFICES ASSUME ~lost PROVE Numbered(r, c, on)
    OBVIOUS
  <2>2. Numbered(s, c, on)
    BY <2>1 DEF Fine
  <2>3. \A x \in Addresses : InUse(r, c, x) => InUse(s, c, x)
    BY <1>2, <2>1 DEF InUse
  <2>4. \A x \in Addresses : r.accounts[x] # None => x \notin c.symbols /\ x \notin r.symbols
    BY <1>2, <2>1, <2>2 DEF Numbered
  <2> QED BY <1>2, <2>2, <2>3, <2>4 DEF Numbered
<1>4. ~lost /\ NoThresholds => Reachable(r)
  <2>1. SUFFICES ASSUME ~lost, NoThresholds PROVE Reachable(r)
    OBVIOUS
  <2>2. Reachable(s)
    BY <2>1 DEF Fine
  <2>3. \A i \in DOMAIN s.events : s.events[i] \in Addresses
    BY <1>1, StoreFields
  <2> QED BY <1>2, <2>1, <2>2, <2>3 DEF Reachable
<1> QED BY <1>2, <1>3, <1>4 DEF Fine

LEMMA FinishKeeps ==
    ASSUME IInv, Finish
    PROVE  IInv'
<1> DEFINE a == creating.address
           row == creating.account
           s == store
<1>1. /\ creating # None /\ creating' = None
      /\ UNCHANGED <<config, active, interrupted, Lost, crashes>>
      /\ creating.kind = "account" => Applied(Rewritten(s, a, row))
      /\ creating.kind # "account" => Applied([s EXCEPT !.infos = @ \cup {a}])
  BY DEF Finish, Rewritten, Lost
<1>2. /\ a \in Addresses /\ creating.kind \in {"account", "token"}
      /\ creating.kind = "account" => row \in AccountType
      /\ creating.kind = "token" => a \in s.symbols
      /\ \E i \in DOMAIN s.events : s.events[i] = a
      /\ ~Lost =>
              /\ s.accounts[a] = None
              /\ a \notin config.symbols \cup s.infos
              /\ creating.kind = "account" => a \notin s.symbols
              /\ creating.kind = "account" /\ NoThresholds => Reached(row)
  BY <1>1 DEF IInv, Pending, Unfinished
<1>3. /\ s \in StoreType /\ Fine(s, config, active, Lost) /\ Lost \in BOOLEAN
      /\ Complete(s, interrupted \cup {a})
  BY <1>1 DEF IInv, Fine, Waits
<1>4. InUse(s, config, a)
  BY <1>2 DEF InUse
<1> HIDE DEF a, row
<1>5. ASSUME NEW r, Applied(r), Fine(r, config, active, Lost), r.height = s.height,
             Complete(r, interrupted)
      PROVE  IInv'
  <2>1. /\ store' = r
        /\ disk' = IF config.blockchain THEN disk ELSE r
        /\ store'.height = disk'.height /\ store'.height = store.height
        /\ ~config.blockchain => disk' = store'
        /\ Fine(store', config, active, Lost)
        /\ Fine(disk', config, active, Lost)
    BY <1>5, AppliedKeeps
  <2>2. Waits(creating') = {} /\ Pending'
    BY <1>1 DEF Waits, Pending
  <2>3. config.blockchain => Complete(disk, interrupted)
    BY DEF IInv
  <2>4. /\ Complete(store', interrupted' \cup Waits(creating'))
        /\ Complete(disk', interrupted' \cup (IF config.blockchain THEN {} ELSE Waits(creating')))
    BY <1>1, <1>5, <2>1, <2>2, <2>3
  <2> QED BY <1>1, <2>1, <2>2, <2>4 DEF IInv
<1>6. CASE creating.kind = "account"
  <2> DEFINE r == Rewritten(s, a, row)
  <2>1. Applied(r) /\ r = Rewritten(s, a, row)
    BY <1>1, <1>6
  <2> HIDE DEF r
  <2>2. /\ r \in StoreType /\ r.symbols = s.symbols /\ r.infos = s.infos
        /\ r.events = s.events /\ r.height = s.height
        /\ r.accounts[a] = row
        /\ \A x \in Addresses \ {a} : r.accounts[x] = s.accounts[x]
    BY <1>2, <1>3, <1>6, <2>1, RewrittenFacts
  <2>3. Fine(r, config, active, Lost)
    <3>1. ~Lost => InUse(s, config, a) /\ a \notin config.symbols /\ a \notin s.symbols
      BY <1>2, <1>4, <1>6
    <3>2. ~Lost /\ NoThresholds => Reached(row)
      BY <1>2, <1>6
    <3> HIDE DEF s
    <3> QED BY <1>2, <1>3, <1>6, <2>1, <3>1, <3>2, RowKeeps
  <2>4. Complete(r, interrupted)
    <3>1. \A i \in DOMAIN s.events : s.events[i] \in Addresses
      BY <1>3, StoreFields
    <3>2. row # None
      BY <1>2, <1>6, NoneFacts
    <3> QED BY <1>3, <2>2, <3>1, <3>2 DEF Complete
  <2> QED BY <1>5, <2>1, <2>2, <2>3, <2>4
<1>7. CASE creating.kind = "token"
  <2> DEFINE infos == s.infos \cup {a}
             r == [s EXCEPT !.infos = infos]
  <2>1. Applied(r) /\ r = [s EXCEPT !.infos = infos]
    BY <1>1, <1>7
  <2>2. infos \subseteq Addresses
    BY <1>2, <1>3, StoreFields
  <2> HIDE DEF r
  <2>3. /\ r \in StoreType /\ r.infos = s.infos \cup {a} /\ r.symbols = s.symbols
        /\ r.identity = s.identity /\ r.accounts = s.accounts
        /\ r.legacy = s.legacy /\ r.counter = s.counter
        /\ r.events = s.events /\ r.height = s.height
    <3> HIDE DEF infos
    <3>1. /\ r \in StoreType /\ r.infos = infos /\ r.symbols = s.symbols
          /\ r.identity = s.identity /\ r.accounts = s.accounts
          /\ r.legacy = s.legacy /\ r.counter = s.counter
          /\ r.events = s.events /\ r.height = s.height
      BY <1>3, <2>1, <2>2 DEF StoreType
    <3> QED BY <3>1 DEF infos
  <2>4. ~Lost => Numbered(r, config, active)
    <3>1. SUFFICES ASSUME ~Lost PROVE Numbered(r, config, active)
      OBVIOUS
    <3>2. Numbered(s, config, active)
      BY <1>3, <3>1 DEF Fine
    <3>3. \A x \in Addresses : InUse(r, config, x) => InUse(s, config, x)
      BY <1>4, <2>3 DEF InUse
    <3>4. ~active => a \in config.symbols
      BY <1>2, <1>7, <3>2 DEF Numbered
    <3>5. active
      BY <1>2, <3>1, <3>4
    <3> QED BY <2>3, <3>2, <3>3, <3>5 DEF Numbered
  <2>5. Fine(r, config, active, Lost)
    BY <1>3, <2>3, <2>4 DEF Fine, Reachable
  <2>6. Complete(r, interrupted)
    BY <1>2, <1>3, <1>7, <2>3 DEF Complete
  <2> QED BY <1>5, <2>1, <2>3, <2>5, <2>6
<1> QED BY <1>2, <1>6, <1>7

\* An account that changes: it stays where it was.
LEMMA ChangeKeeps ==
    ASSUME IInv, creating = None, NEW a \in Addresses, store.accounts[a] # None,
           NEW row \in AccountType,
           NoThresholds /\ Reached(store.accounts[a]) => Reached(row),
           NEW r, r = Rewritten(store, a, row), Applied(r),
           UNCHANGED <<config, active, creating, interrupted, Lost, crashes>>
    PROVE  IInv'
<1> DEFINE s == store
<1>1. s \in StoreType /\ Fine(s, config, active, Lost) /\ Lost \in BOOLEAN
  BY DEF IInv, Fine
<1>2. /\ r \in StoreType /\ r.symbols = s.symbols /\ r.infos = s.infos
      /\ r.events = s.events /\ r.height = s.height
      /\ r.accounts[a] = row
      /\ \A x \in Addresses \ {a} : r.accounts[x] = s.accounts[x]
  BY <1>1, RewrittenFacts
<1>3. Fine(r, config, active, Lost)
  <2>1. ~Lost => InUse(s, config, a) /\ a \notin config.symbols /\ a \notin s.symbols
    BY <1>1 DEF Fine, Numbered, InUse
  <2>2. ~Lost /\ NoThresholds =>
            ((\E i \in DOMAIN s.events : s.events[i] = a) => Reached(row))
    BY <1>1 DEF Fine, Reachable
  <2> QED BY <1>1, <2>1, <2>2, RowKeeps
<1>4. /\ store' = r
      /\ disk' = IF config.blockchain THEN disk ELSE r
      /\ store'.height = disk'.height /\ store'.height = store.height
      /\ ~config.blockchain => disk' = store'
      /\ Fine(store', config, active, Lost)
      /\ Fine(disk', config, active, Lost)
  BY <1>2, <1>3, AppliedKeeps
<1>5. Complete(r, interrupted)
  <2>1. \A i \in DOMAIN s.events : s.events[i] \in Addresses
    BY <1>1, StoreFields
  <2>2. Complete(s, interrupted)
    BY DEF IInv, Waits
  <2>3. row # None
    BY NoneFacts
  <2> QED BY <1>2, <2>1, <2>2, <2>3 DEF Complete
<1>6. Waits(creating') = {} /\ Pending'
  BY DEF Waits, Pending
<1>7. config.blockchain => Complete(disk, interrupted)
  BY DEF IInv
<1>8. /\ Complete(store', interrupted' \cup Waits(creating'))
      /\ Complete(disk', interrupted' \cup (IF config.blockchain THEN {} ELSE Waits(creating')))
  BY <1>4, <1>5, <1>6, <1>7
<1> QED BY <1>4, <1>6, <1>8 DEF IInv

LEMMA AddFeaturesKeeps ==
    ASSUME IInv, NEW sender \in Senders, NEW a \in Addresses, NEW args \in AddedFeatures,
           AddFeatures(sender, a, args)
    PROVE  IInv'
<1> DEFINE old == store.accounts[a]
           row == WithFeatures(old, args)
           r == Rewritten(store, a, row)
<1>1. /\ creating = None /\ old # None /\ "owner" \in old.roles[sender] /\ sender \in Users
      /\ UNCHANGED <<config, active, creating, interrupted, Lost, crashes>>
  BY AccountsAssumption DEF AddFeatures, Owns, Lost
<1>2. store \in StoreType
  BY DEF IInv, Fine
<1>3. old \in AccountType /\ args \in AccountType
  BY <1>1, <1>2, StoreFields, AccountsAssumption
<1>4. Applied(r)
  <2>1. [store EXCEPT !.accounts[a] = WithFeatures(@, args)] = Rewritten(store, a, row)
    BY <1>2 DEF Rewritten, StoreType
  <2> QED BY <2>1 DEF AddFeatures
<1>5. row \in AccountType
  <2> DEFINE roles == [u \in Users |-> old.roles[u] \cup args.roles[u]]
             features == old.features \cup args.features
             threshold == IF "multisig" \in args.features THEN args.threshold ELSE old.threshold
  <2>1. /\ old.roles \in [Users -> SUBSET Roles] /\ args.roles \in [Users -> SUBSET Roles]
        /\ old.features \in SUBSET Features /\ args.features \in SUBSET Features
        /\ old.threshold \in Nat \cup {None} /\ args.threshold \in Nat \cup {None}
    <3> HIDE DEF old
    <3> QED BY <1>3 DEF AccountType, RoleMap
  <2>2. roles \in [Users -> SUBSET Roles] /\ features \in SUBSET Features /\ threshold \in Nat \cup {None}
    <3> HIDE DEF old
    <3> QED BY <2>1
  <2>3. row = [roles |-> roles, features |-> features, threshold |-> threshold]
    BY DEF WithFeatures
  <2> HIDE DEF roles, features, threshold, row
  <2> QED BY <2>2, <2>3 DEF AccountType, RoleMap
<1>6. /\ \A u \in Users : old.roles[u] \subseteq row.roles[u]
      /\ row.features = old.features \cup args.features
      /\ row.threshold = IF "multisig" \in args.features THEN args.threshold ELSE old.threshold
  BY DEF WithFeatures
<1>7. r = Rewritten(store, a, row)
  OBVIOUS
<1> HIDE DEF row, r
<1>8. ASSUME NoThresholds, Reached(old) PROVE Reached(row)
  <2> DEFINE k == Cardinality(Holders(row))
             m == Cardinality(Holders(old))
  <2>1. args.threshold = None
    BY <1>8 DEF NoThresholds
  <2>2. k \in Nat /\ 1 <= k
    BY <1>1, <1>6, OwnerCounts
  <2>3. m \in Nat /\ m <= k
    BY <1>6, HoldersFacts, MoreHolders
  <2> HIDE DEF k, m, old
  <2>4. ASSUME "multisig" \in row.features PROVE Quorum(row) \in 1 .. k
    <3>1. CASE "multisig" \in args.features
      <4>1. Quorum(row) = 1
        BY <1>6, <2>1, <3>1 DEF Quorum
      <4> QED BY <2>2, <4>1
    <3>2. CASE "multisig" \notin args.features
      <4>1. Quorum(row) = Quorum(old) /\ "multisig" \in old.features
        BY <1>6, <2>4, <3>2 DEF Quorum
      <4>2. Quorum(old) \in 1 .. m
        BY <1>8, <4>1 DEF Reached, m
      <4> QED BY <2>2, <2>3, <4>1, <4>2
    <3> QED BY <3>1, <3>2
  <2> QED BY <2>4 DEF Reached, k
<1> QED BY <1>1, <1>4, <1>5, <1>7, <1>8, ChangeKeeps

LEMMA AddRolesKeeps ==
    ASSUME IInv, NEW sender \in Senders, NEW a \in Addresses, NEW grant \in AddedRoles,
           AddRoles(sender, a, grant[1], grant[2])
    PROVE  IInv'
<1> DEFINE old == store.accounts[a]
           roles == [old.roles EXCEPT ![grant[1]] = @ \cup {grant[2]}]
           row == [old EXCEPT !.roles = roles]
           r == Rewritten(store, a, row)
<1>1. /\ creating = None /\ old # None /\ grant[1] \in Users /\ grant[2] \in Roles
      /\ UNCHANGED <<config, active, creating, interrupted, Lost, crashes>>
  BY AccountsAssumption DEF AddRoles, Owns, Lost
<1>2. store \in StoreType
  BY DEF IInv, Fine
<1>3. old \in AccountType
  BY <1>1, <1>2, StoreFields
<1>4. Applied(r)
  <2>1. [store EXCEPT !.accounts[a].roles[grant[1]] = @ \cup {grant[2]}] = Rewritten(store, a, row)
    BY <1>2, <1>3 DEF Rewritten, StoreType, AccountType
  <2> QED BY <2>1 DEF AddRoles
<1>5. /\ roles \in [Users -> SUBSET Roles]
      /\ \A u \in Users : old.roles[u] \subseteq roles[u]
  <2>1. old.roles \in [Users -> SUBSET Roles]
    BY <1>3 DEF AccountType, RoleMap
  <2> HIDE DEF old
  <2> QED BY <1>1, <2>1
<1>6. row = [old EXCEPT !.roles = roles] /\ r = Rewritten(store, a, row)
  OBVIOUS
<1> HIDE DEF roles, row, r, old
<1>7. /\ row \in AccountType /\ row.roles = roles /\ row.features = old.features
      /\ row.threshold = old.threshold
  BY <1>3, <1>5, <1>6 DEF AccountType, RoleMap
<1>8. ASSUME Reached(old) PROVE Reached(row)
  <2> DEFINE k == Cardinality(Holders(row))
             m == Cardinality(Holders(old))
  <2>1. k \in Nat /\ m \in Nat /\ m <= k
    BY <1>5, <1>7, HoldersFacts, MoreHolders
  <2>2. Quorum(row) = Quorum(old)
    BY <1>7 DEF Quorum
  <2>3. "multisig" \in old.features => Quorum(old) \in 1 .. m
    BY <1>8 DEF Reached
  <2> HIDE DEF k, m
  <2>4. "multisig" \in row.features => Quorum(row) \in 1 .. k
    BY <1>7, <2>1, <2>2, <2>3
  <2> QED BY <2>4 DEF Reached, k
<1>9. old = store.accounts[a]
  BY DEF old
<1> QED BY <1>1, <1>4, <1>6, <1>7, <1>8, <1>9, ChangeKeeps

-----------------------------------------------------------------------------
(* Blocks and restarts.                                                    *)

\* The height plays no part in what holds of a tree.
LEMMA HeightKeeps ==
    ASSUME NEW s, NEW c, NEW on, NEW lost, Fine(s, c, on, lost),
           NEW h \in 0 .. MaxHeight, NEW r, r = [s EXCEPT !.height = h]
    PROVE  /\ Fine(r, c, on, lost) /\ r.height = h
           /\ \A rest : Complete(s, rest) => Complete(r, rest)
<1>1. s \in StoreType
  BY DEF Fine
<1>2. /\ r \in StoreType
      /\ r.identity = s.identity /\ r.symbols = s.symbols /\ r.infos = s.infos
      /\ r.legacy = s.legacy /\ r.counter = s.counter /\ r.accounts = s.accounts
      /\ r.events = s.events /\ r.height = h
  BY <1>1 DEF StoreType
<1>3. \A a : InUse(r, c, a) <=> InUse(s, c, a)
  BY <1>2 DEF InUse
<1>4. Numbered(s, c, on) => Numbered(r, c, on)
  BY <1>2, <1>3 DEF Numbered
<1>5. Reachable(s) => Reachable(r)
  BY <1>2 DEF Reachable
<1>6. \A rest : Complete(s, rest) => Complete(r, rest)
  BY <1>2 DEF Complete
<1> QED BY <1>2, <1>4, <1>5, <1>6 DEF Fine

\* What the migration makes of a tree.
LEMMA MigratedFacts ==
    ASSUME config \in Configs, config.token \in Identities, config.symbol \in config.symbols,
           NEW s \in StoreType, NEW r, r = Migrated(s)
    PROVE  /\ r \in StoreType
           /\ r.infos = s.infos \cup {config.symbol} /\ r.symbols = s.symbols
           /\ r.accounts = s.accounts /\ r.events = s.events /\ r.height = s.height
           /\ r.counter[Root] = IF config.token = Root THEN config.next ELSE s.legacy
<1> DEFINE c1 == [s.counter EXCEPT ![Root] = s.legacy]
           c2 == [c1 EXCEPT ![config.token] = config.next]
           i1 == [s.identity EXCEPT !["account"] = Root]
           i2 == [i1 EXCEPT !["token"] = config.token]
           infos == s.infos \cup {config.symbol}
           t == migrate_account_identity(s)
<1>1. config.next \in 0 .. MaxSubresource + 1 /\ config.symbol \in Addresses /\ Root \in Identities
  BY ConfigFacts, NoneFacts
<1>2. c1 \in [Identities -> 0 .. MaxSubresource + 1] /\ i1 \in [{"account", "token"} -> Identities]
  BY <1>1, StoreFields
<1>3. c2 \in [Identities -> 0 .. MaxSubresource + 1] /\ i2 \in [{"account", "token"} -> Identities]
  <2> HIDE DEF c1, i1
  <2> QED BY <1>1, <1>2
<1>4. c2[Root] = IF config.token = Root THEN config.next ELSE s.legacy
  BY <1>1, <1>2, StoreFields
<1>5. infos \subseteq Addresses
  BY <1>1, StoreFields
<1>6. t = [s EXCEPT !.legacy = 0, !.identity = i1, !.counter = c1]
  BY DEF migrate_account_identity, StoreType
<1>7. r = migrate_token(t)
  BY DEF Migrated
<1>8. 0 \in 0 .. MaxSubresource + 1
  BY NoneFacts
<1> HIDE DEF c1, i1, t
<1>9. /\ t \in StoreType /\ t.identity = i1 /\ t.counter = c1 /\ t.infos = s.infos
      /\ t.symbols = s.symbols /\ t.accounts = s.accounts /\ t.events = s.events
      /\ t.height = s.height
  BY <1>2, <1>6, <1>8 DEF StoreType
<1>10. r = [t EXCEPT !.infos = infos, !.counter = c2, !.identity = i2]
  BY <1>7, <1>9 DEF migrate_token, StoreType
<1> HIDE DEF c2, i2, infos
<1>11. /\ r \in StoreType /\ r.identity = i2 /\ r.counter = c2 /\ r.infos = infos
       /\ r.symbols = t.symbols /\ r.accounts = t.accounts /\ r.events = t.events
       /\ r.height = t.height
  BY <1>3, <1>5, <1>9, <1>10 DEF StoreType
<1> QED BY <1>4, <1>9, <1>11 DEF infos

\* The migration forgets no address, or says so.
LEMMA MigratedKeeps ==
    ASSUME config \in Configs, config.token \in Identities, config.symbol \in config.symbols,
           NEW s, NEW lost \in BOOLEAN, Fine(s, config, FALSE, lost),
           NEW r, r = Migrated(s)
    PROVE  /\ Fine(r, config, TRUE, lost \/ Forgets(s)) /\ r.height = s.height
           /\ \A rest : Complete(s, rest) => Complete(r, rest)
<1>1. s \in StoreType
  BY DEF Fine
<1>2. /\ r \in StoreType
      /\ r.infos = s.infos \cup {config.symbol} /\ r.symbols = s.symbols
      /\ r.accounts = s.accounts /\ r.events = s.events /\ r.height = s.height
      /\ r.counter[Root] = IF config.token = Root THEN config.next ELSE s.legacy
  BY <1>1, MigratedFacts
<1>3. \A rest : Complete(s, rest) => Complete(r, rest)
  BY <1>2 DEF Complete
<1>4. ASSUME ~lost, ~Forgets(s) PROVE Numbered(r, config, TRUE)
  <2>1. Numbered(s, config, FALSE)
    BY <1>4 DEF Fine
  <2>2. s.symbols = {config.symbol} /\ ~(config.token = Root /\ config.next < s.legacy)
    BY <1>4 DEF Forgets
  <2>3. config.symbols = {config.symbol} /\ s.infos = {}
    BY <2>1, <2>2 DEF Numbered
  <2>4. s.legacy \in Nat /\ config.next \in Nat /\ r.counter[Root] \in Nat /\ s.legacy <= r.counter[Root]
    <3>1. s.legacy \in Nat /\ config.next \in Nat
      BY <1>1, StoreFields, ConfigFacts
    <3> QED BY <1>2, <2>2, <3>1
  <2>5. \A a \in Addresses : InUse(r, config, a) => InUse(s, config, a)
    BY <1>2, <2>3 DEF InUse
  <2>6. ASSUME NEW a \in Addresses, InUse(r, config, a) PROVE a[2] < r.counter[a[1]]
    <3> DEFINE n == a[2]
               k == r.counter[Root]
    <3>1. a[1] = Root /\ n < s.legacy /\ n \in Nat
      BY <2>1, <2>5, <2>6 DEF Numbered, Addresses
    <3> HIDE DEF n, k
    <3>2. n < k
      BY <2>4, <3>1 DEF k
    <3> QED BY <3>1, <3>2 DEF n, k
  <2> QED BY <1>2, <2>1, <2>3, <2>6 DEF Numbered
<1>5. Reachable(s) => Reachable(r)
  BY <1>2 DEF Reachable
<1> QED BY <1>2, <1>3, <1>4, <1>5 DEF Fine

LEMMA CommitKeeps ==
    ASSUME IInv, Commit
    PROVE  IInv'
<1> DEFINE h == store.height + 1
           s == [store EXCEPT !.height = h]
           now == h = config.migrate
<1>1. /\ config.blockchain /\ creating = None /\ h <= MaxHeight
      /\ store' = IF now THEN Migrated(s) ELSE s
      /\ disk' = store' /\ active' = (active \/ now)
      /\ Lost' <=> Lost \/ (now /\ Forgets(s))
      /\ UNCHANGED <<config, creating, interrupted, crashes>>
  BY DEF Commit, Lost
<1>2. /\ store \in StoreType /\ config \in Configs /\ Fine(store, config, active, Lost)
      /\ active \in BOOLEAN /\ Lost \in BOOLEAN
  BY DEF IInv, Fine
<1>3. h \in 0 .. MaxHeight /\ store.height \in Nat /\ h \in Nat /\ MaxHeight \in Nat
  BY <1>1, <1>2, StoreFields, NoneFacts
<1>4. s = [store EXCEPT !.height = h]
  OBVIOUS
<1>5. config.migrate \in Nat \cup {None}
  BY <1>2, ConfigFacts
<1>6. /\ (active \/ now) <=> IsOn(config, h)
      /\ now => ~active /\ config.migrate \notin {0, None}
  <2> DEFINE m == config.migrate
             g == store.height
  <2>1. h = g + 1 /\ g \in Nat /\ m \in Nat \cup {None} /\ None \notin Nat
    BY <1>3, <1>5, NoneFacts
  <2>2. active <=> (m # None /\ g >= m)
    BY DEF IInv, IsOn
  <2> HIDE DEF m, g, h
  <2>3. /\ (active \/ h = m) <=> (m # None /\ h >= m)
        /\ h = m => ~active /\ m \notin {0, None}
    <3>1. CASE m = None
      BY <2>1, <2>2, <3>1
    <3>2. CASE m \in Nat
      BY <1>2, <2>1, <2>2, <3>2
    <3> QED BY <2>1, <3>1, <3>2
  <2> QED BY <2>3 DEF IsOn, m
<1> HIDE DEF h, s
<1>7. /\ Fine(s, config, active, Lost) /\ s.height = h
      /\ \A rest : Complete(store, rest) => Complete(s, rest)
  BY <1>2, <1>3, <1>4, HeightKeeps
<1>8. /\ Fine(store', config, active', Lost') /\ store'.height = h
      /\ \A rest : Complete(s, rest) => Complete(store', rest)
  <2>1. CASE now
    <3>1. config.token \in Identities /\ config.symbol \in config.symbols
      BY <1>2, <1>6, <2>1, ConfigFacts
    <3>2. store' = Migrated(s) /\ Fine(s, config, FALSE, Lost)
      BY <1>1, <1>2, <1>6, <1>7, <2>1
    <3>3. /\ Fine(store', config, TRUE, Lost \/ Forgets(s)) /\ store'.height = s.height
          /\ \A rest : Complete(s, rest) => Complete(store', rest)
      BY <1>2, <3>1, <3>2, MigratedKeeps
    <3>4. (active' <=> TRUE) /\ (Lost' <=> Lost \/ Forgets(s))
      BY <1>1, <2>1
    <3>5. Fine(store', config, active', Lost')
      BY <3>3, <3>4 DEF Fine, Numbered
    <3> QED BY <1>7, <3>3, <3>5
  <2>2. CASE ~now
    <3>1. store' = s /\ (active' <=> active) /\ (Lost' <=> Lost)
      BY <1>1, <2>2
    <3>2. Fine(store', config, active', Lost')
      BY <1>7, <3>1 DEF Fine, Numbered
    <3> QED BY <1>7, <3>1, <3>2
  <2> QED BY <2>1, <2>2
<1>9. Complete(store', interrupted)
  <2>1. Complete(store, interrupted)
    BY <1>1 DEF IInv, Waits
  <2> QED BY <1>7, <1>8, <2>1
<1>10. active' \in BOOLEAN /\ Lost' \in BOOLEAN /\ (active' <=> IsOn(config', store'.height))
  BY <1>1, <1>6, <1>8 DEF Lost
<1>11. Waits(creating') = {} /\ Pending'
  BY <1>1 DEF Waits, Pending
<1>12. /\ Complete(store', interrupted' \cup Waits(creating'))
       /\ Complete(disk', interrupted' \cup (IF config'.blockchain THEN {} ELSE Waits(creating')))
  BY <1>1, <1>9, <1>11
<1>13. /\ config' \in Configs /\ store'.height = disk'.height
       /\ ~config'.blockchain => disk' = store'
       /\ interrupted' \subseteq Addresses
       /\ Fine(store', config', active', Lost') /\ Fine(disk', config', active', Lost')
  BY <1>1, <1>2, <1>8 DEF IInv
<1> QED BY <1>10, <1>11, <1>12, <1>13 DEF IInv

LEMMA StopInCommitKeeps ==
    ASSUME IInv, StopInCommit
    PROVE  IInv'
<1> DEFINE h == store.height + 1
           now == h = config.migrate
<1>1. /\ config.blockchain /\ creating = None /\ h <= MaxHeight
      /\ store' = [store EXCEPT !.height = h]
      /\ disk' = store' /\ active' = IsOn(config, h)
      /\ Lost' <=> Lost \/ now
      /\ UNCHANGED <<config, creating, interrupted>>
  BY DEF StopInCommit, Lost, IsOn
<1>2. /\ store \in StoreType /\ config \in Configs /\ Fine(store, config, active, Lost)
      /\ active \in BOOLEAN /\ Lost \in BOOLEAN
  BY DEF IInv, Fine
<1>3. h \in 0 .. MaxHeight /\ store.height \in Nat /\ h \in Nat
  BY <1>1, <1>2, StoreFields, NoneFacts
<1>4. ~now => (active' <=> active)
  <2> DEFINE m == config.migrate
             g == store.height
  <2>1. h = g + 1 /\ g \in Nat /\ m \in Nat \cup {None} /\ None \notin Nat
    BY <1>2, <1>3, ConfigFacts, NoneFacts
  <2>2. (active <=> (m # None /\ g >= m)) /\ (active' <=> (m # None /\ h >= m))
    BY <1>1 DEF IInv, IsOn
  <2> HIDE DEF m, g, h
  <2>3. h # m => (active' <=> active)
    <3>1. CASE m = None
      BY <2>2, <3>1
    <3>2. CASE m \in Nat
      BY <2>1, <2>2, <3>2
    <3> QED BY <2>1, <3>1, <3>2
  <2> QED BY <2>3 DEF m
<1> HIDE DEF h
<1>5. /\ Fine(store', config, active, Lost) /\ store'.height = h
      /\ \A rest : Complete(store, rest) => Complete(store', rest)
  BY <1>1, <1>2, <1>3, HeightKeeps
<1>6. Fine(store', config, active', Lost')
  <2>1. CASE now
    BY <1>1, <1>5, <2>1 DEF Fine
  <2>2. CASE ~now
    BY <1>1, <1>4, <1>5, <2>2 DEF Fine, Numbered
  <2> QED BY <2>1, <2>2
<1>7. Complete(store', interrupted) /\ Waits(creating') = {} /\ Pending'
  BY <1>1, <1>5 DEF IInv, Waits, Pending
<1>8. /\ config' \in Configs /\ store'.height = disk'.height
      /\ active' \in BOOLEAN /\ Lost' \in BOOLEAN
      /\ active' <=> IsOn(config', store'.height)
      /\ ~config'.blockchain => disk' = store'
      /\ interrupted' \subseteq Addresses
  BY <1>1, <1>2, <1>5 DEF IInv, IsOn, Lost
<1>9. /\ Fine(store', config', active', Lost') /\ Fine(disk', config', active', Lost')
      /\ Complete(store', interrupted' \cup Waits(creating'))
      /\ Complete(disk', interrupted' \cup (IF config'.blockchain THEN {} ELSE Waits(creating')))
  BY <1>1, <1>6, <1>7
<1> QED BY <1>7, <1>8, <1>9 DEF IInv

LEMMA CrashKeeps ==
    ASSUME IInv, Crash
    PROVE  IInv'
<1>1. /\ store' = disk /\ creating' = None /\ active' = IsOn(config, disk.height)
      /\ interrupted' = IF creating # None /\ ~config.blockchain
                        THEN interrupted \cup {creating.address} ELSE interrupted
      /\ UNCHANGED <<config, disk, Lost>>
  BY DEF Crash, IsOn, Lost
<1>2. (active' <=> active) /\ active' \in BOOLEAN
  BY <1>1 DEF IInv, IsOn
<1>3. Fine(disk, config, active', Lost)
  BY <1>2 DEF IInv, Fine, Numbered
<1>4. interrupted' \subseteq Addresses
  <2>1. creating # None => creating.address \in Addresses
    BY DEF IInv, Pending, Unfinished
  <2> QED BY <1>1, <2>1 DEF IInv
<1>5. Complete(disk, interrupted')
  <2>1. CASE config.blockchain
    BY <1>1, <2>1 DEF IInv
  <2>2. CASE ~config.blockchain
    <3>1. interrupted' = interrupted \cup Waits(creating)
      BY <1>1, <2>2 DEF Waits
    <3> QED BY <2>2, <3>1 DEF IInv
  <2> QED BY <2>1, <2>2
<1>6. Waits(creating') = {} /\ Pending'
  BY <1>1 DEF Waits, Pending
<1>7. /\ Complete(store', interrupted' \cup Waits(creating'))
      /\ Complete(disk', interrupted' \cup (IF config'.blockchain THEN {} ELSE Waits(creating')))
  BY <1>1, <1>5, <1>6
<1>8. /\ config' \in Configs /\ store'.height = disk'.height /\ Lost' \in BOOLEAN
      /\ ~config'.blockchain => disk' = store'
      /\ active' <=> IsOn(config', store'.height)
      /\ Fine(store', config', active', Lost') /\ Fine(disk', config', active', Lost')
  BY <1>1, <1>3 DEF IInv
<1> QED BY <1>2, <1>4, <1>6, <1>7, <1>8 DEF IInv

LEMMA StepKeeps == IInv /\ [Next]_vars => IInv'
<1> SUFFICES ASSUME IInv, [Next]_vars PROVE IInv'
  OBVIOUS
<1>1. CASE \E sender \in Senders : \E args \in Creations : Create(sender, args)
  BY <1>1, CreateKeeps
<1>2. CASE \E sender \in Senders : \E a \in Addresses, args \in AddedFeatures : AddFeatures(sender, a, args)
  BY <1>2, AddFeaturesKeeps
<1>3. CASE \E sender \in Senders : \E a \in Addresses, grant \in AddedRoles :
                AddRoles(sender, a, grant[1], grant[2])
  BY <1>3, AddRolesKeeps
<1>4. CASE CreateToken
  BY <1>4, CreateTokenKeeps
<1>5. CASE Finish
  BY <1>5, FinishKeeps
<1>6. CASE Commit
  BY <1>6, CommitKeeps
<1>7. CASE Crash
  BY <1>7, CrashKeeps
<1>8. CASE StopInCommit
  BY <1>8, StopInCommitKeeps
<1>9. CASE UNCHANGED vars
  BY <1>9 DEF vars, IInv, Pending, Lost
<1> QED BY <1>1, <1>2, <1>3, <1>4, <1>5, <1>6, <1>7, <1>8, <1>9 DEF Next

LEMMA Invariant == Spec => []IInv
BY InitHolds, StepKeeps, PTL DEF Spec

-----------------------------------------------------------------------------
\* Type correctness: counters stay within MAX_SUBRESOURCE_ID + 1 and accounts
\* keep their types, across restarts and the migration.
THEOREM TypeCorrect == Spec => []TypeOK
<1>1. IInv => TypeOK
  BY DEF IInv, TypeOK, Fine, Pending, Unfinished
<1> QED BY <1>1, Invariant, PTL

\* get_next_subresource gives no address twice: whatever mixture of accounts
\* and tokens is created, stopped halfway, rolled back with its block or
\* numbered before and after the migration, unless the migration's own
\* parameters forgot an address or a stop inside its commit skipped it.
THEOREM AddressesAreGivenOnce == Spec => []AddressesOnce
<1>1. IInv => AddressesOnce
  <2> SUFFICES ASSUME IInv, ~Lost PROVE AddressesOnce
    BY DEF AddressesOnce
  <2>1. Numbered(store, config, active)
    BY DEF IInv, Fine
  <2>2. creating # None => /\ store.accounts[creating.address] = None
                           /\ creating.address \notin config.symbols \cup store.infos
    BY DEF IInv, Pending
  <2>3. {a \in Addresses : store.accounts[a] # None} \cap store.symbols = {}
    BY <2>1 DEF Numbered
  <2> QED BY <2>1, <2>2, <2>3 DEF AddressesOnce, Numbered
<1> QED BY <1>1, Invariant, PTL

\* The log and the accounts and tokens agree in every committed state, but
\* for what a stop cut in two; with blocks nothing is cut.
THEOREM CreationsAreComplete == Spec => []CreationsComplete
<1>1. IInv => CreationsComplete
  <2> SUFFICES ASSUME IInv, NEW i \in DOMAIN disk.events
               PROVE  \/ disk.accounts[disk.events[i]] # None
                      \/ disk.events[i] \in disk.infos /\ disk.events[i] \in disk.symbols
                      \/ disk.events[i] \in interrupted
                      \/ ~config.blockchain /\ creating # None /\ creating.address = disk.events[i]
    BY DEF CreationsComplete
  <2>1. Complete(disk, interrupted \cup (IF config.blockchain THEN {} ELSE Waits(creating)))
    BY DEF IInv
  <2> QED BY <2>1 DEF Complete, Waits
<1> QED BY <1>1, Invariant, PTL

\* A threshold left to _add_account, or to a feature added later, is at least
\* one and never more than the users with a role, who are never fewer.
THEOREM QuorumIsReachable == Spec => []QuorumReachable
<1>1. IInv => QuorumReachable
  <2> SUFFICES ASSUME IInv, ~Lost, \A args \in Creations \cup AddedFeatures : args.threshold = None
               PROVE  QuorumReachable
    BY DEF QuorumReachable
  <2>1. Reachable(store)
    BY DEF IInv, Fine, NoThresholds
  <2> QED BY <2>1 DEF Reachable, Reached, QuorumReachable
<1> QED BY <1>1, Invariant, PTL
==============================================================================
