--------------------------- MODULE LedgerAccounts ---------------------------
(***************************************************************************)
(* How many-ledger hands out addresses: accounts and tokens are            *)
(* subresources of an identity, numbered by a counter that the token       *)
(* migration moves from one key per ledger to one key per identity; and    *)
(* the accounts made this way, with the features and roles they are given. *)
(*                                                                         *)
(* Left to other modules: roles removed, accounts disabled and multisig    *)
(* transactions (Multisig), what tokens hold (LedgerTokens), and the ids   *)
(* of events (LedgerBlocks).                                               *)
(***************************************************************************)
EXTENDS Integers, Sequences, FiniteSets

CONSTANTS Users,
          Senders,         \* those of them that send requests
          Root,            \* the server identity
          Others,          \* identities a configuration may name
          MaxSubresource,  \* MAX_SUBRESOURCE_ID
          Configs,         \* initial states and migration parameters: see ConfigType
          Creations,       \* arguments of account.create
          AddedFeatures,   \* arguments of account.addFeatures
          AddedRoles,      \* arguments of account.addRoles, <<user, role>>
          MaxCreations,    \* bound on the creations logged
          MaxHeight, MaxCrashes,
          None

Identities == {Root} \cup Others

Addresses == Identities \X (0 .. MaxSubresource)

Features == {"multisig", "ledger", "tokens"}

Roles == {"owner", "submit", "approve", "transact", "create"}

RoleMap == [Users -> SUBSET Roles]

\* The account owns itself as well; threshold is that of its multisig feature.
AccountType == [roles : RoleMap, features : SUBSET Features, threshold : Nat \cup {None}]

(***************************************************************************)
(* migrate: the height at which the token migration runs; 0 if it is       *)
(* active from the start, None for never.  token, next and symbol are used *)
(* by with_tokens or by the migration, whichever applies.                  *)
(***************************************************************************)
ConfigType ==
    [migrate : (0 .. MaxHeight) \cup {None}, token : Identities \cup {None},
     account : Identities \cup {None}, next : 0 .. MaxSubresource,
     symbols : SUBSET Addresses, symbol : Addresses \cup {None},
     accounts : Nat, blockchain : BOOLEAN]

\* InitialStateJson::read compares the identities if both are given.
Readable(c) == c.token # None /\ c.account # None => c.token # c.account

\* migrate_token asks for all its parameters and for a symbol it can find.
Migratable(c) == c.token # None /\ c.symbol \in c.symbols

\* What a creation that has its number still has to write.
Unfinished ==
    [kind : {"account", "token"}, address : Addresses, account : AccountType \cup {None}]

ASSUME AccountsAssumption ==
    /\ Root \notin Others
    /\ IsFiniteSet(Users)
    /\ Senders \subseteq Users
    /\ {MaxSubresource, MaxHeight} \subseteq Nat
    /\ None \notin Identities \cup Nat \cup Addresses
    /\ None \notin AccountType /\ None \notin Unfinished
    /\ \A c \in Configs :
          /\ c \in ConfigType
          /\ c.migrate \in {0, None} => Readable(c)
          /\ c.migrate \notin {0, None} => Migratable(c)
    /\ \A args \in Creations : args \in AccountType
    /\ \A args \in AddedFeatures : args \in AccountType
    /\ AddedRoles \subseteq Users \X Roles

VARIABLES config,
          store,        \* the tree in memory
          disk,         \* what is committed
          active,       \* the migration is active in memory
          creating,     \* what a request still has to write, or None
          interrupted,  \* addresses whose creation a stop cut in two
          unsound,      \* the migration's parameters forgot some address
          skipped,      \* a stop inside a commit left it active and not run
          crashes

vars == <<config, store, disk, active, creating, interrupted, unsound, skipped, crashes>>

StoreType ==
    [legacy   : 0 .. MaxSubresource + 1,                  \* /config/account_id
     counter  : [Identities -> 0 .. MaxSubresource + 1],  \* /config/subresource_counter/{id}
     identity : [{"account", "token"} -> Identities],     \* /config/{account,token}_identity
     symbols  : SUBSET Addresses,                         \* /config/symbols
     infos    : SUBSET Addresses,                         \* /config/symbols/{symbol}
     accounts : [Addresses -> AccountType \cup {None}],   \* /accounts/{id}
     events   : Seq(Addresses),                           \* creations in the event log
     height   : 0 .. MaxHeight]

-----------------------------------------------------------------------------
(* Subresources. *)

\* get_symbols: the symbol list, or after the migration the committed keys.
get_symbols(s, d, on) == IF on THEN d.infos ELSE s.symbols

get_subresource_counter(s, on, id) == IF on THEN s.counter[id] ELSE s.legacy

key_for_subresource_counter(s, on, id, n) ==
    IF on THEN [s EXCEPT !.counter[id] = n] ELSE [s EXCEPT !.legacy = n]

\* Faulty variant: one number past the last.
OnePastLast(s, d, on, id) ==
    {n \in get_subresource_counter(s, on, id) .. MaxSubresource + 1 :
        <<id, n>> \notin get_symbols(s, d, on)}

\* Numbers the loop may stop at; none when the subresources are exhausted.
FreeNumbers(s, d, on, id) ==
    {n \in get_subresource_counter(s, on, id) .. MaxSubresource :
        <<id, n>> \notin get_symbols(s, d, on)}

\* The counter after number n was handed out.
Counted(s, on, id, n) == key_for_subresource_counter(s, on, id, n + 1)

\* get_next_subresource has an address to give.
CanNumber(s, d, on, kind) == FreeNumbers(s, d, on, s.identity[kind]) # {}

NextNumber(s, d, on, kind) ==
    CHOOSE n \in FreeNumbers(s, d, on, s.identity[kind]) :
        \A m \in FreeNumbers(s, d, on, s.identity[kind]) : n <= m

get_next_subresource(s, d, on, kind) == <<s.identity[kind], NextNumber(s, d, on, kind)>>

-----------------------------------------------------------------------------
(* Accounts. *)

\* Roles the features of an account bring with them.
AllowedRoles(features) ==
    {"owner"} \cup (IF "multisig" \in features THEN {"submit", "approve"} ELSE {})
              \cup (IF "ledger" \in features THEN {"transact"} ELSE {})
              \cup (IF "tokens" \in features THEN {"create"} ELSE {})

validate_account(account) ==
    \A u \in Users : account.roles[u] \subseteq AllowedRoles(account.features)

Holders(account) ==
    {u \in Users : account.roles[u] \cap {"owner", "approve", "submit"} # {}}

\* Faulty variant: the account itself counts as one of those who approve.
CountItself(account) == Cardinality(Holders(account)) + 1

\* All who hold a role on the account but itself.
DefaultThreshold(account) == Cardinality(Holders(account))

\* The threshold is settled when the feature comes with the account.
AddedAccount(account) ==
    IF "multisig" \in account.features /\ account.threshold = None
    THEN [account EXCEPT !.threshold = DefaultThreshold(account)]
    ELSE account

\* What a transaction asks for that names no threshold; one it is when the
\* feature was added later.
Quorum(account) == IF account.threshold = None THEN 1 ELSE account.threshold

OwnedBy(account, u) == [account EXCEPT !.roles[u] = @ \cup {"owner"}]

-----------------------------------------------------------------------------
(* Initial states. *)

\* Accounts of the initial state have no roles here.
GenesisAccount ==
    AddedAccount([roles |-> [u \in Users |-> {}], features |-> {"multisig"},
                  threshold |-> None])

\* with_tokens, and the identity that with_account stores.
WithTokens(c) ==
    LET on == c.migrate = 0
        token == IF on /\ c.token # None THEN c.token ELSE Root
        account == IF on /\ c.account # None THEN c.account ELSE Root
    IN  [legacy |-> 0,
         counter |-> [id \in Identities |-> IF on /\ id = token THEN c.next ELSE 0],
         identity |-> [kind \in {"account", "token"} |->
                          IF kind = "token" THEN token ELSE account],
         symbols |-> c.symbols,
         infos |-> IF on THEN c.symbols ELSE {},
         accounts |-> [a \in Addresses |-> None],
         events |-> <<>>,
         height |-> 0]

\* Account a of the initial state, written without an event.
WithAccount(s, on, a) == [Counted(s, on, a[1], a[2]) EXCEPT !.accounts[a] = GenesisAccount]

\* The accounts of the initial state, one after the other; nothing is
\* committed before the last.
AccountsAfter(c) ==
    LET After[i \in 0 .. c.accounts] ==
            IF i = 0 THEN WithTokens(c)
            ELSE WithAccount(After[i - 1], c.migrate = 0,
                             get_next_subresource(After[i - 1], WithTokens(c),
                                                  c.migrate = 0, "account"))
    IN  After

WithAccounts(c) == AccountsAfter(c)[c.accounts]

\* A ledger that cannot number the accounts of its initial state is not built.
ASSUME GenesisAssumption ==
    \A c \in Configs : \A i \in 0 .. c.accounts - 1 :
        CanNumber(AccountsAfter(c)[i], WithTokens(c), c.migrate = 0, "account")

Init ==
    /\ config \in Configs
    /\ store = WithAccounts(config)
    /\ disk = store
    /\ active = (config.migrate = 0)
    /\ creating = None
    /\ interrupted = {}
    /\ unsound = FALSE
    /\ skipped = FALSE
    /\ crashes = 0

\* Faulty variant: every change is committed, also in a block.
AlwaysCommitted(s) == store' = s /\ disk' = s

\* maybe_commit, after the tree became s.
Applied(s) ==
    /\ store' = s
    /\ disk' = IF config.blockchain THEN disk ELSE s

-----------------------------------------------------------------------------
(* Requests.  A creation commits its number and its event first. *)

Number(kind, rest) ==
    LET a == get_next_subresource(store, disk, active, kind)
        s == Counted(store, active, a[1], a[2])
    IN  /\ creating = None
        /\ Len(store.events) < MaxCreations
        /\ CanNumber(store, disk, active, kind)
        /\ Applied([s EXCEPT !.events = Append(@, a),
                             !.symbols = IF kind = "token" THEN @ \cup {a} ELSE @])
        /\ creating' = [kind |-> kind, address |-> a, account |-> rest]
        /\ UNCHANGED <<config, active, interrupted, unsound, skipped, crashes>>

Create(sender, args) ==
    LET account == OwnedBy(args, sender)
    IN  /\ args.features # {}
        /\ validate_account(account)
        /\ Number("account", AddedAccount(account))

\* Tokens may be created once the migration is active.
CreateToken ==
    /\ active
    /\ Number("token", None)

\* commit_account, or the keys of a new token.
Finish ==
    LET a == creating.address
    IN  /\ creating # None
        /\ Applied(IF creating.kind = "account"
                   THEN [store EXCEPT !.accounts[a] = creating.account]
                   ELSE [store EXCEPT !.infos = @ \cup {a}])
        /\ creating' = None
        /\ UNCHANGED <<config, active, interrupted, unsound, skipped, crashes>>

Owns(sender, a) ==
    store.accounts[a] # None /\ "owner" \in store.accounts[a].roles[sender]

WithFeatures(account, args) ==
    [roles |-> [u \in Users |-> account.roles[u] \cup args.roles[u]],
     features |-> account.features \cup args.features,
     threshold |-> IF "multisig" \in args.features THEN args.threshold
                   ELSE account.threshold]

CanAddFeatures(account, args) ==
    /\ args.features # {}
    /\ args.features \cap account.features = {}
    /\ validate_account(WithFeatures(account, args))

AddFeatures(sender, a, args) ==
    /\ creating = None
    /\ Owns(sender, a)
    /\ CanAddFeatures(store.accounts[a], args)
    /\ Applied([store EXCEPT !.accounts[a] = WithFeatures(@, args)])
    /\ UNCHANGED <<config, active, creating, interrupted, unsound, skipped, crashes>>

\* Nothing compares the roles with the features here.
AddRoles(sender, a, user, role) ==
    /\ creating = None
    /\ Owns(sender, a)
    /\ Applied([store EXCEPT !.accounts[a].roles[user] = @ \cup {role}])
    /\ UNCHANGED <<config, active, creating, interrupted, unsound, skipped, crashes>>

-----------------------------------------------------------------------------
(* Blocks and restarts. *)

\* Faulty variant: the old counter is not carried over.
CounterForgotten(s) ==
    [s EXCEPT !.legacy = 0, !.identity["account"] = Root, !.counter[Root] = 0]

migrate_account_identity(s) ==
    [s EXCEPT !.legacy = 0, !.identity["account"] = Root, !.counter[Root] = s.legacy]

migrate_token(s) ==
    [s EXCEPT !.infos = @ \cup {config.symbol},
              !.counter[config.token] = config.next,
              !.identity["token"] = config.token]

Migrated(s) == migrate_token(migrate_account_identity(s))

\* The parameters put the counter of the accounts back, or name one of
\* several symbols: the others are no longer listed.
Forgets(s) ==
    \/ config.token = Root /\ config.next < s.legacy
    \/ s.symbols # {config.symbol}

Commit ==
    LET height == store.height + 1
        s == [store EXCEPT !.height = height]
        now == height = config.migrate
    IN  /\ config.blockchain
        /\ creating = None
        /\ height <= MaxHeight
        /\ store' = IF now THEN Migrated(s) ELSE s
        /\ disk' = store'
        /\ active' = (active \/ now)
        /\ unsound' = (unsound \/ (now /\ Forgets(s)))
        /\ UNCHANGED <<config, creating, interrupted, skipped, crashes>>

(***************************************************************************)
(* The process stops after the first of the commit's two commits: the new  *)
(* height is stored, the migration of this height is not.  The next load   *)
(* makes it active for the height it finds, and nothing runs it again.     *)
(***************************************************************************)
StopInCommit ==
    LET height == store.height + 1
    IN  /\ config.blockchain
        /\ creating = None
        /\ height <= MaxHeight
        /\ crashes < MaxCrashes
        /\ crashes' = crashes + 1
        /\ store' = [store EXCEPT !.height = height]
        /\ disk' = store'
        /\ active' = (config.migrate # None /\ height >= config.migrate)
        /\ skipped' = (skipped \/ height = config.migrate)
        /\ UNCHANGED <<config, creating, interrupted, unsound>>

\* The migrations at or below the stored height are active after a load.
Crash ==
    /\ crashes < MaxCrashes
    /\ crashes' = crashes + 1
    /\ store' = disk
    /\ creating' = None
    /\ active' = (config.migrate # None /\ disk.height >= config.migrate)
    /\ interrupted' = IF creating # None /\ ~config.blockchain
                      THEN interrupted \cup {creating.address} ELSE interrupted
    /\ UNCHANGED <<config, disk, unsound, skipped>>

Next ==
    \/ \E sender \in Senders :
          \/ \E args \in Creations : Create(sender, args)
          \/ \E a \in Addresses, args \in AddedFeatures : AddFeatures(sender, a, args)
          \/ \E a \in Addresses, grant \in AddedRoles :
                AddRoles(sender, a, grant[1], grant[2])
    \/ CreateToken
    \/ Finish
    \/ Commit
    \/ StopInCommit
    \/ Crash

Spec == Init /\ [][Next]_vars

-----------------------------------------------------------------------------
\* Type invariant.
TypeOK ==
    /\ store \in StoreType
    /\ disk \in StoreType
    /\ active \in BOOLEAN
    /\ creating # None => creating.address \in Addresses
    /\ interrupted \subseteq Addresses

\* The record of the addresses given was lost, by the migration or without it.
Lost == unsound \/ skipped

(***************************************************************************)
(* An address is given once: not to a second account or token, nor to one  *)
(* where the initial state has a token, in either mode, across the         *)
(* migration and stops, also of a creation between its two commits.  Two   *)
(* things break it and are excepted.  The parameters of a migration can,   *)
(* by a smaller counter for the identity the accounts use or by leaving    *)
(* out a symbol.  So does a stop between the commit of the height and the  *)
(* migration of that height: the counters by identity are then read, were  *)
(* never written, and start again at 0.                                    *)
(***************************************************************************)
AddressesOnce ==
    ~Lost =>
        /\ \A i, j \in DOMAIN store.events : i # j => store.events[i] # store.events[j]
        /\ creating # None => /\ store.accounts[creating.address] = None
                              /\ creating.address \notin config.symbols \cup store.infos
        /\ {a \in Addresses : store.accounts[a] # None} \cap store.symbols = {}

(***************************************************************************)
(* In every committed state a creation the log tells of has its account or *)
(* its token, except for requests a stop cut in two: in blockchain mode    *)
(* there are none.  The list of symbols and their keys agree as far.       *)
(***************************************************************************)
CreationsComplete ==
    \A i \in DOMAIN disk.events :
        LET a == disk.events[i]
        IN  \/ disk.accounts[a] # None
            \/ a \in disk.infos /\ a \in disk.symbols
            \/ a \in interrupted
            \/ ~config.blockchain /\ creating # None /\ creating.address = a

(***************************************************************************)
(* When the requests leave the threshold to the ledger, every account with *)
(* the multisig feature that a request made, or added the feature to, asks *)
(* for at least one approval and never for more than its users can give,   *)
(* whatever features and roles are added to it later.  (In the exceptions  *)
(* of AddressesOnce the address of an older account may be given again.)   *)
(***************************************************************************)
QuorumReachable ==
    ~Lost /\ (\A args \in Creations \cup AddedFeatures : args.threshold = None) =>
        \A i \in DOMAIN store.events :
            LET account == store.accounts[store.events[i]]
            IN  account # None /\ "multisig" \in account.features =>
                    Quorum(account) \in 1 .. Cardinality(Holders(account))
=============================================================================
