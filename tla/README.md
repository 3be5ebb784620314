# A TLA+ model of many-framework

many-framework (Rust) provides two applications that run behind Tendermint:
`many-ledger` (tokens, balances, accounts, multisig transactions) and
`many-kvstore` (keys with owners). Both keep their state in a Merk tree
(RocksDB) and are driven by `many-abci`, a bridge that turns Tendermint's ABCI
calls into MANY messages. Both can also run alone, without a blockchain; then
every write commits by itself.

This directory holds TLA+ modules translated from that code, TLC configurations
that check them on small instances, and proofs that TLAPS checks for all values
of the constants. `PROJECT.json` maps every definition to the lines it models.

## Inventory

| Part | State | Operations | What makes it correct |
|---|---|---|---|
| Block life cycle (`storage/abci.rs`, `storage.rs`) | height, `latest_tid`, in-memory and durable store | begin_block, deliver_tx, commit, crash, load | replicas of one height agree; ids are never reused; a replay gives the same result |
| Event log (`storage/event.rs`) | `/events/`, `/events_count` | log_event, nb_events, iteration | the count is the number of events; nothing is overwritten; keys are in the order of execution |
| Memo migration (`migration/memo.rs`) | legacy fields of events and transactions | two rewriting passes inside commit | everything is converted once past its height |
| Multisig (`storage/multisig.rs`) | `/multisig/`: approvers, threshold, timeout, state, disabled | submit, approve, revoke, execute, withdraw, set defaults, sweep; direct sends from the account | run at most once, only with its quorum, finally resolved; log and funds tell the runs |
| Ledger accounts (`storage/account.rs`) | roles, features, disabled | create, roles, features, disable | an account owns itself; a disabled one does nothing; a default quorum can be reached |
| Addresses and token migration (`storage.rs`, `migration/tokens.rs`) | subresource counters, identities, symbol list | numbering, migration inside commit | an address is given once, before and after the migration |
| Tokens (`storage/ledger_tokens.rs`) | token information, tickers, subresource counter | create, update, extended information | tickers unique and consistent; a token without an owner is final |
| Balances (`storage/ledger*.rs`) | `/balances/`, supply | send, mint, burn | supply equals balances; the maximum is kept |
| Data attributes (`storage/data.rs`) | two counters | update on send | counters follow what they count |
| Key-value store (`many-kvstore`) | metadata, values, accounts, event log | put, disable, transfer, account commands, commit, load | one owner at a time; the log tells the state |
| ABCI bridge (`many-abci`) with Tendermint, clients (`ledger`, `kvstore`) | none of its own; the node's progress, the chain, the index, what clients know | handshake, begin, deliver, commit, broadcast, query, async status, restarts | no command runs twice or is lost; a node that differs from the network stops; answers are true |
| Identity store (`storage/idstore.rs`, `idstore-export`) | seed, recall phrases, credentials | store, lookups, export | a phrase stays with its credential; both lookups agree; a client is served |

How the parts meet: Tendermint decides blocks; the bridge calls begin_block,
one request per transaction, and commit. Requests to accounts, multisig and
tokens read and write one Merk store. `Merk::get` sees what the current block
has written, iterators over the database do not: several operations read
through both. After a crash the application reports the height it made durable
and Tendermint replays from there.

What is hard: a crash inside commit, which commits several times; ids computed
by two formulas (`commit` and `load`); expiry, which reads committed records and
writes over uncommitted ones; multisig transactions that approve, execute, revoke
or withdraw each other or themselves; calls of the bridge that fail before or after they took effect; the bridge
and the application restarting apart; a migration that moves counters in the
middle of a chain; and, without a blockchain, a stop between two commits of one
request.
`PROJECT.json` lists these as hazards with the properties that catch them.

## Modules

* `LedgerBlocks`: replicas on one chain. `store[n]` is what `Merk::get` answers
  and `disk[n]` what is durable; `phase[n]` cuts `commit` at each of its durable
  commits (`CommitBlock`, `MigrateEvents`, `MigrateTxs`, `CommitDone`). A command
  is abstracted to the ids it takes and the keys it writes; an entry is the block
  and position it came from.
* `Multisig`: requests as actions on one store. `Blockchain` selects the mode:
  with it `BeginBlock` and `Commit` surround requests, without it `Write` makes
  each request durable, `Tick` is the system clock, and `CrashInApprove` and
  `CrashInExecute` stop between two commits. `runs[t]` counts how often the
  transaction of a token was run and `votes[t]` has the approvals the run was
  decided on; `sent[a]` counts the direct sends from an account (`SendRequest`, of
  `ledger.send`). A transaction may name any token, its own and later ones too;
  `Run` follows what it leads to, down to the depth `Shallow` allows.
* `MultisigLifecycle`: the abstract specification. A token gets terms once, is
  concluded once, and has at most one effect.
* `LedgerTokens`: send, mint, burn, creation, update, extended information and
  the counters, with `get_symbols` reading `disk` as the iterator does.
* `KvStore`: keys, accounts, event log; `blockchain` is chosen at the start.
* `LedgerAccounts`: numbering of accounts and tokens with the legacy counter, the
  token migration inside `Commit`, `StopInCommit` between the two commits around
  it, and the accounts made: `Number` writes counter
  and event, `Finish` the account or token, and without a blockchain a crash may
  fall between the two. `config` is the initial state and the parameters of the
  migration; `unsound` records that these parameters themselves put a counter
  back or left a symbol out, `skipped` that a stop left the migration undone.
* `IdStore`: one request at a time, cut at its commits (`Try` is a turn of the
  loop, `Store` the credential, `Answer` the reply); `told` is what clients have.
  `Transplant` is the export tool followed by a ledger built from its output.
* `AbciBridge`: one node. `node.pc` is where Tendermint is in its handshake or
  block, `tm` what it has on disk, `app` and `disk` the application in memory and
  committed, `client` and `index` the asynchronous answers. Each call of the
  bridge has a fate: it succeeds, never arrives, or its answer is lost. `hurt`
  remembers which calls failed and which parts restarted without the other in
  the middle of a block, so that properties can name the failures they exclude.
  The network and Tendermint are external: blocks carry the hash and results of
  a node without faults, and Tendermint stops when its own differ. The
  application is its log of executed commands; `LedgerBlocks` is the detail. Reads
  of a key (`Query`) see the log in memory, lists (`Listed`) the committed one.
  `Stamped` says which commands, executed at which time, answer with that time; in
  the run the command does so in the second block and not in the first, so that a
  lost beginBlock is told by the answer in one and only by the hash in the other.
* `Induction`: induction over the naturals, used by the proofs.
* `LedgerBlocksProofs`, `MultisigProofs`, `LedgerTokensProofs`, `KvStoreProofs`,
  `LedgerAccountsProofs`, `IdStoreProofs`, `AbciBridgeProofs`: the theorems of each
  component.
* `MC*`: instances for TLC.

Operators named as a fault (`CommitTidConstant`, `DisableTxForgotten`, ...) stand
before the definition they are a plausible bug of. No specification uses them:
they document which mistake each property detects.

## Runs and bounds

| Run | Properties | What it shows |
|---|---|---|
| `MCLedgerBlocks_replay` | TypeOK, SameHeightSameState, SubmissionsKept, NbEventsExact, KeysFollowExecution, MigrationComplete, NoOverwrite | two replicas, chains of three blocks with the migration in the second, two crashes, load and replay: same data and same ids, keys in the order of execution, the count is what is listed plus the current block, everything migrated |
| `MCMultisig_nested` | RunOnce, ExecutedWithQuorum, LogMatchesRuns, FundsOnlyThroughRuns, RunsNeedQuorum | the account acts on its own transactions through others and through themselves, its owner also sends directly; runs, log, quorum and funds agree |
| `MCMultisig_expiry` | SweepComplete, EventuallyResolved, ImplementsLifecycle | the early stop of the sweep misses nothing; nothing is pending for ever; the durable store refines `MultisigLifecycle` |
| `MCMultisig_immediate` | TypeOK, RunsNeedQuorum | without a blockchain, with stops inside requests, two users, direct sends and changes of roles, defaults and the account |
| `MCLedgerTokens_tokens` | TypeOK, TickersAgree, SupplyMatchesBalances, ImmutableForever, MintWithinMaximum, SendsAreCounted | conservation, maximum, counters of sends, tickers and ownership over blocks and a crash; distributions to one and to both addresses |
| `MCKvStore_log` | ChainOfOwners, LogTellsStore, CountMatchesList, AccountsStay | in both modes and with a crash: the log is an exact account of owners, disabled keys and roles; the count is what can be listed plus what is not committed; accounts stay |
| `MCLedgerAccounts_accounts` | TypeOK, AddressesOnce, CreationsComplete, QuorumReachable | 17 initial states: migration from the start, at block 1 or never, tokens under the server's identity or another; a stop may fall inside commit |
| `MCIdStore_idstore` | PhraseIsForever, LookupsAgree, RetriesSucceed | both modes, more preloaded phrases in a row than one request tries, the last seed, crash and export |
| `MCAbciBridge_bridge` | NoDoubleExecution, DivergenceContained, HealthyNeverHalts, AnswersAreTrue, ReadYourWrites, Recovers | one failing call and two restarts of the node or of a part of it, at any point of two blocks |

`TypeOK` of `KvStore`, `IdStore` and `AbciBridge` documents their state; it is not
among the properties of these runs but proved.

The bounds are the smallest in which the cases of interest happen. Three blocks:
two of the shared first range and one beyond, with the migration in the second.
A crash inside commit at a height without a migration finds the same durable
store as one just after it, so the crash points left out of this run are only
those of the run that shows what they do. Multisig: two tokens, so that one can
refer to itself, to an earlier and to a later one; `Shallow` allows one
execution inside another and leaves deeper ones out. The nested run has a clock of one second, as
the timeout is one second and a submission comes before it; nobody disables the
account in it (`Closers`), which the immediate and the expiry runs add. Two
addresses: a sender and a receiver. One or two crashes: every
property is about what one crash leaves behind, and `disk` forgets how it came
about. The clock goes past the maximal timeout. `CounterRange` is small so
that wrapping is reached; `Span` is only larger than what a block can use.
Tokens: one that exists, one created above its maximum or below it; mints and burns
are for one address and for both, so that the running sum meets the maximum in the
middle of a distribution. Accounts: four numbers per identity, so that the counter meets both a
symbol of the initial state and its end. Bridge: two blocks and two restarts, so
that a node can fail while it replays; one call fails in a
run.

### Where the code differs from what it says

These runs are expected to fail; each counterexample is a behaviour of the code.

| Run | Property | Code | What it says |
|---|---|---|---|
| `MCLedgerBlocks_first_block` | InFlightResolvedSeparately | blocks 1 and 2 share their ids, `storage/abci.rs:30` | `tests/multisig.rs:447` |
| `MCLedgerBlocks_migration_crash` | MigrationComplete | a crash in commit skips the migration, `storage/abci.rs:18` | `migration/memo.rs:181` |
| `MCMultisig_stale_expiry` | ExecutedIsReported | the sweep replaces an executed record by an expired one, `storage/multisig.rs:193` | `tests/multisig.rs:511` |

Met while modelling and followed by the model, without a run of their own:

* Without a blockchain the effect of an execution commits before the record is
  disabled (`storage/multisig.rs:566`): after a stop between the two it can be
  executed again. `RunOnce` is therefore checked and proved with blocks only,
  and without them `RunsNeedQuorum` is what remains.
* A multisig transaction may name its own token, which can be predicted: nothing
  compares the two (`storage/multisig.rs:133-151`). One that revokes the account's
  own approval of itself ends as executed with fewer approvals left than its
  threshold; it was run on enough of them, which is what `ExecutedWithQuorum` and
  `RunsNeedQuorum` say. One that withdraws itself is run and ends as withdrawn:
  disabling it again fails (`storage/multisig.rs:574`), the request is answered with
  an error and no execution is logged (`LogMatchesRuns`). One that approves or
  executes itself recurses until the stack is used up, which the model has as
  `Crash`: nothing bounds the recursion.
* Owners of an account, and with the ledger feature those with canLedgerTransact,
  send from it without multisig (`module/ledger_commands.rs:27`):
  `FundsOnlyThroughRuns` counts both ways.
* Iterators over the database leave out what the current block wrote, so
  events.list reports a number of events that includes the current block next to a
  list that does not (`module/event.rs:110-142` and that of many-kvstore):
  `NbEventsExact` and `CountMatchesList` state the relation.
* A stop between the commit of the height and the migration skips the token
  migration as it does the memo migration: the counters per identity then start at 0
  and addresses are given again. `AddressesOnce` excepts this case (`skipped`).
* The answer of multisigExecute holds the block time inside its data
  (`storage/multisig.rs:583-589`); the bridge replaces only the time of the envelope
  around it (`many-abci/src/abci_app.rs:155`). After a lost beginBlock the answer
  differs from that of other nodes, so `AnswersAreTrue` compares answers only where
  no call but commit has failed.
* After a failed commit Tendermint still reports the commands of the block, but
  lists do not show them; `ReadYourWrites` says which reads do.
* The first counter of the data attributes is described as "the total number of
  unique addresses" (`migration/data.rs:105`). The code counts balance entries, so an
  address counts once for every symbol it has had (`storage/data.rs:50`,
  `migration/data.rs:33`), and mint, burn and create change balances without the
  counters (`storage/ledger_mintburn.rs`). `SendsAreCounted` says what holds: a send
  moves the counters as it moves entries of an address and a symbol.
* mint stores a balance for the anonymous address (`storage/ledger_mintburn.rs:46`);
  `storage/ledger.rs:41` says it cannot hold funds.
* Without blocks many-kvstore never stores its last event id
  (`many-kvstore/src/storage.rs:182`): after a reload new events replace older
  ones (`IdsAreUnique` in `KvStore`).
* A failed abci.info is answered with height 0 (`many-abci/src/abci_app.rs:63`):
  Tendermint then replays every block on a state that has them, and commands run
  twice before it notices. `NoDoubleExecution` and `DivergenceContained` name
  this failure. `DivergenceContained` needs it together with a restart of
  Tendermint alone: abci.info answers the hash of the last commit, not of the tree.
* A call of commit or deliver_tx that fails after it took effect leaves wrong
  results in Tendermint's own database; the node stays stopped after a restart.
* A block whose commit failed is delivered again after a restart. A command of it
  whose call fails this time is lost without notice if the commit then fails again
  with the same text, which the bridge passes on as the hash. It takes three
  failures, so the run does not reach it; the invariant of the proof was false
  there. `ReadYourWrites` excludes a node with failures of both calls.
* `token_identity` of the token migration may be the server's own, and
  `token_next_subresource` may be below the counter of the accounts
  (`migration/tokens.rs:128`): addresses of accounts are then given again. Of
  several symbols only one is migrated, the others are no longer listed.
  `AddressesOnce` supposes parameters that do neither.
* account.addRoles does not compare roles with features (`module/account.rs:197`),
  as create and addFeatures do.
* `LedgerStorage::store` looks for a phrase under a key it is never stored under
  (`storage/idstore.rs:105`); the caller's lookup is the one that counts.
* transfer in many-kvstore refuses a disabled key (`module.rs:272`) although the
  comment at `module.rs:301` allows it.

Some passing properties are stated next to these facts: `SubmissionsKept` and
`NoOverwrite` begin where the shared range ends, `NbEventsExact` supposes a first
block without events, and in the replay run no crash falls between the commits
that surround the migration.

### Fairness

`Multisig!FairSpec`: blocks keep coming and end (weak
fairness), their times follow the clock (strong fairness of a later block), and
a node that is down is loaded. Requests have no fairness.

`IdStore!FairSpec`: a request that has begun is served and blocks are committed
(weak fairness); a client repeats a request that failed, although others are
served in between (strong fairness of `Ask`). `AbciBridge!FairSpec`: the
processes of the node keep running and are started again, the indexer runs, and a
client that waits polls (weak fairness each). Nothing is assumed of the network,
of requests or of failures; `Recovers` is about a node that only crashes.

## Proofs

TLAPS checks a theorem for every invariant and every action property of the
passing runs, and for the refinement of `MultisigLifecycle`: for any constants that
satisfy the named assumptions, so for any number of nodes, users, keys, blocks,
failures and crashes. The assumptions say what types the constants have, that
markers such as `None` are no values, and what a configuration must satisfy for
the program to start; TLC evaluates them in the runs.

| Module | Theorems (property) | Supposing |
|---|---|---|
| `LedgerBlocksProofs` | TypeCorrect, SubmissionsStay (SubmissionsKept), IdsAreNew (NoOverwrite), EventsAreCounted (NbEventsExact), KeysAreInOrder (KeysFollowExecution) | a block takes fewer than `Span` ids |
| | ReplicasAgree (SameHeightSameState), NothingLegacyRemains (MigrationComplete) | also `MigrationUndisturbed`: no crash between the commits around the migration |
| `MultisigProofs` | TypeCorrect, NoRunWithoutQuorum (RunsNeedQuorum) | both modes; at most one execution inside another (`Shallow`), as in all of this module |
| | RunsAtMostOnce (RunOnce), ReportsAreTrue (ExecutedWithQuorum), LogTellsRuns (LogMatchesRuns), RunsAccountForFunds (FundsOnlyThroughRuns), SweepsAreComplete (SweepComplete), Implements (ImplementsLifecycle) | `Blockchain` |
| `LedgerTokensProofs` | TypeCorrect, ImmutableTokens (ImmutableForever), NeverAboveMaximum (MintWithinMaximum), SendsKeepCounters (SendsAreCounted) | `GenesisAssumption`: the initial supplies are the initial balances |
| | SupplyIsHeld (SupplyMatchesBalances) | `NoAnonymousShare`: no mint names the anonymous address |
| | TickersStayUnique (TickersAgree) | `GenesisTickersDiffer` |
| `KvStoreProofs` | TypeCorrect, ChainsOfOwners, LogTells, CountIsListed, AccountsNeverLeave | the first three properties name `IdsAreUnique` themselves |
| `LedgerAccountsProofs` | TypeCorrect, AddressesAreGivenOnce, CreationsAreComplete, QuorumIsReachable | `GenesisAssumption`: the accounts of the initial state can be numbered |
| `IdStoreProofs` | TypeCorrect, PhrasesAreForever, LookupsAlwaysAgree | |
| `AbciBridgeProofs` | TypeCorrect, ExecutedOnce (NoDoubleExecution), DivergenceIsContained, HealthyNodesRun, AnswersAreTruthful, WritesAreRead (ReadYourWrites) | the properties name the failures they exclude |

`MigrationUndisturbed` and `Blockchain` cannot be dropped: the runs
`migration_crash` and the note on stops without a blockchain above show what
happens otherwise. `NoAnonymousShare` excludes the balance that mint stores for an
address which reads as zero. `GenesisTickersDiffer` is left to who writes the
initial state: nothing in the code compares its tickers.

Hardly any of these properties is inductive. What each proof adds, and why:

* `LedgerBlocks`. To know that an id is new one must know that no key lies above
  what the node has given out. `NodeOK` says, per node, that `latest_tid` is the
  base of the current block plus what its commands took, that the keys of `store`
  and `disk` are bounded accordingly (`KeyLimit`), and that the submissions of
  completed blocks and of the delivered part of the current one are present in
  both. `CountInv` counts the events with it, and `OrderInv` adds the order of the
  entries. Two replicas are compared with each
  other by comparing each with a third thing: `ReplayInv` says that the state of a
  node is a point of one function of the chain, its replay without crashes.
  `MovedInv` follows the two passes of the migration through the phases of commit.
* `Multisig`. `store` and `disk` are sound (a token was run at most once and is
  closed if it was, nothing lies above `tid`) and `store` follows `disk` (terms kept,
  closed stays closed): the sweep and a crash both go back to `disk`. `BehindInv` is
  the part the quorum needs in both modes; `StoryInv` adds that state, log, votes and
  balances tell the same runs, and that no timeout is longer than the maximum, for
  which reason the early stop of the sweep is never taken. Lemmas say of each helper
  that it keeps, edits or advances a store, and of each token what a request may do
  to it (`TokenStep`), so the proof of a request is the composition of those of its
  helpers. That the run of a transaction does not contain another run of the same
  one is `NestsElsewhere`: within the bound `Shallow` an inner execution is of
  another token.
* `LedgerTokens`. Balances, supplies and counters are related for `store` and
  `disk` alike; the sum `Total` is a recursive function, and that changing one or
  two entries changes it by the difference is shown by induction.
* `KvStore`. Of both `store` and `disk`: ids lie below the next one, and owners,
  disabled keys, roles and the count are what the log up to there tells; the accounts
  of `disk` are in `store`, the disabled ones still disabled.
* `LedgerAccounts`. Every address in use lies below the counter it was numbered
  with, or is a symbol of the initial state that the search for a number passes
  over, with the keys of before or after the migration, unless its record is lost
  (`Lost`).
* `IdStore`. The same is said of two pairs: what is committed with the answers
  clients have, and the tree in memory with those answers and the ones the block
  has yet to give out. A commit makes the second pair the first, a crash the first
  the second.
* `AbciBridge`. A chain of invariants: `Base` (whatever failed, where Tendermint
  and the application can be), `Heights` (what the application says of its height
  is true unless abci.info failed), `InStep` (a hash Tendermint accepted is that of
  the tree in memory), `DecidedOnce` and `Once`, `Told` (results, saved results,
  index and clients have the answers of every other node), `Healthy` (without
  failures the node holds what every other holds), and `Superset`, `Durable`, `Kept`
  (what was reported is on disk, or else in memory). They were checked with TLC
  before they were proved, with the bounds of the run and, by simulation, with more
  failures, crashes and blocks.

Induction over data uses the lemmas of `Induction`, which are stated with a set of
naturals instead of a predicate. A recursive function (`Total`, `LogsOf`,
`CanonLogs`, the replay) is first shown to exist by that induction, then unfolded.

Only model-checked are the liveness properties: EventuallyResolved, RetriesSucceed
and Recovers. They need fairness and ENABLED, which the prover does
not support.

## What is left out

* In `Multisig`: submissions, account creation, features and descriptions as
  inner transactions; more than one execution inside another (`Shallow`); stops
  inside the inner transaction itself; the receiver of a send. Time is in seconds.
* In `LedgerTokens`: who may send a request; events; accounts that share the
  subresource counter (`LedgerAccounts`); activation of the data migration during
  a chain; names, decimals and other descriptive fields.
* In `LedgerAccounts`: roles removed and accounts disabled (`Multisig`);
  descriptions; the separate commit of the event of addRoles and addFeatures; roles
  of accounts of the initial state.
* In `IdStore`: the words of a phrase (two seeds give two phrases); the WebAuthn
  check before the request.
* In `AbciBridge`: the contents of commands and their failures; Tendermint beyond
  what the bridge answers to it; the same command sent twice; the read-only
  queries of the blockchain module; an answer of the application's server that is no
  response, or that the bridge cannot encode again (`abci_app.rs:147-168`); a connection limit of 60 seconds at start-up.
* In `KvStore`: description, features and roles given at creation; the height.
* Not modelled: hotfixes, event filters, the allow lists inside the applications,
  argument parsing, formatting in the clients, the proxy and the database viewer,
  which keep no state of their own.

## Plan

Every component of the inventory that keeps state has its module, its run and its
theorems. Left to do, in this order:

1. The data migration in the middle of a chain, in `LedgerTokens`, with the
   counters it starts from.
2. Account creation and features as inner multisig transactions, which would join
   `LedgerAccounts` and `Multisig` on one store.
3. A refinement of the application inside `AbciBridge` by `LedgerBlocks`, whose
   `ReplicasAgree` is what `AbciBridge` supposes of it: that the state is a
   function of the executed commands.
