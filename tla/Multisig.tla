------------------------------ MODULE Multisig ------------------------------
(***************************************************************************)
(* Multisig transactions of many-ledger: submission, approval, revocation, *)
(* execution (manual and automatic), withdrawal, expiry in commit, changes *)
(* of the account's roles and defaults and direct sends in between, and    *)
(* crashes.                                                                *)
(*                                                                         *)
(* The ledger runs in one of two modes.  With Blockchain it works inside   *)
(* blocks and only commit makes anything durable; without it every write   *)
(* is followed by maybe_commit, and a crash may fall between two writes of *)
(* one request.  store is what Merk::get answers, disk what is durable.    *)
(*                                                                         *)
(* Tokens are numbered in the order of submission: that the event ids the  *)
(* code uses are new is the subject of LedgerBlocks.                       *)
(***************************************************************************)
EXTENDS Integers, FiniteSets

CONSTANTS Users,             \* identities that send requests
          Accounts,          \* account addresses
          Genesis,           \* Genesis[a]: the account a at the start
          Transactions,      \* transactions that may be submitted
          SubmitArgs,        \* optional arguments of a submission
          DefaultArgs,       \* arguments of set_multisig_defaults
          Payers,            \* those of the users that send from accounts directly
          Closers,           \* those that disable accounts
          RoleChanges,       \* roles that owners give and take, <<who, role>>
          MaxTx,             \* tokens
          MaxTimeout,        \* MULTISIG_MAXIMUM_TIMEOUT_IN_SECS
          MaxTime,           \* bound on the clock
          MaxFunds,          \* balance of each account at the start
          MaxCrashes,        \* crashes in a behaviour
          None,              \* an argument that is not given
          NoTx,              \* no record under a token
          Blockchain         \* LedgerStorage::blockchain

Principals == Users \cup Accounts

Roles == {"owner", "submit", "approve", "transact"}

Tokens == 1 .. MaxTx

\* Kinds of transactions, by what executing one does.
Kinds == {"send", "addRoles", "removeRoles", "disable", "setDefaults",
          "revoke", "withdraw", "approve", "execute"}

\* Fields a kind does not use are filled with any value.  token may be that of
\* the transaction itself, of a later one or of none.
TransactionType ==
    [kind : Kinds, account : Accounts, who : Principals, role : Roles,
     token : Tokens, threshold : Nat]

AccountType ==
    [roles : [Principals -> SUBSET Roles], disabled : BOOLEAN,
     ledger : BOOLEAN, multisig : BOOLEAN, threshold : Nat, timeout : Nat, auto : BOOLEAN]

Optional(set) == set \cup {None}

ArgType ==
    [threshold : Optional(Nat), timeout : Optional(Nat), auto : Optional(BOOLEAN)]

ASSUME MultisigAssumption ==
    /\ Users \cap Accounts = {}
    /\ Genesis \in [Accounts -> AccountType]
    /\ Transactions \subseteq TransactionType
    /\ SubmitArgs \subseteq ArgType
    /\ DefaultArgs \subseteq ArgType
    /\ Payers \subseteq Users
    /\ Closers \subseteq Users
    /\ RoleChanges \subseteq Principals \X Roles
    /\ None \notin Nat
    /\ None \notin BOOLEAN
    /\ MaxTx \in Nat
    /\ MaxTimeout \in Nat
    /\ MaxTime \in Nat
    /\ MaxFunds \in Nat
    /\ MaxCrashes \in Nat
    /\ Blockchain \in BOOLEAN

Executed == {"ExecutedAutomatically", "ExecutedManually"}
States == {"Pending", "Withdrawn", "Expired"} \cup Executed

\* MultisigTransactionStorage.  approvers is a map: "no" is an entry whose
\* approved flag is false, "absent" no entry.
TxType ==
    [account : Accounts, transaction : Transactions, submitter : Principals,
     approvers : [Principals -> {"yes", "no", "absent"}], threshold : Nat,
     auto : BOOLEAN, timeout : Nat, creation : Nat, state : States,
     disabled : BOOLEAN]

ASSUME NoTxAssumption == NoTx \notin TxType

EventKinds == {"submit", "approve", "revoke", "execute", "withdraw"}

(***************************************************************************)
(* The part of the store that is modelled: accounts, multisig              *)
(* transactions, the balance of each account, and the kinds of events      *)
(* logged for each token.  runs counts how often the transaction of a      *)
(* token was run; it stands for the effect of that run and is durable when *)
(* the effect is.  votes holds the approvals the last run was decided on,  *)
(* and sent counts the direct sends from an account.  tid is latest_tid:   *)
(* with blocks, load computes it again from the durable height, so it      *)
(* follows the store.                                                      *)
(***************************************************************************)
StoreType ==
    [tid : 0 .. MaxTx, accounts : [Accounts -> AccountType], txs : [Tokens -> TxType \cup {NoTx}],
     funds : [Accounts -> Nat], sent : [Accounts -> Nat],
     log : [Tokens -> SUBSET EventKinds], runs : [Tokens -> Nat],
     votes : [Tokens -> SUBSET Principals]]

VARIABLES store, disk, now, phase, crashes

vars == <<store, disk, now, phase, crashes>>

-----------------------------------------------------------------------------
(* Reading the store.                                                      *)

\* get_account answers None for a disabled account.
Known(s, a) == ~s.accounts[a].disabled

HasRole(s, a, p, roles) == s.accounts[a].roles[p] \cap roles # {}

Exists(s, t) == s.txs[t] # NoTx

\* get_multisig_info, then the test of disabled every operation starts with.
Open(s, t) == Exists(s, t) /\ ~s.txs[t].disabled

Approved(tx) == {p \in Principals : tx.approvers[p] = "yes"}

\* Faulty variant: revoked approvals still count.
should_executeAnyEntry(tx) ==
    Cardinality({p \in Principals : tx.approvers[p] # "absent"}) >= tx.threshold

should_execute(tx) == Cardinality(Approved(tx)) >= tx.threshold

Given(arg, default) == IF arg = None THEN default ELSE arg

MinOf(x, y) == IF x <= y THEN x ELSE y

(***************************************************************************)
(* Operations take a store and give a store; a refused one gives the store *)
(* it was given.  Whether it was refused is Can....                        *)
(***************************************************************************)
Log(s, t, kind) == [s EXCEPT !.log[t] = @ \cup {kind}]

\* Faulty variant: the inner transaction runs and the record stays as it is.
DisableTxForgotten(s, t, state) == s

\* MultisigTransactionStorage::disable through disable_multisig_transaction,
\* which reads the record again and refuses a disabled one.
DisableTx(s, t, state) ==
    IF Open(s, t)
    THEN [s EXCEPT !.txs[t].state = state, !.txs[t].disabled = TRUE]
    ELSE s

-----------------------------------------------------------------------------
(* Account operations, requested by an owner.                              *)

CanOwn(s, a, sender) == Known(s, a) /\ HasRole(s, a, sender, {"owner"})

AddRoles(s, a, who, role) ==
    [s EXCEPT !.accounts[a].roles[who] = @ \cup {role}]

\* The account must own itself.
CanRemoveRoles(s, a, sender, who, role) ==
    CanOwn(s, a, sender) /\ ~(who = a /\ role = "owner")

RemoveRoles(s, a, who, role) ==
    [s EXCEPT !.accounts[a].roles[who] = @ \ {role}]

DisableAccount(s, a) == [s EXCEPT !.accounts[a].disabled = TRUE]

\* set_multisig_defaults; an account without the feature is left alone.
SetDefaults(s, a, args) ==
    IF ~s.accounts[a].multisig
    THEN s
    ELSE [s EXCEPT
            !.accounts[a].threshold = Given(args.threshold, @),
            !.accounts[a].timeout =
                IF args.timeout = None THEN @ ELSE MinOf(args.timeout, MaxTimeout),
            !.accounts[a].auto = Given(args.auto, @)]

-----------------------------------------------------------------------------
(* Multisig operations.                                                    *)

CanSubmit(s, sender, a, args) ==
    /\ Known(s, a)
    /\ HasRole(s, a, sender, {"submit", "owner"})
    /\ s.accounts[a].multisig
    /\ \/ args.threshold = None /\ args.timeout = None /\ args.auto = None
       \/ HasRole(s, a, sender, {"owner"})

\* Faulty variant: the timeout an owner asks for is not capped.
TimeoutUncapped(s, a, args) == Given(args.timeout, s.accounts[a].timeout)

Timeout(s, a, args) == MinOf(Given(args.timeout, s.accounts[a].timeout), MaxTimeout)

\* create_multisig_transaction: the submitter approves, nothing is executed.
NewTx(s, sender, a, tr, args) ==
    [account     |-> a,
     transaction |-> tr,
     submitter   |-> sender,
     approvers   |-> [p \in Principals |-> IF p = sender THEN "yes" ELSE "absent"],
     threshold   |-> Given(args.threshold, s.accounts[a].threshold),
     auto        |-> Given(args.auto, s.accounts[a].auto),
     timeout     |-> now + Timeout(s, a, args),
     creation    |-> now,
     state       |-> "Pending",
     disabled    |-> FALSE]

PutTx(s, t, tx) == [s EXCEPT !.tid = t, !.txs[t] = tx]

CanApprove(s, sender, t) ==
    /\ Open(s, t)
    /\ Known(s, s.txs[t].account)
    /\ HasRole(s, s.txs[t].account, sender, {"approve", "submit", "owner"})

\* Who already has an entry may revoke whatever roles are left to them.
CanRevoke(s, sender, t) ==
    /\ Open(s, t)
    /\ Known(s, s.txs[t].account)
    /\ \/ s.txs[t].approvers[sender] # "absent"
       \/ HasRole(s, s.txs[t].account, sender, {"approve", "submit", "owner"})

\* Of execute_multisig (without the threshold) and of withdraw_multisig.
CanConclude(s, sender, t) ==
    /\ Open(s, t)
    /\ Known(s, s.txs[t].account)
    /\ \/ HasRole(s, s.txs[t].account, sender, {"owner"})
       \/ s.txs[t].submitter = sender

CanExecute(s, sender, t) == CanConclude(s, sender, t) /\ should_execute(s.txs[t])

SetApproval(s, sender, t, answer) == [s EXCEPT !.txs[t].approvers[sender] = answer]

Revoke(s, sender, t) == Log(SetApproval(s, sender, t, "no"), t, "revoke")

Withdraw(s, t) == Log(DisableTx(s, t, "Withdrawn"), t, "withdraw")

-----------------------------------------------------------------------------
OnlyThreshold(n) == [threshold |-> n, timeout |-> None, auto |-> None]

\* Faulty variant: the balance is not looked at.
CanSendUnfunded(s, sender, a) ==
    Known(s, a) /\ HasRole(s, a, sender, {"transact", "owner"})

CanSend(s, sender, a) ==
    /\ Known(s, a)
    /\ HasRole(s, a, sender, {"transact", "owner"})
    /\ s.funds[a] > 0

\* ledger.send from an account: owners may, and with the ledger feature those
\* who may transact.
CanSendFrom(s, sender, a) ==
    /\ Known(s, a)
    /\ \/ HasRole(s, a, sender, {"owner"})
       \/ s.accounts[a].ledger /\ HasRole(s, a, sender, {"transact"})
    /\ s.funds[a] > 0

SendFrom(s, a) == [s EXCEPT !.funds[a] = @ - 1, !.sent[a] = @ + 1]

Approval(s, sender, t) == Log(SetApproval(s, sender, t, "yes"), t, "approve")

(***************************************************************************)
(* _execute_multisig_tx for a transaction that leads to no other           *)
(* execution; sender is the account of the multisig transaction.  A        *)
(* refused one has no effect and its error goes into the response.         *)
(***************************************************************************)
RunLeaf(s, sender, tr) ==
    CASE tr.kind = "send" ->
           IF CanSend(s, sender, tr.account)
           THEN [s EXCEPT !.funds[tr.account] = @ - 1]
           ELSE s
      [] tr.kind = "addRoles" ->
           IF CanOwn(s, tr.account, sender)
           THEN AddRoles(s, tr.account, tr.who, tr.role)
           ELSE s
      [] tr.kind = "removeRoles" ->
           IF CanRemoveRoles(s, tr.account, sender, tr.who, tr.role)
           THEN RemoveRoles(s, tr.account, tr.who, tr.role)
           ELSE s
      [] tr.kind = "disable" ->
           IF CanOwn(s, tr.account, sender) THEN DisableAccount(s, tr.account) ELSE s
      [] tr.kind = "setDefaults" ->
           IF CanOwn(s, tr.account, sender)
           THEN SetDefaults(s, tr.account, OnlyThreshold(tr.threshold))
           ELSE s
      [] tr.kind = "approve" ->
           IF CanApprove(s, sender, tr.token) THEN Approval(s, sender, tr.token) ELSE s
      [] tr.kind = "revoke" ->
           IF CanRevoke(s, sender, tr.token) THEN Revoke(s, sender, tr.token) ELSE s
      [] tr.kind = "withdraw" ->
           IF CanConclude(s, sender, tr.token) THEN Withdraw(s, tr.token) ELSE s
      [] OTHER -> s

\* The transaction of token t has been run, on the approvals of voters.
CountRun(s, t, voters) == [s EXCEPT !.runs[t] = @ + 1, !.votes[t] = voters]

\* Faulty variant: no event for the execution.
ConcludeUnlogged(s, t, state) == DisableTx(s, t, state)

\* execute_multisig_transaction_internal after the run, and the event: when
\* the run itself disabled t the request ends there, with an error.
Conclude(s, t, state) ==
    IF Open(s, t) THEN Log(DisableTx(s, t, state), t, "execute") ELSE s

RanLeaf(s, t) ==
    CountRun(RunLeaf(s, s.txs[t].account, s.txs[t].transaction), t, Approved(s.txs[t]))

ExecuteLeaf(s, t, state) == Conclude(RanLeaf(s, t), t, state)

\* Faulty variant: automatic execution does not look at the threshold.
ExecutesNowAlways(tx) == tx.auto

ExecutesNow(tx) == tx.auto /\ should_execute(tx)

\* The account approves or executes a transaction that is then executed.
Nests(s, sender, tr) ==
    \/ /\ tr.kind = "approve"
       /\ CanApprove(s, sender, tr.token)
       /\ ExecutesNow(Approval(s, sender, tr.token).txs[tr.token])
    \/ /\ tr.kind = "execute"
       /\ CanExecute(s, sender, tr.token)

\* _execute_multisig_tx in full, down to the depth Shallow allows.
Run(s, sender, tr) ==
    IF ~Nests(s, sender, tr)
    THEN RunLeaf(s, sender, tr)
    ELSE IF tr.kind = "approve"
         THEN ExecuteLeaf(Approval(s, sender, tr.token), tr.token, "ExecutedAutomatically")
         ELSE ExecuteLeaf(s, tr.token, "ExecutedManually")

Ran(s, t) ==
    CountRun(Run(s, s.txs[t].account, s.txs[t].transaction), t, Approved(s.txs[t]))

Execute(s, t, state) == Conclude(Ran(s, t), t, state)

(***************************************************************************)
(* Bound on the nesting: an execution inside that of t contains no other.  *)
(* A transaction that approves or executes itself, or two that do so in    *)
(* turn, would go on until the stack of the process is used up: a Crash.   *)
(***************************************************************************)
Shallow(s, t) ==
    LET sender == s.txs[t].account
        tr == s.txs[t].transaction
        m == IF tr.kind = "approve" THEN Approval(s, sender, tr.token) ELSE s
        inner == m.txs[tr.token]
    IN  Nests(s, sender, tr) => ~Nests(m, inner.account, inner.transaction)

\* Bound of an approval: the execution that it leads to, if any.
ShallowApproval(s, sender, t) ==
    LET m == Approval(s, sender, t)
    IN  ExecutesNow(m.txs[t]) => Shallow(m, t)

Approve(s, sender, t) ==
    LET m == Approval(s, sender, t)
    IN  IF ExecutesNow(m.txs[t]) THEN Execute(m, t, "ExecutedAutomatically") ELSE m

-----------------------------------------------------------------------------
(***************************************************************************)
(* The sweep of commit, check_timed_out_multisig_transactions.  It walks   *)
(* the durable records (d), newest first, stops at one that is older than  *)
(* the maximal timeout without having timed out, and writes the durable    *)
(* copy of each timed out record back, whatever the block did to it.       *)
(***************************************************************************)
StopsAt(d, t) ==
    /\ Exists(d, t)
    /\ now < d.txs[t].timeout
    /\ now - d.txs[t].creation > MaxTimeout

Visited(d, t) == \A u \in Tokens : u > t => ~StopsAt(d, u)

TimedOut(d, t) == Open(d, t) /\ now >= d.txs[t].timeout /\ Visited(d, t)

\* Faulty variant: the state is set and disabled is not.
ExpireStateOnly(tx) == [tx EXCEPT !.state = "Expired"]

Expire(tx) == [tx EXCEPT !.state = "Expired", !.disabled = TRUE]

Sweep(s, d) ==
    [s EXCEPT !.txs =
        [t \in Tokens |-> IF TimedOut(d, t) THEN Expire(d.txs[t]) ELSE s.txs[t]]]

-----------------------------------------------------------------------------
EmptyStore ==
    [tid      |-> 0,
     accounts |-> Genesis,
     txs      |-> [t \in Tokens |-> NoTx],
     funds    |-> [a \in Accounts |-> MaxFunds],
     sent     |-> [a \in Accounts |-> 0],
     log      |-> [t \in Tokens |-> {}],
     runs     |-> [t \in Tokens |-> 0],
     votes    |-> [t \in Tokens |-> {}]]

Init ==
    /\ store = EmptyStore
    /\ disk = EmptyStore
    /\ now = 0
    /\ phase = IF Blockchain THEN "idle" ELSE "open"
    /\ crashes = 0

\* The end of a request: maybe_commit.
Write(s) ==
    /\ phase = "open"
    /\ store' = s
    /\ disk' = IF Blockchain THEN disk ELSE s
    /\ UNCHANGED <<now, phase, crashes>>

\* Bounds on submissions: tokens left, and a clock that can reach the timeout.
Submittable(t) == t \in Tokens /\ now + MaxTimeout <= MaxTime

SubmitRequest(p, a, tr, args) ==
    LET t == store.tid + 1
    IN  /\ Submittable(t)
        /\ CanSubmit(store, p, a, args)
        /\ Write(Log(PutTx(store, t, NewTx(store, p, a, tr, args)), t, "submit"))

ApproveRequest(p, t) ==
    /\ CanApprove(store, p, t)
    /\ ShallowApproval(store, p, t)
    /\ Write(Approve(store, p, t))

RevokeRequest(p, t) ==
    /\ CanRevoke(store, p, t)
    /\ Write(Revoke(store, p, t))

ExecuteRequest(p, t) ==
    /\ CanExecute(store, p, t)
    /\ Shallow(store, t)
    /\ Write(Execute(store, t, "ExecutedManually"))

WithdrawRequest(p, t) ==
    /\ CanConclude(store, p, t)
    /\ Write(Withdraw(store, t))

AddRolesRequest(p, a, who, role) ==
    /\ CanOwn(store, a, p)
    /\ Write(AddRoles(store, a, who, role))

RemoveRolesRequest(p, a, who, role) ==
    /\ CanRemoveRoles(store, a, p, who, role)
    /\ Write(RemoveRoles(store, a, who, role))

DisableRequest(p, a) ==
    /\ CanOwn(store, a, p)
    /\ Write(DisableAccount(store, a))

SetDefaultsRequest(p, a, args) ==
    /\ CanOwn(store, a, p)
    /\ Write(SetDefaults(store, a, args))

SendRequest(p, a) ==
    /\ CanSendFrom(store, p, a)
    /\ Write(SendFrom(store, a))

\* A block starts and brings its time, in seconds: not before that of the
\* last block, or that of the same block when it is replayed.
BeginBlock(time) ==
    /\ Blockchain
    /\ phase = "idle"
    /\ time >= now
    /\ now' = time
    /\ phase' = "open"
    /\ UNCHANGED <<store, disk, crashes>>

\* LedgerStorage::commit.
Commit ==
    /\ Blockchain
    /\ phase = "open"
    /\ store' = Sweep(store, disk)
    /\ disk' = store'
    /\ phase' = "idle"
    /\ UNCHANGED <<now, crashes>>

\* Without blocks, now() is the system clock.
Tick ==
    /\ ~Blockchain
    /\ now < MaxTime
    /\ now' = now + 1
    /\ UNCHANGED <<store, disk, phase, crashes>>

\* The process stops with s durable.
Stop(s) ==
    /\ phase # "down"
    /\ crashes < MaxCrashes
    /\ store' = s
    /\ disk' = s
    /\ phase' = "down"
    /\ crashes' = crashes + 1
    /\ UNCHANGED now

Crash == Stop(disk)

\* What is durable when a request stops between two of its commits.
ExecutePoints(s, t, state) == {Ran(s, t), DisableTx(Ran(s, t), t, state)}

ApprovePoints(s, p, t) ==
    LET m == Approval(s, p, t)
    IN  {SetApproval(s, p, t, "yes"), m} \cup
        (IF ExecutesNow(m.txs[t])
         THEN ExecutePoints(m, t, "ExecutedAutomatically")
         ELSE {})

CrashInApprove(p, t) ==
    /\ ~Blockchain
    /\ CanApprove(store, p, t)
    /\ ShallowApproval(store, p, t)
    /\ \E s \in ApprovePoints(store, p, t) : Stop(s)

CrashInExecute(p, t) ==
    /\ ~Blockchain
    /\ CanExecute(store, p, t)
    /\ Shallow(store, t)
    /\ \E s \in ExecutePoints(store, t, "ExecutedManually") : Stop(s)

\* LedgerStorage::load: without blocks the height stays 0, and numbering
\* starts again.
Load ==
    /\ phase = "down"
    /\ store' = IF Blockchain THEN store ELSE [store EXCEPT !.tid = 0]
    /\ phase' = IF Blockchain THEN "idle" ELSE "open"
    /\ UNCHANGED <<disk, now, crashes>>

Request ==
    \/ \E p \in Users, t \in Tokens :
          \/ ApproveRequest(p, t)
          \/ RevokeRequest(p, t)
          \/ ExecuteRequest(p, t)
          \/ WithdrawRequest(p, t)
    \/ \E p \in Users, a \in Accounts :
          \/ \E tr \in Transactions, args \in SubmitArgs : SubmitRequest(p, a, tr, args)
          \/ \E c \in RoleChanges :
                \/ AddRolesRequest(p, a, c[1], c[2])
                \/ RemoveRolesRequest(p, a, c[1], c[2])
          \/ \E args \in DefaultArgs : SetDefaultsRequest(p, a, args)
    \/ \E p \in Payers, a \in Accounts : SendRequest(p, a)
    \/ \E p \in Closers, a \in Accounts : DisableRequest(p, a)

Next ==
    \/ Request
    \/ \E time \in 0 .. MaxTime : BeginBlock(time)
    \/ Commit
    \/ Tick
    \/ Crash
    \/ \E p \in Users, t \in Tokens : CrashInApprove(p, t) \/ CrashInExecute(p, t)
    \/ Load

Spec == Init /\ [][Next]_vars

(***************************************************************************)
(* Tendermint keeps deciding blocks and ends each, their times follow the  *)
(* clock (again and again there is one later than the last: strong         *)
(* fairness), and a node that is down is restarted.                        *)
(***************************************************************************)
Fairness ==
    /\ SF_vars(\E time \in now + 1 .. MaxTime : BeginBlock(time))
    /\ WF_vars(\E time \in 0 .. MaxTime : BeginBlock(time))
    /\ WF_vars(Commit)
    /\ WF_vars(Load)

FairSpec == Spec /\ Fairness

-----------------------------------------------------------------------------
\* Type invariant.
TypeOK ==
    /\ store \in StoreType
    /\ disk \in StoreType
    /\ now \in 0 .. MaxTime
    /\ phase \in {"down", "idle", "open"}
    /\ crashes \in 0 .. MaxCrashes

(***************************************************************************)
(* The transaction of a token is run at most once, and one that was run    *)
(* can no longer be approved, revoked, executed or withdrawn, however      *)
(* approvals, nested executions, expiry and crashes interleave.            *)
(***************************************************************************)
RunOnce ==
    \A t \in Tokens :
        /\ store.runs[t] <= 1
        /\ store.runs[t] = 1 => Exists(store, t) /\ store.txs[t].disabled

(***************************************************************************)
(* A transaction is reported executed only if it was run, the run is in    *)
(* the event log, and the approvals it was run on reach its threshold.     *)
(* Those left in its record may be fewer: it may revoke one of its own.    *)
(***************************************************************************)
ExecutedWithQuorum ==
    \A t \in Tokens :
        (Exists(store, t) /\ store.txs[t].state \in Executed)
        => /\ store.runs[t] = 1
           /\ "execute" \in store.log[t]
           /\ Cardinality(store.votes[t]) >= store.txs[t].threshold

(***************************************************************************)
(* Every single run is of a transaction that was still open, on approvals  *)
(* that reach its threshold, all but one of which were given in earlier    *)
(* requests and not revoked since.  Holds in both modes, for nested runs,  *)
(* and through crashes in the middle of a request.                         *)
(***************************************************************************)
RunsNeedQuorum ==
    [][\A t \in Tokens :
          store'.runs[t] > store.runs[t]
          => /\ Open(store, t)
             /\ Cardinality(store'.votes[t]) >= store.txs[t].threshold
             /\ \E p \in Principals :
                    store'.votes[t] \subseteq Approved(store.txs[t]) \cup {p}]_vars

(***************************************************************************)
(* Funds leave an account only through direct sends and through multisig   *)
(* sends that were run, one unit each and each run once, in what is        *)
(* durable as in what the block has done so far.                           *)
(***************************************************************************)
Sends(s, a) ==
    {t \in Tokens : /\ s.runs[t] > 0
                    /\ Exists(s, t)
                    /\ s.txs[t].transaction.kind = "send"
                    /\ s.txs[t].transaction.account = a}

FundsOnlyThroughRuns ==
    \A a \in Accounts :
        /\ MaxFunds - store.funds[a] <= store.sent[a] + Cardinality(Sends(store, a))
        /\ MaxFunds - disk.funds[a] <= disk.sent[a] + Cardinality(Sends(disk, a))

\* The run of t withdrew t itself: t or the transaction it led to did.
TookItselfBack(s, t) ==
    \E u \in Tokens :
        /\ s.runs[u] = 1
        /\ s.txs[u].transaction.kind = "withdraw" /\ s.txs[u].transaction.token = t
        /\ \/ u = t
           \/ /\ s.txs[t].transaction.kind \in {"approve", "execute"}
              /\ s.txs[t].transaction.token = u

(***************************************************************************)
(* The event log tells which transactions were run: those with an event of *)
(* the execution, and those that withdrew themselves in their own run,     *)
(* which end withdrawn and without that event.  No other withdrawn one was *)
(* run, and none is logged as both.                                        *)
(***************************************************************************)
LogMatchesRuns ==
    \A t \in Tokens :
        /\ "execute" \in store.log[t] => store.runs[t] = 1
        /\ store.runs[t] = 1 =>
              \/ "execute" \in store.log[t]
              \/ "withdraw" \in store.log[t] /\ TookItselfBack(store, t)
        /\ ~({"execute", "withdraw"} \subseteq store.log[t])

(***************************************************************************)
(* commit expires every durable record whose timeout has come: the early   *)
(* stop of its walk never leaves one out.                                  *)
(***************************************************************************)
SweepComplete ==
    [][\A t \in Tokens :
          (Commit /\ Exists(disk, t) /\ now >= disk.txs[t].timeout)
          => disk'.txs[t].disabled]_vars

(***************************************************************************)
(* A durable transaction that is pending does not stay so for ever.        *)
(***************************************************************************)
EventuallyResolved ==
    \A t \in Tokens :
        Open(disk, t) ~> (Exists(disk, t) /\ disk.txs[t].disabled)

(***************************************************************************)
(* The durable store implements MultisigLifecycle: the terms of a          *)
(* transaction (account, inner transaction, submitter, threshold, mode and *)
(* timeout) never change, a concluded one is never open again, and it is   *)
(* run at most once, before or when it is concluded; a crash is not seen.  *)
(***************************************************************************)
TermsType ==
    [account : Accounts, transaction : Transactions, submitter : Principals,
     threshold : Nat, auto : BOOLEAN, timeout : Nat]

Terms(tx) ==
    [account |-> tx.account, transaction |-> tx.transaction,
     submitter |-> tx.submitter, threshold |-> tx.threshold,
     auto |-> tx.auto, timeout |-> tx.timeout]

Lifecycle == INSTANCE MultisigLifecycle WITH
    Proposals <- TermsType,
    Unused    <- NoTx,
    proposal  <- [t \in Tokens |->
                    IF Exists(disk, t) THEN Terms(disk.txs[t]) ELSE NoTx],
    concluded <- [t \in Tokens |-> Exists(disk, t) /\ disk.txs[t].disabled],
    effects   <- disk.runs

ImplementsLifecycle == Lifecycle!Spec

(***************************************************************************)
(* What the tests assert after the block that executed a transaction: it   *)
(* is reported executed.                                                   *)
(***************************************************************************)
ExecutedIsReported ==
    \A t \in Tokens :
        "execute" \in store.log[t] => store.txs[t].state \in Executed
=============================================================================
