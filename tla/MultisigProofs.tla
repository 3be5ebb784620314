--------------------------- MODULE MultisigProofs ---------------------------
(***************************************************************************)
(* Proofs about Multisig for any users, accounts, transactions, timeouts,  *)
(* clock and number of tokens and crashes: its type invariant in both      *)
(* modes, that nothing runs without its quorum, and with blocks that a     *)
(* transaction is run at most once, that the durable store implements      *)
(* MultisigLifecycle, that states, log and funds tell what was run, and    *)
(* that the early stop of the sweep misses nothing.                        *)
(*                                                                         *)
(* The operations of Multisig take a store and give a store, so most of    *)
(* the work is a lemma about each of them, on constants.                   *)
(***************************************************************************)
EXTENDS Multisig, FiniteSetTheorems, TLAPS

(***************************************************************************)
(* What no operation on existing tokens ever does: create or remove a      *)
(* record, change its terms or its time, or open a disabled one again.     *)
(***************************************************************************)
Keeps(s, r) ==
    /\ r.tid = s.tid
    /\ \A t \in Tokens :
          /\ Exists(r, t) <=> Exists(s, t)
          /\ Exists(s, t) => /\ Terms(r.txs[t]) = Terms(s.txs[t])
                             /\ r.txs[t].creation = s.txs[t].creation
                             /\ s.txs[t].disabled => r.txs[t].disabled

\* An operation that runs nothing.
Edits(s, r) == r \in StoreType /\ Keeps(s, r) /\ r.runs = s.runs

\* One that may run transactions, each once, open before and disabled after.
Advances(s, r) ==
    /\ r \in StoreType
    /\ Keeps(s, r)
    /\ \A t \in Tokens :
          \/ r.runs[t] = s.runs[t]
          \/ r.runs[t] = s.runs[t] + 1 /\ Open(s, t) /\ r.txs[t].disabled

-----------------------------------------------------------------------------
(* Operations that run nothing.                                            *)

LEMMA KeepsTransitive ==
    ASSUME NEW s, NEW q, NEW r, Keeps(s, q), Keeps(q, r)
    PROVE  Keeps(s, r)
BY DEF Keeps

LEMMA EditsTransitive ==
    ASSUME NEW s, NEW q, NEW r, Edits(s, q), Edits(q, r)
    PROVE  Edits(s, r)
BY KeepsTransitive DEF Edits

LEMMA EditsReflexive ==
    ASSUME NEW s \in StoreType
    PROVE  Edits(s, s)
BY DEF Edits, Keeps

LEMMA LogEdits ==
    ASSUME NEW s \in StoreType, NEW t \in Tokens, NEW kind \in EventKinds
    PROVE  Edits(s, Log(s, t, kind)) /\ Log(s, t, kind).txs = s.txs
BY DEF Log, Edits, Keeps, StoreType, Exists

LEMMA DisableTxEdits ==
    ASSUME NEW s \in StoreType, NEW t \in Tokens, NEW state \in States
    PROVE  /\ Edits(s, DisableTx(s, t, state))
           /\ Exists(s, t) => DisableTx(s, t, state).txs[t].disabled
<1>1. CASE ~Open(s, t)
  BY <1>1, EditsReflexive DEF DisableTx, Open
<1>2. CASE Open(s, t)
  <2>1. s.txs[t] \in TxType
    BY <1>2 DEF Open, Exists, StoreType
  <2> DEFINE tx == [s.txs[t] EXCEPT !.state = state, !.disabled = TRUE]
  <2>2. /\ tx \in TxType /\ Terms(tx) = Terms(s.txs[t]) /\ tx.disabled
        /\ tx.creation = s.txs[t].creation
    BY <2>1 DEF TxType, Terms
  <2>3. tx # NoTx
    BY <2>2, NoTxAssumption
  <2>4. DisableTx(s, t, state) = [s EXCEPT !.txs = [s.txs EXCEPT ![t] = tx]]
    BY <1>2, <2>1 DEF DisableTx, StoreType, TxType
  <2> HIDE DEF tx
  <2> QED BY <2>1, <2>2, <2>3, <2>4, NoTxAssumption DEF Edits, Keeps, StoreType, Exists
<1> QED BY <1>1, <1>2

\* Changes of an account alone.
LEMMA AccountEdits ==
    ASSUME NEW s \in StoreType, NEW a \in Accounts, NEW acct \in AccountType,
           NEW r, r = [s EXCEPT !.accounts[a] = acct]
    PROVE  Edits(s, r)
BY DEF Edits, Keeps, StoreType, Exists

LEMMA AddRolesEdits ==
    ASSUME NEW s \in StoreType, NEW a \in Accounts, NEW who \in Principals,
           NEW role \in Roles
    PROVE  Edits(s, AddRoles(s, a, who, role))
<1>1. s.accounts[a] \in AccountType
  BY DEF StoreType
<1> DEFINE acct == [s.accounts[a] EXCEPT !.roles[who] = @ \cup {role}]
<1>2. acct \in AccountType
  BY <1>1 DEF AccountType
<1>3. AddRoles(s, a, who, role) = [s EXCEPT !.accounts[a] = acct]
  BY <1>1 DEF AddRoles, StoreType
<1> QED BY <1>2, <1>3, AccountEdits

LEMMA RemoveRolesEdits ==
    ASSUME NEW s \in StoreType, NEW a \in Accounts, NEW who \in Principals,
           NEW role \in Roles
    PROVE  Edits(s, RemoveRoles(s, a, who, role))
<1>1. s.accounts[a] \in AccountType
  BY DEF StoreType
<1> DEFINE acct == [s.accounts[a] EXCEPT !.roles[who] = @ \ {role}]
<1>2. acct \in AccountType
  BY <1>1 DEF AccountType
<1>3. RemoveRoles(s, a, who, role) = [s EXCEPT !.accounts[a] = acct]
  BY <1>1 DEF RemoveRoles, StoreType
<1> QED BY <1>2, <1>3, AccountEdits

LEMMA DisableAccountEdits ==
    ASSUME NEW s \in StoreType, NEW a \in Accounts
    PROVE  Edits(s, DisableAccount(s, a))
<1>1. s.accounts[a] \in AccountType
  BY DEF StoreType
<1> DEFINE acct == [s.accounts[a] EXCEPT !.disabled = TRUE]
<1>2. acct \in AccountType
  BY <1>1 DEF AccountType
<1>3. DisableAccount(s, a) = [s EXCEPT !.accounts[a] = acct]
  BY <1>1 DEF DisableAccount, StoreType
<1> QED BY <1>2, <1>3, AccountEdits

LEMMA SetDefaultsEdits ==
    ASSUME NEW s \in StoreType, NEW a \in Accounts, NEW args \in ArgType
    PROVE  Edits(s, SetDefaults(s, a, args))
<1>1. s.accounts[a] \in AccountType /\ MaxTimeout \in Nat
  BY MultisigAssumption DEF StoreType
<1>2. CASE ~s.accounts[a].multisig
  BY <1>2, EditsReflexive DEF SetDefaults
<1>3. CASE s.accounts[a].multisig
  <2> DEFINE timeout == IF args.timeout = None THEN s.accounts[a].timeout
                        ELSE MinOf(args.timeout, MaxTimeout)
             threshold == Given(args.threshold, s.accounts[a].threshold)
             auto == Given(args.auto, s.accounts[a].auto)
             acct == [s.accounts[a] EXCEPT !.threshold = threshold,
                                           !.timeout = timeout, !.auto = auto]
  <2>1. threshold \in Nat /\ timeout \in Nat /\ auto \in BOOLEAN
    BY <1>1, MultisigAssumption DEF ArgType, Optional, Given, MinOf, AccountType
  <2> HIDE DEF threshold, timeout, auto
  <2>2. acct \in AccountType
    BY <1>1, <2>1 DEF AccountType
  <2>3. SetDefaults(s, a, args) = [s EXCEPT !.accounts[a] = acct]
    BY <1>1, <1>3, ZenonT(60) DEF SetDefaults, StoreType, AccountType, threshold, timeout, auto
  <2> QED BY <2>2, <2>3, AccountEdits
<1> QED BY <1>2, <1>3

LEMMA SetApprovalEdits ==
    ASSUME NEW s \in StoreType, NEW t \in Tokens, Exists(s, t),
           NEW p \in Principals, NEW answer \in {"yes", "no"}
    PROVE  /\ Edits(s, SetApproval(s, p, t, answer))
           /\ SetApproval(s, p, t, answer).txs[t].disabled = s.txs[t].disabled
<1>1. s.txs[t] \in TxType
  BY DEF Exists, StoreType
<1> DEFINE tx == [s.txs[t] EXCEPT !.approvers[p] = answer]
<1>2. /\ tx \in TxType /\ Terms(tx) = Terms(s.txs[t]) /\ tx.disabled = s.txs[t].disabled
      /\ tx.creation = s.txs[t].creation
  BY <1>1 DEF TxType, Terms
<1>3. tx # NoTx
  BY <1>2, NoTxAssumption
<1>4. SetApproval(s, p, t, answer) = [s EXCEPT !.txs = [s.txs EXCEPT ![t] = tx]]
  BY <1>1 DEF SetApproval, StoreType, TxType
<1> HIDE DEF tx
<1> QED BY <1>1, <1>2, <1>3, <1>4, NoTxAssumption DEF Edits, Keeps, StoreType, Exists

LEMMA RevokeEdits ==
    ASSUME NEW s \in StoreType, NEW t \in Tokens, Exists(s, t), NEW p \in Principals
    PROVE  Edits(s, Revoke(s, p, t))
<1>1. Edits(s, SetApproval(s, p, t, "no"))
  BY SetApprovalEdits
<1>2. Edits(SetApproval(s, p, t, "no"), Revoke(s, p, t))
  BY <1>1, LogEdits DEF Revoke, Edits, EventKinds
<1> QED BY <1>1, <1>2, EditsTransitive

LEMMA WithdrawEdits ==
    ASSUME NEW s \in StoreType, NEW t \in Tokens
    PROVE  Edits(s, Withdraw(s, t))
<1>1. Edits(s, DisableTx(s, t, "Withdrawn"))
  BY DisableTxEdits DEF States
<1>2. Edits(DisableTx(s, t, "Withdrawn"), Withdraw(s, t))
  BY <1>1, LogEdits DEF Withdraw, Edits, EventKinds
<1> QED BY <1>1, <1>2, EditsTransitive

LEMMA ApprovalEdits ==
    ASSUME NEW s \in StoreType, NEW t \in Tokens, Open(s, t), NEW p \in Principals
    PROVE  Edits(s, Approval(s, p, t)) /\ Open(Approval(s, p, t), t)
<1> DEFINE m == SetApproval(s, p, t, "yes")
<1>1. Edits(s, m) /\ m.txs[t].disabled = s.txs[t].disabled
  BY SetApprovalEdits DEF Open
<1> HIDE DEF m
<1>2. Edits(m, Log(m, t, "approve")) /\ Log(m, t, "approve").txs = m.txs
  BY <1>1, LogEdits DEF Edits, EventKinds
<1>3. Approval(s, p, t) = Log(m, t, "approve")
  BY DEF Approval, m
<1>4. Edits(s, Approval(s, p, t))
  BY <1>1, <1>2, <1>3, EditsTransitive
<1> QED BY <1>1, <1>2, <1>3, <1>4 DEF Edits, Keeps, Open, Exists

\* A direct send touches no transaction.
LEMMA SendFromEdits ==
    ASSUME NEW s \in StoreType, NEW a \in Accounts, s.funds[a] > 0
    PROVE  Edits(s, SendFrom(s, a))
<1> DEFINE funds == [s.funds EXCEPT ![a] = @ - 1]
           sent == [s.sent EXCEPT ![a] = @ + 1]
<1>1. funds \in [Accounts -> Nat] /\ sent \in [Accounts -> Nat]
  BY DEF StoreType
<1>2. SendFrom(s, a) = [s EXCEPT !.funds = funds, !.sent = sent]
  BY DEF SendFrom
<1> HIDE DEF funds, sent
<1> QED BY <1>1, <1>2 DEF Edits, Keeps, StoreType, Exists

\* What leads to no other execution runs nothing.
LEMMA RunLeafEdits ==
    ASSUME NEW s \in StoreType, NEW p \in Principals, NEW tr \in TransactionType
    PROVE  Edits(s, RunLeaf(s, p, tr))
<1>1. /\ tr.account \in Accounts /\ tr.who \in Principals /\ tr.role \in Roles
      /\ tr.token \in Tokens /\ tr.threshold \in Nat
  BY DEF TransactionType
<1>2. Edits(s, s)
  BY EditsReflexive
<1>3. CASE tr.kind = "send"
  <2>1. ASSUME s.funds[tr.account] > 0
        PROVE  Edits(s, [s EXCEPT !.funds[tr.account] = @ - 1])
    BY <1>1, <2>1 DEF Edits, Keeps, StoreType, Exists
  <2> QED BY <1>2, <1>3, <2>1 DEF RunLeaf, CanSend
<1>4. CASE tr.kind = "addRoles"
  BY <1>1, <1>2, <1>4, AddRolesEdits DEF RunLeaf
<1>5. CASE tr.kind = "removeRoles"
  BY <1>1, <1>2, <1>5, RemoveRolesEdits DEF RunLeaf
<1>6. CASE tr.kind = "disable"
  BY <1>1, <1>2, <1>6, DisableAccountEdits DEF RunLeaf
<1>7. CASE tr.kind = "setDefaults"
  <2>1. OnlyThreshold(tr.threshold) \in ArgType
    BY <1>1 DEF OnlyThreshold, ArgType, Optional
  <2> QED BY <1>1, <1>2, <1>7, <2>1, SetDefaultsEdits DEF RunLeaf
<1>8. CASE tr.kind = "revoke"
  BY <1>1, <1>2, <1>8, RevokeEdits DEF RunLeaf, CanRevoke, Open
<1>9. CASE tr.kind = "withdraw"
  BY <1>1, <1>2, <1>9, WithdrawEdits DEF RunLeaf
<1>10. CASE tr.kind = "approve"
  BY <1>1, <1>2, <1>10, ApprovalEdits DEF RunLeaf, CanApprove
<1>11. CASE tr.kind = "execute"
  BY <1>2, <1>11 DEF RunLeaf
<1>12. tr.kind \in Kinds
  BY DEF TransactionType
<1> QED BY <1>3, <1>4, <1>5, <1>6, <1>7, <1>8, <1>9, <1>10, <1>11, <1>12 DEF Kinds

LEMMA ConcludeEdits ==
    ASSUME NEW s \in StoreType, NEW t \in Tokens, NEW state \in States, Exists(s, t)
    PROVE  /\ Edits(s, Conclude(s, t, state))
           /\ Conclude(s, t, state).txs[t].disabled
<1>1. CASE ~Open(s, t)
  BY <1>1, EditsReflexive DEF Conclude, Open
<1>2. CASE Open(s, t)
  <2> DEFINE m == DisableTx(s, t, state)
  <2>1. Edits(s, m) /\ m.txs[t].disabled
    BY DisableTxEdits
  <2>2. Edits(m, Log(m, t, "execute")) /\ Log(m, t, "execute").txs = m.txs
    BY <2>1, LogEdits DEF Edits, EventKinds
  <2>3. Conclude(s, t, state) = Log(m, t, "execute")
    BY <1>2 DEF Conclude
  <2> HIDE DEF m
  <2> QED BY <2>1, <2>2, <2>3, EditsTransitive
<1> QED BY <1>1, <1>2

-----------------------------------------------------------------------------
(* Operations that run transactions.                                       *)

LEMMA CountRunFacts ==
    ASSUME NEW s \in StoreType, NEW t \in Tokens, NEW tx,
           NEW r, r = CountRun(s, t, Approved(tx))
    PROVE  /\ r \in StoreType
           /\ Keeps(s, r)
           /\ r.txs = s.txs /\ r.log = s.log /\ r.funds = s.funds /\ r.sent = s.sent
           /\ r.runs[t] = s.runs[t] + 1 /\ r.votes[t] = Approved(tx)
           /\ \A u \in Tokens \ {t} : r.runs[u] = s.runs[u] /\ r.votes[u] = s.votes[u]
<1> DEFINE runs == [s.runs EXCEPT ![t] = @ + 1]
           votes == [s.votes EXCEPT ![t] = Approved(tx)]
<1>0. Approved(tx) \in SUBSET Principals
  BY DEF Approved
<1>1. /\ runs \in [Tokens -> Nat] /\ votes \in [Tokens -> SUBSET Principals]
      /\ runs[t] = s.runs[t] + 1 /\ votes[t] = Approved(tx)
      /\ \A u \in Tokens \ {t} : runs[u] = s.runs[u] /\ votes[u] = s.votes[u]
  BY <1>0 DEF StoreType
<1>2. r = [s EXCEPT !.runs = runs, !.votes = votes]
  BY DEF CountRun
<1> HIDE DEF runs, votes
<1>3. /\ r \in StoreType /\ r.runs = runs /\ r.votes = votes
      /\ r.tid = s.tid /\ r.txs = s.txs /\ r.log = s.log
      /\ r.funds = s.funds /\ r.sent = s.sent
  BY <1>1, <1>2 DEF StoreType
<1>4. Keeps(s, r)
  BY <1>3 DEF Keeps, Exists
<1> QED BY <1>1, <1>3, <1>4

LEMMA EditsAdvances ==
    ASSUME NEW s, NEW r, Edits(s, r)
    PROVE  Advances(s, r)
BY DEF Edits, Advances

\* What a stored transaction is.
LEMMA StoredTransaction ==
    ASSUME NEW s \in StoreType, NEW t \in Tokens, Exists(s, t)
    PROVE  /\ s.txs[t].transaction \in TransactionType
           /\ s.txs[t].account \in Principals
BY MultisigAssumption DEF Exists, StoreType, TxType, Principals

LEMMA RunsType ==
    ASSUME NEW s \in StoreType
    PROVE  s.runs \in [Tokens -> Nat]
BY DEF StoreType

LEMMA ExecuteLeafAdvances ==
    ASSUME NEW s \in StoreType, NEW t \in Tokens, Open(s, t), NEW state \in States
    PROVE  /\ Advances(s, ExecuteLeaf(s, t, state))
           /\ \A u \in Tokens \ {t} : ExecuteLeaf(s, t, state).runs[u] = s.runs[u]
<1> DEFINE q == RunLeaf(s, s.txs[t].account, s.txs[t].transaction)
           m == CountRun(q, t, Approved(s.txs[t]))
           r == Conclude(m, t, state)
<1>0. ExecuteLeaf(s, t, state) = r
  BY DEF ExecuteLeaf, RanLeaf
<1>1. Edits(s, q)
  BY StoredTransaction, RunLeafEdits DEF Open
<1>2. /\ m \in StoreType /\ Keeps(q, m)
      /\ m.runs[t] = q.runs[t] + 1
      /\ \A u \in Tokens \ {t} : m.runs[u] = q.runs[u]
  BY <1>1, CountRunFacts DEF Edits
<1> HIDE DEF q
<1>3. /\ Keeps(s, m) /\ Exists(m, t) /\ m.runs[t] = s.runs[t] + 1
      /\ \A u \in Tokens \ {t} : m.runs[u] = s.runs[u]
  BY <1>1, <1>2, KeepsTransitive DEF Edits, Keeps, Open
<1> HIDE DEF m
<1>4. Edits(m, r) /\ r.txs[t].disabled
  BY <1>2, <1>3, ConcludeEdits
<1> HIDE DEF r
<1>5. r \in StoreType /\ Keeps(s, r) /\ r.runs = m.runs
  BY <1>3, <1>4, KeepsTransitive DEF Edits
<1> QED BY <1>0, <1>3, <1>4, <1>5 DEF Advances

\* What a run leads to.
LEMMA RunCases ==
    ASSUME NEW s, NEW p, NEW tr
    PROVE  \/ ~Nests(s, p, tr) /\ Run(s, p, tr) = RunLeaf(s, p, tr)
           \/ /\ tr.kind = "approve" /\ CanApprove(s, p, tr.token)
              /\ ExecutesNow(Approval(s, p, tr.token).txs[tr.token])
              /\ Run(s, p, tr) = ExecuteLeaf(Approval(s, p, tr.token), tr.token,
                                             "ExecutedAutomatically")
           \/ /\ tr.kind = "execute" /\ CanExecute(s, p, tr.token)
              /\ Run(s, p, tr) = ExecuteLeaf(s, tr.token, "ExecutedManually")
<1>1. CASE ~Nests(s, p, tr)
  BY <1>1 DEF Run
<1>2. CASE Nests(s, p, tr) /\ tr.kind = "approve"
  <2>1. CanApprove(s, p, tr.token) /\ ExecutesNow(Approval(s, p, tr.token).txs[tr.token])
    BY <1>2 DEF Nests
  <2> QED BY <1>2, <2>1 DEF Run
<1>3. CASE Nests(s, p, tr) /\ tr.kind = "execute"
  <2>1. CanExecute(s, p, tr.token)
    BY <1>3 DEF Nests
  <2> QED BY <1>3, <2>1 DEF Run
<1> QED BY <1>1, <1>2, <1>3 DEF Nests

LEMMA RunAdvances ==
    ASSUME NEW s \in StoreType, NEW p \in Principals, NEW tr \in TransactionType
    PROVE  /\ Advances(s, Run(s, p, tr))
           /\ \A u \in Tokens :
                 (Nests(s, p, tr) => u # tr.token) => Run(s, p, tr).runs[u] = s.runs[u]
<1> DEFINE t == tr.token
           m == Approval(s, p, t)
           r == Run(s, p, tr)
<1>0. t \in Tokens /\ "ExecutedManually" \in States /\ "ExecutedAutomatically" \in States
  BY DEF TransactionType, States, Executed
<1>1. CASE ~Nests(s, p, tr)
  BY <1>1, RunLeafEdits, EditsAdvances DEF Run, Edits
<1>2. CASE /\ Nests(s, p, tr) /\ CanApprove(s, p, t)
           /\ r = ExecuteLeaf(m, t, "ExecutedAutomatically")
  <2>1. Edits(s, m) /\ Open(m, t)
    BY <1>0, <1>2, ApprovalEdits DEF CanApprove
  <2> HIDE DEF m
  <2>2. Advances(m, r) /\ \A u \in Tokens \ {t} : r.runs[u] = m.runs[u]
    BY <1>0, <1>2, <2>1, ExecuteLeafAdvances DEF Edits
  <2> HIDE DEF r, t
  <2>3. Keeps(s, r)
    BY <2>1, <2>2, KeepsTransitive DEF Edits, Advances
  <2>4. \A u \in Tokens : Open(m, u) => Open(s, u)
    BY <2>1 DEF Edits, Keeps, Open
  <2>5. Advances(s, r) /\ \A u \in Tokens \ {t} : r.runs[u] = s.runs[u]
    BY <2>1, <2>2, <2>3, <2>4 DEF Edits, Advances
  <2> QED BY <1>2, <2>5 DEF r, t
<1>3. CASE /\ Nests(s, p, tr) /\ CanExecute(s, p, t)
           /\ r = ExecuteLeaf(s, t, "ExecutedManually")
  <2>1. Open(s, t)
    BY <1>3 DEF CanExecute, CanConclude
  <2> QED BY <1>0, <1>3, <2>1, ExecuteLeafAdvances
<1> QED BY <1>1, <1>2, <1>3, RunCases

\* The part of a request that runs the transaction of t.
LEMMA RanFacts ==
    ASSUME NEW s \in StoreType, NEW t \in Tokens, Exists(s, t)
    PROVE  /\ Ran(s, t) \in StoreType
           /\ Keeps(s, Ran(s, t))
           /\ Exists(Ran(s, t), t)
<1> DEFINE q == Run(s, s.txs[t].account, s.txs[t].transaction)
<1>1. Advances(s, q)
  BY StoredTransaction, RunAdvances
<1> DEFINE m == CountRun(q, t, Approved(s.txs[t]))
<1>2. m \in StoreType /\ Keeps(q, m)
  BY <1>1, CountRunFacts DEF Advances
<1>3. Ran(s, t) = m
  BY DEF Ran
<1> HIDE DEF q
<1>4. Keeps(s, Ran(s, t))
  BY <1>1, <1>2, <1>3, KeepsTransitive DEF Advances
<1> QED BY <1>2, <1>3, <1>4 DEF Keeps

LEMMA ExecuteFacts ==
    ASSUME NEW s \in StoreType, NEW t \in Tokens, Exists(s, t), NEW state \in States
    PROVE  /\ Execute(s, t, state) \in StoreType
           /\ Keeps(s, Execute(s, t, state))
           /\ Execute(s, t, state).txs[t].disabled
           /\ Execute(s, t, state).runs = Ran(s, t).runs
           /\ Keeps(Ran(s, t), Execute(s, t, state))
<1>1. Ran(s, t) \in StoreType /\ Keeps(s, Ran(s, t)) /\ Exists(Ran(s, t), t)
  BY RanFacts
<1>2. /\ Edits(Ran(s, t), Execute(s, t, state))
      /\ Execute(s, t, state).txs[t].disabled
  BY <1>1, ConcludeEdits DEF Execute
<1> QED BY <1>1, <1>2, KeepsTransitive DEF Edits

LEMMA ApprovalTwice ==
    ASSUME NEW s \in StoreType, NEW t \in Tokens, Open(s, t), NEW p \in Principals,
           NEW m, m = Approval(s, p, t)
    PROVE  /\ m.accounts = s.accounts
           /\ Approval(m, p, t).txs[t] = m.txs[t]
<1> DEFINE tx == [s.txs[t] EXCEPT !.approvers[p] = "yes"]
<1>0. Edits(s, m) /\ Open(m, t)
  BY ApprovalEdits
<1>1. s.txs[t] \in TxType /\ m.txs[t] \in TxType
  BY <1>0 DEF Open, Exists, StoreType, Edits
<1>2. m.accounts = s.accounts /\ m.txs = [s.txs EXCEPT ![t] = tx]
  BY <1>1 DEF Approval, Log, SetApproval, StoreType, TxType
<1>3. m.txs[t] = tx
  BY <1>2 DEF StoreType
<1>4. [tx EXCEPT !.approvers[p] = "yes"] = tx
  <2>1. s.txs[t].approvers \in [Principals -> {"yes", "no", "absent"}]
    BY <1>1 DEF TxType
  <2> DEFINE f == [s.txs[t].approvers EXCEPT ![p] = "yes"]
  <2>2. [f EXCEPT ![p] = "yes"] = f
    BY <2>1
  <2>3. tx = [s.txs[t] EXCEPT !.approvers = f] /\ tx.approvers = f
    BY <1>1 DEF TxType
  <2>4. [tx EXCEPT !.approvers[p] = "yes"] = [tx EXCEPT !.approvers = f]
    BY <2>2, <2>3
  <2> HIDE DEF f
  <2> QED BY <1>1, <2>3, <2>4 DEF TxType
<1>5. Approval(m, p, t).txs[t] = [m.txs[t] EXCEPT !.approvers[p] = "yes"]
  BY <1>0, <1>1 DEF Approval, Log, SetApproval, StoreType, TxType, Edits
<1> QED BY <1>2, <1>3, <1>4, <1>5

\* Within the bound no transaction leads to its own execution.
LEMMA NestsElsewhere ==
    ASSUME NEW s \in StoreType, NEW t \in Tokens, Open(s, t), Shallow(s, t),
           Nests(s, s.txs[t].account, s.txs[t].transaction)
    PROVE  s.txs[t].transaction.token # t
<1> DEFINE p == s.txs[t].account
           tr == s.txs[t].transaction
           m == Approval(s, p, t)
<1> SUFFICES ASSUME tr.token = t PROVE FALSE
  OBVIOUS
<1>1. CASE tr.kind = "execute"
  BY <1>1 DEF Shallow
<1>2. CASE tr.kind = "approve"
  <2>1. p \in Principals
    BY StoredTransaction DEF Open
  <2>2. /\ m.accounts = s.accounts
        /\ Approval(m, p, t).txs[t] = m.txs[t]
    BY <2>1, ApprovalTwice
  <2>3. Open(m, t) /\ m.txs[t].account = p /\ m.txs[t].transaction = tr
    <3>1. Keeps(s, m) /\ Open(m, t) /\ Exists(s, t)
      BY <2>1, ApprovalEdits DEF Edits, Open
    <3> HIDE DEF m
    <3> QED BY <3>1 DEF Keeps, Terms
  <2>4. CanApprove(s, p, t) /\ ExecutesNow(m.txs[t])
    BY <1>2 DEF Nests
  <2>5. CanApprove(m, p, t)
    BY <2>2, <2>3, <2>4 DEF CanApprove, Known, HasRole
  <2>6. Nests(m, p, tr)
    BY <1>2, <2>2, <2>4, <2>5 DEF Nests
  <2>7. ~Nests(m, m.txs[t].account, m.txs[t].transaction)
    BY <1>2 DEF Shallow
  <2> QED BY <2>3, <2>6, <2>7
<1> QED BY <1>1, <1>2 DEF Nests

LEMMA ExecuteAdvances ==
    ASSUME NEW s \in StoreType, NEW t \in Tokens, Open(s, t), Shallow(s, t),
           NEW state \in States
    PROVE  Advances(s, Execute(s, t, state))
<1> DEFINE q == Run(s, s.txs[t].account, s.txs[t].transaction)
           m == Ran(s, t)
           r == Execute(s, t, state)
<1>1. Advances(s, q) /\ q.runs[t] = s.runs[t]
  BY StoredTransaction, RunAdvances, NestsElsewhere DEF Open
<1>2. /\ Keeps(q, m) /\ m.runs[t] = q.runs[t] + 1
      /\ \A u \in Tokens \ {t} : m.runs[u] = q.runs[u]
  BY <1>1, CountRunFacts DEF Ran, Advances
<1>3. /\ r \in StoreType /\ Keeps(s, r) /\ r.txs[t].disabled
      /\ r.runs = m.runs /\ Keeps(m, r)
  BY ExecuteFacts DEF Open
<1>4. q.runs \in [Tokens -> Nat]
  BY <1>1, RunsType DEF Advances
<1> HIDE DEF q, m, r
<1>5. r.runs[t] = s.runs[t] + 1
  BY <1>1, <1>2, <1>3, <1>4
<1>6. ASSUME NEW u \in Tokens, u # t
      PROVE  \/ r.runs[u] = s.runs[u]
             \/ r.runs[u] = s.runs[u] + 1 /\ Open(s, u) /\ r.txs[u].disabled
  <2>1. r.runs[u] = q.runs[u]
    BY <1>2, <1>3, <1>4, <1>6
  <2>2. Keeps(q, r)
    BY <1>2, <1>3, KeepsTransitive
  <2>3. Open(s, u) /\ q.txs[u].disabled => r.txs[u].disabled
    BY <1>1, <2>2 DEF Keeps, Open, Advances
  <2> QED BY <1>1, <2>1, <2>3 DEF Advances
<1> QED BY <1>3, <1>5, <1>6 DEF Advances, r

LEMMA ApproveAdvances ==
    ASSUME NEW s \in StoreType, NEW p \in Principals, NEW t \in Tokens, Open(s, t),
           ShallowApproval(s, p, t)
    PROVE  Advances(s, Approve(s, p, t))
<1> DEFINE m == Approval(s, p, t)
           r == Execute(m, t, "ExecutedAutomatically")
<1>1. Edits(s, m) /\ Open(m, t)
  BY ApprovalEdits
<1>2. Approve(s, p, t) = IF ExecutesNow(m.txs[t]) THEN r ELSE m
  BY DEF Approve
<1>3. ExecutesNow(m.txs[t]) => Shallow(m, t)
  BY DEF ShallowApproval
<1> HIDE DEF m
<1>4. CASE ~ExecutesNow(m.txs[t])
  BY <1>1, <1>2, <1>4, EditsAdvances
<1>5. CASE ExecutesNow(m.txs[t])
  <2>1. Advances(m, r)
    BY <1>1, <1>3, <1>5, ExecuteAdvances DEF Edits, States, Executed
  <2> HIDE DEF r
  <2>2. Keeps(s, r)
    BY <1>1, <2>1, KeepsTransitive DEF Edits, Advances
  <2>3. \A u \in Tokens : Open(m, u) => Open(s, u)
    BY <1>1 DEF Edits, Keeps, Open
  <2> QED BY <1>1, <1>2, <1>5, <2>1, <2>2, <2>3 DEF Edits, Advances
<1> QED BY <1>4, <1>5

-----------------------------------------------------------------------------
(* Type correctness, in both modes.                                        *)

LEMMA ApproveType ==
    ASSUME NEW s \in StoreType, NEW t \in Tokens, Open(s, t), NEW p \in Principals
    PROVE  Approve(s, p, t) \in StoreType
<1> DEFINE m == Approval(s, p, t)
<1>1. m \in StoreType /\ Exists(m, t)
  BY ApprovalEdits DEF Edits, Open
<1>2. Execute(m, t, "ExecutedAutomatically") \in StoreType
  BY <1>1, ExecuteFacts DEF States, Executed
<1> QED BY <1>1, <1>2 DEF Approve

LEMMA ExecutePointsType ==
    ASSUME NEW s \in StoreType, NEW t \in Tokens, Exists(s, t), NEW state \in States,
           NEW q \in ExecutePoints(s, t, state)
    PROVE  q \in StoreType
<1>1. Ran(s, t) \in StoreType
  BY RanFacts
<1>2. DisableTx(Ran(s, t), t, state) \in StoreType
  BY <1>1, DisableTxEdits DEF Edits
<1> QED BY <1>1, <1>2 DEF ExecutePoints

LEMMA ApprovePointsType ==
    ASSUME NEW s \in StoreType, NEW t \in Tokens, Open(s, t), NEW p \in Principals,
           NEW q \in ApprovePoints(s, p, t)
    PROVE  q \in StoreType
<1> DEFINE m == Approval(s, p, t)
<1>1. m \in StoreType /\ Exists(m, t)
  BY ApprovalEdits DEF Edits, Open
<1>2. SetApproval(s, p, t, "yes") \in StoreType
  BY SetApprovalEdits DEF Edits, Open
<1>3. "ExecutedAutomatically" \in States
  BY DEF States, Executed
<1> HIDE DEF m
<1>4. \/ q \in {SetApproval(s, p, t, "yes"), m}
      \/ q \in ExecutePoints(m, t, "ExecutedAutomatically")
  BY DEF ApprovePoints, m
<1> QED BY <1>1, <1>2, <1>3, <1>4, ExecutePointsType

LEMMA NewTxType ==
    ASSUME NEW s \in StoreType, NEW p \in Principals, NEW a \in Accounts,
           NEW tr \in Transactions, NEW args \in ArgType, now \in Nat
    PROVE  NewTx(s, p, a, tr, args) \in TxType
<1>1. s.accounts[a] \in AccountType /\ MaxTimeout \in Nat
  BY MultisigAssumption DEF StoreType
<1>2. Timeout(s, a, args) \in Nat
  BY <1>1, MultisigAssumption DEF Timeout, Given, MinOf, ArgType, Optional, AccountType
<1>3. /\ Given(args.threshold, s.accounts[a].threshold) \in Nat
      /\ Given(args.auto, s.accounts[a].auto) \in BOOLEAN
  BY <1>1 DEF Given, ArgType, Optional, AccountType
<1>4. now + Timeout(s, a, args) \in Nat
  BY <1>2
<1> QED BY <1>3, <1>4 DEF NewTx, TxType, States

LEMMA SubmitType ==
    ASSUME NEW s \in StoreType, NEW t \in Tokens, NEW tx \in TxType
    PROVE  Log(PutTx(s, t, tx), t, "submit") \in StoreType
<1>1. t \in 0 .. MaxTx
  BY DEF Tokens
<1>2. PutTx(s, t, tx) \in StoreType
  BY <1>1 DEF PutTx, StoreType
<1> QED BY <1>2, LogEdits DEF Edits, EventKinds

LEMMA SweepType ==
    ASSUME NEW s \in StoreType, NEW d \in StoreType
    PROVE  Sweep(s, d) \in StoreType
<1>1. \A t \in Tokens : TimedOut(d, t) => Expire(d.txs[t]) \in TxType
  <2> SUFFICES ASSUME NEW t \in Tokens, TimedOut(d, t)
               PROVE  Expire(d.txs[t]) \in TxType
    OBVIOUS
  <2>1. d.txs[t] \in TxType
    BY DEF TimedOut, Open, Exists, StoreType
  <2> QED BY <2>1 DEF Expire, TxType, States
<1>2. [t \in Tokens |-> IF TimedOut(d, t) THEN Expire(d.txs[t]) ELSE s.txs[t]]
      \in [Tokens -> TxType \cup {NoTx}]
  BY <1>1 DEF StoreType
<1> QED BY <1>2 DEF Sweep, StoreType

\* What a request may do to the store.
LEMMA RequestCases ==
    ASSUME TypeOK, Request
    PROVE  \/ \E p \in Principals, t \in Tokens :
                 \/ /\ CanApprove(store, p, t) /\ ShallowApproval(store, p, t)
                    /\ Write(Approve(store, p, t))
                 \/ /\ CanExecute(store, p, t) /\ Shallow(store, t)
                    /\ Write(Execute(store, t, "ExecutedManually"))
           \/ \E p \in Users, a \in Accounts, tr \in Transactions, args \in SubmitArgs :
                 SubmitRequest(p, a, tr, args)
           \/ \E r : Edits(store, r) /\ Write(r)
<1>0. store \in StoreType /\ Users \subseteq Principals /\ Accounts \subseteq Principals
  BY DEF TypeOK, Principals
<1>1. ASSUME NEW p \in Users, NEW t \in Tokens,
             \/ ApproveRequest(p, t) \/ RevokeRequest(p, t)
             \/ ExecuteRequest(p, t) \/ WithdrawRequest(p, t)
      PROVE  \/ /\ CanApprove(store, p, t) /\ ShallowApproval(store, p, t)
                /\ Write(Approve(store, p, t))
             \/ /\ CanExecute(store, p, t) /\ Shallow(store, t)
                /\ Write(Execute(store, t, "ExecutedManually"))
             \/ \E r : Edits(store, r) /\ Write(r)
  <2>1. CASE ApproveRequest(p, t) \/ ExecuteRequest(p, t)
    BY <2>1 DEF ApproveRequest, ExecuteRequest
  <2>2. CASE RevokeRequest(p, t)
    <3>1. Edits(store, Revoke(store, p, t))
      BY <1>0, <2>2, RevokeEdits DEF RevokeRequest, CanRevoke, Open
    <3> QED BY <2>2, <3>1 DEF RevokeRequest
  <2>3. CASE WithdrawRequest(p, t)
    <3>1. Edits(store, Withdraw(store, t))
      BY <1>0, WithdrawEdits
    <3> QED BY <2>3, <3>1 DEF WithdrawRequest
  <2> QED BY <1>1, <2>1, <2>2, <2>3
<1>2. ASSUME NEW p \in Users, NEW a \in Accounts, NEW c \in RoleChanges,
             AddRolesRequest(p, a, c[1], c[2]) \/ RemoveRolesRequest(p, a, c[1], c[2])
      PROVE  \E r : Edits(store, r) /\ Write(r)
  <2>1. c[1] \in Principals /\ c[2] \in Roles
    BY MultisigAssumption
  <2>2. /\ Edits(store, AddRoles(store, a, c[1], c[2]))
        /\ Edits(store, RemoveRoles(store, a, c[1], c[2]))
    BY <1>0, <2>1, AddRolesEdits, RemoveRolesEdits
  <2> QED BY <1>2, <2>2 DEF AddRolesRequest, RemoveRolesRequest
<1>3. ASSUME NEW p \in Closers, NEW a \in Accounts, DisableRequest(p, a)
      PROVE  \E r : Edits(store, r) /\ Write(r)
  BY <1>0, <1>3, DisableAccountEdits DEF DisableRequest
<1>4. ASSUME NEW p \in Users, NEW a \in Accounts, NEW args \in DefaultArgs,
             SetDefaultsRequest(p, a, args)
      PROVE  \E r : Edits(store, r) /\ Write(r)
  <2>1. args \in ArgType
    BY MultisigAssumption
  <2> QED BY <1>0, <1>4, <2>1, SetDefaultsEdits DEF SetDefaultsRequest
<1>5. ASSUME NEW p \in Payers, NEW a \in Accounts, SendRequest(p, a)
      PROVE  \E r : Edits(store, r) /\ Write(r)
  BY <1>0, <1>5, SendFromEdits DEF SendRequest, CanSendFrom
<1> QED BY <1>0, <1>1, <1>2, <1>3, <1>4, <1>5 DEF Request

LEMMA InitType == Init => TypeOK
<1> SUFFICES ASSUME Init PROVE TypeOK
  OBVIOUS
<1>1. EmptyStore \in StoreType
  BY MultisigAssumption DEF EmptyStore, StoreType
<1> QED BY <1>1, MultisigAssumption DEF Init, TypeOK

LEMMA NextType == TypeOK /\ [Next]_vars => TypeOK'
<1> SUFFICES ASSUME TypeOK, [Next]_vars PROVE TypeOK'
  OBVIOUS
<1>0. /\ store \in StoreType /\ disk \in StoreType
      /\ now \in 0 .. MaxTime /\ now \in Nat
      /\ MaxTime \in Nat /\ MaxCrashes \in Nat /\ crashes \in Nat
      /\ Users \subseteq Principals
  BY MultisigAssumption DEF TypeOK, Principals
<1>1. CASE UNCHANGED vars
  BY <1>1 DEF vars, TypeOK
<1>2. ASSUME NEW r \in StoreType, Write(r) PROVE TypeOK'
  BY <1>2 DEF Write, TypeOK
<1>3. ASSUME NEW r \in StoreType, Stop(r) PROVE TypeOK'
  BY <1>0, <1>3 DEF Stop, TypeOK
<1>4. CASE Request
  <2>1. ASSUME NEW p \in Principals, NEW t \in Tokens,
               CanApprove(store, p, t), Write(Approve(store, p, t))
        PROVE  TypeOK'
    BY <1>0, <1>2, <2>1, ApproveType DEF CanApprove
  <2>2. ASSUME NEW p \in Principals, NEW t \in Tokens,
               CanExecute(store, p, t), Write(Execute(store, t, "ExecutedManually"))
        PROVE  TypeOK'
    <3>1. Exists(store, t) /\ "ExecutedManually" \in States
      BY <2>2 DEF CanExecute, CanConclude, Open, States, Executed
    <3>2. Execute(store, t, "ExecutedManually") \in StoreType
      BY <1>0, <3>1, ExecuteFacts
    <3> QED BY <1>2, <2>2, <3>2
  <2>3. ASSUME NEW p \in Users, NEW a \in Accounts, NEW tr \in Transactions,
               NEW args \in SubmitArgs, SubmitRequest(p, a, tr, args)
        PROVE  TypeOK'
    <3> DEFINE t == store.tid + 1
               tx == NewTx(store, p, a, tr, args)
    <3>1. t \in Tokens /\ Write(Log(PutTx(store, t, tx), t, "submit"))
      BY <2>3 DEF SubmitRequest, Submittable
    <3>2. args \in ArgType
      BY MultisigAssumption
    <3>3. tx \in TxType
      BY <1>0, <3>2, NewTxType
    <3> HIDE DEF t, tx
    <3>4. Log(PutTx(store, t, tx), t, "submit") \in StoreType
      BY <1>0, <3>1, <3>3, SubmitType
    <3> QED BY <1>2, <3>1, <3>4
  <2>4. ASSUME NEW r, Edits(store, r), Write(r) PROVE TypeOK'
    BY <1>2, <2>4 DEF Edits
  <2> QED BY <1>4, <2>1, <2>2, <2>3, <2>4, RequestCases
<1>5. ASSUME NEW time \in 0 .. MaxTime, BeginBlock(time) PROVE TypeOK'
  BY <1>5 DEF BeginBlock, TypeOK
<1>6. CASE Commit
  BY <1>0, <1>6, SweepType DEF Commit, TypeOK
<1>7. CASE Tick
  BY <1>0, <1>7 DEF Tick, TypeOK
<1>8. CASE Crash
  BY <1>0, <1>3, <1>8 DEF Crash
<1>9. ASSUME NEW p \in Users, NEW t \in Tokens, CrashInApprove(p, t) PROVE TypeOK'
  <2>1. PICK q \in ApprovePoints(store, p, t) : Stop(q)
    BY <1>9 DEF CrashInApprove
  <2>2. q \in StoreType
    BY <1>0, <1>9, ApprovePointsType DEF CrashInApprove, CanApprove
  <2> QED BY <1>3, <2>1, <2>2
<1>10. ASSUME NEW p \in Users, NEW t \in Tokens, CrashInExecute(p, t) PROVE TypeOK'
  <2>1. PICK q \in ExecutePoints(store, t, "ExecutedManually") : Stop(q)
    BY <1>10 DEF CrashInExecute
  <2>2. Exists(store, t) /\ "ExecutedManually" \in States
    BY <1>10 DEF CrashInExecute, CanExecute, CanConclude, Open, States, Executed
  <2>3. q \in StoreType
    BY <1>0, <2>2, ExecutePointsType
  <2> QED BY <1>3, <2>1, <2>3
<1>11. CASE Load
  <2>1. [store EXCEPT !.tid = 0] \in StoreType
    BY <1>0, MultisigAssumption DEF StoreType
  <2> QED BY <1>0, <1>11, <2>1 DEF Load, TypeOK
<1> QED BY <1>1, <1>4, <1>5, <1>6, <1>7, <1>8, <1>9, <1>10, <1>11 DEF Next

\* The type invariant of Multisig, with and without blocks, through crashes
\* between requests and inside them.
THEOREM TypeCorrect == Spec => []TypeOK
BY InitType, NextType, PTL DEF Spec

-----------------------------------------------------------------------------
(* With blocks: at most one run, and the refinement.                       *)

Concluded(s, t) == Exists(s, t) /\ s.txs[t].disabled

\* Of one store: a token was run at most once and is concluded then, and those
\* not given out yet are unused.
Sound(s) ==
    \A t \in Tokens :
        /\ s.runs[t] \in {0, 1}
        /\ s.runs[t] = 1 => Concluded(s, t)
        /\ t > s.tid => ~Exists(s, t)

\* Of the durable store d and the current one: what the block has done so far
\* is what one step of MultisigLifecycle may do.
Follows(d, s) ==
    \A t \in Tokens :
        /\ Exists(d, t) => Exists(s, t) /\ Terms(s.txs[t]) = Terms(d.txs[t])
        /\ Concluded(d, t) => Concluded(s, t)
        /\ \/ s.runs[t] = d.runs[t]
           \/ /\ d.runs[t] = 0
              /\ s.runs[t] = 1
              /\ ~Concluded(d, t)
              /\ Concluded(s, t)

(***************************************************************************)
(* The inductive invariant.                                                *)
(***************************************************************************)
IInv ==
    /\ TypeOK
    /\ Sound(store)
    /\ Sound(disk)
    /\ Follows(disk, store)

LEMMA AdvancesSound ==
    ASSUME NEW d \in StoreType, NEW s \in StoreType, NEW r, Advances(s, r),
           Sound(d), Sound(s), Follows(d, s)
    PROVE  Sound(r) /\ Follows(d, r)
<1>1. /\ r.tid = s.tid
      /\ \A t \in Tokens :
            /\ Exists(r, t) <=> Exists(s, t)
            /\ Exists(s, t) => Terms(r.txs[t]) = Terms(s.txs[t])
            /\ Concluded(s, t) => Concluded(r, t)
            /\ \/ r.runs[t] = s.runs[t]
               \/ r.runs[t] = s.runs[t] + 1 /\ Open(s, t) /\ Concluded(r, t)
  BY DEF Advances, Keeps, Concluded, Open
<1>2. \A t \in Tokens : Open(s, t) => Exists(s, t) /\ ~Concluded(s, t)
  BY DEF Open, Concluded
<1>4. Sound(r)
  BY <1>1, <1>2 DEF Sound
<1>5. Follows(d, r)
  BY <1>1, <1>2 DEF Sound, Follows
<1> QED BY <1>4, <1>5

LEMMA SubmitSound ==
    ASSUME NEW d \in StoreType, NEW s \in StoreType, Sound(s), Follows(d, s),
           NEW t \in Tokens, t = s.tid + 1, NEW tx \in TxType,
           NEW r, r = Log(PutTx(s, t, tx), t, "submit")
    PROVE  Sound(r) /\ Follows(d, r)
<1>1. /\ r.tid = t /\ r.runs = s.runs /\ r.txs = [s.txs EXCEPT ![t] = tx]
  BY DEF Log, PutTx, StoreType
<1>2. s.tid \in Nat /\ s.txs \in [Tokens -> TxType \cup {NoTx}] /\ tx # NoTx
  BY MultisigAssumption, NoTxAssumption DEF StoreType
<1>3. t > s.tid /\ ~Exists(s, t)
  BY <1>2 DEF Sound
<1>4. s.runs[t] = 0
  BY <1>3 DEF Sound, Concluded
<1>t. Tokens \subseteq Nat
  BY MultisigAssumption DEF Tokens
<1>5. \A u \in Tokens \ {t} :
         r.txs[u] = s.txs[u] /\ (u > r.tid => u > s.tid)
  BY <1>1, <1>2, <1>t
<1>6. r.txs[t] = tx /\ Exists(r, t) /\ ~(t > r.tid)
  BY <1>1, <1>2, <1>t DEF Exists
<1>7. Sound(r)
  BY <1>1, <1>4, <1>5, <1>6 DEF Sound, Exists, Concluded
<1>8. Follows(d, r)
  BY <1>1, <1>3, <1>5, <1>6 DEF Follows, Exists, Concluded
<1> QED BY <1>7, <1>8

LEMMA SweepSound ==
    ASSUME NEW d \in StoreType, NEW s \in StoreType, Sound(d), Sound(s), Follows(d, s)
    PROVE  Sound(Sweep(s, d)) /\ Follows(d, Sweep(s, d))
<1> DEFINE r == Sweep(s, d)
<1>1. r.tid = s.tid /\ r.runs = s.runs
  BY DEF Sweep, StoreType
<1>2. \A t \in Tokens :
         r.txs[t] = IF TimedOut(d, t) THEN Expire(d.txs[t]) ELSE s.txs[t]
  BY DEF Sweep, StoreType
<1>3. ASSUME NEW t \in Tokens, TimedOut(d, t)
      PROVE  /\ Exists(d, t) /\ ~Concluded(d, t)
             /\ Expire(d.txs[t]) # NoTx
             /\ Expire(d.txs[t]).disabled
             /\ Terms(Expire(d.txs[t])) = Terms(d.txs[t])
             /\ Expire(d.txs[t]).transaction = d.txs[t].transaction
  <2>1. Open(d, t) /\ d.txs[t] \in TxType
    BY <1>3 DEF TimedOut, Open, Exists, StoreType
  <2>2. Expire(d.txs[t]) \in TxType
    BY <2>1 DEF Expire, TxType, States
  <2>3. Expire(d.txs[t]) # NoTx
    BY <2>2, NoTxAssumption
  <2> QED BY <2>1, <2>3 DEF Expire, TxType, Terms, Open, Concluded
<1> HIDE DEF r
<1>4. ASSUME NEW t \in Tokens, TimedOut(d, t)
      PROVE  /\ Exists(r, t) /\ Concluded(r, t) /\ Exists(s, t)
             /\ Terms(r.txs[t]) = Terms(d.txs[t])
             /\ Exists(d, t) /\ ~Concluded(d, t)
  BY <1>2, <1>3, <1>4 DEF Exists, Concluded, Follows
<1>5. ASSUME NEW t \in Tokens, ~TimedOut(d, t)
      PROVE  /\ r.txs[t] = s.txs[t]
             /\ Exists(r, t) <=> Exists(s, t)
             /\ Concluded(r, t) <=> Concluded(s, t)
  BY <1>2, <1>5 DEF Exists, Concluded
<1>6. Sound(r)
  BY <1>1, <1>4, <1>5 DEF Sound
<1>7. Follows(d, r)
  BY <1>1, <1>4, <1>5 DEF Follows, Sound
<1> QED BY <1>6, <1>7 DEF r

LEMMA FollowsReflexive ==
    ASSUME NEW s
    PROVE  Follows(s, s)
BY DEF Follows

LEMMA InitInv == Init => IInv
<1> SUFFICES ASSUME Init PROVE IInv
  OBVIOUS
<1>1. TypeOK
  BY InitType
<1>2. Sound(EmptyStore)
  BY DEF EmptyStore, Sound, Exists, Concluded
<1> QED BY <1>1, <1>2, FollowsReflexive DEF Init, IInv

LEMMA NextInv ==
    ASSUME Blockchain
    PROVE  IInv /\ [Next]_vars => IInv'
<1> SUFFICES ASSUME IInv, [Next]_vars PROVE IInv'
  OBVIOUS
<1>0. /\ TypeOK' /\ TypeOK /\ store \in StoreType /\ disk \in StoreType
      /\ now \in Nat /\ Users \subseteq Principals
  BY NextType, MultisigAssumption DEF IInv, TypeOK, Principals
<1>1. CASE UNCHANGED vars
  BY <1>0, <1>1 DEF vars, IInv
<1>2. ASSUME NEW r, Advances(store, r), Write(r) PROVE IInv'
  BY <1>0, <1>2, AdvancesSound DEF IInv, Write
<1>3. ASSUME Stop(disk) PROVE IInv'
  BY <1>0, <1>3, FollowsReflexive DEF IInv, Stop
<1>4. CASE Request
  <2>1. ASSUME NEW p \in Principals, NEW t \in Tokens,
               CanApprove(store, p, t), ShallowApproval(store, p, t),
               Write(Approve(store, p, t))
        PROVE  IInv'
    <3>1. Open(store, t)
      BY <2>1 DEF CanApprove
    <3> QED BY <1>0, <1>2, <2>1, <3>1, ApproveAdvances
  <2>2. ASSUME NEW p \in Principals, NEW t \in Tokens,
               CanExecute(store, p, t), Shallow(store, t),
               Write(Execute(store, t, "ExecutedManually"))
        PROVE  IInv'
    <3>1. Open(store, t) /\ "ExecutedManually" \in States
      BY <2>2 DEF CanExecute, CanConclude, States, Executed
    <3> QED BY <1>0, <1>2, <2>2, <3>1, ExecuteAdvances
  <2>3. ASSUME NEW p \in Users, NEW a \in Accounts, NEW tr \in Transactions,
               NEW args \in SubmitArgs, SubmitRequest(p, a, tr, args)
        PROVE  IInv'
    <3> DEFINE t == store.tid + 1
               tx == NewTx(store, p, a, tr, args)
    <3>1. t \in Tokens /\ Write(Log(PutTx(store, t, tx), t, "submit"))
      BY <2>3 DEF SubmitRequest, Submittable
    <3>2. args \in ArgType
      BY MultisigAssumption
    <3>3. tx \in TxType
      BY <1>0, <3>2, NewTxType
    <3>5. t = store.tid + 1
      OBVIOUS
    <3> HIDE DEF t, tx
    <3>6. /\ Sound(Log(PutTx(store, t, tx), t, "submit"))
          /\ Follows(disk, Log(PutTx(store, t, tx), t, "submit"))
      BY <1>0, <3>1, <3>3, <3>5, SubmitSound DEF IInv
    <3> QED BY <1>0, <3>1, <3>6 DEF IInv, Write
  <2>4. ASSUME NEW r, Edits(store, r), Write(r) PROVE IInv'
    BY <1>2, <2>4, EditsAdvances
  <2> QED BY <1>0, <1>4, <2>1, <2>2, <2>3, <2>4, RequestCases
<1>5. ASSUME NEW time \in 0 .. MaxTime, BeginBlock(time) PROVE IInv'
  BY <1>0, <1>5 DEF BeginBlock, IInv
<1>6. CASE Commit
  BY <1>0, <1>6, SweepSound, FollowsReflexive DEF Commit, IInv
<1>7. CASE Crash
  BY <1>3, <1>7 DEF Crash
<1>8. CASE Load
  BY <1>0, <1>8 DEF Load, IInv
<1> QED BY <1>1, <1>4, <1>5, <1>6, <1>7, <1>8
        DEF Next, Tick, CrashInApprove, CrashInExecute

\* The inductive invariant holds in every reachable state of a blockchain.
THEOREM Invariance ==
    ASSUME Blockchain
    PROVE  Spec => []IInv
BY InitInv, NextInv, PTL DEF Spec

\* The transaction of a token runs at most once, and is closed to every other
\* request then, for any nesting of one transaction in another, any timeouts
\* and any crashes between requests.
THEOREM RunsAtMostOnce ==
    ASSUME Blockchain
    PROVE  Spec => []RunOnce
<1>1. IInv => RunOnce
  BY DEF IInv, Sound, RunOnce, Concluded
<1> QED BY <1>1, Invariance, PTL

\* The durable store of a blockchain implements MultisigLifecycle: commit is
\* its step, everything else is not seen from outside.
THEOREM Implements ==
    ASSUME Blockchain
    PROVE  Spec => ImplementsLifecycle
<1>1. Init => Lifecycle!Init
  <2> SUFFICES ASSUME Init PROVE Lifecycle!Init
    OBVIOUS
  <2>1. /\ disk.txs = [t \in Tokens |-> NoTx]
        /\ disk.runs = [t \in Tokens |-> 0]
    BY DEF Init, EmptyStore
  <2>2. \A t \in Tokens : ~Exists(disk, t)
    BY <2>1 DEF Exists
  <2> QED BY <2>1, <2>2 DEF Lifecycle!Init
<1>2. IInv /\ [Next]_vars => [Lifecycle!Commit]_(Lifecycle!vars)
  <2> SUFFICES ASSUME IInv, [Next]_vars, disk' # disk
               PROVE  Lifecycle!Commit
    BY DEF Lifecycle!vars, Exists
  <2>1. Commit
    BY DEF Next, vars, Request, SubmitRequest, ApproveRequest, RevokeRequest,
           ExecuteRequest, WithdrawRequest, AddRolesRequest, RemoveRolesRequest,
           DisableRequest, SetDefaultsRequest, SendRequest, Write, BeginBlock, Tick, Crash, Stop,
           CrashInApprove, CrashInExecute, Load
  <2>2. /\ disk' = Sweep(store, disk) /\ disk' \in StoreType /\ disk \in StoreType
        /\ Sound(disk) /\ Sound(disk') /\ Follows(disk, disk')
    BY <2>1, SweepSound, SweepType DEF Commit, IInv, TypeOK
  <2>3. \A t \in Tokens : Exists(disk', t) => Terms(disk'.txs[t]) \in TermsType
    <3> SUFFICES ASSUME NEW t \in Tokens, Exists(disk', t)
                 PROVE  Terms(disk'.txs[t]) \in TermsType
      OBVIOUS
    <3>1. disk'.txs[t] \in TxType
      BY <2>2 DEF Exists, StoreType
    <3> QED BY <3>1 DEF TxType, Terms, TermsType
  <2>4. disk.runs \in [Tokens -> Nat] /\ disk'.runs \in [Tokens -> Nat]
    BY <2>2, RunsType
  <2>5. ASSUME NEW t \in Tokens
        PROVE  \/ Lifecycle!Keeps(t) \/ Lifecycle!Propose(t)
               \/ Lifecycle!ConcludeWith(t, 0) \/ Lifecycle!ConcludeWith(t, 1)
    <3>1. CASE Concluded(disk, t)
      <4>1. Lifecycle!Keeps(t)
        BY <2>2, <3>1 DEF Lifecycle!Keeps, Follows, Concluded
      <4> QED BY <4>1
    <3>2. CASE ~Concluded(disk, t) /\ Concluded(disk', t)
      <4>1. disk.runs[t] = 0 /\ disk'.runs[t] \in {0, 1}
        BY <2>2, <3>2 DEF Sound
      <4>2. Terms(disk'.txs[t]) \in TermsType
        BY <2>3, <3>2 DEF Concluded
      <4>3. Exists(disk, t) => Terms(disk'.txs[t]) = Terms(disk.txs[t])
        BY <2>2 DEF Follows
      <4>4. Lifecycle!ConcludeWith(t, 0) \/ Lifecycle!ConcludeWith(t, 1)
        BY <3>2, <4>1, <4>2, <4>3 DEF Lifecycle!ConcludeWith, Concluded
      <4> QED BY <4>4
    <3>3. CASE ~Concluded(disk, t) /\ ~Concluded(disk', t)
      <4>1. disk.runs[t] = 0 /\ disk'.runs[t] = 0
        BY <2>2, <3>3 DEF Sound
      <4>2. CASE Exists(disk, t)
        <5>1. Exists(disk', t) /\ Terms(disk'.txs[t]) = Terms(disk.txs[t])
          BY <2>2, <4>2 DEF Follows
        <5>2. Lifecycle!Keeps(t)
          BY <3>3, <4>1, <4>2, <5>1 DEF Lifecycle!Keeps, Concluded
        <5> QED BY <5>2
      <4>3. CASE ~Exists(disk, t) /\ Exists(disk', t)
        <5>1. Lifecycle!Propose(t)
          BY <2>3, <3>3, <4>1, <4>3 DEF Lifecycle!Propose, Concluded
        <5> QED BY <5>1
      <4>4. CASE ~Exists(disk, t) /\ ~Exists(disk', t)
        <5>1. Lifecycle!Keeps(t)
          BY <4>1, <4>4 DEF Lifecycle!Keeps
        <5> QED BY <5>1
      <4> QED BY <4>2, <4>3, <4>4
    <3> QED BY <3>1, <3>2, <3>3
  <2> QED BY <2>4, <2>5 DEF Lifecycle!Commit
<1> QED BY <1>1, <1>2, Invariance, PTL DEF Spec, ImplementsLifecycle, Lifecycle!Spec

-----------------------------------------------------------------------------
(* What a request does to each token.                                      *)

\* The transaction of t is not run; only an open record is written, and it is
\* not reported executed.
NotRun(s, r, t) ==
    /\ r.runs[t] = s.runs[t] /\ r.votes[t] = s.votes[t]
    /\ "execute" \in r.log[t] <=> "execute" \in s.log[t]
    /\ ~Open(s, t) => r.txs[t] = s.txs[t] /\ r.log[t] = s.log[t]
    /\ Open(s, t) =>
          /\ "withdraw" \in r.log[t] => "withdraw" \in s.log[t] \/ r.txs[t].disabled
          /\ r.txs[t].state \in Executed => s.txs[t].state \in Executed

\* The transaction of u takes that of t back: it is t, or t leads to it.
TakesBack(s, u, t) ==
    /\ s.txs[u].transaction.kind = "withdraw" /\ s.txs[u].transaction.token = t
    /\ \/ u = t
       \/ /\ s.txs[t].transaction.kind \in {"approve", "execute"}
          /\ s.txs[t].transaction.token = u

\* The approvals a run of t was decided on: those of its record, and at most
\* one that the same request gave.
Cast(s, r, t) == \E p \in Principals : r.votes[t] \subseteq Approved(s.txs[t]) \cup {p}

\* The log and the record say that t was run.
Recorded(s, r, t) ==
    /\ "execute" \in r.log[t]
    /\ "withdraw" \in r.log[t] => "withdraw" \in s.log[t]

\* They say that it was withdrawn, which its own run did.
TakenBack(s, r, t) ==
    /\ "execute" \in r.log[t] <=> "execute" \in s.log[t]
    /\ "withdraw" \in r.log[t]
    /\ r.txs[t].state \in Executed => s.txs[t].state \in Executed
    /\ \E u \in Tokens : r.runs[u] # s.runs[u] /\ TakesBack(s, u, t)

\* It is run, with a quorum.
WasRun(s, r, t) ==
    /\ r.runs[t] = s.runs[t] + 1
    /\ Open(s, t)
    /\ r.txs[t].disabled
    /\ Cardinality(r.votes[t]) >= s.txs[t].threshold
    /\ Cast(s, r, t)
    /\ Recorded(s, r, t) \/ TakenBack(s, r, t)

TokenStep(s, r, t) == NotRun(s, r, t) \/ WasRun(s, r, t)

Same(s, r, t) ==
    /\ r.txs[t] = s.txs[t] /\ r.log[t] = s.log[t]
    /\ r.runs[t] = s.runs[t] /\ r.votes[t] = s.votes[t]

\* Nothing but accounts are touched.
OnlyAccounts(s, r) ==
    /\ r.txs = s.txs /\ r.log = s.log /\ r.runs = s.runs /\ r.votes = s.votes
    /\ r.funds = s.funds /\ r.sent = s.sent

LEMMA SameIsNotRun ==
    ASSUME NEW s, NEW r, NEW t \in Tokens, Same(s, r, t)
    PROVE  NotRun(s, r, t)
BY DEF Same, NotRun, Open, Exists

LEMMA NotRunTransitive ==
    ASSUME NEW s, NEW q, NEW r, NEW t \in Tokens, NotRun(s, q, t), NotRun(q, r, t)
    PROVE  NotRun(s, r, t)
<1>1. CASE ~Open(s, t)
  <2>1. ~Open(q, t)
    BY <1>1 DEF NotRun, Open, Exists
  <2> QED BY <1>1, <2>1 DEF NotRun
<1>2. CASE Open(s, t) /\ ~Open(q, t)
  BY <1>2 DEF NotRun
<1>3. CASE Open(s, t) /\ Open(q, t)
  <2>1. ~q.txs[t].disabled
    BY <1>3 DEF Open
  <2> QED BY <1>3, <2>1 DEF NotRun
<1> QED BY <1>1, <1>2, <1>3

\* What a run of t was, whatever happens to the other tokens afterwards.
LEMMA StepTransitive ==
    ASSUME NEW s, NEW q, NEW r, NEW t \in Tokens, TokenStep(s, q, t), NotRun(q, r, t),
           \A u \in Tokens : q.runs[u] # s.runs[u] => r.runs[u] # s.runs[u]
    PROVE  TokenStep(s, r, t)
<1>1. CASE NotRun(s, q, t)
  BY <1>1, NotRunTransitive DEF TokenStep
<1>2. CASE WasRun(s, q, t)
  <2>1. ~Open(q, t)
    BY <1>2 DEF WasRun, Open
  <2>2. Same(q, r, t)
    BY <2>1 DEF NotRun, Same
  <2>3. Recorded(s, q, t) => Recorded(s, r, t)
    BY <2>2 DEF Same, Recorded
  <2>4. TakenBack(s, q, t) => TakenBack(s, r, t)
    BY <2>2 DEF Same, TakenBack
  <2>5. Cast(s, r, t)
    BY <1>2, <2>2 DEF WasRun, Cast, Same
  <2> QED BY <1>2, <2>2, <2>3, <2>4, <2>5 DEF TokenStep, WasRun, Same
<1> QED BY <1>1, <1>2 DEF TokenStep

\* q is s with at most an approval of p for t more.
Prepares(s, q, t, p) ==
    /\ q \in StoreType
    /\ Keeps(s, q)
    /\ Open(s, t) /\ Open(q, t)
    /\ q.runs = s.runs /\ q.funds = s.funds /\ q.sent = s.sent
    /\ \A u \in Tokens : NotRun(s, q, u)
    /\ \A u \in Tokens \ {t} : Same(s, q, u)
    /\ Approved(q.txs[t]) \subseteq Approved(s.txs[t]) \cup {p}

\* A run after an approval.
LEMMA TransitiveStep ==
    ASSUME NEW s, NEW q, NEW r, NEW t \in Tokens, NEW p \in Principals, Prepares(s, q, t, p),
           NEW u \in Tokens, TokenStep(q, r, u),
           u = t => r.votes[t] = Approved(q.txs[t])
    PROVE  TokenStep(s, r, u)
<1>0. NotRun(s, q, u) /\ Keeps(s, q) /\ q.runs = s.runs
  BY DEF Prepares
<1>1. CASE NotRun(q, r, u)
  BY <1>0, <1>1, NotRunTransitive DEF TokenStep
<1>2. CASE WasRun(q, r, u)
  <2>1. Open(q, u) /\ ~q.txs[u].disabled
    BY <1>2 DEF WasRun, Open
  <2>2. Open(s, u)
    BY <1>0, <2>1 DEF NotRun, Open, Exists
  <2>3. "withdraw" \in q.log[u] => "withdraw" \in s.log[u]
    BY <1>0, <2>1, <2>2 DEF NotRun
  <2>4. Recorded(q, r, u) => Recorded(s, r, u)
    BY <2>3 DEF Recorded
  <2>5. ASSUME TakenBack(q, r, u) PROVE TakenBack(s, r, u)
    <3>1. PICK v \in Tokens : r.runs[v] # q.runs[v] /\ TakesBack(q, v, u)
      BY <2>5 DEF TakenBack
    <3>2. /\ q.txs[u].transaction = s.txs[u].transaction
          /\ r.txs[u].state \in Executed => s.txs[u].state \in Executed
          /\ "execute" \in r.log[u] <=> "execute" \in s.log[u]
      BY <1>0, <2>2, <2>5 DEF Keeps, Terms, Open, NotRun, TakenBack
    <3>3. Exists(s, v) => q.txs[v].transaction = s.txs[v].transaction
      BY <1>0 DEF Keeps, Terms
    <3>4. ~Exists(s, v) => q.txs[v] = s.txs[v]
      BY <1>0 DEF Keeps, Exists
    <3>5. TakesBack(s, v, u)
      BY <3>1, <3>2, <3>3, <3>4 DEF TakesBack
    <3> QED BY <1>0, <2>5, <3>1, <3>2, <3>5 DEF TakenBack
  <2>6. Cast(s, r, u)
    <3>1. CASE u = t
      BY <3>1 DEF Cast, Prepares
    <3>2. CASE u # t
      <4>1. q.txs[u] = s.txs[u]
        BY <3>2 DEF Prepares, Same
      <4> QED BY <1>2, <4>1 DEF WasRun, Cast
    <3> QED BY <3>1, <3>2
  <2>7. q.txs[u].threshold = s.txs[u].threshold
    BY <1>0, <2>2 DEF Keeps, Terms, Open
  <2> QED BY <1>0, <1>2, <2>2, <2>4, <2>5, <2>6, <2>7 DEF TokenStep, WasRun
<1> QED BY <1>1, <1>2 DEF TokenStep

-----------------------------------------------------------------------------
(* The fields each operation writes.                                       *)

LEMMA LogFacts ==
    ASSUME NEW s \in StoreType, NEW t \in Tokens, NEW kind \in EventKinds,
           NEW r, r = Log(s, t, kind)
    PROVE  /\ r \in StoreType /\ r.txs = s.txs /\ r.runs = s.runs /\ r.votes = s.votes
           /\ r.funds = s.funds /\ r.sent = s.sent
           /\ r.log[t] = s.log[t] \cup {kind}
           /\ \A u \in Tokens \ {t} : r.log[u] = s.log[u]
<1> DEFINE log == [s.log EXCEPT ![t] = @ \cup {kind}]
<1>1. s.log \in [Tokens -> SUBSET EventKinds]
  BY DEF StoreType
<1>2. /\ log \in [Tokens -> SUBSET EventKinds]
      /\ log[t] = s.log[t] \cup {kind}
      /\ \A u \in Tokens \ {t} : log[u] = s.log[u]
  BY <1>1
<1>3. r = [s EXCEPT !.log = log]
  BY DEF Log
<1> HIDE DEF log
<1>4. /\ r \in StoreType /\ r.txs = s.txs /\ r.runs = s.runs /\ r.votes = s.votes
      /\ r.funds = s.funds /\ r.sent = s.sent
      /\ r.log = log
  BY <1>2, <1>3 DEF StoreType
<1> QED BY <1>2, <1>4

\* s with the record tx under t.
SetTx(s, t, tx) == [s EXCEPT !.txs = [s.txs EXCEPT ![t] = tx]]

LEMMA SetTxFacts ==
    ASSUME NEW s \in StoreType, NEW t \in Tokens, NEW tx \in TxType,
           NEW r, r = SetTx(s, t, tx)
    PROVE  /\ r \in StoreType /\ r.log = s.log /\ r.runs = s.runs /\ r.votes = s.votes
           /\ r.funds = s.funds /\ r.sent = s.sent
           /\ r.txs[t] = tx
           /\ \A u \in Tokens \ {t} : r.txs[u] = s.txs[u]
<1> DEFINE txs == [s.txs EXCEPT ![t] = tx]
<1>1. s.txs \in [Tokens -> TxType \cup {NoTx}]
  BY DEF StoreType
<1>2. /\ txs \in [Tokens -> TxType \cup {NoTx}]
      /\ txs[t] = tx
      /\ \A u \in Tokens \ {t} : txs[u] = s.txs[u]
  BY <1>1
<1>3. r = [s EXCEPT !.txs = txs]
  BY DEF SetTx
<1> HIDE DEF txs
<1>4. /\ r \in StoreType /\ r.log = s.log /\ r.runs = s.runs /\ r.votes = s.votes
      /\ r.funds = s.funds /\ r.sent = s.sent
      /\ r.txs = txs
  BY <1>2, <1>3 DEF StoreType
<1> QED BY <1>2, <1>4

LEMMA DisableTxFacts ==
    ASSUME NEW s \in StoreType, NEW t \in Tokens, Open(s, t), NEW state \in States,
           NEW r, r = DisableTx(s, t, state)
    PROVE  /\ r \in StoreType /\ r.log = s.log /\ r.runs = s.runs /\ r.votes = s.votes
           /\ r.funds = s.funds /\ r.sent = s.sent
           /\ \A u \in Tokens \ {t} : r.txs[u] = s.txs[u]
           /\ r.txs[t].state = state /\ r.txs[t].disabled /\ r.txs[t] \in TxType
           /\ r.txs[t].approvers = s.txs[t].approvers
           /\ r.txs[t].threshold = s.txs[t].threshold
<1> DEFINE tx == [s.txs[t] EXCEPT !.state = state, !.disabled = TRUE]
<1>1. s.txs[t] \in TxType
  BY DEF Open, Exists, StoreType
<1>2. /\ tx \in TxType /\ tx.state = state /\ tx.disabled
      /\ tx.approvers = s.txs[t].approvers /\ tx.threshold = s.txs[t].threshold
  BY <1>1 DEF TxType
<1>3. r = SetTx(s, t, tx)
  BY <1>1 DEF DisableTx, SetTx, StoreType, TxType
<1> HIDE DEF tx
<1>4. /\ r \in StoreType /\ r.log = s.log /\ r.runs = s.runs /\ r.votes = s.votes
      /\ r.funds = s.funds /\ r.sent = s.sent
      /\ r.txs[t] = tx
      /\ \A u \in Tokens \ {t} : r.txs[u] = s.txs[u]
  BY <1>2, <1>3, SetTxFacts
<1> QED BY <1>2, <1>4

LEMMA SetApprovalFacts ==
    ASSUME NEW s \in StoreType, NEW t \in Tokens, Open(s, t), NEW p \in Principals,
           NEW answer \in {"yes", "no"}, NEW r, r = SetApproval(s, p, t, answer)
    PROVE  /\ r \in StoreType /\ r.log = s.log /\ r.runs = s.runs /\ r.votes = s.votes
           /\ r.funds = s.funds /\ r.sent = s.sent
           /\ \A u \in Tokens \ {t} : r.txs[u] = s.txs[u]
           /\ r.txs[t].state = s.txs[t].state /\ ~r.txs[t].disabled
           /\ r.txs[t] \in TxType
           /\ Approved(r.txs[t]) \subseteq Approved(s.txs[t]) \cup {p}
<1> DEFINE tx == [s.txs[t] EXCEPT !.approvers[p] = answer]
<1>1. s.txs[t] \in TxType /\ ~s.txs[t].disabled
  BY DEF Open, Exists, StoreType
<1>2. tx \in TxType /\ tx.state = s.txs[t].state /\ ~tx.disabled
  BY <1>1 DEF TxType
<1>a. Approved(tx) \subseteq Approved(s.txs[t]) \cup {p}
  BY <1>1 DEF TxType, Approved
<1>3. r = SetTx(s, t, tx)
  BY <1>1 DEF SetApproval, SetTx, StoreType, TxType
<1> HIDE DEF tx
<1>4. /\ r \in StoreType /\ r.log = s.log /\ r.runs = s.runs /\ r.votes = s.votes
      /\ r.funds = s.funds /\ r.sent = s.sent
      /\ r.txs[t] = tx
      /\ \A u \in Tokens \ {t} : r.txs[u] = s.txs[u]
  BY <1>2, <1>3, SetTxFacts
<1> QED BY <1>2, <1>a, <1>4

LEMMA AccountOperations ==
    ASSUME NEW s \in StoreType, NEW a \in Accounts
    PROVE  /\ \A who, role : OnlyAccounts(s, AddRoles(s, a, who, role))
           /\ \A who, role : OnlyAccounts(s, RemoveRoles(s, a, who, role))
           /\ OnlyAccounts(s, DisableAccount(s, a))
           /\ \A args : OnlyAccounts(s, SetDefaults(s, a, args))
BY DEF OnlyAccounts, AddRoles, RemoveRoles, DisableAccount, SetDefaults, StoreType

LEMMA AccountsOnly ==
    ASSUME NEW s, NEW r, OnlyAccounts(s, r)
    PROVE  /\ \A u \in Tokens : Same(s, r, u) /\ NotRun(s, r, u)
           /\ r.funds = s.funds /\ r.sent = s.sent
BY SameIsNotRun DEF OnlyAccounts, Same

\* An answer to t, and the event for it.
LEMMA AnswerFacts ==
    ASSUME NEW s \in StoreType, NEW t \in Tokens, Open(s, t), NEW p \in Principals,
           NEW answer \in {"yes", "no"}, NEW kind \in {"approve", "revoke"},
           NEW r, r = Log(SetApproval(s, p, t, answer), t, kind)
    PROVE  /\ Open(r, t) /\ Approved(r.txs[t]) \subseteq Approved(s.txs[t]) \cup {p}
           /\ \A u \in Tokens \ {t} : Same(s, r, u)
           /\ \A u \in Tokens : NotRun(s, r, u)
           /\ r.funds = s.funds /\ r.sent = s.sent /\ r.runs = s.runs /\ r.votes = s.votes
<1> DEFINE m == SetApproval(s, p, t, answer)
<1>1. /\ m \in StoreType /\ m.log = s.log /\ m.runs = s.runs /\ m.votes = s.votes
      /\ m.funds = s.funds /\ m.sent = s.sent
      /\ \A u \in Tokens \ {t} : m.txs[u] = s.txs[u]
      /\ m.txs[t].state = s.txs[t].state /\ ~m.txs[t].disabled /\ m.txs[t] \in TxType
      /\ Approved(m.txs[t]) \subseteq Approved(s.txs[t]) \cup {p}
  BY SetApprovalFacts
<1>m. r = Log(m, t, kind) /\ kind \in EventKinds
  BY DEF EventKinds
<1> HIDE DEF m
<1>2. /\ r.txs = m.txs /\ r.runs = m.runs /\ r.votes = m.votes
      /\ r.funds = m.funds /\ r.sent = m.sent
      /\ r.log[t] = m.log[t] \cup {kind}
      /\ \A u \in Tokens \ {t} : r.log[u] = m.log[u]
  BY <1>1, <1>m, LogFacts
<1>3. \A u \in Tokens \ {t} : Same(s, r, u)
  BY <1>1, <1>2 DEF Same
<1>4. NotRun(s, r, t)
  BY <1>1, <1>2 DEF NotRun
<1>5. Open(r, t)
  BY <1>1, <1>2, NoTxAssumption DEF Open, Exists
<1> QED BY <1>1, <1>2, <1>3, <1>4, <1>5, SameIsNotRun

LEMMA WithdrawFacts ==
    ASSUME NEW s \in StoreType, NEW t \in Tokens, Open(s, t), NEW r, r = Withdraw(s, t)
    PROVE  /\ "withdraw" \in r.log[t]
           /\ \A u \in Tokens \ {t} : Same(s, r, u)
           /\ \A u \in Tokens : NotRun(s, r, u)
           /\ r.funds = s.funds /\ r.sent = s.sent /\ r.runs = s.runs /\ r.votes = s.votes
<1> DEFINE m == DisableTx(s, t, "Withdrawn")
<1>0. "Withdrawn" \in States
  BY DEF States
<1>1. /\ m \in StoreType /\ m.log = s.log /\ m.runs = s.runs /\ m.votes = s.votes
      /\ m.funds = s.funds /\ m.sent = s.sent
      /\ \A u \in Tokens \ {t} : m.txs[u] = s.txs[u]
      /\ m.txs[t].state = "Withdrawn" /\ m.txs[t].disabled
  BY <1>0, DisableTxFacts
<1>m. r = Log(m, t, "withdraw") /\ "withdraw" \in EventKinds
  BY DEF EventKinds, Withdraw
<1> HIDE DEF m
<1>2. /\ r.txs = m.txs /\ r.runs = m.runs /\ r.votes = m.votes
      /\ r.funds = m.funds /\ r.sent = m.sent
      /\ r.log[t] = m.log[t] \cup {"withdraw"}
      /\ \A u \in Tokens \ {t} : r.log[u] = m.log[u]
  BY <1>1, <1>m, LogFacts
<1>3. \A u \in Tokens \ {t} : Same(s, r, u)
  BY <1>1, <1>2 DEF Same
<1>4. NotRun(s, r, t)
  BY <1>1, <1>2 DEF NotRun, Executed
<1> QED BY <1>1, <1>2, <1>3, <1>4, SameIsNotRun

-----------------------------------------------------------------------------
(* Runs.                                                                   *)

\* What an account would hold had nobody sent from it directly.
Balance(s, a) == s.funds[a] + s.sent[a]

LEMMA BalanceType ==
    ASSUME NEW s \in StoreType
    PROVE  \A a \in Accounts : Balance(s, a) \in Nat
BY DEF StoreType, Balance

\* What the run of a send takes from its account.
Cost(tr, a) == IF tr.kind = "send" /\ tr.account = a THEN 1 ELSE 0

\* Tokens are not closed, but by a withdrawal.
Closes(s, q, u, tr) ==
    Open(s, u) => \/ Open(q, u)
                  \/ tr.kind = "withdraw" /\ tr.token = u /\ "withdraw" \in q.log[u]

\* A leaf runs nothing more, closes at most what it withdraws and takes what a
\* send may.
LEMMA RunLeafFacts ==
    ASSUME NEW s \in StoreType, NEW p \in Principals, NEW tr \in TransactionType,
           NEW q, q = RunLeaf(s, p, tr)
    PROVE  /\ \A u \in Tokens : NotRun(s, q, u) /\ Closes(s, q, u, tr)
           /\ \A a \in Accounts : Balance(s, a) - Balance(q, a) <= Cost(tr, a)
           /\ q.runs = s.runs
<1>0. /\ tr.account \in Accounts /\ tr.token \in Tokens /\ tr.kind \in Kinds
      /\ s.funds \in [Accounts -> Nat] /\ s.sent \in [Accounts -> Nat]
  BY DEF TransactionType, StoreType
<1>1. \A a \in Accounts : Cost(tr, a) \in {0, 1} /\ Balance(s, a) - Balance(s, a) = 0
  BY BalanceType DEF Cost
<1>2. ASSUME NEW r, r.funds = s.funds, r.sent = s.sent
      PROVE  \A a \in Accounts : Balance(s, a) - Balance(r, a) <= Cost(tr, a)
  <2>1. \A a \in Accounts : Balance(r, a) = Balance(s, a)
    BY <1>2 DEF Balance
  <2> QED BY <1>1, <2>1
<1>3. ASSUME NEW r, NEW u \in Tokens, Same(s, r, u) PROVE Closes(s, r, u, tr)
  BY <1>3 DEF Same, Closes, Open, Exists
<1>4. ASSUME OnlyAccounts(s, q)
      PROVE  /\ \A u \in Tokens : NotRun(s, q, u) /\ Closes(s, q, u, tr)
             /\ \A a \in Accounts : Balance(s, a) - Balance(q, a) <= Cost(tr, a)
             /\ q.runs = s.runs
  BY <1>2, <1>3, <1>4, AccountsOnly DEF OnlyAccounts
<1>5. OnlyAccounts(s, s)
  BY DEF OnlyAccounts
<1>6. CASE tr.kind = "send"
  <2>1. CASE CanSend(s, p, tr.account)
    <3> DEFINE funds == [s.funds EXCEPT ![tr.account] = @ - 1]
    <3>1. q = [s EXCEPT !.funds = funds]
      BY <1>6, <2>1 DEF RunLeaf
    <3>2. /\ q.txs = s.txs /\ q.log = s.log /\ q.runs = s.runs /\ q.votes = s.votes
          /\ q.funds = funds /\ q.sent = s.sent
      BY <3>1 DEF StoreType
    <3>3. \A a \in Accounts : Balance(s, a) - Balance(q, a) <= Cost(tr, a)
      BY <1>0, <1>6, <3>2 DEF Cost, Balance
    <3>4. \A u \in Tokens : Same(s, q, u)
      BY <3>2 DEF Same
    <3> QED BY <1>3, <3>2, <3>3, <3>4, SameIsNotRun
  <2>2. CASE ~CanSend(s, p, tr.account)
    BY <1>4, <1>5, <1>6, <2>2 DEF RunLeaf
  <2> QED BY <2>1, <2>2
<1>7. CASE tr.kind \in {"addRoles", "removeRoles", "disable", "setDefaults"}
  <2>1. OnlyAccounts(s, q)
    BY <1>0, <1>5, <1>7, AccountOperations DEF RunLeaf
  <2> QED BY <1>4, <2>1
<1>8. ASSUME NEW answer \in {"yes", "no"}, NEW kind \in {"approve", "revoke"},
             Open(s, tr.token), q = Log(SetApproval(s, p, tr.token, answer), tr.token, kind)
      PROVE  /\ \A u \in Tokens : NotRun(s, q, u) /\ Closes(s, q, u, tr)
             /\ \A a \in Accounts : Balance(s, a) - Balance(q, a) <= Cost(tr, a)
             /\ q.runs = s.runs
  <2>1. /\ Open(q, tr.token)
        /\ \A u \in Tokens \ {tr.token} : Same(s, q, u)
        /\ \A u \in Tokens : NotRun(s, q, u)
        /\ q.funds = s.funds /\ q.sent = s.sent /\ q.runs = s.runs
    BY <1>0, <1>8, AnswerFacts
  <2>2. \A u \in Tokens : Closes(s, q, u, tr)
    BY <1>3, <2>1 DEF Closes
  <2> QED BY <1>2, <2>1, <2>2
<1>9. CASE tr.kind = "approve"
  <2>1. CASE CanApprove(s, p, tr.token)
    BY <1>8, <1>9, <2>1 DEF RunLeaf, CanApprove, Approval
  <2>2. CASE ~CanApprove(s, p, tr.token)
    BY <1>4, <1>5, <1>9, <2>2 DEF RunLeaf
  <2> QED BY <2>1, <2>2
<1>10. CASE tr.kind = "revoke"
  <2>1. CASE CanRevoke(s, p, tr.token)
    BY <1>8, <1>10, <2>1 DEF RunLeaf, CanRevoke, Revoke
  <2>2. CASE ~CanRevoke(s, p, tr.token)
    BY <1>4, <1>5, <1>10, <2>2 DEF RunLeaf
  <2> QED BY <2>1, <2>2
<1>11. CASE tr.kind = "withdraw"
  <2>1. CASE CanConclude(s, p, tr.token)
    <3>1. Open(s, tr.token) /\ q = Withdraw(s, tr.token)
      BY <1>11, <2>1 DEF RunLeaf, CanConclude
    <3>2. /\ "withdraw" \in q.log[tr.token]
          /\ \A u \in Tokens \ {tr.token} : Same(s, q, u)
          /\ \A u \in Tokens : NotRun(s, q, u)
          /\ q.funds = s.funds /\ q.sent = s.sent /\ q.runs = s.runs
      BY <1>0, <3>1, WithdrawFacts
    <3>3. \A u \in Tokens : Closes(s, q, u, tr)
      BY <1>3, <1>11, <3>2 DEF Closes
    <3> QED BY <1>2, <3>2, <3>3
  <2>2. CASE ~CanConclude(s, p, tr.token)
    BY <1>4, <1>5, <1>11, <2>2 DEF RunLeaf
  <2> QED BY <2>1, <2>2
<1>12. CASE tr.kind = "execute"
  BY <1>4, <1>5, <1>12 DEF RunLeaf
<1> QED BY <1>0, <1>6, <1>7, <1>9, <1>10, <1>11, <1>12 DEF Kinds

LEMMA SendsFinite ==
    ASSUME NEW s, NEW a
    PROVE  IsFiniteSet(Sends(s, a)) /\ Cardinality(Sends(s, a)) \in Nat
<1>1. IsFiniteSet(Tokens)
  BY FS_Interval, MultisigAssumption DEF Tokens
<1>2. Sends(s, a) \subseteq Tokens
  BY DEF Sends
<1> QED BY <1>1, <1>2, FS_Subset, FS_CardinalityType

\* What an operation that keeps the records leaves of one of them.
LEMMA KeptTerms ==
    ASSUME NEW s, NEW r, Keeps(s, r), NEW t \in Tokens, Exists(s, t)
    PROVE  /\ Exists(r, t)
           /\ r.txs[t].transaction = s.txs[t].transaction
           /\ r.txs[t].account = s.txs[t].account
           /\ r.txs[t].timeout = s.txs[t].timeout
           /\ r.txs[t].creation = s.txs[t].creation
BY DEF Keeps, Terms

LEMMA SendsKept ==
    ASSUME NEW s, NEW r, Keeps(s, r), r.runs = s.runs, NEW a
    PROVE  Sends(r, a) = Sends(s, a)
<1>1. \A t \in Tokens : Exists(r, t) <=> Exists(s, t)
  BY DEF Keeps
<1> QED BY <1>1, KeptTerms DEF Sends

\* Funds that left are counted by sends that were run, and more for tr.
Paid(s, r, tr) ==
    \A a \in Accounts :
        Balance(s, a) - Balance(r, a)
        <= Cardinality(Sends(r, a)) - Cardinality(Sends(s, a)) + Cost(tr, a)

PaidUp(s, r) ==
    \A a \in Accounts :
        Balance(s, a) - Balance(r, a) <= Cardinality(Sends(r, a)) - Cardinality(Sends(s, a))

\* Transactions that are open were not run.
Fresh(s) == \A t \in Tokens : Open(s, t) => s.runs[t] = 0

\* What runs nothing and takes nothing.
LEMMA NothingPaid ==
    ASSUME NEW s \in StoreType, NEW r, Keeps(s, r), r.runs = s.runs,
           \A a \in Accounts : Balance(r, a) = Balance(s, a)
    PROVE  PaidUp(s, r)
<1> SUFFICES ASSUME NEW a \in Accounts
             PROVE  Balance(s, a) - Balance(r, a)
                    <= Cardinality(Sends(r, a)) - Cardinality(Sends(s, a))
  BY DEF PaidUp
<1>1. Sends(r, a) = Sends(s, a)
  BY SendsKept
<1>2. Cardinality(Sends(s, a)) \in Nat /\ Balance(s, a) \in Nat
  BY SendsFinite, BalanceType
<1> QED BY <1>1, <1>2

LEMMA PaidTransitive ==
    ASSUME NEW s \in StoreType, NEW q \in StoreType, NEW r \in StoreType,
           PaidUp(s, q), PaidUp(q, r)
    PROVE  PaidUp(s, r)
<1> SUFFICES ASSUME NEW a \in Accounts
             PROVE  Balance(s, a) - Balance(r, a)
                    <= Cardinality(Sends(r, a)) - Cardinality(Sends(s, a))
  BY DEF PaidUp
<1> DEFINE cs == Cardinality(Sends(s, a))
           cq == Cardinality(Sends(q, a))
           cr == Cardinality(Sends(r, a))
<1>1. Balance(s, a) \in Nat /\ Balance(q, a) \in Nat /\ Balance(r, a) \in Nat
  BY BalanceType
<1>2. cs \in Nat /\ cq \in Nat /\ cr \in Nat
  BY SendsFinite
<1>3. Balance(s, a) - Balance(q, a) <= cq - cs /\ Balance(q, a) - Balance(r, a) <= cr - cq
  BY DEF PaidUp
<1> HIDE DEF cs, cq, cr
<1>4. Balance(s, a) - Balance(r, a) <= cr - cs
  BY <1>1, <1>2, <1>3
<1> QED BY <1>4 DEF cs, cr

\* The run of t is counted: its send, if it is one, is among those that were run.
LEMMA CountedSends ==
    ASSUME NEW q \in StoreType, NEW t \in Tokens, Exists(q, t), q.runs[t] = 0,
           NEW tx, NEW m, m = CountRun(q, t, Approved(tx)), NEW a \in Accounts
    PROVE  Cardinality(Sends(m, a)) = Cardinality(Sends(q, a)) + Cost(q.txs[t].transaction, a)
<1>1. /\ m.txs = q.txs /\ m.runs[t] = 1
      /\ \A u \in Tokens \ {t} : m.runs[u] = q.runs[u]
  BY CountRunFacts
<1>2. t \notin Sends(q, a)
  BY DEF Sends
<1>3. \A u \in Tokens : Exists(m, u) <=> Exists(q, u)
  BY <1>1 DEF Exists
<1>4. CASE q.txs[t].transaction.kind = "send" /\ q.txs[t].transaction.account = a
  <2>1. Sends(m, a) = Sends(q, a) \cup {t}
    BY <1>1, <1>3, <1>4 DEF Sends
  <2>2. IsFiniteSet(Sends(q, a))
    BY SendsFinite
  <2>3. Cardinality(Sends(q, a) \cup {t}) = Cardinality(Sends(q, a)) + 1
    BY <1>2, <2>2, FS_AddElement
  <2>4. Cost(q.txs[t].transaction, a) = 1
    BY <1>4 DEF Cost
  <2> QED BY <2>1, <2>3, <2>4
<1>5. CASE ~(q.txs[t].transaction.kind = "send" /\ q.txs[t].transaction.account = a)
  <2>1. Sends(m, a) = Sends(q, a)
    BY <1>1, <1>3, <1>5 DEF Sends
  <2> QED BY <1>5, <2>1, SendsFinite DEF Cost
<1> QED BY <1>4, <1>5

\* q is s after the transaction of t was run and before the run is counted; t
\* is still open, or its own run has withdrawn it.
HasRun(s, q, t) ==
    /\ q \in StoreType
    /\ Keeps(s, q)
    /\ \A u \in Tokens : TokenStep(s, q, u)
    /\ NotRun(s, q, t)
    /\ \/ Open(q, t)
       \/ /\ "withdraw" \in q.log[t]
          /\ \E u \in Tokens : (u = t \/ q.runs[u] # s.runs[u]) /\ TakesBack(s, u, t)

\* r is s after it all: t was run on the approvals it had.
Concludes(s, r, t) ==
    /\ r \in StoreType
    /\ Keeps(s, r)
    /\ \A u \in Tokens : TokenStep(s, r, u)
    /\ r.runs[t] = s.runs[t] + 1
    /\ r.votes[t] = Approved(s.txs[t])

LEMMA CastAsApproved ==
    ASSUME NEW s, NEW r, NEW t \in Tokens, r.votes[t] = Approved(s.txs[t]),
           NEW p \in Principals
    PROVE  Cast(s, r, t)
BY DEF Cast

\* What is left of one of the other tokens once the run of t is counted.
LEMMA OthersStep ==
    ASSUME NEW s \in StoreType, NEW t \in Tokens, Open(s, t), NEW q, HasRun(s, q, t),
           NEW r, r.runs[t] = s.runs[t] + 1, \A u \in Tokens \ {t} : Same(q, r, u)
    PROVE  \A u \in Tokens \ {t} : TokenStep(s, r, u)
<1>1. s.runs[t] \in Nat /\ s.runs[t] + 1 # s.runs[t]
  BY RunsType
<1>2. \A u \in Tokens : q.runs[u] # s.runs[u] => r.runs[u] # s.runs[u]
  BY <1>1 DEF Same
<1> TAKE u \in Tokens \ {t}
<1>3. TokenStep(s, q, u) /\ NotRun(q, r, u)
  BY SameIsNotRun DEF HasRun
<1> QED BY <1>2, <1>3, StepTransitive

\* The rest of an execution, once the transaction has run.
LEMMA ConcludeFacts ==
    ASSUME NEW s \in StoreType, NEW t \in Tokens, Open(s, t), should_execute(s.txs[t]),
           NEW q, HasRun(s, q, t), NEW state \in Executed,
           NEW r, r = Conclude(CountRun(q, t, Approved(s.txs[t])), t, state)
    PROVE  /\ Concludes(s, r, t)
           /\ \A u \in Tokens \ {t} : Same(q, r, u)
           /\ Paid(s, q, s.txs[t].transaction) /\ s.runs[t] = 0 => PaidUp(s, r)
<1> DEFINE m == CountRun(q, t, Approved(s.txs[t]))
           e == DisableTx(m, t, state)
<1>1. /\ q \in StoreType /\ Keeps(s, q) /\ NotRun(s, q, t) /\ Exists(q, t)
      /\ q.runs[t] = s.runs[t]
  BY DEF HasRun, Keeps, Open, NotRun
<1>2. /\ m \in StoreType /\ Keeps(q, m)
      /\ m.txs = q.txs /\ m.log = q.log /\ m.funds = q.funds /\ m.sent = q.sent
      /\ m.runs[t] = q.runs[t] + 1 /\ m.votes[t] = Approved(s.txs[t])
      /\ \A u \in Tokens \ {t} : m.runs[u] = q.runs[u] /\ m.votes[u] = q.votes[u]
  BY <1>1, CountRunFacts
<1>3. \A a \in Accounts : Cardinality(Sends(m, a))
                          = IF s.runs[t] = 0
                            THEN Cardinality(Sends(q, a)) + Cost(q.txs[t].transaction, a)
                            ELSE Cardinality(Sends(m, a))
  BY <1>1, CountedSends
<1>r. r = Conclude(m, t, state)
  OBVIOUS
<1> HIDE DEF m
<1>4. state \in States
  BY DEF States
<1>5. Exists(m, t)
  BY <1>1, <1>2 DEF Exists
<1>6. Edits(m, r) /\ r.txs[t].disabled
  BY <1>2, <1>4, <1>5, <1>r, ConcludeEdits
<1>7. r \in StoreType /\ Keeps(s, r)
  BY <1>1, <1>2, <1>6, KeepsTransitive DEF Edits
<1>8. r.txs[t].threshold = s.txs[t].threshold /\ Cast(s, m, t)
  <2>1. s.txs[t].account \in Principals
    BY StoredTransaction DEF Open
  <2> QED BY <1>2, <1>7, <2>1, CastAsApproved DEF Keeps, Terms, Open
<1>9. Cardinality(m.votes[t]) >= s.txs[t].threshold
  BY <1>2 DEF should_execute
<1>10. ASSUME Open(q, t)
       PROVE  /\ \A u \in Tokens \ {t} : Same(q, r, u)
              /\ r.runs[t] = s.runs[t] + 1 /\ r.votes[t] = Approved(s.txs[t])
              /\ r.runs = m.runs /\ r.funds = q.funds /\ r.sent = q.sent
              /\ TokenStep(s, r, t)
  <2>1. Open(m, t)
    BY <1>2, <1>10 DEF Open, Exists
  <2>2. /\ e \in StoreType /\ e.log = m.log /\ e.runs = m.runs /\ e.votes = m.votes
        /\ e.funds = m.funds /\ e.sent = m.sent
        /\ \A u \in Tokens \ {t} : e.txs[u] = m.txs[u]
        /\ e.txs[t].state = state /\ e.txs[t].disabled
    BY <1>2, <1>4, <2>1, DisableTxFacts
  <2>3. r = Log(e, t, "execute") /\ "execute" \in EventKinds
    BY <1>r, <2>1 DEF Conclude, EventKinds
  <2> HIDE DEF e
  <2>4. /\ r.txs = e.txs /\ r.runs = e.runs /\ r.votes = e.votes
        /\ r.funds = e.funds /\ r.sent = e.sent
        /\ r.log[t] = e.log[t] \cup {"execute"}
        /\ \A u \in Tokens \ {t} : r.log[u] = e.log[u]
    BY <2>2, <2>3, LogFacts
  <2>5. \A u \in Tokens \ {t} : Same(q, r, u)
    BY <1>2, <2>2, <2>4 DEF Same
  <2>6. ~q.txs[t].disabled /\ ("withdraw" \in q.log[t] => "withdraw" \in s.log[t])
    BY <1>1, <1>10 DEF Open, NotRun
  <2>7. Recorded(s, r, t)
    BY <1>2, <2>2, <2>4, <2>6 DEF Recorded
  <2>8. r.runs[t] = s.runs[t] + 1 /\ r.votes[t] = m.votes[t]
    BY <1>1, <1>2, <2>2, <2>4
  <2>9. Cast(s, r, t)
    BY <1>8, <2>8 DEF Cast
  <2>10. WasRun(s, r, t)
    BY <1>6, <1>9, <2>7, <2>8, <2>9 DEF WasRun
  <2> QED BY <1>2, <2>2, <2>4, <2>5, <2>8, <2>10 DEF TokenStep
<1>11. ASSUME ~Open(q, t)
       PROVE  /\ \A u \in Tokens \ {t} : Same(q, r, u)
              /\ r.runs[t] = s.runs[t] + 1 /\ r.votes[t] = Approved(s.txs[t])
              /\ r.runs = m.runs /\ r.funds = q.funds /\ r.sent = q.sent
              /\ TokenStep(s, r, t)
  <2>1. r = m
    BY <1>2, <1>r, <1>11 DEF Conclude, Open, Exists
  <2>2. \A u \in Tokens \ {t} : Same(q, r, u)
    BY <1>2, <2>1 DEF Same
  <2>3. r.runs[t] = s.runs[t] + 1 /\ r.votes[t] = m.votes[t]
    BY <1>1, <1>2, <2>1
  <2>4. PICK u \in Tokens : (u = t \/ q.runs[u] # s.runs[u]) /\ TakesBack(s, u, t)
    BY <1>11 DEF HasRun
  <2>5. r.runs[u] # s.runs[u]
    <3>1. s.runs[t] \in Nat
      BY RunsType
    <3> QED BY <1>1, <2>2, <2>3, <2>4, <3>1 DEF Same
  <2>6. /\ "execute" \in r.log[t] <=> "execute" \in s.log[t]
        /\ "withdraw" \in r.log[t]
        /\ r.txs[t].state \in Executed => s.txs[t].state \in Executed
    BY <1>1, <1>2, <1>11, <2>1 DEF NotRun, HasRun
  <2>7. TakenBack(s, r, t)
    BY <2>4, <2>5, <2>6 DEF TakenBack
  <2>8. WasRun(s, r, t)
    BY <1>6, <1>8, <1>9, <2>1, <2>3, <2>7 DEF WasRun
  <2> QED BY <1>2, <2>1, <2>2, <2>3, <2>8 DEF TokenStep
<1>12. /\ \A u \in Tokens \ {t} : Same(q, r, u)
       /\ r.runs[t] = s.runs[t] + 1 /\ r.votes[t] = Approved(s.txs[t])
       /\ r.runs = m.runs /\ r.funds = q.funds /\ r.sent = q.sent
       /\ TokenStep(s, r, t)
  BY <1>2, <1>10, <1>11
<1>13. \A u \in Tokens : TokenStep(s, r, u)
  BY <1>12, OthersStep
<1>14. ASSUME Paid(s, q, s.txs[t].transaction), s.runs[t] = 0 PROVE PaidUp(s, r)
  <2> SUFFICES ASSUME NEW a \in Accounts
               PROVE  Balance(s, a) - Balance(r, a)
                      <= Cardinality(Sends(r, a)) - Cardinality(Sends(s, a))
    BY DEF PaidUp
  <2>1. Sends(r, a) = Sends(m, a)
    BY <1>6, SendsKept DEF Edits
  <2>2. q.txs[t].transaction = s.txs[t].transaction
    BY <1>1, KeptTerms DEF Open
  <2>3. Balance(r, a) = Balance(q, a)
    BY <1>12 DEF Balance
  <2> DEFINE cs == Cardinality(Sends(s, a))
             cq == Cardinality(Sends(q, a))
             c == Cost(s.txs[t].transaction, a)
  <2>4. cs \in Nat /\ cq \in Nat /\ c \in Nat
    BY SendsFinite DEF Cost
  <2>5. Balance(s, a) \in Nat /\ Balance(q, a) \in Nat
    BY <1>1, BalanceType
  <2>6. Cardinality(Sends(r, a)) = cq + c
    BY <1>3, <1>14, <2>1, <2>2
  <2>7. Balance(s, a) - Balance(q, a) <= cq - cs + c
    BY <1>14 DEF Paid
  <2> HIDE DEF cs, cq, c
  <2>8. Balance(s, a) - Balance(r, a) <= Cardinality(Sends(r, a)) - cs
    BY <2>3, <2>4, <2>5, <2>6, <2>7
  <2> QED BY <2>8 DEF cs
<1> QED BY <1>7, <1>12, <1>13, <1>14 DEF Concludes

\* A leaf that was run.
LEMMA LeafHasRun ==
    ASSUME NEW s \in StoreType, NEW t \in Tokens, Open(s, t),
           NEW q, q = RunLeaf(s, s.txs[t].account, s.txs[t].transaction)
    PROVE  /\ HasRun(s, q, t) /\ Paid(s, q, s.txs[t].transaction)
           /\ \A u \in Tokens : NotRun(s, q, u) /\ Closes(s, q, u, s.txs[t].transaction)
<1> DEFINE tr == s.txs[t].transaction
           p == s.txs[t].account
<1>1. tr \in TransactionType /\ p \in Principals
  BY StoredTransaction DEF Open
<1>2. q = RunLeaf(s, p, tr)
  OBVIOUS
<1>t. tr = s.txs[t].transaction
  OBVIOUS
<1> HIDE DEF tr, p
<1>3. /\ \A u \in Tokens : NotRun(s, q, u) /\ Closes(s, q, u, tr)
      /\ \A a \in Accounts : Balance(s, a) - Balance(q, a) <= Cost(tr, a)
      /\ q.runs = s.runs
  BY <1>1, <1>2, RunLeafFacts
<1>4. Edits(s, q)
  BY <1>1, <1>2, RunLeafEdits
<1>5. \/ Open(q, t)
      \/ "withdraw" \in q.log[t] /\ TakesBack(s, t, t)
  BY <1>t, <1>3 DEF Closes, TakesBack
<1>6. HasRun(s, q, t)
  BY <1>3, <1>4, <1>5 DEF HasRun, Edits, TokenStep
<1>7. Paid(s, q, tr)
  <2> SUFFICES ASSUME NEW a \in Accounts
               PROVE  Balance(s, a) - Balance(q, a)
                      <= Cardinality(Sends(q, a)) - Cardinality(Sends(s, a)) + Cost(tr, a)
    BY DEF Paid
  <2>1. Sends(q, a) = Sends(s, a)
    BY <1>3, <1>4, SendsKept DEF Edits
  <2>2. Cardinality(Sends(s, a)) \in Nat /\ Cost(tr, a) \in Nat
    BY SendsFinite DEF Cost
  <2>3. Balance(s, a) - Balance(q, a) <= Cost(tr, a)
    BY <1>3
  <2> QED BY <2>1, <2>2, <2>3
<1> QED BY <1>t, <1>3, <1>6, <1>7

LEMMA ExecuteLeafFacts ==
    ASSUME NEW s \in StoreType, NEW t \in Tokens, Open(s, t), should_execute(s.txs[t]),
           NEW state \in Executed, NEW r, r = ExecuteLeaf(s, t, state)
    PROVE  /\ Concludes(s, r, t)
           /\ \A u \in Tokens \ {t} :
                 NotRun(s, r, u) /\ Closes(s, r, u, s.txs[t].transaction)
           /\ Fresh(s) => PaidUp(s, r)
<1> DEFINE q == RunLeaf(s, s.txs[t].account, s.txs[t].transaction)
<1>1. /\ HasRun(s, q, t) /\ Paid(s, q, s.txs[t].transaction)
      /\ \A u \in Tokens : NotRun(s, q, u) /\ Closes(s, q, u, s.txs[t].transaction)
  BY LeafHasRun
<1>2. r = Conclude(CountRun(q, t, Approved(s.txs[t])), t, state)
  BY DEF ExecuteLeaf, RanLeaf
<1> HIDE DEF q
<1>3. Fresh(s) => s.runs[t] = 0
  BY DEF Fresh
<1>4. /\ Concludes(s, r, t) /\ (Fresh(s) => PaidUp(s, r))
      /\ \A u \in Tokens \ {t} : Same(q, r, u)
  BY <1>1, <1>2, <1>3, ConcludeFacts
<1>5. ASSUME NEW u \in Tokens \ {t}
      PROVE  NotRun(s, r, u) /\ Closes(s, r, u, s.txs[t].transaction)
  <2>1. NotRun(s, r, u)
    BY <1>1, <1>4, SameIsNotRun, NotRunTransitive
  <2>2. Closes(s, r, u, s.txs[t].transaction)
    BY <1>1, <1>4 DEF Closes, Same, Open, Exists
  <2> QED BY <2>1, <2>2
<1> QED BY <1>4, <1>5

\* An approval, which runs nothing yet, and no approval at all.
LEMMA ApprovalPrepares ==
    ASSUME NEW s \in StoreType, NEW t \in Tokens, Open(s, t), NEW p \in Principals
    PROVE  Prepares(s, Approval(s, p, t), t, p) /\ Prepares(s, s, t, p)
<1> DEFINE m == Approval(s, p, t)
<1>1. Edits(s, m)
  BY ApprovalEdits
<1>2. /\ Open(m, t) /\ Approved(m.txs[t]) \subseteq Approved(s.txs[t]) \cup {p}
      /\ \A u \in Tokens \ {t} : Same(s, m, u)
      /\ \A u \in Tokens : NotRun(s, m, u)
      /\ m.funds = s.funds /\ m.sent = s.sent /\ m.runs = s.runs
  BY AnswerFacts DEF Approval
<1> HIDE DEF m
<1>3. Prepares(s, m, t, p)
  BY <1>1, <1>2 DEF Prepares, Edits
<1>4. \A u \in Tokens : Same(s, s, u) /\ NotRun(s, s, u)
  BY SameIsNotRun DEF Same
<1>5. Keeps(s, s)
  BY EditsReflexive DEF Edits
<1>6. Prepares(s, s, t, p)
  BY <1>4, <1>5 DEF Prepares
<1> QED BY <1>3, <1>6 DEF m

LEMMA PreparedFacts ==
    ASSUME NEW s \in StoreType, NEW m, NEW t \in Tokens, NEW p \in Principals,
           Prepares(s, m, t, p)
    PROVE  PaidUp(s, m) /\ (Fresh(s) => Fresh(m))
<1>1. \A a \in Accounts : Balance(m, a) = Balance(s, a)
  BY DEF Balance, Prepares
<1>2. PaidUp(s, m)
  BY <1>1, NothingPaid DEF Prepares
<1>3. Fresh(s) => Fresh(m)
  BY DEF Fresh, Prepares, NotRun, Open, Exists
<1> QED BY <1>2, <1>3

\* What a request on existing tokens does.
Moves(s, r) ==
    /\ r \in StoreType
    /\ Keeps(s, r)
    /\ \A t \in Tokens : TokenStep(s, r, t)

\* An execution after an approval.
LEMMA ConcludesAfter ==
    ASSUME NEW s \in StoreType, NEW m, NEW t \in Tokens, NEW p \in Principals,
           Prepares(s, m, t, p), NEW r, Concludes(m, r, t)
    PROVE  /\ Moves(s, r)
           /\ PaidUp(m, r) => PaidUp(s, r)
<1>1. r \in StoreType /\ m \in StoreType /\ Keeps(s, r)
  BY KeepsTransitive DEF Concludes, Prepares
<1>2. \A u \in Tokens : TokenStep(s, r, u)
  <2> TAKE u \in Tokens
  <2>1. TokenStep(m, r, u) /\ r.votes[t] = Approved(m.txs[t])
    BY DEF Concludes
  <2> QED BY <2>1, TransitiveStep
<1>3. PaidUp(m, r) => PaidUp(s, r)
  BY <1>1, PreparedFacts, PaidTransitive
<1> QED BY <1>1, <1>2, <1>3 DEF Moves

\* The transaction of t led to the execution of another.
LEMMA NestedHasRun ==
    ASSUME NEW s \in StoreType, NEW t \in Tokens, Open(s, t), NEW u \in Tokens, u # t,
           s.txs[t].transaction.kind \in {"approve", "execute"},
           s.txs[t].transaction.token = u,
           NEW p \in Principals, NEW m, Prepares(s, m, u, p), should_execute(m.txs[u]),
           NEW state \in Executed, NEW q, q = ExecuteLeaf(m, u, state)
    PROVE  HasRun(s, q, t) /\ (Fresh(s) => Paid(s, q, s.txs[t].transaction))
<1>1. /\ m \in StoreType /\ Open(m, u) /\ Same(s, m, t) /\ m.runs = s.runs
      /\ Keeps(s, m) /\ Open(s, u)
  BY DEF Prepares
<1>2. /\ Concludes(m, q, u)
      /\ NotRun(m, q, t) /\ Closes(m, q, t, m.txs[u].transaction)
      /\ Fresh(m) => PaidUp(m, q)
  BY <1>1, ExecuteLeafFacts
<1>3. Moves(s, q) /\ (PaidUp(m, q) => PaidUp(s, q))
  BY <1>2, ConcludesAfter
<1>4. NotRun(s, q, t)
  BY <1>1, <1>2, SameIsNotRun, NotRunTransitive
<1>5. Open(m, t) /\ m.txs[u].transaction = s.txs[u].transaction
  BY <1>1, KeptTerms DEF Same, Open, Exists
<1>6. q.runs[u] # s.runs[u]
  <2>1. q.runs[u] = s.runs[u] + 1 /\ s.runs[u] \in Nat
    BY <1>1, <1>2, RunsType DEF Concludes
  <2> QED BY <2>1
<1>7. \/ Open(q, t)
      \/ "withdraw" \in q.log[t] /\ q.runs[u] # s.runs[u] /\ TakesBack(s, u, t)
  BY <1>2, <1>5, <1>6 DEF Closes, TakesBack
<1>8. HasRun(s, q, t)
  BY <1>3, <1>4, <1>7 DEF HasRun, Moves
<1>9. ASSUME Fresh(s) PROVE Paid(s, q, s.txs[t].transaction)
  <2>1. PaidUp(s, q)
    BY <1>2, <1>3, <1>9, PreparedFacts
  <2> SUFFICES ASSUME NEW a \in Accounts
               PROVE  Balance(s, a) - Balance(q, a)
                      <= Cardinality(Sends(q, a)) - Cardinality(Sends(s, a))
                         + Cost(s.txs[t].transaction, a)
    BY DEF Paid
  <2>2. Cost(s.txs[t].transaction, a) = 0
    BY DEF Cost
  <2>3. Cardinality(Sends(q, a)) \in Nat /\ Cardinality(Sends(s, a)) \in Nat
    BY SendsFinite
  <2>4. Balance(s, a) - Balance(q, a) <= Cardinality(Sends(q, a)) - Cardinality(Sends(s, a))
    BY <2>1 DEF PaidUp
  <2> QED BY <2>2, <2>3, <2>4
<1> QED BY <1>8, <1>9

\* The transaction of t was run, whatever it is.
LEMMA RunHasRun ==
    ASSUME NEW s \in StoreType, NEW t \in Tokens, Open(s, t), Shallow(s, t),
           NEW q, q = Run(s, s.txs[t].account, s.txs[t].transaction)
    PROVE  HasRun(s, q, t) /\ (Fresh(s) => Paid(s, q, s.txs[t].transaction))
<1> DEFINE tr == s.txs[t].transaction
           p == s.txs[t].account
           u == tr.token
           m == Approval(s, p, u)
<1>1. tr \in TransactionType /\ p \in Principals /\ u \in Tokens
  BY StoredTransaction DEF Open, TransactionType
<1>2. Nests(s, p, tr) => u # t
  BY NestsElsewhere
<1>3. "ExecutedManually" \in Executed /\ "ExecutedAutomatically" \in Executed
  BY DEF Executed
<1>4. CASE ~Nests(s, p, tr)
  <2>1. q = RunLeaf(s, s.txs[t].account, s.txs[t].transaction)
    BY <1>4 DEF Run
  <2> QED BY <2>1, LeafHasRun
<1>5. CASE /\ tr.kind = "approve" /\ CanApprove(s, p, u) /\ ExecutesNow(m.txs[u])
           /\ q = ExecuteLeaf(m, u, "ExecutedAutomatically")
  <2>1. u # t
    BY <1>2, <1>5 DEF Nests
  <2>2. Prepares(s, m, u, p) /\ should_execute(m.txs[u])
    BY <1>1, <1>5, ApprovalPrepares DEF CanApprove, ExecutesNow
  <2> HIDE DEF m
  <2>3. tr.kind \in {"approve", "execute"} /\ tr.token = u
    BY <1>5
  <2> QED BY <1>1, <1>3, <1>5, <2>1, <2>2, <2>3, NestedHasRun
<1>6. CASE /\ tr.kind = "execute" /\ CanExecute(s, p, u)
           /\ q = ExecuteLeaf(s, u, "ExecutedManually")
  <2>1. u # t
    BY <1>2, <1>6 DEF Nests
  <2>2. Prepares(s, s, u, p) /\ should_execute(s.txs[u])
    BY <1>1, <1>6, ApprovalPrepares DEF CanExecute, CanConclude
  <2>3. tr.kind \in {"approve", "execute"} /\ tr.token = u
    BY <1>6
  <2> QED BY <1>1, <1>3, <1>6, <2>1, <2>2, <2>3, NestedHasRun
<1> QED BY <1>4, <1>5, <1>6, RunCases

LEMMA ExecuteConcludes ==
    ASSUME NEW s \in StoreType, NEW t \in Tokens, Open(s, t), should_execute(s.txs[t]),
           Shallow(s, t), NEW state \in Executed, NEW r, r = Execute(s, t, state)
    PROVE  Concludes(s, r, t) /\ (Fresh(s) => PaidUp(s, r))
<1> DEFINE q == Run(s, s.txs[t].account, s.txs[t].transaction)
<1>1. HasRun(s, q, t) /\ (Fresh(s) => Paid(s, q, s.txs[t].transaction))
  BY RunHasRun
<1>2. r = Conclude(CountRun(q, t, Approved(s.txs[t])), t, state)
  BY DEF Execute, Ran
<1> HIDE DEF q
<1>3. Fresh(s) => s.runs[t] = 0
  BY DEF Fresh
<1> QED BY <1>1, <1>2, <1>3, ConcludeFacts

LEMMA ApproveMoves ==
    ASSUME NEW s \in StoreType, NEW t \in Tokens, Open(s, t), NEW p \in Principals,
           ShallowApproval(s, p, t), NEW r, r = Approve(s, p, t)
    PROVE  Moves(s, r) /\ (Fresh(s) => PaidUp(s, r))
<1> DEFINE m == Approval(s, p, t)
           x == Execute(m, t, "ExecutedAutomatically")
<1>1. Prepares(s, m, t, p)
  BY ApprovalPrepares
<1>2. r = IF ExecutesNow(m.txs[t]) THEN x ELSE m
  BY DEF Approve
<1>3. ExecutesNow(m.txs[t]) => Shallow(m, t)
  BY DEF ShallowApproval
<1> HIDE DEF m
<1>4. PaidUp(s, m) /\ (Fresh(s) => Fresh(m))
  BY <1>1, PreparedFacts
<1>5. CASE ~ExecutesNow(m.txs[t])
  BY <1>1, <1>2, <1>4, <1>5 DEF Prepares, Moves, TokenStep
<1>6. CASE ExecutesNow(m.txs[t])
  <2>1. should_execute(m.txs[t]) /\ "ExecutedAutomatically" \in Executed
    BY <1>6 DEF ExecutesNow, Executed
  <2>2. m \in StoreType /\ Open(m, t)
    BY <1>1 DEF Prepares
  <2>3. Concludes(m, x, t) /\ (Fresh(m) => PaidUp(m, x))
    BY <1>3, <1>6, <2>1, <2>2, ExecuteConcludes
  <2> HIDE DEF x
  <2>4. Moves(s, x) /\ (PaidUp(m, x) => PaidUp(s, x))
    BY <1>1, <2>3, ConcludesAfter
  <2> QED BY <1>2, <1>4, <1>6, <2>3, <2>4
<1> QED BY <1>5, <1>6

LEMMA ExecuteMoves ==
    ASSUME NEW s \in StoreType, NEW t \in Tokens, Open(s, t), should_execute(s.txs[t]),
           Shallow(s, t), NEW state \in Executed, NEW r, r = Execute(s, t, state)
    PROVE  Moves(s, r) /\ (Fresh(s) => PaidUp(s, r))
BY ExecuteConcludes DEF Concludes, Moves

-----------------------------------------------------------------------------
(* In both modes: no run without a quorum.                                 *)

Quorate(s, r) ==
    \A t \in Tokens :
        r.runs[t] > s.runs[t]
        => Open(s, t) /\ Cardinality(r.votes[t]) >= s.txs[t].threshold /\ Cast(s, r, t)

\* What a request, or what is left of one, may do to the store.
Lawful(s, r) ==
    /\ r \in StoreType
    /\ Quorate(s, r)
    /\ \A t \in Tokens : s.runs[t] <= r.runs[t]

LEMMA MovesLawful ==
    ASSUME NEW s \in StoreType, NEW r, Moves(s, r)
    PROVE  Lawful(s, r)
<1>1. \A u \in Tokens : s.runs[u] \in Nat /\ r.runs[u] \in Nat
  BY RunsType DEF Moves
<1>2. \A u \in Tokens : TokenStep(s, r, u)
  BY DEF Moves
<1> QED BY <1>1, <1>2 DEF Lawful, Quorate, TokenStep, NotRun, WasRun, Moves

LEMMA CalmLawful ==
    ASSUME NEW s \in StoreType, NEW r \in StoreType, r.runs = s.runs
    PROVE  Lawful(s, r)
<1>1. \A u \in Tokens : s.runs[u] \in Nat
  BY RunsType
<1> QED BY <1>1 DEF Lawful, Quorate

\* A request that stops in the middle of an execution.
LEMMA PointsLawful ==
    ASSUME NEW s \in StoreType, NEW t \in Tokens, Open(s, t), should_execute(s.txs[t]),
           Shallow(s, t), NEW state \in Executed, NEW r \in ExecutePoints(s, t, state)
    PROVE  Lawful(s, r) /\ r.votes[t] = Approved(s.txs[t])
<1> DEFINE q == Run(s, s.txs[t].account, s.txs[t].transaction)
           m == CountRun(q, t, Approved(s.txs[t]))
           e == DisableTx(m, t, state)
<1>1. HasRun(s, q, t)
  BY RunHasRun
<1>2. r = m \/ r = e
  BY DEF ExecutePoints, Ran
<1> HIDE DEF q
<1>3. q \in StoreType /\ q.runs[t] = s.runs[t] /\ \A u \in Tokens : TokenStep(s, q, u)
  BY <1>1 DEF HasRun, NotRun
<1>4. /\ m \in StoreType /\ m.runs[t] = q.runs[t] + 1 /\ m.votes[t] = Approved(s.txs[t])
      /\ \A u \in Tokens \ {t} : m.runs[u] = q.runs[u] /\ m.votes[u] = q.votes[u]
  BY <1>3, CountRunFacts
<1> HIDE DEF m
<1>5. state \in States
  BY DEF States
<1>6. e \in StoreType /\ e.runs = m.runs /\ e.votes = m.votes
  <2>1. CASE Open(m, t)
    BY <1>4, <1>5, <2>1, DisableTxFacts
  <2>2. CASE ~Open(m, t)
    BY <1>4, <2>2 DEF DisableTx
  <2> QED BY <2>1, <2>2
<1> HIDE DEF e
<1>7. /\ r \in StoreType /\ r.runs[t] = s.runs[t] + 1 /\ r.votes[t] = Approved(s.txs[t])
      /\ \A u \in Tokens \ {t} : r.runs[u] = q.runs[u] /\ r.votes[u] = q.votes[u]
  BY <1>2, <1>3, <1>4, <1>6
<1>8. \A u \in Tokens : s.runs[u] \in Nat /\ q.runs[u] \in Nat
  BY <1>3, RunsType
<1>9. Cast(s, r, t)
  BY <1>7, StoredTransaction, CastAsApproved DEF Open
<1>10. ASSUME NEW u \in Tokens
       PROVE  /\ s.runs[u] <= r.runs[u]
              /\ r.runs[u] > s.runs[u] =>
                    /\ Open(s, u) /\ Cardinality(r.votes[u]) >= s.txs[u].threshold
                    /\ Cast(s, r, u)
  <2>1. CASE u = t
    BY <1>7, <1>8, <1>9, <2>1 DEF should_execute
  <2>2. CASE u # t
    BY <1>3, <1>7, <1>8, <2>2 DEF TokenStep, NotRun, WasRun, Cast
  <2> QED BY <2>1, <2>2
<1> QED BY <1>7, <1>10 DEF Lawful, Quorate

\* A request that stops in the middle of an approval.
LEMMA ApprovePointsLawful ==
    ASSUME NEW s \in StoreType, NEW t \in Tokens, Open(s, t), NEW p \in Principals,
           ShallowApproval(s, p, t), NEW r \in ApprovePoints(s, p, t)
    PROVE  Lawful(s, r)
<1> DEFINE m == Approval(s, p, t)
<1>1. Prepares(s, m, t, p)
  BY ApprovalPrepares
<1>2. \/ r = SetApproval(s, p, t, "yes")
      \/ r = m
      \/ /\ ExecutesNow(m.txs[t]) /\ Shallow(m, t)
         /\ r \in ExecutePoints(m, t, "ExecutedAutomatically")
  BY DEF ApprovePoints, ShallowApproval
<1> HIDE DEF m
<1>3. CASE r = SetApproval(s, p, t, "yes")
  BY <1>3, SetApprovalFacts, CalmLawful
<1>4. CASE r = m
  BY <1>1, <1>4, CalmLawful DEF Prepares
<1>5. CASE /\ ExecutesNow(m.txs[t]) /\ Shallow(m, t)
           /\ r \in ExecutePoints(m, t, "ExecutedAutomatically")
  <2>1. m \in StoreType /\ Open(m, t) /\ Keeps(s, m) /\ m.runs = s.runs
    BY <1>1 DEF Prepares
  <2>2. should_execute(m.txs[t]) /\ "ExecutedAutomatically" \in Executed
    BY <1>5 DEF ExecutesNow, Executed
  <2>3. Lawful(m, r) /\ r.votes[t] = Approved(m.txs[t])
    BY <1>5, <2>1, <2>2, PointsLawful
  <2>4. ASSUME NEW u \in Tokens, r.runs[u] > s.runs[u]
        PROVE  /\ Open(s, u) /\ Cardinality(r.votes[u]) >= s.txs[u].threshold
               /\ Cast(s, r, u)
    <3>1. /\ Open(m, u) /\ Cardinality(r.votes[u]) >= m.txs[u].threshold
          /\ Cast(m, r, u)
      BY <2>1, <2>3, <2>4 DEF Lawful, Quorate
    <3>2. CASE u = t
      <4>1. m.txs[t].threshold = s.txs[t].threshold
        BY <2>1 DEF Keeps, Terms, Open
      <4>2. Cast(s, r, t)
        BY <1>1, <2>3 DEF Prepares, Cast
      <4> QED BY <3>1, <3>2, <4>1, <4>2
    <3>3. CASE u # t
      <4>1. m.txs[u] = s.txs[u]
        BY <1>1, <3>3 DEF Prepares, Same
      <4> QED BY <3>1, <4>1 DEF Open, Exists, Cast
    <3> QED BY <3>2, <3>3
  <2> QED BY <2>1, <2>3, <2>4 DEF Lawful, Quorate
<1> QED BY <1>2, <1>3, <1>4, <1>5

\* The invariant behind it: what is durable has not run more.
BehindInv ==
    /\ TypeOK
    /\ \A t \in Tokens : disk.runs[t] <= store.runs[t]

LEMMA BehindInit == Init => BehindInv
<1> SUFFICES ASSUME Init PROVE BehindInv
  OBVIOUS
<1>1. \A t \in Tokens : EmptyStore.runs[t] <= EmptyStore.runs[t]
  BY DEF EmptyStore
<1> QED BY <1>1, InitType DEF Init, BehindInv

LEMMA SubmitRuns ==
    ASSUME NEW s \in StoreType, NEW t \in Tokens, NEW tx \in TxType,
           NEW r, r = Log(PutTx(s, t, tx), t, "submit")
    PROVE  r \in StoreType /\ r.runs = s.runs
BY SubmitType DEF Log, PutTx, StoreType

\* No step runs anything without a quorum.
LEMMA BehindNext == BehindInv /\ [Next]_vars => BehindInv' /\ Quorate(store, store')
<1> SUFFICES ASSUME BehindInv, [Next]_vars
             PROVE  BehindInv' /\ Quorate(store, store')
  OBVIOUS
<1>0. /\ TypeOK /\ TypeOK' /\ store \in StoreType /\ disk \in StoreType
      /\ now \in Nat /\ Users \subseteq Principals
      /\ \A t \in Tokens : /\ store.runs[t] \in Nat /\ disk.runs[t] \in Nat
                           /\ disk.runs[t] <= store.runs[t]
  BY NextType, RunsType, MultisigAssumption DEF BehindInv, TypeOK, Principals
<1>1. ASSUME store' = store, disk' = disk PROVE BehindInv' /\ Quorate(store, store')
  <2>1. Quorate(store, store')
    BY <1>0, <1>1 DEF Quorate
  <2> QED BY <1>0, <1>1, <2>1 DEF BehindInv
<1>2. ASSUME NEW r, Lawful(store, r), Write(r) PROVE BehindInv' /\ Quorate(store, store')
  <2>1. store' = r /\ (disk' = disk \/ disk' = r)
    BY <1>2 DEF Write
  <2>2. \A t \in Tokens : r.runs[t] \in Nat /\ store.runs[t] <= r.runs[t]
    BY <1>2, RunsType DEF Lawful
  <2>3. \A t \in Tokens : disk.runs[t] <= r.runs[t] /\ r.runs[t] <= r.runs[t]
    BY <1>0, <2>2
  <2> QED BY <1>0, <1>2, <2>1, <2>3 DEF BehindInv, Lawful
<1>3. ASSUME NEW r, Lawful(store, r), Stop(r) PROVE BehindInv' /\ Quorate(store, store')
  <2>1. store' = r /\ disk' = r
    BY <1>3 DEF Stop
  <2>2. \A t \in Tokens : r.runs[t] <= r.runs[t]
    BY <1>3, RunsType DEF Lawful
  <2> QED BY <1>0, <1>3, <2>1, <2>2 DEF BehindInv, Lawful
<1>4. CASE Request
  <2>1. ASSUME NEW p \in Principals, NEW t \in Tokens, CanApprove(store, p, t),
               ShallowApproval(store, p, t), Write(Approve(store, p, t))
        PROVE  BehindInv' /\ Quorate(store, store')
    <3> DEFINE r == Approve(store, p, t)
    <3>1. Moves(store, r)
      BY <1>0, <2>1, ApproveMoves DEF CanApprove
    <3> HIDE DEF r
    <3>2. Lawful(store, r)
      BY <1>0, <3>1, MovesLawful
    <3> QED BY <1>2, <2>1, <3>2 DEF r
  <2>2. ASSUME NEW p \in Principals, NEW t \in Tokens, CanExecute(store, p, t),
               Shallow(store, t), Write(Execute(store, t, "ExecutedManually"))
        PROVE  BehindInv' /\ Quorate(store, store')
    <3> DEFINE r == Execute(store, t, "ExecutedManually")
    <3>1. Open(store, t) /\ should_execute(store.txs[t]) /\ "ExecutedManually" \in Executed
      BY <2>2 DEF CanExecute, CanConclude, Executed
    <3>2. Moves(store, r)
      BY <1>0, <2>2, <3>1, ExecuteMoves
    <3> HIDE DEF r
    <3>3. Lawful(store, r)
      BY <1>0, <3>2, MovesLawful
    <3> QED BY <1>2, <2>2, <3>3 DEF r
  <2>3. ASSUME NEW p \in Users, NEW a \in Accounts, NEW tr \in Transactions,
               NEW args \in SubmitArgs, SubmitRequest(p, a, tr, args)
        PROVE  BehindInv' /\ Quorate(store, store')
    <3> DEFINE t == store.tid + 1
               tx == NewTx(store, p, a, tr, args)
               r == Log(PutTx(store, t, tx), t, "submit")
    <3>1. t \in Tokens /\ Write(r)
      BY <2>3 DEF SubmitRequest, Submittable
    <3>2. args \in ArgType
      BY MultisigAssumption
    <3>3. tx \in TxType
      BY <1>0, <3>2, NewTxType
    <3> HIDE DEF t, tx
    <3>4. Lawful(store, r)
      BY <1>0, <3>1, <3>3, SubmitRuns, CalmLawful
    <3> QED BY <1>2, <3>1, <3>4
  <2>4. ASSUME NEW r, Edits(store, r), Write(r) PROVE BehindInv' /\ Quorate(store, store')
    BY <1>0, <1>2, <2>4, CalmLawful DEF Edits
  <2> QED BY <1>0, <1>4, <2>1, <2>2, <2>3, <2>4, RequestCases
<1>5. CASE Commit
  <2>1. store' = Sweep(store, disk) /\ disk' = store' /\ store'.runs = store.runs
    BY <1>0, <1>5 DEF Commit, Sweep, StoreType
  <2>2. \A t \in Tokens : store'.runs[t] <= store'.runs[t]
    BY <1>0, <2>1
  <2>3. Quorate(store, store')
    BY <1>0, <2>1 DEF Quorate
  <2> QED BY <1>0, <2>1, <2>2, <2>3 DEF BehindInv
<1>6. CASE Crash
  <2>1. store' = disk /\ disk' = disk
    BY <1>6 DEF Crash, Stop
  <2>2. Quorate(store, disk) /\ \A t \in Tokens : disk.runs[t] <= disk.runs[t]
    BY <1>0 DEF Quorate
  <2> QED BY <1>0, <2>1, <2>2 DEF BehindInv
<1>7. ASSUME NEW p \in Users, NEW t \in Tokens, CrashInApprove(p, t)
      PROVE  BehindInv' /\ Quorate(store, store')
  <2>1. PICK q \in ApprovePoints(store, p, t) : Stop(q)
    BY <1>7 DEF CrashInApprove
  <2>2. Open(store, t) /\ p \in Principals /\ ShallowApproval(store, p, t)
    BY <1>0, <1>7 DEF CrashInApprove, CanApprove
  <2>3. Lawful(store, q)
    BY <1>0, <2>2, ApprovePointsLawful
  <2> QED BY <1>3, <2>1, <2>3
<1>8. ASSUME NEW p \in Users, NEW t \in Tokens, CrashInExecute(p, t)
      PROVE  BehindInv' /\ Quorate(store, store')
  <2>1. PICK q \in ExecutePoints(store, t, "ExecutedManually") : Stop(q)
    BY <1>8 DEF CrashInExecute
  <2>2. /\ Open(store, t) /\ should_execute(store.txs[t]) /\ Shallow(store, t)
        /\ "ExecutedManually" \in Executed
    BY <1>8 DEF CrashInExecute, CanExecute, CanConclude, Executed
  <2>3. Lawful(store, q)
    BY <1>0, <2>2, PointsLawful
  <2> QED BY <1>3, <2>1, <2>3
<1>9. CASE Load
  <2>1. store' = store \/ store' = [store EXCEPT !.tid = 0]
    BY <1>9 DEF Load
  <2>2. store'.runs = store.runs /\ disk' = disk
    BY <1>0, <1>9, <2>1 DEF Load, StoreType
  <2>3. Quorate(store, store')
    BY <1>0, <2>2 DEF Quorate
  <2> QED BY <1>0, <2>2, <2>3 DEF BehindInv
<1> QED BY <1>1, <1>4, <1>5, <1>6, <1>7, <1>8, <1>9 DEF Next, vars, BeginBlock, Tick

\* No transaction is run that is not open, or on approvals that do not reach
\* its threshold, and at most one of those is of the same request: with and
\* without blocks, for a transaction that leads to another, any changes of
\* roles and any crash in the middle of a request.
THEOREM NoRunWithoutQuorum == Spec => RunsNeedQuorum
<1> DEFINE Needs == \A t \in Tokens :
              store'.runs[t] > store.runs[t]
              => /\ Open(store, t)
                 /\ Cardinality(store'.votes[t]) >= store.txs[t].threshold
                 /\ \E p \in Principals :
                        store'.votes[t] \subseteq Approved(store.txs[t]) \cup {p}
<1>1. BehindInv /\ [Next]_vars => [Needs]_vars
  BY BehindNext DEF Quorate, Cast
<1>2. BehindInv /\ [Next]_vars => BehindInv'
  BY BehindNext
<1> HIDE DEF Needs
<1>3. Spec => [][Needs]_vars
  BY BehindInit, <1>1, <1>2, PTL DEF Spec
<1> QED BY <1>3 DEF RunsNeedQuorum, Needs

-----------------------------------------------------------------------------
(* With blocks: the log, the state, the funds and the sweep.               *)

\* The log and the state of a record tell whether it was run.
Told(s, t) ==
    /\ "execute" \in s.log[t] => s.runs[t] = 1
    /\ s.runs[t] = 1 => \/ "execute" \in s.log[t]
                        \/ "withdraw" \in s.log[t] /\ TookItselfBack(s, t)
    /\ ~("execute" \in s.log[t] /\ "withdraw" \in s.log[t])
    /\ "withdraw" \in s.log[t] => Concluded(s, t)
    /\ Exists(s, t) /\ s.txs[t].state \in Executed =>
          /\ s.runs[t] = 1 /\ s.txs[t].disabled /\ "execute" \in s.log[t]
          /\ Cardinality(s.votes[t]) >= s.txs[t].threshold

Funded(s) ==
    \A a \in Accounts : MaxFunds - s.funds[a] <= s.sent[a] + Cardinality(Sends(s, a))

Timely(s) ==
    \A t \in Tokens : Exists(s, t) => s.txs[t].timeout <= s.txs[t].creation + MaxTimeout

\* All of it.
Story(s) == (\A t \in Tokens : Told(s, t)) /\ Funded(s) /\ Timely(s)

\* What a request on existing tokens does, its costs included.
Serves(s, r) == Moves(s, r) /\ PaidUp(s, r)

LEMMA SoundIsFresh ==
    ASSUME NEW s, Sound(s)
    PROVE  Fresh(s)
BY DEF Sound, Fresh, Open, Concluded

LEMMA CalmServes ==
    ASSUME NEW s \in StoreType, NEW r, Edits(s, r), \A t \in Tokens : NotRun(s, r, t),
           \A a \in Accounts : Balance(r, a) = Balance(s, a)
    PROVE  Serves(s, r)
BY NothingPaid DEF Serves, Moves, Edits, TokenStep

LEMMA SendFromServes ==
    ASSUME NEW s \in StoreType, NEW a \in Accounts, s.funds[a] > 0
    PROVE  Serves(s, SendFrom(s, a))
<1> DEFINE r == SendFrom(s, a)
           funds == [s.funds EXCEPT ![a] = @ - 1]
           sent == [s.sent EXCEPT ![a] = @ + 1]
<1>1. Edits(s, r)
  BY SendFromEdits
<1>2. s.funds \in [Accounts -> Nat] /\ s.sent \in [Accounts -> Nat]
  BY DEF StoreType
<1>3. \A b \in Accounts : funds[b] + sent[b] = s.funds[b] + s.sent[b]
  BY <1>2
<1>4. /\ r.txs = s.txs /\ r.log = s.log /\ r.runs = s.runs /\ r.votes = s.votes
      /\ r.funds = funds /\ r.sent = sent
  BY DEF SendFrom, StoreType
<1> HIDE DEF r, funds, sent
<1>5. \A b \in Accounts : Balance(r, b) = Balance(s, b)
  BY <1>3, <1>4 DEF Balance
<1>6. \A t \in Tokens : NotRun(s, r, t)
  BY <1>4, SameIsNotRun DEF Same
<1> QED BY <1>1, <1>5, <1>6, CalmServes DEF r

LEMMA RequestServes ==
    ASSUME TypeOK, Fresh(store), Request
    PROVE  \/ \E p \in Users, a \in Accounts, tr \in Transactions, args \in SubmitArgs :
                 SubmitRequest(p, a, tr, args)
           \/ \E r : Serves(store, r) /\ Write(r)
<1>0. store \in StoreType /\ Users \subseteq Principals
  BY DEF TypeOK, Principals
<1>b. ASSUME NEW r, r.funds = store.funds, r.sent = store.sent
      PROVE  \A a \in Accounts : Balance(r, a) = Balance(store, a)
  BY <1>b DEF Balance
<1>1. ASSUME NEW r, Edits(store, r), OnlyAccounts(store, r) PROVE Serves(store, r)
  BY <1>0, <1>b, <1>1, AccountsOnly, CalmServes
<1>2. ASSUME NEW p \in Users, NEW t \in Tokens, ApproveRequest(p, t)
      PROVE  \E r : Serves(store, r) /\ Write(r)
  <2> DEFINE r == Approve(store, p, t)
  <2>1. Open(store, t) /\ ShallowApproval(store, p, t) /\ Write(r)
    BY <1>2 DEF ApproveRequest, CanApprove
  <2>2. Serves(store, r)
    BY <1>0, <2>1, ApproveMoves DEF Serves
  <2> HIDE DEF r
  <2> QED BY <2>1, <2>2
<1>3. ASSUME NEW p \in Users, NEW t \in Tokens, ExecuteRequest(p, t)
      PROVE  \E r : Serves(store, r) /\ Write(r)
  <2> DEFINE r == Execute(store, t, "ExecutedManually")
  <2>1. /\ Open(store, t) /\ Write(r) /\ should_execute(store.txs[t])
        /\ Shallow(store, t) /\ "ExecutedManually" \in Executed
    BY <1>3 DEF ExecuteRequest, CanExecute, CanConclude, Executed
  <2>2. Serves(store, r)
    BY <1>0, <2>1, ExecuteMoves DEF Serves
  <2> HIDE DEF r
  <2> QED BY <2>1, <2>2
<1>4. ASSUME NEW p \in Users, NEW t \in Tokens, RevokeRequest(p, t)
      PROVE  \E r : Serves(store, r) /\ Write(r)
  <2> DEFINE r == Revoke(store, p, t)
  <2>1. Open(store, t) /\ Exists(store, t) /\ Write(r)
    BY <1>4 DEF RevokeRequest, CanRevoke, Open
  <2>2. Edits(store, r)
    BY <1>0, <2>1, RevokeEdits
  <2>3. r.funds = store.funds /\ r.sent = store.sent /\ \A u \in Tokens : NotRun(store, r, u)
    BY <1>0, <2>1, AnswerFacts DEF Revoke
  <2> HIDE DEF r
  <2> QED BY <1>0, <1>b, <2>1, <2>2, <2>3, CalmServes
<1>5. ASSUME NEW p \in Users, NEW t \in Tokens, WithdrawRequest(p, t)
      PROVE  \E r : Serves(store, r) /\ Write(r)
  <2> DEFINE r == Withdraw(store, t)
  <2>1. Open(store, t) /\ Write(r)
    BY <1>5 DEF WithdrawRequest, CanConclude
  <2>2. Edits(store, r)
    BY <1>0, WithdrawEdits
  <2>3. r.funds = store.funds /\ r.sent = store.sent /\ \A u \in Tokens : NotRun(store, r, u)
    BY <1>0, <2>1, WithdrawFacts
  <2> HIDE DEF r
  <2> QED BY <1>0, <1>b, <2>1, <2>2, <2>3, CalmServes
<1>6. ASSUME NEW p \in Users, NEW a \in Accounts, NEW c \in RoleChanges,
             AddRolesRequest(p, a, c[1], c[2]) \/ RemoveRolesRequest(p, a, c[1], c[2])
      PROVE  \E r : Serves(store, r) /\ Write(r)
  <2>1. c[1] \in Principals /\ c[2] \in Roles
    BY MultisigAssumption
  <2>2. /\ Serves(store, AddRoles(store, a, c[1], c[2]))
        /\ Serves(store, RemoveRoles(store, a, c[1], c[2]))
    BY <1>0, <1>1, <2>1, AddRolesEdits, RemoveRolesEdits, AccountOperations
  <2> QED BY <1>6, <2>2 DEF AddRolesRequest, RemoveRolesRequest
<1>7. ASSUME NEW p \in Closers, NEW a \in Accounts, DisableRequest(p, a)
      PROVE  \E r : Serves(store, r) /\ Write(r)
  <2>1. Serves(store, DisableAccount(store, a))
    BY <1>0, <1>1, DisableAccountEdits, AccountOperations
  <2> QED BY <1>7, <2>1 DEF DisableRequest
<1>8. ASSUME NEW p \in Users, NEW a \in Accounts, NEW args \in DefaultArgs,
             SetDefaultsRequest(p, a, args)
      PROVE  \E r : Serves(store, r) /\ Write(r)
  <2>1. args \in ArgType
    BY MultisigAssumption
  <2>2. Serves(store, SetDefaults(store, a, args))
    BY <1>0, <1>1, <2>1, SetDefaultsEdits, AccountOperations
  <2> QED BY <1>8, <2>2 DEF SetDefaultsRequest
<1>9. ASSUME NEW p \in Payers, NEW a \in Accounts, SendRequest(p, a)
      PROVE  \E r : Serves(store, r) /\ Write(r)
  <2>1. Serves(store, SendFrom(store, a))
    BY <1>0, <1>9, SendFromServes DEF SendRequest, CanSendFrom
  <2> QED BY <1>9, <2>1 DEF SendRequest
<1> QED BY <1>2, <1>3, <1>4, <1>5, <1>6, <1>7, <1>8, <1>9 DEF Request

\* A withdrawal of itself stays one.
LEMMA TookBackStays ==
    ASSUME NEW s, NEW r, NEW t \in Tokens, TookItselfBack(s, t), Exists(s, t),
           \A u \in Tokens : Exists(s, u) => r.txs[u].transaction = s.txs[u].transaction,
           \A u \in Tokens : s.runs[u] = 1 => Exists(s, u) /\ r.runs[u] = 1
    PROVE  TookItselfBack(r, t)
BY DEF TookItselfBack

\* A request on existing tokens keeps it all.
LEMMA ServesKeep ==
    ASSUME NEW s \in StoreType, NEW r, Serves(s, r), Sound(s), Story(s)
    PROVE  Story(r)
<1>1. /\ r \in StoreType /\ Keeps(s, r) /\ PaidUp(s, r)
      /\ \A t \in Tokens : TokenStep(s, r, t)
      /\ Funded(s) /\ Timely(s) /\ \A t \in Tokens : Told(s, t)
  BY DEF Serves, Moves, Story
<1>2. \A t \in Tokens : /\ s.runs[t] \in {0, 1} /\ (s.runs[t] = 1 => Concluded(s, t))
                        /\ Exists(r, t) <=> Exists(s, t)
  BY <1>1 DEF Sound, Keeps
<1>3. \A t \in Tokens : Open(s, t) <=> Exists(s, t) /\ ~Concluded(s, t)
  BY DEF Open, Concluded
<1>4. ASSUME NEW t \in Tokens, Open(s, t) PROVE s.runs[t] = 0
  BY <1>2, <1>3, <1>4
<1>5. ASSUME NEW t \in Tokens, r.runs[t] # s.runs[t] PROVE r.runs[t] = 1
  <2>1. WasRun(s, r, t)
    BY <1>1, <1>5 DEF TokenStep, NotRun
  <2> QED BY <1>4, <2>1 DEF WasRun
<1>6. ASSUME NEW t \in Tokens, s.runs[t] = 1 PROVE Exists(s, t) /\ r.runs[t] = 1
  BY <1>2, <1>5, <1>6 DEF Concluded
<1>7. \A u \in Tokens : Exists(s, u) => r.txs[u].transaction = s.txs[u].transaction
  BY <1>1, KeptTerms
<1>8. \A u \in Tokens : Exists(s, u) => r.txs[u].threshold = s.txs[u].threshold
  BY <1>1 DEF Keeps, Terms
<1>9. ASSUME NEW t \in Tokens PROVE Told(r, t)
  <2>0. Told(s, t) /\ TokenStep(s, r, t)
    BY <1>1
  <2>1. CASE WasRun(s, r, t)
    <3>1. /\ Open(s, t) /\ s.runs[t] = 0 /\ r.runs[t] = 1 /\ Exists(r, t) /\ Exists(s, t)
          /\ r.txs[t].disabled /\ Concluded(r, t) /\ ~Concluded(s, t)
          /\ Cardinality(r.votes[t]) >= r.txs[t].threshold
      BY <1>2, <1>3, <1>4, <1>8, <2>1 DEF WasRun, Concluded
    <3>2. /\ "execute" \notin s.log[t] /\ "withdraw" \notin s.log[t]
          /\ s.txs[t].state \notin Executed
      BY <2>0, <3>1 DEF Told
    <3>3. CASE Recorded(s, r, t)
      BY <3>1, <3>2, <3>3 DEF Recorded, Told
    <3>4. CASE TakenBack(s, r, t)
      <4>1. PICK u \in Tokens : r.runs[u] # s.runs[u] /\ TakesBack(s, u, t)
        BY <3>4 DEF TakenBack
      <4>2. WasRun(s, r, u) /\ r.runs[u] = 1
        BY <1>1, <1>5, <4>1 DEF TokenStep, NotRun
      <4>3. Exists(s, u)
        BY <1>3, <4>2 DEF WasRun
      <4>4. TookItselfBack(r, t)
        BY <1>7, <3>1, <4>1, <4>2, <4>3 DEF TookItselfBack, TakesBack
      <4> QED BY <3>1, <3>2, <3>4, <4>4 DEF TakenBack, Told
    <3> QED BY <2>1, <3>3, <3>4 DEF WasRun
  <2>2. CASE NotRun(s, r, t) /\ ~Open(s, t)
    <3>1. /\ r.txs[t] = s.txs[t] /\ r.log[t] = s.log[t] /\ r.runs[t] = s.runs[t]
          /\ r.votes[t] = s.votes[t]
      BY <2>2 DEF NotRun
    <3>2. s.runs[t] = 1 /\ TookItselfBack(s, t) => TookItselfBack(r, t)
      BY <1>6, <1>7, TookBackStays
    <3> QED BY <2>0, <3>1, <3>2 DEF Told, Concluded, Exists
  <2>3. CASE NotRun(s, r, t) /\ Open(s, t)
    <3>1. /\ Exists(s, t) /\ Exists(r, t) /\ ~Concluded(s, t)
          /\ s.runs[t] = 0 /\ r.runs[t] = 0
      BY <1>2, <1>3, <1>4, <2>3 DEF NotRun
    <3>2. /\ "execute" \notin s.log[t] /\ "withdraw" \notin s.log[t]
          /\ s.txs[t].state \notin Executed
      BY <2>0, <3>1 DEF Told
    <3>3. /\ "execute" \notin r.log[t] /\ r.txs[t].state \notin Executed
          /\ "withdraw" \in r.log[t] => Concluded(r, t)
      BY <2>3, <3>1, <3>2 DEF NotRun, Concluded
    <3> QED BY <3>1, <3>3 DEF Told
  <2> QED BY <2>0, <2>1, <2>2, <2>3 DEF TokenStep
<1>10. Funded(r)
  <2> SUFFICES ASSUME NEW a \in Accounts
               PROVE  MaxFunds - r.funds[a] <= r.sent[a] + Cardinality(Sends(r, a))
    BY DEF Funded
  <2> DEFINE cs == Cardinality(Sends(s, a))
             cr == Cardinality(Sends(r, a))
  <2>1. /\ s.funds[a] \in Nat /\ r.funds[a] \in Nat /\ MaxFunds \in Nat
        /\ s.sent[a] \in Nat /\ r.sent[a] \in Nat
    BY <1>1, MultisigAssumption DEF StoreType
  <2>2. cs \in Nat /\ cr \in Nat
    BY SendsFinite
  <2>3. /\ MaxFunds - s.funds[a] <= s.sent[a] + cs
        /\ (s.funds[a] + s.sent[a]) - (r.funds[a] + r.sent[a]) <= cr - cs
    BY <1>1 DEF Funded, PaidUp, Balance
  <2> HIDE DEF cs, cr
  <2>4. MaxFunds - r.funds[a] <= r.sent[a] + cr
    BY <2>1, <2>2, <2>3
  <2> QED BY <2>4 DEF cr
<1>11. Timely(r)
  <2>1. \A t \in Tokens : Exists(r, t) => Exists(s, t)
    BY <1>1 DEF Keeps
  <2> QED BY <1>1, <2>1, KeptTerms DEF Timely
<1> QED BY <1>9, <1>10, <1>11 DEF Story

LEMMA SubmitKeeps ==
    ASSUME NEW s \in StoreType, Sound(s), Story(s),
           NEW t \in Tokens, t = s.tid + 1, NEW tx \in TxType, tx.state = "Pending",
           tx.timeout <= tx.creation + MaxTimeout,
           NEW r, r = Log(PutTx(s, t, tx), t, "submit")
    PROVE  Story(r)
<1>1. /\ r.runs = s.runs /\ r.votes = s.votes /\ r.txs = [s.txs EXCEPT ![t] = tx]
      /\ r.funds = s.funds /\ r.sent = s.sent
  BY DEF Log, PutTx, StoreType
<1>2. /\ r.log[t] = s.log[t] \cup {"submit"}
      /\ \A u \in Tokens \ {t} : r.log[u] = s.log[u]
  BY DEF Log, PutTx, StoreType
<1>3. s.txs \in [Tokens -> TxType \cup {NoTx}] /\ s.tid \in Nat
  BY MultisigAssumption DEF StoreType
<1>4. t > s.tid /\ ~Exists(s, t)
  BY <1>3 DEF Sound
<1>5. s.runs[t] = 0 /\ "execute" \notin s.log[t] /\ "withdraw" \notin s.log[t]
  BY <1>4 DEF Sound, Story, Told, Concluded
<1>6. r.txs[t] = tx /\ \A u \in Tokens \ {t} : r.txs[u] = s.txs[u]
  BY <1>1, <1>3
<1>7. ASSUME NEW u \in Tokens PROVE Told(r, u)
  <2>1. "Pending" \notin Executed
    BY DEF Executed
  <2>2. CASE u = t
    BY <1>1, <1>2, <1>5, <1>6, <2>1, <2>2 DEF Told
  <2>3. CASE u # t
    <3>1. \A v \in Tokens : s.runs[v] = 1 => Exists(s, v) /\ r.runs[v] = 1
      BY <1>1 DEF Sound, Concluded
    <3>2. \A v \in Tokens : Exists(s, v) => r.txs[v].transaction = s.txs[v].transaction
      BY <1>4, <1>6
    <3>3. s.runs[u] = 1 /\ TookItselfBack(s, u) => TookItselfBack(r, u)
      BY <3>1, <3>2, TookBackStays
    <3>4. r.txs[u] = s.txs[u] /\ r.log[u] = s.log[u] /\ Told(s, u)
      BY <1>2, <1>6, <2>3 DEF Story
    <3> QED BY <1>1, <3>3, <3>4 DEF Told, Exists, Concluded
  <2> QED BY <2>2, <2>3
<1>8. \A a \in Accounts : Sends(r, a) = Sends(s, a)
  <2>1. ~(s.runs[t] > 0)
    BY <1>5
  <2> TAKE a \in Accounts
  <2>2. t \notin Sends(r, a) /\ t \notin Sends(s, a)
    BY <1>1, <2>1 DEF Sends
  <2>3. \A u \in Tokens \ {t} : u \in Sends(r, a) <=> u \in Sends(s, a)
    BY <1>1, <1>6 DEF Sends, Exists
  <2>4. Sends(r, a) \subseteq Tokens /\ Sends(s, a) \subseteq Tokens
    BY DEF Sends
  <2>5. \A u : u \in Sends(r, a) <=> u \in Sends(s, a)
    BY <2>2, <2>3, <2>4
  <2> QED BY <2>5
<1>9. Funded(r)
  BY <1>1, <1>8 DEF Funded, Story
<1>10. Timely(r)
  BY <1>6 DEF Timely, Exists, Story
<1> QED BY <1>7, <1>9, <1>10 DEF Story

LEMMA SweepKeeps ==
    ASSUME NEW d \in StoreType, NEW s \in StoreType, Follows(d, s), Sound(s),
           Story(s), Story(d), NEW r, r = Sweep(s, d)
    PROVE  Story(r)
<1>1. /\ r.runs = s.runs /\ r.votes = s.votes /\ r.log = s.log
      /\ r.funds = s.funds /\ r.sent = s.sent
  BY DEF Sweep, StoreType
<1>2. \A t \in Tokens :
         r.txs[t] = IF TimedOut(d, t) THEN Expire(d.txs[t]) ELSE s.txs[t]
  BY DEF Sweep, StoreType
<1>3. ASSUME NEW t \in Tokens, TimedOut(d, t)
      PROVE  /\ Exists(s, t) /\ Exists(r, t) /\ r.txs[t].disabled
             /\ r.txs[t].state \notin Executed
             /\ r.txs[t].transaction = s.txs[t].transaction
             /\ r.txs[t].timeout <= r.txs[t].creation + MaxTimeout
  <2>1. Exists(d, t) /\ d.txs[t] \in TxType
    BY <1>3 DEF TimedOut, Open, Exists, StoreType
  <2>2. Expire(d.txs[t]) \in TxType
    BY <2>1 DEF Expire, TxType, States
  <2>3. /\ Expire(d.txs[t]).disabled /\ Expire(d.txs[t]).state = "Expired"
        /\ Expire(d.txs[t]).transaction = d.txs[t].transaction
        /\ Expire(d.txs[t]).timeout = d.txs[t].timeout
        /\ Expire(d.txs[t]).creation = d.txs[t].creation
    BY <2>1 DEF Expire, TxType
  <2>4. r.txs[t] = Expire(d.txs[t])
    BY <1>2, <1>3
  <2>5. Exists(s, t) /\ s.txs[t].transaction = d.txs[t].transaction
    BY <2>1 DEF Follows, Terms
  <2>6. "Expired" \notin Executed
    BY DEF Executed
  <2>7. d.txs[t].timeout <= d.txs[t].creation + MaxTimeout
    BY <2>1 DEF Timely, Story
  <2> QED BY <2>2, <2>3, <2>4, <2>5, <2>6, <2>7, NoTxAssumption DEF Exists
<1>4. \A t \in Tokens : ~TimedOut(d, t) => r.txs[t] = s.txs[t]
  BY <1>2
<1>5. \A t \in Tokens : Exists(r, t) <=> Exists(s, t)
  BY <1>3, <1>4 DEF Exists
<1>6. \A t \in Tokens : Exists(s, t) => r.txs[t].transaction = s.txs[t].transaction
  BY <1>3, <1>4
<1>7. ASSUME NEW t \in Tokens PROVE Told(r, t)
  <2>0. Told(s, t)
    BY DEF Story
  <2>1. \A v \in Tokens : s.runs[v] = 1 => Exists(s, v) /\ r.runs[v] = 1
    BY <1>1 DEF Sound, Concluded
  <2>2. s.runs[t] = 1 /\ TookItselfBack(s, t) => TookItselfBack(r, t)
    BY <1>6, <2>1, TookBackStays
  <2>3. CASE TimedOut(d, t)
    BY <1>1, <1>3, <2>0, <2>2, <2>3 DEF Told, Concluded
  <2>4. CASE ~TimedOut(d, t)
    BY <1>1, <1>4, <2>0, <2>2, <2>4 DEF Told, Concluded, Exists
  <2> QED BY <2>3, <2>4
<1>8. \A a \in Accounts : Sends(r, a) = Sends(s, a)
  BY <1>1, <1>5, <1>6 DEF Sends
<1>9. Funded(r)
  BY <1>1, <1>8 DEF Funded, Story
<1>10. Timely(r)
  <2> SUFFICES ASSUME NEW t \in Tokens, Exists(r, t)
               PROVE  r.txs[t].timeout <= r.txs[t].creation + MaxTimeout
    BY DEF Timely
  <2>1. CASE TimedOut(d, t)
    BY <1>3, <2>1
  <2>2. CASE ~TimedOut(d, t)
    BY <1>4, <1>5, <2>2 DEF Timely, Story
  <2> QED BY <2>1, <2>2
<1> QED BY <1>7, <1>9, <1>10 DEF Story

(***************************************************************************)
(* The inductive invariant of a blockchain: IInv, and for the store and    *)
(* what is durable what the log tells, what was paid, and the bound on     *)
(* timeouts.                                                               *)
(***************************************************************************)
StoryInv ==
    /\ IInv
    /\ Story(store)
    /\ Story(disk)

LEMMA StoryInit == Init => StoryInv
<1> SUFFICES ASSUME Init PROVE StoryInv
  OBVIOUS
<1>1. (\A t \in Tokens : Told(EmptyStore, t)) /\ Timely(EmptyStore)
  BY DEF EmptyStore, Told, Timely, Exists
<1>2. Funded(EmptyStore)
  <2> SUFFICES ASSUME NEW a \in Accounts
               PROVE  MaxFunds - EmptyStore.funds[a]
                      <= EmptyStore.sent[a] + Cardinality(Sends(EmptyStore, a))
    BY DEF Funded
  <2>1. EmptyStore.funds[a] = MaxFunds /\ EmptyStore.sent[a] = 0 /\ MaxFunds \in Nat
    BY MultisigAssumption DEF EmptyStore
  <2>2. Cardinality(Sends(EmptyStore, a)) \in Nat
    BY SendsFinite
  <2> QED BY <2>1, <2>2
<1> QED BY <1>1, <1>2, InitInv DEF Init, StoryInv, Story

LEMMA StoryNext ==
    ASSUME Blockchain
    PROVE  StoryInv /\ [Next]_vars => StoryInv'
<1> SUFFICES ASSUME StoryInv, [Next]_vars PROVE StoryInv'
  OBVIOUS
<1>0. /\ IInv' /\ TypeOK /\ store \in StoreType /\ disk \in StoreType
      /\ now \in Nat /\ Users \subseteq Principals
      /\ Sound(store) /\ Fresh(store) /\ Follows(disk, store)
  BY NextInv, SoundIsFresh, MultisigAssumption DEF StoryInv, IInv, TypeOK, Principals
<1>1. ASSUME store' = store, disk' = disk PROVE StoryInv'
  BY <1>0, <1>1 DEF StoryInv
<1>2. ASSUME NEW r, Story(r), Write(r) PROVE StoryInv'
  <2>1. store' = r /\ disk' = disk
    BY <1>2 DEF Write
  <2> QED BY <1>0, <1>2, <2>1 DEF StoryInv
<1>3. CASE Request
  <2>1. ASSUME NEW p \in Users, NEW a \in Accounts, NEW tr \in Transactions,
               NEW args \in SubmitArgs, SubmitRequest(p, a, tr, args)
        PROVE  StoryInv'
    <3> DEFINE t == store.tid + 1
               tx == NewTx(store, p, a, tr, args)
               r == Log(PutTx(store, t, tx), t, "submit")
    <3>1. t \in Tokens /\ Write(r) /\ t = store.tid + 1
      BY <2>1 DEF SubmitRequest, Submittable
    <3>2. args \in ArgType
      BY MultisigAssumption
    <3>3. tx \in TxType
      BY <1>0, <3>2, NewTxType
    <3>4. /\ tx.state = "Pending" /\ tx.creation = now
          /\ tx.timeout = now + Timeout(store, a, args)
      BY DEF NewTx
    <3>5. Timeout(store, a, args) <= MaxTimeout /\ Timeout(store, a, args) \in Nat
      <4>1. Given(args.timeout, store.accounts[a].timeout) \in Nat /\ MaxTimeout \in Nat
        BY <1>0, <3>2, MultisigAssumption DEF Given, ArgType, Optional, StoreType, AccountType
      <4> QED BY <4>1 DEF Timeout, MinOf
    <3> HIDE DEF t, tx
    <3>6. tx.timeout <= tx.creation + MaxTimeout
      BY <1>0, <3>4, <3>5, MultisigAssumption
    <3>7. Story(r)
      BY <1>0, <3>1, <3>3, <3>4, <3>6, SubmitKeeps DEF StoryInv
    <3> QED BY <1>2, <3>1, <3>7
  <2>2. ASSUME NEW r, Serves(store, r), Write(r) PROVE StoryInv'
    <3>1. Story(r)
      BY <1>0, <2>2, ServesKeep DEF StoryInv
    <3> QED BY <1>2, <2>2, <3>1
  <2> QED BY <1>0, <1>3, <2>1, <2>2, RequestServes
<1>4. CASE Commit
  <2> DEFINE r == Sweep(store, disk)
  <2>1. store' = r /\ disk' = r
    BY <1>4 DEF Commit
  <2>2. Story(r)
    BY <1>0, SweepKeeps DEF StoryInv
  <2> QED BY <1>0, <2>1, <2>2 DEF StoryInv
<1>5. CASE Crash
  BY <1>0, <1>5 DEF Crash, Stop, StoryInv
<1> QED BY <1>1, <1>3, <1>4, <1>5
        DEF Next, vars, BeginBlock, Tick, Load, CrashInApprove, CrashInExecute

LEMMA StoryHolds ==
    ASSUME Blockchain
    PROVE  Spec => []StoryInv
BY StoryInit, StoryNext, PTL DEF Spec

\* A transaction that is reported executed was run, its run is in the log and
\* the approvals it was run on reach its threshold, whatever the run itself
\* revoked, withdrew or led to.
THEOREM ReportsAreTrue ==
    ASSUME Blockchain
    PROVE  Spec => []ExecutedWithQuorum
<1>1. StoryInv => ExecutedWithQuorum
  BY DEF StoryInv, Story, Told, ExecutedWithQuorum
<1> QED BY <1>1, StoryHolds, PTL

\* A transaction was run exactly if its execution is in the event log or its
\* own run withdrew it; no other withdrawn one was run, and none is logged as
\* both.
THEOREM LogTellsRuns ==
    ASSUME Blockchain
    PROVE  Spec => []LogMatchesRuns
<1>1. StoryInv => LogMatchesRuns
  BY DEF StoryInv, Story, Told, LogMatchesRuns
<1> QED BY <1>1, StoryHolds, PTL

\* No more funds leave an account than were sent directly by those who may and
\* by multisig sends that were run, in the store and in what is durable.
THEOREM RunsAccountForFunds ==
    ASSUME Blockchain
    PROVE  Spec => []FundsOnlyThroughRuns
<1>1. StoryInv => FundsOnlyThroughRuns
  BY DEF StoryInv, Story, Funded, FundsOnlyThroughRuns
<1> QED BY <1>1, StoryHolds, PTL

\* The sweep of commit never stops early: no record is older than the maximal
\* timeout without having timed out, as submissions cap the timeout, so all
\* that has timed out is disabled.
THEOREM SweepsAreComplete ==
    ASSUME Blockchain
    PROVE  Spec => SweepComplete
<1> DEFINE Complete == \A t \in Tokens :
              (Commit /\ Exists(disk, t) /\ now >= disk.txs[t].timeout)
              => disk'.txs[t].disabled
<1>1. ASSUME StoryInv, Commit, NEW t \in Tokens, Exists(disk, t), now >= disk.txs[t].timeout
      PROVE  disk'.txs[t].disabled
  <2>1. /\ store \in StoreType /\ disk \in StoreType /\ now \in Nat
        /\ Follows(disk, store) /\ Timely(disk)
    BY <1>1, MultisigAssumption DEF StoryInv, Story, IInv, TypeOK
  <2>2. ASSUME NEW u \in Tokens PROVE ~StopsAt(disk, u)
    <3>1. ASSUME Exists(disk, u)
          PROVE  /\ disk.txs[u].timeout \in Nat /\ disk.txs[u].creation \in Nat
                 /\ disk.txs[u].timeout <= disk.txs[u].creation + MaxTimeout
      BY <2>1, <3>1 DEF Exists, StoreType, TxType, Timely
    <3> QED BY <2>1, <3>1, MultisigAssumption DEF StopsAt
  <2>3. disk'.txs[t] = IF TimedOut(disk, t) THEN Expire(disk.txs[t]) ELSE store.txs[t]
    BY <1>1, <2>1 DEF Commit, Sweep, StoreType
  <2>4. CASE Open(disk, t)
    <3>1. TimedOut(disk, t)
      BY <1>1, <2>2, <2>4 DEF TimedOut, Visited
    <3>2. disk.txs[t] \in TxType
      BY <1>1, <2>1 DEF Exists, StoreType
    <3> QED BY <2>3, <3>1, <3>2 DEF Expire, TxType
  <2>5. CASE ~Open(disk, t)
    <3>1. Concluded(store, t) /\ ~TimedOut(disk, t)
      BY <1>1, <2>1, <2>5 DEF Open, Concluded, Follows, TimedOut
    <3> QED BY <2>3, <3>1 DEF Concluded
  <2> QED BY <2>4, <2>5
<1>2. StoryInv /\ [Next]_vars => [Complete]_vars
  BY <1>1
<1> HIDE DEF Complete
<1>3. Spec => [][Complete]_vars
  BY <1>2, StoryHolds, PTL DEF Spec
<1> QED BY <1>3 DEF SweepComplete, Complete
==============================================================================
