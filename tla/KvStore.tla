------------------------------- MODULE KvStore -------------------------------
(***************************************************************************)
(* The server many-kvstore: keys with an owner, put, disable and transfer, *)
(* accounts through which a key may be used, the event log, and crashes.   *)
(*                                                                         *)
(* With blockchain, a setting of the server, only commit makes anything    *)
(* durable; without it every command commits, account commands twice, and  *)
(* commit is never called.                                                 *)
(* store is what Merk::get answers, disk what is durable.  The height that *)
(* commit also stores is left out: only the ABCI bridge reads it.          *)
(***************************************************************************)
EXTENDS Integers, FiniteSets

CONSTANTS Users,         \* identities that send requests
          MaxAccounts,   \* accounts are subresources 1 .. MaxAccounts
          Keys, Values,
          GenesisAcl,    \* GenesisAcl[k]: the owner of k at the start, or None
          Grants,        \* roles owners give and take, <<who, role>>
          MaxEvents,     \* bound on the event log
          MaxCrashes,
          None,
          Modes          \* values of the setting blockchain

Accounts == 1 .. MaxAccounts

Principals == Users \cup Accounts

Roles == {"owner", "put", "disable", "transfer"}

\* Either<bool, Reason>: not disabled, disabled, disabled with a reason.
DisabledStates == {"no", "yes", "reason"}

MetaType == [owner : Principals, disabled : DisabledStates]

AccountType == [roles : [Principals -> SUBSET Roles], disabled : BOOLEAN]

(***************************************************************************)
(* An event by what it is about (a key or an account), who it names (the   *)
(* owner of a put, the new owner of a transfer, who got or lost a role)    *)
(* and, for a transfer, the previous owner.                                *)
(***************************************************************************)
EventKinds == {"put", "disable", "transfer",
               "create", "addRoles", "removeRoles", "disableAccount"}

EventType ==
    [kind : EventKinds, on : Keys \cup Accounts, who : Principals \cup {None},
     from : Principals \cup {None}, role : Roles \cup {None}]

EventIds == 1 .. MaxEvents

StoreType ==
    [meta     : [Keys -> MetaType \cup {None}],           \* a{key}
     value    : [Keys -> Values \cup {None}],             \* s{key}
     accounts : [Accounts -> AccountType \cup {None}],    \* /accounts/{id}
     next     : 0 .. MaxAccounts,                         \* /config/subresource_id
     events   : [EventIds -> EventType \cup {None}],      \* /events/{id}
     count    : Nat,                                      \* /events_count
     last     : 0 .. MaxEvents]                           \* /latest_event_id

ASSUME KvAssumption ==
    /\ MaxAccounts \in Nat
    /\ MaxEvents \in Nat
    /\ MaxCrashes \in Nat
    /\ Users \cap Accounts = {}
    /\ Keys \cap Accounts = {}
    /\ GenesisAcl \in [Keys -> Users \cup {None}]
    /\ Grants \subseteq Principals \X Roles
    /\ None \notin Principals /\ None \notin Values /\ None \notin Roles
    /\ None \notin MetaType /\ None \notin AccountType /\ None \notin EventType
    /\ Modes \subseteq BOOLEAN

VARIABLES store, disk,
          latest_event_id,   \* in memory
          blockchain,        \* KvStoreStorage::blockchain, set at the start
          crashes

vars == <<store, disk, latest_event_id, blockchain, crashes>>

-----------------------------------------------------------------------------
(* Reading.                                                                *)

Disabled(s, k) == s.meta[k] # None /\ s.meta[k].disabled # "no"

\* storage.get gives a value: the key is not disabled and has one.
Readable(s, k) == ~Disabled(s, k) /\ s.value[k] # None

\* get_account answers None for a disabled account.
Known(s, a) == s.accounts[a] # None /\ ~s.accounts[a].disabled

HasRole(s, a, p, roles) == Known(s, a) /\ s.accounts[a].roles[p] \cap roles # {}

\* validate_alternative_owner: the key is used in the name of an account.
MayUse(s, p, alt, role) == alt # None => HasRole(s, alt, p, {role, "owner"})

OwnerFor(p, alt) == IF alt = None THEN p ELSE alt

\* Faulty variant: any owner of any key will do.
verify_aclOpen(s, owner, k) == TRUE

\* A key without metadata belongs to nobody yet.
verify_acl(s, owner, k) == s.meta[k] # None => s.meta[k].owner = owner

-----------------------------------------------------------------------------
(* Writing.                                                                *)

Event(kind, on, who, from, role) ==
    [kind |-> kind, on |-> on, who |-> who, from |-> from, role |-> role]

log_event(s, e) ==
    [s EXCEPT !.events[latest_event_id + 1] = e, !.count = @ + 1]

\* Faulty variant: a disabled key stays so.
PutKeepsDisabled(s, k, owner, v) ==
    log_event([s EXCEPT !.value[k] = v,
                        !.meta[k] = [owner |-> owner,
                                     disabled |-> IF Disabled(s, k) THEN "yes" ELSE "no"]],
              Event("put", k, owner, None, None))

\* A put also enables the key again.
Put(s, k, owner, v) ==
    log_event([s EXCEPT !.value[k] = v,
                        !.meta[k] = [owner |-> owner, disabled |-> "no"]],
              Event("put", k, owner, None, None))

Disable(s, k, owner, how) ==
    log_event([s EXCEPT !.meta[k] = [owner |-> owner, disabled |-> how]],
              Event("disable", k, None, None, None))

Transfer(s, k, owner, new) ==
    log_event([s EXCEPT !.meta[k].owner = new],
              Event("transfer", k, new, owner, None))

SetAccount(s, a, account) == [s EXCEPT !.accounts[a] = account]

\* Faulty variant: the counter is not stored.
TakeIdForgetful(s) == s

\* new_subresource_id.
TakeId(s) == [s EXCEPT !.next = @ + 1]

\* Account::create gives its sender the role of owner, and _add_account the
\* account itself.
NewAccount(a, p) ==
    [roles |-> [q \in Principals |-> IF q \in {a, p} THEN {"owner"} ELSE {}],
     disabled |-> FALSE]

-----------------------------------------------------------------------------
EmptyStore ==
    [meta     |-> [k \in Keys |->
                     IF GenesisAcl[k] = None
                     THEN None
                     ELSE [owner |-> GenesisAcl[k], disabled |-> "no"]],
     value    |-> [k \in Keys |-> None],
     accounts |-> [a \in Accounts |-> None],
     next     |-> 0,
     events   |-> [id \in EventIds |-> None],
     count    |-> 0,
     last     |-> 0]

Init ==
    /\ store = EmptyStore
    /\ disk = EmptyStore
    /\ latest_event_id = 0
    /\ blockchain \in Modes
    /\ crashes = 0

\* The bound on the log.
Room == latest_event_id < MaxEvents

\* The end of a command, which has logged one event.
Write(s) ==
    /\ store' = s
    /\ disk' = IF blockchain THEN disk ELSE s
    /\ latest_event_id' = latest_event_id + 1
    /\ UNCHANGED <<blockchain, crashes>>

PutRequest(p, alt, k, v) ==
    /\ Room
    /\ MayUse(store, p, alt, "put")
    /\ verify_acl(store, OwnerFor(p, alt), k)
    /\ Write(Put(store, k, OwnerFor(p, alt), v))

DisableRequest(p, alt, k, how) ==
    /\ Room
    /\ Readable(store, k)
    /\ MayUse(store, p, alt, "disable")
    /\ verify_acl(store, OwnerFor(p, alt), k)
    /\ Write(Disable(store, k, OwnerFor(p, alt), how))

\* The guards of transfer.
CanTransfer(s, p, alt, k) ==
    /\ Readable(s, k)
    /\ s.meta[k] # None
    /\ MayUse(s, p, alt, "transfer")
    /\ verify_acl(s, OwnerFor(p, alt), k)

TransferRequest(p, alt, k, new) ==
    /\ Room
    /\ CanTransfer(store, p, alt, k)
    /\ Write(Transfer(store, k, OwnerFor(p, alt), new))

(***************************************************************************)
(* An account command has two writes, log_event and commit_account.  first *)
(* is the store after one of them, last after both.                        *)
(***************************************************************************)
AccountCommand(first, last) ==
    \/ Write(last)
    \/ /\ ~blockchain                \* stopped between its two commits
       /\ crashes < MaxCrashes
       /\ store' = first
       /\ disk' = first
       /\ latest_event_id' = first.last
       /\ crashes' = crashes + 1
       /\ UNCHANGED blockchain

\* What the first commit of a creation makes durable, before the account.
Created(s, a, p) == log_event(TakeId(s), Event("create", a, p, None, None))

CreateRequest(p) ==
    LET a == store.next + 1
    IN  /\ Room
        /\ a \in Accounts
        /\ AccountCommand(Created(store, a, p),
                          SetAccount(Created(store, a, p), a, NewAccount(a, p)))

\* What the handlers of account commands start with.
CanOwn(s, a, p) == Known(s, a) /\ "owner" \in s.accounts[a].roles[p]

ChangeRoles(s, a, who, roles) == [s EXCEPT !.accounts[a].roles[who] = roles]

AddRolesRequest(p, a, who, role) ==
    /\ Room
    /\ CanOwn(store, a, p)
    /\ LET logged == log_event(store, Event("addRoles", a, who, None, role))
       IN  AccountCommand(logged,
               ChangeRoles(logged, a, who, store.accounts[a].roles[who] \cup {role}))

RemoveRolesRequest(p, a, who, role) ==
    /\ Room
    /\ CanOwn(store, a, p)
    /\ ~(who = a /\ role = "owner")
    /\ LET logged == log_event(store, Event("removeRoles", a, who, None, role))
       IN  AccountCommand(logged,
               ChangeRoles(logged, a, who, store.accounts[a].roles[who] \ {role}))

\* disable_account stores the account before it logs the event.
DisableAccountRequest(p, a) ==
    /\ Room
    /\ CanOwn(store, a, p)
    /\ LET off == [store EXCEPT !.accounts[a].disabled = TRUE]
       IN  AccountCommand(off, log_event(off, Event("disableAccount", a, None, None, None)))

\* Faulty variant: the event id is not stored.
CommittedWithoutId(s) == s

Committed(s) == [s EXCEPT !.last = latest_event_id]

Commit ==
    /\ blockchain
    /\ store' = Committed(store)
    /\ disk' = store'
    /\ UNCHANGED <<latest_event_id, blockchain, crashes>>

\* The process stops and KvStoreStorage::load opens what is durable.
Restart ==
    /\ crashes < MaxCrashes
    /\ store' = disk
    /\ latest_event_id' = disk.last
    /\ crashes' = crashes + 1
    /\ UNCHANGED <<disk, blockchain>>

Next ==
    \/ \E p \in Users, alt \in Accounts \cup {None}, k \in Keys :
          \/ \E v \in Values : PutRequest(p, alt, k, v)
          \/ \E how \in {"yes", "reason"} : DisableRequest(p, alt, k, how)
          \/ \E new \in Principals : TransferRequest(p, alt, k, new)
    \/ \E p \in Users : CreateRequest(p)
    \/ \E p \in Users, a \in Accounts :
          \/ \E g \in Grants : AddRolesRequest(p, a, g[1], g[2])
          \/ \E g \in Grants : RemoveRolesRequest(p, a, g[1], g[2])
          \/ DisableAccountRequest(p, a)
    \/ Commit
    \/ Restart

Spec == Init /\ [][Next]_vars

-----------------------------------------------------------------------------
\* Type invariant.
TypeOK ==
    /\ store \in StoreType
    /\ disk \in StoreType
    /\ latest_event_id \in 0 .. MaxEvents
    /\ blockchain \in Modes
    /\ crashes \in 0 .. MaxCrashes

Logged(s) == {id \in EventIds : s.events[id] # None}

\* The ids of the events of the given kinds about x that come before id.
About(s, x, kinds, before) ==
    {id \in Logged(s) : /\ id < before
                        /\ s.events[id].on = x
                        /\ s.events[id].kind \in kinds}

Latest(ids) == CHOOSE id \in ids : \A other \in ids : other <= id

\* The owner of k as the events before id tell it.
OwnerBefore(s, k, before) ==
    LET ids == About(s, k, {"put", "transfer"}, before)
    IN  IF ids = {} THEN GenesisAcl[k] ELSE s.events[Latest(ids)].who

\* Event ids are never taken twice.  Without blocks they are after a restart,
\* as nothing stores the last one.
IdsAreUnique == blockchain \/ crashes = 0

(***************************************************************************)
(* The log is an unbroken chain of ownership: a key that has an owner is   *)
(* put under that owner, every transfer is from the owner before it, and   *)
(* the chain ends in the owner that kvstore.query reports.                 *)
(***************************************************************************)
ChainOfOwners ==
    IdsAreUnique => \A s \in {store, disk} : \A k \in Keys :
        /\ \A id \in About(s, k, {"transfer"}, MaxEvents + 1) :
              s.events[id].from = OwnerBefore(s, k, id)
        /\ \A id \in About(s, k, {"put"}, MaxEvents + 1) :
              OwnerBefore(s, k, id) \in {None, s.events[id].who}
        /\ OwnerBefore(s, k, MaxEvents + 1) =
              IF s.meta[k] = None THEN None ELSE s.meta[k].owner

(***************************************************************************)
(* Whoever follows the log knows the state: a key is disabled exactly if   *)
(* it was disabled after its last put, and somebody has a role on an       *)
(* account exactly if the role was last given and not taken.               *)
(***************************************************************************)
LogTellsStore ==
    IdsAreUnique => \A s \in {store, disk} :
        /\ \A k \in Keys :
              LET ids == About(s, k, {"put", "disable"}, MaxEvents + 1)
              IN  Disabled(s, k) <=>
                    ids # {} /\ s.events[Latest(ids)].kind = "disable"
        /\ \A a \in Accounts, g \in Grants :
              LET ids == {id \in About(s, a, {"addRoles", "removeRoles"}, MaxEvents + 1) :
                             <<s.events[id].who, s.events[id].role>> = g}
              IN  ids # {} =>
                    ((s.events[Latest(ids)].kind = "addRoles") <=>
                        g[2] \in s.accounts[a].roles[g[1]])

\* KvStoreStorage::iter, from which events.list takes its events: an iterator
\* over what is committed.
Listed == Logged(disk)

(***************************************************************************)
(* The number of events, which events.info and events.list report, is read *)
(* with get: it is the number of events that events.list can find plus     *)
(* those not committed yet; and once everything is committed, by a commit  *)
(* or by a restart, the number of those it can find.                       *)
(***************************************************************************)
CountMatchesList ==
    IdsAreUnique =>
        /\ store.count = Cardinality(Listed) + Cardinality(Logged(store) \ Listed)
        /\ disk.count = Cardinality(Listed)

(***************************************************************************)
(* An account never disappears, a disabled one never works again, and no   *)
(* other account ever takes its address: what a key belongs to is settled. *)
(***************************************************************************)
AccountsStay ==
    [][\A a \in Accounts :
          disk.accounts[a] # None =>
             /\ disk'.accounts[a] # None
             /\ disk.accounts[a].disabled => disk'.accounts[a].disabled
             /\ "owner" \in disk'.accounts[a].roles[a]]_vars
==============================================================================
