---------------------------- MODULE LedgerBlocks ----------------------------
(***************************************************************************)
(* The block life cycle of many-ledger nodes that run the same Tendermint  *)
(* chain: begin_block, deliver_tx and commit, the event log and the event  *)
(* ids that name events and multisig transactions, the memo migration that *)
(* runs inside commit, and the crash and load of a node.                   *)
(*                                                                         *)
(* store[n] is what Merk::get answers: committed data plus the batches     *)
(* applied since.  disk[n] is what the last Merk::commit made durable.  A  *)
(* crash loses the difference.                                             *)
(*                                                                         *)
(* A written value is the pair of its block and of the position of its     *)
(* command in the block, so that an overwritten entry can be recognised,   *)
(* and a flag telling whether it still uses the legacy memo fields.        *)
(***************************************************************************)
EXTENDS Integers, Sequences, FiniteSets

CONSTANTS Nodes,            \* the replicas
          Blocks,           \* the blocks Tendermint may decide
          MaxHeight,        \* length of the chain
          MaxBlockLen,      \* commands in a block
          Span,             \* 2^HEIGHT_EVENTID_SHIFT: ids available to a block
          MigrationHeight,  \* height at which the memo migration is configured
          CrashPhases,      \* where a crash is considered
          MaxCrashes        \* crashes in a behaviour

(***************************************************************************)
(* A command matters here by the ids it takes and the keys it writes:      *)
(* "log" logs one event (send, mint, approve, ...); "submit" takes an id   *)
(* for its token, stores the transaction and logs an event; "reject" is a  *)
(* submission refused after new_event_id: the id is gone, nothing written. *)
(***************************************************************************)
Commands == {"log", "submit", "reject"}

Phases == {"down", "idle", "block", "committed", "migrating", "migrated"}

ASSUME BlocksAssumption ==
    \A b \in Blocks : b \in Seq(Commands) /\ Len(b) <= MaxBlockLen

ASSUME BoundsAssumption ==
    /\ MaxHeight \in Nat
    /\ MaxBlockLen \in Nat
    /\ Span \in Nat
    /\ 2 * MaxBlockLen < Span
    /\ MigrationHeight \in Nat \ {0}
    /\ CrashPhases \subseteq Phases \ {"down"}
    /\ MaxCrashes \in Nat

VARIABLES chain,       \* the decided blocks (Tendermint)
          store,       \* store[n]: persistent_store as read by get
          disk,        \* disk[n]: persistent_store as of its last commit
          latest_tid,  \* latest_tid[n], in memory
          active,      \* active[n]: migrations.is_active(MEMO_MIGRATION)
          phase,       \* phase[n]: where node n is
          done,        \* done[n]: commands of the current block delivered
          crashes

vars == <<chain, store, disk, latest_tid, active, phase, done, crashes>>

Entries == [block : Nat, pos : Nat, legacy : BOOLEAN]

(***************************************************************************)
(* The tables /events/ and /multisig/ are partial functions from ids.      *)
(***************************************************************************)
Put(table, id, entry) ==
    [k \in DOMAIN table \cup {id} |-> IF k = id THEN entry ELSE table[k]]

EmptyTable == [k \in {} |-> [block |-> 0, pos |-> 0, legacy |-> FALSE]]

-----------------------------------------------------------------------------
(***************************************************************************)
(* The tid from which the block that follows height h takes its ids, as    *)
(* commit computes it (with the height before the increment) and as load   *)
(* does (saturating_sub).                                                  *)
(***************************************************************************)
\* Faulty variants: commit counts from the wrong height, not at all, or without
\* the shift; load as it was before issue 289.
CommitTidTwoBack(height) == (height - 2) * Span

CommitTidConstant(height) == Span

CommitTidUnshifted(height) == height - 1

LoadTidUnshifted(height) == height * Span

CommitTid(height) == (height - 1) * Span

LoadTid(height) == (IF height = 0 THEN 0 ELSE height - 1) * Span

\* LedgerStorage::new, with_migrations and build: height 0, no event.
Genesis ==
    [height |-> 0, nb_events |-> 0, events |-> EmptyTable, txs |-> EmptyTable]

Init ==
    /\ chain \in [1 .. MaxHeight -> Blocks]
    /\ store = [n \in Nodes |-> Genesis]
    /\ disk = [n \in Nodes |-> Genesis]
    /\ latest_tid = [n \in Nodes |-> 0]
    /\ active = [n \in Nodes |-> FALSE]
    /\ phase = [n \in Nodes |-> "idle"]
    /\ done = [n \in Nodes |-> 0]
    /\ crashes = 0

-----------------------------------------------------------------------------
(***************************************************************************)
(* log_event: one more event, under the id id.                             *)
(***************************************************************************)
\* Faulty variant: the count is not read back.
log_eventUncounted(s, id, entry) ==
    [s EXCEPT !.nb_events = 1, !.events = Put(@, id, entry)]

log_event(s, id, entry) ==
    [s EXCEPT !.nb_events = @ + 1, !.events = Put(@, id, entry)]

\* What a command does to the store of a node whose latest_tid is tid.
Apply(s, cmd, tid, entry) ==
    CASE cmd = "log"    -> log_event(s, tid + 1, entry)
      [] cmd = "submit" -> log_event([s EXCEPT !.txs = Put(@, tid + 1, entry)],
                                     tid + 2, entry)
      [] cmd = "reject" -> s

\* How many times a command calls new_event_id.
IdsTaken(cmd) == IF cmd = "submit" THEN 2 ELSE 1

\* begin_block: Tendermint feeds the block after the height the node reports.
BeginBlock(n) ==
    /\ phase[n] = "idle"
    /\ store[n].height < MaxHeight
    /\ phase' = [phase EXCEPT ![n] = "block"]
    /\ done' = [done EXCEPT ![n] = 0]
    /\ UNCHANGED <<chain, store, disk, latest_tid, active, crashes>>

CurrentBlock(n) == chain[store[n].height + 1]

DeliverTx(n) ==
    /\ phase[n] = "block"
    /\ done[n] < Len(CurrentBlock(n))
    /\ LET cmd   == CurrentBlock(n)[done[n] + 1]
           entry == [block  |-> store[n].height + 1,
                     pos    |-> done[n] + 1,
                     legacy |-> cmd = "submit" /\ ~active[n]]
       IN  /\ store' = [store EXCEPT ![n] = Apply(@, cmd, latest_tid[n], entry)]
           /\ latest_tid' = [latest_tid EXCEPT ![n] = @ + IdsTaken(cmd)]
    /\ done' = [done EXCEPT ![n] = @ + 1]
    /\ UNCHANGED <<chain, disk, active, phase, crashes>>

(***************************************************************************)
(* LedgerStorage::commit, cut where its durable commits are.  First        *)
(* inc_height and commit_storage: the block is durable.                    *)
(***************************************************************************)
CommitBlock(n) ==
    /\ phase[n] = "block"
    /\ done[n] = Len(CurrentBlock(n))
    /\ store' = [store EXCEPT ![n].height = @ + 1]
    /\ disk' = [disk EXCEPT ![n] = store'[n]]
    /\ phase' = [phase EXCEPT ![n] = "committed"]
    /\ UNCHANGED <<chain, latest_tid, active, done, crashes>>

\* Faulty variant: only the entries of the last block are rewritten.
ModerniseRecent(table) ==
    [k \in DOMAIN table |->
        IF table[k].block < MigrationHeight
        THEN table[k]
        ELSE [table[k] EXCEPT !.legacy = FALSE]]

Modernise(table) ==
    [k \in DOMAIN table |-> [table[k] EXCEPT !.legacy = FALSE]]

\* update_at_height at the configured height: update_multisig_submit_events
\* rewrites the events and commits ...
MigrateEvents(n) ==
    /\ phase[n] = "committed"
    /\ store[n].height = MigrationHeight
    /\ store' = [store EXCEPT ![n].events = Modernise(@)]
    /\ disk' = [disk EXCEPT ![n] = store'[n]]
    /\ phase' = [phase EXCEPT ![n] = "migrating"]
    /\ UNCHANGED <<chain, latest_tid, active, done, crashes>>

\* ... then update_multisig_storage the transactions, and commits.
MigrateTxs(n) ==
    /\ phase[n] = "migrating"
    /\ store' = [store EXCEPT ![n].txs = Modernise(@)]
    /\ disk' = [disk EXCEPT ![n] = store'[n]]
    /\ active' = [active EXCEPT ![n] = TRUE]
    /\ phase' = [phase EXCEPT ![n] = "migrated"]
    /\ UNCHANGED <<chain, latest_tid, done, crashes>>

\* The rest of commit: the second commit_storage, current_hash, latest_tid.
CommitDone(n) ==
    /\ \/ phase[n] = "migrated"
       \/ phase[n] = "committed" /\ store[n].height # MigrationHeight
    /\ disk' = [disk EXCEPT ![n] = store[n]]
    /\ latest_tid' = [latest_tid EXCEPT ![n] = CommitTid(store[n].height)]
    /\ phase' = [phase EXCEPT ![n] = "idle"]
    /\ UNCHANGED <<chain, store, active, done, crashes>>

\* The process stops at any point; only what was committed remains.
Crash(n) ==
    /\ phase[n] \in CrashPhases
    /\ crashes < MaxCrashes
    /\ store' = [store EXCEPT ![n] = disk[n]]
    /\ phase' = [phase EXCEPT ![n] = "down"]
    /\ crashes' = crashes + 1
    /\ UNCHANGED <<chain, disk, latest_tid, active, done>>

\* LedgerStorage::load, then the handshake: info reports the height, from
\* which Tendermint replays the chain.
Load(n) ==
    /\ phase[n] = "down"
    /\ latest_tid' = [latest_tid EXCEPT ![n] = LoadTid(disk[n].height)]
    /\ active' = [active EXCEPT ![n] = disk[n].height >= MigrationHeight]
    /\ phase' = [phase EXCEPT ![n] = "idle"]
    /\ UNCHANGED <<chain, store, disk, done, crashes>>

Step(n) ==
    \/ BeginBlock(n)
    \/ DeliverTx(n)
    \/ CommitBlock(n)
    \/ MigrateEvents(n)
    \/ MigrateTxs(n)
    \/ CommitDone(n)
    \/ Load(n)

Next == \E n \in Nodes : Step(n) \/ Crash(n)

Spec == Init /\ [][Next]_vars

-----------------------------------------------------------------------------
\* Type invariant.
IsTable(table) ==
    /\ DOMAIN table \subseteq Nat
    /\ \A k \in DOMAIN table : table[k] \in Entries

IsStore(s) ==
    /\ s = [height |-> s.height, nb_events |-> s.nb_events,
            events |-> s.events, txs |-> s.txs]
    /\ s.height \in 0 .. MaxHeight
    /\ s.nb_events \in Nat
    /\ IsTable(s.events)
    /\ IsTable(s.txs)

TypeOK ==
    /\ chain \in [1 .. MaxHeight -> Blocks]
    /\ DOMAIN store = Nodes /\ DOMAIN disk = Nodes
    /\ \A n \in Nodes : IsStore(store[n]) /\ IsStore(disk[n])
    /\ latest_tid \in [Nodes -> Nat]
    /\ active \in [Nodes -> BOOLEAN]
    /\ phase \in [Nodes -> Phases]
    /\ done \in [Nodes -> Nat]
    /\ crashes \in 0 .. MaxCrashes

(***************************************************************************)
(* Replicas between two blocks of the same height hold the same data (the  *)
(* application hash is a hash of it) and give the next block the same ids, *)
(* whichever of them crashed, was loaded and replayed (issue 289).         *)
(***************************************************************************)
SameHeightSameState ==
    \A m, n \in Nodes :
        (/\ phase[m] = "idle"
         /\ phase[n] = "idle"
         /\ store[m].height = store[n].height)
        => /\ store[m] = store[n]
           /\ latest_tid[m] = latest_tid[n]

\* The transaction submitted by command pos of block b is in the table.
Kept(n, b, pos) ==
    \E k \in DOMAIN store[n].txs :
        /\ store[n].txs[k].block = b
        /\ store[n].txs[k].pos = pos

(***************************************************************************)
(* Every multisig transaction submitted in a block from the second one on  *)
(* stays in the store under its token: no later event id, of a later block *)
(* or of a block replayed after a crash, takes its place.                  *)
(***************************************************************************)
SubmissionsKept ==
    \A n \in Nodes : \A b \in 2 .. store[n].height :
        \A pos \in 1 .. Len(chain[b]) :
            chain[b][pos] = "submit" => Kept(n, b, pos)

(***************************************************************************)
(* The same of all blocks, which is what the multisig tests say of two     *)
(* transactions submitted in blocks 1 and 2.                               *)
(***************************************************************************)
InFlightResolvedSeparately ==
    \A n \in Nodes : \A b \in 1 .. store[n].height :
        \A pos \in 1 .. Len(chain[b]) :
            chain[b][pos] = "submit" => Kept(n, b, pos)

\* iter_events, from which events.list takes its events: an iterator over what
\* is committed.
Listed(n) == DOMAIN disk[n].events

(***************************************************************************)
(* nb_events, which events.info and events.list report, is read with get   *)
(* and the events of events.list come from an iterator.  When the first    *)
(* block logs none, the number is that of the events listed plus those of  *)
(* the block being executed, and between blocks that of the events listed. *)
(***************************************************************************)
NbEventsExact ==
    \A n \in Nodes :
        (MaxHeight > 0 /\ \A pos \in 1 .. Len(chain[1]) : chain[1][pos] = "reject")
        => /\ store[n].nb_events =
                  Cardinality(Listed(n)) + Cardinality(DOMAIN store[n].events \ Listed(n))
           /\ phase[n] # "block" => store[n].nb_events = Cardinality(Listed(n))

(***************************************************************************)
(* A block above the second overwrites no entry of either table: the ids   *)
(* it takes are new.                                                       *)
(***************************************************************************)
NoOverwrite ==
    [][\A n \in Nodes :
          (phase[n] = "block" /\ phase'[n] = "block" /\ store[n].height >= 2)
          => /\ \A k \in DOMAIN store[n].txs :
                    /\ k \in DOMAIN store'[n].txs
                    /\ store'[n].txs[k] = store[n].txs[k]
             /\ \A k \in DOMAIN store[n].events :
                    /\ k \in DOMAIN store'[n].events
                    /\ store'[n].events[k] = store[n].events[k]]_vars

\* The command of entry e was executed before that of entry f.
Before(e, f) == e.block < f.block \/ (e.block = f.block /\ e.pos < f.pos)

InOrder(table) ==
    \A k, l \in DOMAIN table :
        (k < l /\ table[k].block >= 2 /\ table[l].block >= 2)
        => Before(table[k], table[l])

(***************************************************************************)
(* The DB is ordered by event ID, as the sweep of commit says: among what  *)
(* the second block and later ones wrote, the order of the keys is that of *)
(* execution, on a node that was restarted and after replays too.  The     *)
(* early stop of the sweep and the id ranges of events.list rest on it.    *)
(***************************************************************************)
KeysFollowExecution ==
    \A n \in Nodes : InOrder(store[n].events) /\ InOrder(store[n].txs)

(***************************************************************************)
(* The memo migration has moved the whole database once a node is past its *)
(* height: no event and no transaction with the legacy fields is left.     *)
(***************************************************************************)
MigrationComplete ==
    \A n \in Nodes :
        (phase[n] = "idle" /\ store[n].height >= MigrationHeight)
        => /\ \A k \in DOMAIN store[n].events : ~store[n].events[k].legacy
           /\ \A k \in DOMAIN store[n].txs : ~store[n].txs[k].legacy

=============================================================================
