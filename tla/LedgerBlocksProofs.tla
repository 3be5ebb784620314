------------------------- MODULE LedgerBlocksProofs -------------------------
(***************************************************************************)
(* Proofs about LedgerBlocks for any replicas, chain, block size and       *)
(* number of crashes: its type invariant, that no block above the second   *)
(* overwrites an entry, that submissions are kept, that events are         *)
(* counted, that ids are in the order of execution, that replicas agree    *)
(* and that the migration is complete.                                     *)
(*                                                                         *)
(* The invariant is a statement about one node, NodeOK, written over the   *)
(* values of its variables.  One lemma per action shows that the values    *)
(* the action gives satisfy it again.  Agreement of the replicas is shown  *)
(* by one function of the chain, its replay without crashes, of which the  *)
(* state of every node is a point.                                         *)
(***************************************************************************)
EXTENDS LedgerBlocks, Induction, FiniteSetTheorems

Keys(s) == DOMAIN s.events \cup DOMAIN s.txs

\* The largest id the first h blocks can have taken.
KeyLimit(h) == LoadTid(IF h = 0 THEN 0 ELSE h - 1) + 2 * MaxBlockLen

KeptIn(s, b, pos) ==
    \E k \in DOMAIN s.txs : s.txs[k].block = b /\ s.txs[k].pos = pos

KeptUpTo(c, s, b, m) ==
    \A pos \in 1 .. m : c[b][pos] = "submit" => KeptIn(s, b, pos)

AllKept(c, s, h) == \A b \in 2 .. h : KeptUpTo(c, s, b, Len(c[b]))

\* Types, and what is durable: outside a block, everything.
NodeType(c, s, d, tid, ph, dn) ==
    /\ c \in [1 .. MaxHeight -> Blocks]
    /\ IsStore(s)
    /\ IsStore(d)
    /\ tid \in Nat
    /\ dn \in Nat
    /\ ph \in Phases
    /\ ph = "block" => /\ s.height < MaxHeight
                       /\ dn <= Len(c[s.height + 1])
                       /\ d.height = s.height
    /\ ph \in {"committed", "migrating", "migrated"} => s.height >= 1
    /\ ph # "block" => s = d

\* Every id in use lies below the ids of the blocks to come, except that
\* blocks 1 and 2 share theirs.
NodeIds(s, d, tid, ph, dn) ==
    /\ ph = "idle" => tid = LoadTid(s.height)
    /\ ph = "block" => /\ LoadTid(s.height) <= tid
                       /\ tid <= LoadTid(s.height) + 2 * dn
    /\ \A k \in Keys(d) : k <= KeyLimit(d.height)
    /\ ph = "block" => \A k \in Keys(s) : k <= KeyLimit(s.height) \/ k <= tid

\* The submissions of blocks 2 and above are kept, those of the current
\* block as far as it was delivered.
NodeKept(c, s, d, tid, ph, dn) ==
    /\ \A k \in DOMAIN d.txs : d.txs[k].block <= d.height
    /\ AllKept(c, d, d.height)
    /\ ph = "block" =>
          /\ \A k \in DOMAIN s.txs : s.txs[k].block >= 2 => k <= tid
          /\ \A k \in DOMAIN s.txs : s.txs[k].block <= s.height + 1
          /\ AllKept(c, s, s.height)
          /\ s.height >= 1 => KeptUpTo(c, s, s.height + 1, dn)

NodeOK(c, s, d, tid, ph, dn) ==
    /\ NodeType(c, s, d, tid, ph, dn)
    /\ NodeIds(s, d, tid, ph, dn)
    /\ NodeKept(c, s, d, tid, ph, dn)

NodeInv(n) ==
    NodeOK(chain, store[n], disk[n], latest_tid[n], phase[n], done[n])

(***************************************************************************)
(* The inductive invariant.                                                *)
(***************************************************************************)
IInv ==
    /\ TypeOK
    /\ \A n \in Nodes : NodeInv(n)

-----------------------------------------------------------------------------
(* Arithmetic of the ids.                                                  *)

\* LoadTid is a natural number and grows by Span with every block from the
\* second on; before that it does not move.
LEMMA LoadTidGrows ==
    ASSUME NEW h \in Nat
    PROVE  /\ LoadTid(h) \in Nat
           /\ LoadTid(0) = 0
           /\ h >= 1 => LoadTid(h + 1) = LoadTid(h) + Span
           /\ h = 0 => LoadTid(h + 1) = LoadTid(h)
<1>1. \A x, y \in Nat : x * y \in Nat
  OBVIOUS
<1>2. \A x, y \in Int : (x + 1) * y = x * y + y
  OBVIOUS
<1>3. Span \in Nat
  BY BoundsAssumption
<1>4. h >= 1 => LoadTid(h + 1) = LoadTid(h) + Span
  <2> SUFFICES ASSUME h >= 1 PROVE LoadTid(h + 1) = LoadTid(h) + Span
    OBVIOUS
  <2>1. LoadTid(h + 1) = h * Span /\ LoadTid(h) = (h - 1) * Span
    BY DEF LoadTid
  <2>2. h - 1 \in Int /\ (h - 1) + 1 = h
    OBVIOUS
  <2>3. ((h - 1) + 1) * Span = (h - 1) * Span + Span
    BY <1>2, <1>3, <2>2
  <2> QED BY <2>1, <2>2, <2>3
<1>5. LoadTid(h) \in Nat
  <2>1. CASE h = 0
    BY <2>1, <1>3 DEF LoadTid
  <2>2. CASE h # 0
    <3>1. h - 1 \in Nat /\ LoadTid(h) = (h - 1) * Span
      BY <2>2 DEF LoadTid
    <3> QED BY <3>1, <1>1, <1>3
  <2> QED BY <2>1, <2>2
<1>6. LoadTid(0) = 0
  BY <1>3 DEF LoadTid
<1>7. h = 0 => LoadTid(h + 1) = LoadTid(h)
  BY <1>3 DEF LoadTid
<1> QED BY <1>4, <1>5, <1>6, <1>7

\* The ids of h blocks lie below those of block h + 1, and so do all but the
\* first block's; the limit covers one more block.
LEMMA KeyLimits ==
    ASSUME NEW h \in Nat
    PROVE  /\ KeyLimit(h) \in Nat
           /\ KeyLimit(h + 1) = LoadTid(h) + 2 * MaxBlockLen
           /\ KeyLimit(h) <= KeyLimit(h + 1)
           /\ h >= 2 => KeyLimit(h) < LoadTid(h)
<1>0. MaxBlockLen \in Nat /\ Span \in Nat /\ 2 * MaxBlockLen < Span
  BY BoundsAssumption
<1>1. KeyLimit(h + 1) = LoadTid(h) + 2 * MaxBlockLen
  BY DEF KeyLimit
<1>2. CASE h = 0
  BY <1>0, <1>1, <1>2, LoadTidGrows DEF KeyLimit
<1>3. CASE h >= 1
  <2>1. h - 1 \in Nat /\ (h - 1) + 1 = h
    BY <1>3
  <2>2. KeyLimit(h) = LoadTid(h - 1) + 2 * MaxBlockLen
    BY <1>3 DEF KeyLimit
  <2>3. /\ LoadTid(h - 1) \in Nat
        /\ h - 1 >= 1 => LoadTid((h - 1) + 1) = LoadTid(h - 1) + Span
        /\ h - 1 = 0 => LoadTid((h - 1) + 1) = LoadTid(h - 1)
    BY <2>1, LoadTidGrows
  <2> QED BY <1>0, <1>1, <1>3, <2>1, <2>2, <2>3
<1> QED BY <1>2, <1>3

\* commit and load agree on the first id of the next block.
LEMMA CommitTidIsLoadTid ==
    ASSUME NEW h \in Nat, h >= 1
    PROVE  CommitTid(h) = LoadTid(h)
BY DEF CommitTid, LoadTid

-----------------------------------------------------------------------------
(* The tables.                                                             *)

LEMMA PutFacts ==
    ASSUME NEW table, IsTable(table), NEW id \in Nat, NEW entry \in Entries
    PROVE  /\ IsTable(Put(table, id, entry))
           /\ DOMAIN Put(table, id, entry) = DOMAIN table \cup {id}
           /\ Put(table, id, entry)[id] = entry
           /\ \A k \in DOMAIN table \ {id} : Put(table, id, entry)[k] = table[k]
BY DEF Put, IsTable

LEMMA ModerniseFacts ==
    ASSUME NEW table, IsTable(table)
    PROVE  /\ IsTable(Modernise(table))
           /\ DOMAIN Modernise(table) = DOMAIN table
           /\ \A k \in DOMAIN table :
                 /\ Modernise(table)[k].block = table[k].block
                 /\ Modernise(table)[k].pos = table[k].pos
BY DEF Modernise, IsTable, Entries

\* A command leaves the entries up to tid alone and adds its own above it.
LEMMA ApplyFacts ==
    ASSUME NEW s, IsStore(s), NEW cmd \in Commands, NEW tid \in Nat,
           NEW entry \in Entries,
           NEW r, r = Apply(s, cmd, tid, entry)
    PROVE  /\ IsStore(r)
           /\ r.height = s.height
           /\ \A k \in Keys(r) : k \in Keys(s) \/ k <= tid + IdsTaken(cmd)
           /\ \A k \in DOMAIN s.txs :
                 k <= tid => k \in DOMAIN r.txs /\ r.txs[k] = s.txs[k]
           /\ \A k \in DOMAIN s.events :
                 k <= tid => k \in DOMAIN r.events /\ r.events[k] = s.events[k]
           /\ \A k \in DOMAIN r.txs :
                 \/ k \in DOMAIN s.txs /\ r.txs[k] = s.txs[k]
                 \/ r.txs[k] = entry /\ k <= tid + IdsTaken(cmd)
           /\ cmd = "submit" => \E k \in DOMAIN r.txs : r.txs[k] = entry
<1>0. IsTable(s.events) /\ IsTable(s.txs) /\ s.nb_events \in Nat
  BY DEF IsStore
<1>d. DOMAIN s.txs \subseteq Nat /\ DOMAIN s.events \subseteq Nat
  BY <1>0 DEF IsTable
<1>e. tid + 1 \in Nat /\ tid + 2 \in Nat
  OBVIOUS
<1>1. CASE cmd = "reject"
  BY <1>1 DEF Apply, Keys
<1>2. CASE cmd = "log"
  <2> DEFINE E == Put(s.events, tid + 1, entry)
  <2>1. r = [s EXCEPT !.nb_events = @ + 1, !.events = E]
    BY <1>2 DEF Apply, log_event
  <2>2. r = [height |-> s.height, nb_events |-> s.nb_events + 1,
             events |-> E, txs |-> s.txs]
    BY <2>1 DEF IsStore
  <2>3. /\ IsTable(E)
        /\ DOMAIN E = DOMAIN s.events \cup {tid + 1}
        /\ \A k \in DOMAIN s.events \ {tid + 1} : E[k] = s.events[k]
    BY <1>0, <1>e, PutFacts, ZenonT(60)
  <2>r. r.height = s.height /\ r.nb_events = s.nb_events + 1 /\ r.events = E /\ r.txs = s.txs
    BY <2>2
  <2> HIDE DEF E
  <2>4. IsStore(r)
    BY <1>0, <2>2, <2>3, <2>r DEF IsStore
  <2>5. IdsTaken(cmd) = 1
    BY <1>2 DEF IdsTaken
  <2> QED BY <1>2, <1>d, <2>r, <2>3, <2>4, <2>5 DEF Keys
<1>3. CASE cmd = "submit"
  <2> DEFINE T == Put(s.txs, tid + 1, entry)
             E == Put(s.events, tid + 2, entry)
  <2>1. r = [[s EXCEPT !.txs = T] EXCEPT !.nb_events = @ + 1,
                                         !.events = Put(@, tid + 2, entry)]
    BY <1>3 DEF Apply, log_event
  <2>2. r = [height |-> s.height, nb_events |-> s.nb_events + 1,
             events |-> E, txs |-> T]
    BY <2>1 DEF IsStore
  <2>3. /\ IsTable(E)
        /\ DOMAIN E = DOMAIN s.events \cup {tid + 2}
        /\ \A k \in DOMAIN s.events \ {tid + 2} : E[k] = s.events[k]
    BY <1>0, <1>e, PutFacts, ZenonT(60)
  <2>4. /\ IsTable(T)
        /\ DOMAIN T = DOMAIN s.txs \cup {tid + 1}
        /\ T[tid + 1] = entry
        /\ \A k \in DOMAIN s.txs \ {tid + 1} : T[k] = s.txs[k]
    BY <1>0, <1>e, PutFacts, ZenonT(60)
  <2>r. r.height = s.height /\ r.nb_events = s.nb_events + 1 /\ r.events = E /\ r.txs = T
    BY <2>2
  <2> HIDE DEF E, T
  <2>5. IsStore(r)
    BY <1>0, <2>2, <2>3, <2>4, <2>r DEF IsStore
  <2>6. IdsTaken(cmd) = 2
    BY <1>3 DEF IdsTaken
  <2> QED BY <1>3, <1>d, <2>r, <2>3, <2>4, <2>5, <2>6 DEF Keys
<1> QED BY <1>1, <1>2, <1>3 DEF Commands

\* Rewriting entries with the same block and position keeps what is kept.
LEMMA AllKeptCarries ==
    ASSUME NEW c, NEW s, NEW r, NEW h \in Nat, NEW b, NEW m \in Nat,
           \A k \in DOMAIN s.txs :
              s.txs[k].block >= 2 =>
                 /\ k \in DOMAIN r.txs
                 /\ r.txs[k].block = s.txs[k].block
                 /\ r.txs[k].pos = s.txs[k].pos
    PROVE  /\ AllKept(c, s, h) => AllKept(c, r, h)
           /\ b >= 2 /\ KeptUpTo(c, s, b, m) => KeptUpTo(c, r, b, m)
<1>1. ASSUME NEW b2, b2 >= 2, NEW pos, KeptIn(s, b2, pos)
      PROVE  KeptIn(r, b2, pos)
  BY <1>1 DEF KeptIn
<1>2. AllKept(c, s, h) => AllKept(c, r, h)
  BY <1>1 DEF AllKept, KeptUpTo
<1>3. b >= 2 /\ KeptUpTo(c, s, b, m) => KeptUpTo(c, r, b, m)
  BY <1>1 DEF KeptUpTo
<1> QED BY <1>2, <1>3

-----------------------------------------------------------------------------
(* One lemma per action: NodeOK of the values it leaves behind.            *)

LEMMA GenesisOK ==
    ASSUME NEW c \in [1 .. MaxHeight -> Blocks]
    PROVE  NodeOK(c, Genesis, Genesis, 0, "idle", 0)
<1>1. /\ Genesis.height = 0 /\ Genesis.nb_events = 0
      /\ Genesis.events = EmptyTable /\ Genesis.txs = EmptyTable
  BY DEF Genesis
<1>2. DOMAIN EmptyTable = {}
  BY DEF EmptyTable
<1>3. IsStore(Genesis)
  <2>1. Genesis = [height |-> 0, nb_events |-> 0, events |-> EmptyTable,
                   txs |-> EmptyTable]
    BY DEF Genesis
  <2> HIDE DEF Genesis
  <2> QED BY <2>1, <1>1, <1>2, BoundsAssumption DEF IsStore, IsTable
<1> HIDE DEF Genesis
<1>4. NodeType(c, Genesis, Genesis, 0, "idle", 0)
  BY <1>1, <1>3 DEF NodeType, Phases
<1>5. NodeIds(Genesis, Genesis, 0, "idle", 0)
  BY <1>1, <1>2, LoadTidGrows DEF NodeIds, Keys
<1>6. NodeKept(c, Genesis, Genesis, 0, "idle", 0)
  BY <1>1, <1>2 DEF NodeKept, AllKept
<1> QED BY <1>4, <1>5, <1>6 DEF NodeOK

LEMMA BeginBlockOK ==
    ASSUME NEW c, NEW s, NEW d, NEW tid, NEW dn,
           NodeOK(c, s, d, tid, "idle", dn), s.height < MaxHeight
    PROVE  NodeOK(c, s, d, tid, "block", 0)
<1>1. /\ s = d /\ s.height \in Nat /\ IsStore(s) /\ tid \in Nat
      /\ c \in [1 .. MaxHeight -> Blocks] /\ MaxHeight \in Nat
  BY BoundsAssumption DEF NodeOK, NodeType, IsStore
<1>2. tid = LoadTid(s.height) /\ LoadTid(s.height) \in Nat
  BY <1>1, LoadTidGrows DEF NodeOK, NodeIds
<1>3. Len(c[s.height + 1]) \in Nat
  <2>1. s.height + 1 \in 1 .. MaxHeight
    BY <1>1
  <2>2. c[s.height + 1] \in Seq(Commands)
    BY <1>1, <2>1, BlocksAssumption
  <2> QED BY <2>2
<1>4. NodeType(c, s, d, tid, "block", 0)
  BY <1>1, <1>3 DEF NodeOK, NodeType, Phases
<1>5. NodeIds(s, d, tid, "block", 0)
  BY <1>1, <1>2 DEF NodeOK, NodeIds
<1>6. \A k \in DOMAIN s.txs : s.txs[k].block <= s.height /\ s.txs[k].block \in Nat /\ k \in Nat
  BY <1>1 DEF NodeOK, NodeKept, IsStore, IsTable, Entries
<1>7. \A k \in DOMAIN s.txs : s.txs[k].block >= 2 => k <= tid
  <2> SUFFICES ASSUME NEW k \in DOMAIN s.txs, s.txs[k].block >= 2 PROVE k <= tid
    OBVIOUS
  <2>1. s.height >= 2
    BY <1>1, <1>6
  <2>2. k <= KeyLimit(s.height)
    BY <1>1 DEF NodeOK, NodeIds, Keys
  <2>3. KeyLimit(s.height) < LoadTid(s.height) /\ KeyLimit(s.height) \in Nat
    BY <1>1, <2>1, KeyLimits
  <2> QED BY <1>2, <1>6, <2>2, <2>3
<1>8. KeptUpTo(c, s, s.height + 1, 0)
  BY DEF KeptUpTo
<1>9. NodeKept(c, s, d, tid, "block", 0)
  BY <1>1, <1>6, <1>7, <1>8 DEF NodeOK, NodeKept
<1> QED BY <1>4, <1>5, <1>9 DEF NodeOK

LEMMA DeliverTxOK ==
    ASSUME NEW c, NEW s, NEW d, NEW tid, NEW dn, NEW legacy \in BOOLEAN,
           NodeOK(c, s, d, tid, "block", dn),
           dn < Len(c[s.height + 1]),
           NEW cmd, NEW entry, NEW r
    PROVE  (/\ cmd = c[s.height + 1][dn + 1]
            /\ entry = [block |-> s.height + 1, pos |-> dn + 1, legacy |-> legacy]
            /\ r = Apply(s, cmd, tid, entry))
           => /\ cmd \in Commands
              /\ entry \in Entries
              /\ NodeOK(c, r, d, tid + IdsTaken(cmd), "block", dn + 1)
<1>0. SUFFICES ASSUME cmd = c[s.height + 1][dn + 1],
                      entry = [block  |-> s.height + 1,
                               pos    |-> dn + 1,
                               legacy |-> legacy],
                      r = Apply(s, cmd, tid, entry)
               PROVE  /\ cmd \in Commands
                      /\ entry \in Entries
                      /\ NodeOK(c, r, d, tid + IdsTaken(cmd), "block", dn + 1)
  OBVIOUS
<1>1. /\ IsStore(s) /\ IsStore(d) /\ s.height \in Nat /\ d.height = s.height
      /\ tid \in Nat /\ dn \in Nat /\ s.height < MaxHeight
      /\ c \in [1 .. MaxHeight -> Blocks] /\ MaxHeight \in Nat
  BY BoundsAssumption DEF NodeOK, NodeType, IsStore
<1> DEFINE b == s.height + 1
<1>2. c[b] \in Seq(Commands) /\ b \in 1 .. MaxHeight
  BY <1>1, BlocksAssumption
<1>3. cmd \in Commands
  <2>1. dn + 1 \in 1 .. Len(c[b])
    BY <1>1, <1>2
  <2>2. c[b][dn + 1] \in Commands
    BY <1>2, <2>1
  <2> QED BY <1>0, <2>2
<1>4. entry \in Entries /\ entry.block = b /\ entry.pos = dn + 1
  BY <1>0, <1>1 DEF Entries
<1>5. IdsTaken(cmd) \in {1, 2}
  BY DEF IdsTaken
<1>6. /\ IsStore(r)
      /\ r.height = s.height
      /\ \A k \in Keys(r) : k \in Keys(s) \/ k <= tid + IdsTaken(cmd)
      /\ \A k \in DOMAIN s.txs :
            k <= tid => k \in DOMAIN r.txs /\ r.txs[k] = s.txs[k]
      /\ \A k \in DOMAIN r.txs :
            \/ k \in DOMAIN s.txs /\ r.txs[k] = s.txs[k]
            \/ r.txs[k] = entry /\ k <= tid + IdsTaken(cmd)
      /\ cmd = "submit" => \E k \in DOMAIN r.txs : r.txs[k] = entry
  <2>1. IsStore(s) /\ tid \in Nat /\ entry \in Entries /\ r = Apply(s, cmd, tid, entry)
    BY <1>0, <1>1, <1>4
  <2> QED BY <1>3, <2>1, ApplyFacts
<1>7. NodeType(c, r, d, tid + IdsTaken(cmd), "block", dn + 1)
  BY <1>1, <1>5, <1>6 DEF NodeOK, NodeType
<1>8. NodeIds(r, d, tid + IdsTaken(cmd), "block", dn + 1)
  <2>1. LoadTid(s.height) \in Nat /\ KeyLimit(s.height) \in Nat
    BY <1>1, LoadTidGrows, KeyLimits
  <2>2. /\ LoadTid(s.height) <= tid
        /\ tid <= LoadTid(s.height) + 2 * dn
        /\ \A k \in Keys(s) : k <= KeyLimit(s.height) \/ k <= tid
        /\ \A k \in Keys(d) : k <= KeyLimit(d.height)
    BY DEF NodeOK, NodeIds
  <2>3. Keys(s) \subseteq Nat
    BY <1>1 DEF Keys, IsStore, IsTable
  <2>4. \A k \in Keys(r) : k <= KeyLimit(r.height) \/ k <= tid + IdsTaken(cmd)
    BY <1>1, <1>5, <1>6, <2>1, <2>2, <2>3
  <2>5. /\ LoadTid(r.height) <= tid + IdsTaken(cmd)
        /\ tid + IdsTaken(cmd) <= LoadTid(r.height) + 2 * (dn + 1)
    BY <1>1, <1>5, <1>6, <2>1, <2>2
  <2> QED BY <2>2, <2>4, <2>5 DEF NodeIds
<1>9. NodeKept(c, r, d, tid + IdsTaken(cmd), "block", dn + 1)
  <2>1. /\ \A k \in DOMAIN s.txs : s.txs[k].block >= 2 => k <= tid
        /\ \A k \in DOMAIN s.txs : s.txs[k].block <= s.height + 1
        /\ AllKept(c, s, s.height)
        /\ s.height >= 1 => KeptUpTo(c, s, b, dn)
        /\ \A k \in DOMAIN d.txs : d.txs[k].block <= d.height
        /\ AllKept(c, d, d.height)
    BY DEF NodeOK, NodeKept
  <2>2. \A k \in DOMAIN s.txs :
           s.txs[k].block >= 2 =>
              /\ k \in DOMAIN r.txs
              /\ r.txs[k].block = s.txs[k].block
              /\ r.txs[k].pos = s.txs[k].pos
    BY <1>6, <2>1
  <2>3. AllKept(c, r, s.height) /\ (s.height >= 1 => KeptUpTo(c, r, b, dn))
    <3>1. AllKept(c, r, s.height)
      BY <1>1, <2>1, <2>2, AllKeptCarries
    <3>2. ASSUME s.height >= 1 PROVE KeptUpTo(c, r, b, dn)
      <4>1. b >= 2
        BY <1>1, <3>2
      <4> QED BY <1>1, <2>1, <2>2, <3>2, <4>1, AllKeptCarries
    <3> QED BY <3>1, <3>2
  <2>4. c[b][dn + 1] = "submit" => KeptIn(r, b, dn + 1)
    BY <1>0, <1>4, <1>6 DEF KeptIn
  <2>5. s.height >= 1 => KeptUpTo(c, r, b, dn + 1)
    <3>1. \A pos \in 1 .. dn + 1 : pos \in 1 .. dn \/ pos = dn + 1
      BY <1>1
    <3> QED BY <2>3, <2>4, <3>1 DEF KeptUpTo
  <2>6. \A k \in DOMAIN r.txs : r.txs[k].block >= 2 => k <= tid + IdsTaken(cmd)
    <3>1. \A k \in DOMAIN s.txs : k \in Nat
      BY <1>1 DEF IsStore, IsTable
    <3> QED BY <1>1, <1>5, <1>6, <2>1, <3>1
  <2>7. \A k \in DOMAIN r.txs : r.txs[k].block <= r.height + 1
    BY <1>1, <1>4, <1>6, <2>1
  <2> QED BY <1>6, <2>1, <2>3, <2>5, <2>6, <2>7 DEF NodeKept
<1> QED BY <1>3, <1>4, <1>7, <1>8, <1>9 DEF NodeOK

LEMMA CommitBlockOK ==
    ASSUME NEW c, NEW s, NEW d, NEW tid, NEW dn,
           NodeOK(c, s, d, tid, "block", dn),
           NEW r
    PROVE  dn = Len(c[s.height + 1]) /\ r = [s EXCEPT !.height = @ + 1]
           => NodeOK(c, r, r, tid, "committed", dn)
<1>0. SUFFICES ASSUME dn = Len(c[s.height + 1]), r = [s EXCEPT !.height = @ + 1]
               PROVE  NodeOK(c, r, r, tid, "committed", dn)
  OBVIOUS
<1>1. /\ IsStore(s) /\ s.height \in Nat
      /\ tid \in Nat /\ dn \in Nat /\ s.height < MaxHeight
      /\ c \in [1 .. MaxHeight -> Blocks]
      /\ MaxHeight \in Nat /\ MaxBlockLen \in Nat
  BY BoundsAssumption DEF NodeOK, NodeType, IsStore
<1>2. r = [height |-> s.height + 1, nb_events |-> s.nb_events,
           events |-> s.events, txs |-> s.txs]
  BY <1>0, <1>1 DEF IsStore
<1>3. /\ r.height = s.height + 1 /\ r.nb_events = s.nb_events
      /\ r.events = s.events /\ r.txs = s.txs
  BY <1>2
<1>4. IsStore(r)
  BY <1>1, <1>2, <1>3 DEF IsStore
<1>5. NodeType(c, r, r, tid, "committed", dn)
  BY <1>1, <1>3, <1>4 DEF NodeType, Phases
<1>6. NodeIds(r, r, tid, "committed", dn)
  <2>1. dn <= MaxBlockLen
    <3>1. s.height + 1 \in 1 .. MaxHeight
      BY <1>1
    <3> QED BY <1>0, <1>1, <3>1, BlocksAssumption
  <2>2. /\ tid <= LoadTid(s.height) + 2 * dn
        /\ \A k \in Keys(s) : k <= KeyLimit(s.height) \/ k <= tid
    BY DEF NodeOK, NodeIds
  <2>3. /\ LoadTid(s.height) \in Nat
        /\ KeyLimit(s.height) \in Nat
        /\ KeyLimit(s.height + 1) = LoadTid(s.height) + 2 * MaxBlockLen
        /\ KeyLimit(s.height) <= KeyLimit(s.height + 1)
    BY <1>1, LoadTidGrows, KeyLimits
  <2>4. Keys(s) \subseteq Nat
    BY <1>1 DEF Keys, IsStore, IsTable
  <2>5. \A k \in Keys(s) : k <= KeyLimit(s.height + 1)
    <3>1. tid <= KeyLimit(s.height + 1) /\ KeyLimit(s.height + 1) \in Nat
      BY <1>1, <2>1, <2>2, <2>3
    <3> SUFFICES ASSUME NEW k \in Keys(s) PROVE k <= KeyLimit(s.height + 1)
      OBVIOUS
    <3>2. k \in Nat /\ (k <= KeyLimit(s.height) \/ k <= tid)
      BY <2>2, <2>4
    <3> QED BY <1>1, <2>3, <3>1, <3>2
  <2> QED BY <1>3, <2>5 DEF NodeIds, Keys
<1>7. NodeKept(c, r, r, tid, "committed", dn)
  <2>1. /\ AllKept(c, s, s.height)
        /\ s.height >= 1 => KeptUpTo(c, s, s.height + 1, dn)
        /\ \A k \in DOMAIN s.txs : s.txs[k].block <= s.height + 1
    BY DEF NodeOK, NodeKept
  <2>2. AllKept(c, s, s.height + 1)
    <3>1. \A b \in 2 .. s.height + 1 : b \in 2 .. s.height \/ (b = s.height + 1 /\ s.height >= 1)
      BY <1>1
    <3> QED BY <1>0, <2>1, <3>1 DEF AllKept
  <2>3. AllKept(c, r, r.height)
    BY <1>3, <2>2 DEF AllKept, KeptUpTo, KeptIn
  <2> QED BY <1>3, <2>1, <2>3 DEF NodeKept
<1> QED BY <1>5, <1>6, <1>7 DEF NodeOK

\* The phases of commit after its first part, and those of a stopped node,
\* put no demand on tid.
LEMMA QuietOK ==
    ASSUME NEW c, NEW s, NEW d, NEW tid, NEW ph, NEW dn,
           NodeOK(c, s, d, tid, ph, dn),
           NEW tid2 \in Nat,
           NEW ph2 \in Phases \ {"block"},
           ph2 = "idle" => tid2 = LoadTid(d.height),
           ph2 \in {"committed", "migrating", "migrated"} => d.height >= 1
    PROVE  NodeOK(c, d, d, tid2, ph2, dn)
<1>1. NodeType(c, d, d, tid2, ph2, dn)
  BY DEF NodeOK, NodeType
<1>2. NodeIds(d, d, tid2, ph2, dn)
  BY DEF NodeOK, NodeIds
<1>3. NodeKept(c, d, d, tid2, ph2, dn)
  BY DEF NodeOK, NodeKept
<1> QED BY <1>1, <1>2, <1>3 DEF NodeOK

\* A step of the migration rewrites one of the tables.
LEMMA MigrateOK ==
    ASSUME NEW c, NEW s, NEW d, NEW tid, NEW ph, NEW dn, ph # "block",
           NodeOK(c, s, d, tid, ph, dn),
           NEW r,
           \/ r = [s EXCEPT !.events = Modernise(@)]
           \/ r = [s EXCEPT !.txs = Modernise(@)],
           NEW ph2 \in {"migrating", "migrated"},
           s.height >= 1
    PROVE  NodeOK(c, r, r, tid, ph2, dn)
<1>1. IsStore(s) /\ s = d /\ s.height \in Nat
  BY DEF NodeOK, NodeType, IsStore
<1> DEFINE ME == Modernise(s.events)
           MT == Modernise(s.txs)
<1>2. /\ IsTable(ME) /\ DOMAIN ME = DOMAIN s.events
      /\ IsTable(MT) /\ DOMAIN MT = DOMAIN s.txs
      /\ \A k \in DOMAIN s.txs :
            MT[k].block = s.txs[k].block /\ MT[k].pos = s.txs[k].pos
  BY <1>1, ModerniseFacts DEF IsStore
<1> HIDE DEF ME, MT
<1>3. PICK e, t : /\ r = [height |-> s.height, nb_events |-> s.nb_events,
                          events |-> e, txs |-> t]
                  /\ e \in {s.events, ME}
                  /\ t \in {s.txs, MT}
  BY <1>1 DEF IsStore, ME, MT
<1>4. /\ r.height = s.height /\ r.nb_events = s.nb_events
      /\ r.events = e /\ r.txs = t
  BY <1>3
<1>5. /\ IsTable(e) /\ DOMAIN e = DOMAIN s.events
      /\ IsTable(t) /\ DOMAIN t = DOMAIN s.txs
      /\ \A k \in DOMAIN s.txs :
            t[k].block = s.txs[k].block /\ t[k].pos = s.txs[k].pos
  BY <1>1, <1>2, <1>3 DEF IsStore
<1>6. IsStore(r)
  BY <1>1, <1>3, <1>4, <1>5 DEF IsStore
<1>7. NodeType(c, r, r, tid, ph2, dn)
  BY <1>4, <1>6 DEF NodeOK, NodeType, Phases
<1>8. NodeIds(r, r, tid, ph2, dn)
  BY <1>1, <1>4, <1>5 DEF NodeOK, NodeIds, Keys
<1>9. NodeKept(c, r, r, tid, ph2, dn)
  <2>1. AllKept(c, s, s.height) /\ \A k \in DOMAIN s.txs : s.txs[k].block <= s.height
    BY <1>1 DEF NodeOK, NodeKept
  <2>2. AllKept(c, r, s.height)
    BY <1>1, <1>4, <1>5, <2>1, AllKeptCarries
  <2> QED BY <1>4, <1>5, <2>1, <2>2 DEF NodeKept
<1> QED BY <1>7, <1>8, <1>9 DEF NodeOK

-----------------------------------------------------------------------------
(* The invariant is inductive.                                             *)

\* A step leaves the variables of node m alone.
Untouched(m) ==
    /\ store'[m] = store[m] /\ disk'[m] = disk[m]
    /\ latest_tid'[m] = latest_tid[m]
    /\ phase'[m] = phase[m] /\ done'[m] = done[m]

LEMMA InitInv == Init => IInv
<1> SUFFICES ASSUME Init PROVE IInv
  OBVIOUS
<1>1. \A n \in Nodes : NodeInv(n)
  BY GenesisOK DEF Init, NodeInv
<1>2. IsStore(Genesis)
  BY GenesisOK DEF Init, NodeOK, NodeType
<1>3. TypeOK
  BY <1>2, BoundsAssumption DEF Init, TypeOK, Phases
<1> QED BY <1>1, <1>3 DEF IInv

\* What a step of one node leaves of the invariant to be shown.
LEMMA OtherNodes ==
    ASSUME IInv, NEW n \in Nodes, UNCHANGED chain,
           \A m \in Nodes \ {n} : Untouched(m),
           NodeInv(n)',
           DOMAIN store' = Nodes, DOMAIN disk' = Nodes,
           latest_tid' \in [Nodes -> Nat], active' \in [Nodes -> BOOLEAN],
           phase' \in [Nodes -> Phases], done' \in [Nodes -> Nat],
           crashes' \in 0 .. MaxCrashes
    PROVE  IInv'
<1>1. \A m \in Nodes : NodeInv(m)'
  BY DEF IInv, NodeInv, Untouched
<1>2. \A m \in Nodes : IsStore(store'[m]) /\ IsStore(disk'[m])
  BY <1>1 DEF NodeInv, NodeOK, NodeType
<1>3. TypeOK'
  BY <1>2 DEF IInv, TypeOK
<1> QED BY <1>1, <1>3 DEF IInv

LEMMA NextInv == IInv /\ [Next]_vars => IInv'
<1> SUFFICES ASSUME IInv, [Next]_vars PROVE IInv'
  OBVIOUS
<1>t. /\ TypeOK
      /\ DOMAIN store = Nodes /\ DOMAIN disk = Nodes
      /\ latest_tid \in [Nodes -> Nat] /\ active \in [Nodes -> BOOLEAN]
      /\ phase \in [Nodes -> Phases] /\ done \in [Nodes -> Nat]
      /\ crashes \in 0 .. MaxCrashes /\ MaxCrashes \in Nat
  BY BoundsAssumption DEF IInv, TypeOK
<1>1. CASE UNCHANGED vars
  BY <1>1 DEF vars, IInv, TypeOK, NodeInv
<1>2. ASSUME NEW n \in Nodes, BeginBlock(n) PROVE IInv'
  <2>1. NodeOK(chain, store[n], disk[n], latest_tid[n], "idle", done[n])
    BY <1>2 DEF IInv, NodeInv, BeginBlock
  <2>2. NodeOK(chain, store[n], disk[n], latest_tid[n], "block", 0)
    BY <1>2, <2>1, BeginBlockOK DEF BeginBlock
  <2>3. NodeInv(n)'
    BY <1>2, <1>t, <2>2 DEF NodeInv, BeginBlock
  <2> QED BY <1>2, <1>t, <2>3, OtherNodes DEF BeginBlock, Untouched, Phases
<1>3. ASSUME NEW n \in Nodes, DeliverTx(n) PROVE IInv'
  <2>1. NodeOK(chain, store[n], disk[n], latest_tid[n], "block", done[n])
    BY <1>3 DEF IInv, NodeInv, DeliverTx
  <2> DEFINE cmd   == chain[store[n].height + 1][done[n] + 1]
             entry == [block  |-> store[n].height + 1,
                       pos    |-> done[n] + 1,
                       legacy |-> cmd = "submit" /\ ~active[n]]
             r     == Apply(store[n], cmd, latest_tid[n], entry)
  <2>2. /\ store' = [store EXCEPT ![n] = r]
        /\ latest_tid' = [latest_tid EXCEPT ![n] = @ + IdsTaken(cmd)]
        /\ done' = [done EXCEPT ![n] = @ + 1]
        /\ done[n] < Len(chain[store[n].height + 1])
        /\ UNCHANGED <<chain, disk, active, phase, crashes>>
        /\ phase[n] = "block"
    BY <1>3 DEF DeliverTx, CurrentBlock
  <2>3. (cmd = "submit" /\ ~active[n]) \in BOOLEAN
    OBVIOUS
  <2>4. NodeOK(chain, r, disk[n], latest_tid[n] + IdsTaken(cmd), "block", done[n] + 1)
    BY <2>1, <2>2, <2>3, DeliverTxOK
  <2>5. IdsTaken(cmd) \in Nat /\ latest_tid[n] \in Nat /\ done[n] \in Nat
    BY <1>3, <1>t DEF IdsTaken
  <2> HIDE DEF cmd, entry, r
  <2>6. NodeInv(n)'
    BY <1>t, <2>2, <2>4 DEF NodeInv
  <2>7. latest_tid[n] + IdsTaken(cmd) \in Nat /\ done[n] + 1 \in Nat
    BY <2>5
  <2>8. latest_tid' \in [Nodes -> Nat] /\ done' \in [Nodes -> Nat]
    BY <1>t, <2>2, <2>7
  <2> QED BY <1>t, <2>2, <2>6, <2>8, OtherNodes DEF Untouched
<1>4. ASSUME NEW n \in Nodes, CommitBlock(n) PROVE IInv'
  <2>1. NodeOK(chain, store[n], disk[n], latest_tid[n], "block", done[n])
    BY <1>4 DEF IInv, NodeInv, CommitBlock
  <2> DEFINE r == [store[n] EXCEPT !.height = @ + 1]
  <2>2. /\ store' = [store EXCEPT ![n] = r]
        /\ disk' = [disk EXCEPT ![n] = r]
        /\ phase' = [phase EXCEPT ![n] = "committed"]
        /\ UNCHANGED <<chain, latest_tid, active, done, crashes>>
        /\ done[n] = Len(chain[store[n].height + 1])
    BY <1>4, <1>t DEF CommitBlock, CurrentBlock
  <2>3. NodeOK(chain, r, r, latest_tid[n], "committed", done[n])
    BY <2>1, <2>2, CommitBlockOK
  <2> HIDE DEF r
  <2>4. NodeInv(n)'
    BY <1>t, <2>2, <2>3 DEF NodeInv
  <2> QED BY <1>t, <2>2, <2>4, OtherNodes DEF Untouched, Phases
<1>5. ASSUME NEW n \in Nodes, MigrateEvents(n) PROVE IInv'
  <2>1. /\ NodeOK(chain, store[n], disk[n], latest_tid[n], phase[n], done[n])
        /\ phase[n] = "committed"
    BY <1>5 DEF IInv, NodeInv, MigrateEvents
  <2> DEFINE r == [store[n] EXCEPT !.events = Modernise(@)]
  <2>2. /\ store' = [store EXCEPT ![n] = r]
        /\ disk' = [disk EXCEPT ![n] = r]
        /\ phase' = [phase EXCEPT ![n] = "migrating"]
        /\ UNCHANGED <<chain, latest_tid, active, done, crashes>>
    BY <1>5, <1>t DEF MigrateEvents
  <2>3. store[n].height >= 1
    BY <2>1 DEF NodeOK, NodeType
  <2>4. NodeOK(chain, r, r, latest_tid[n], "migrating", done[n])
    BY <2>1, <2>3, MigrateOK
  <2> HIDE DEF r
  <2>5. NodeInv(n)'
    BY <1>t, <2>2, <2>4 DEF NodeInv
  <2> QED BY <1>t, <2>2, <2>5, OtherNodes DEF Untouched, Phases
<1>6. ASSUME NEW n \in Nodes, MigrateTxs(n) PROVE IInv'
  <2>1. /\ NodeOK(chain, store[n], disk[n], latest_tid[n], phase[n], done[n])
        /\ phase[n] = "migrating"
    BY <1>6 DEF IInv, NodeInv, MigrateTxs
  <2> DEFINE r == [store[n] EXCEPT !.txs = Modernise(@)]
  <2>2. /\ store' = [store EXCEPT ![n] = r]
        /\ disk' = [disk EXCEPT ![n] = r]
        /\ active' = [active EXCEPT ![n] = TRUE]
        /\ phase' = [phase EXCEPT ![n] = "migrated"]
        /\ UNCHANGED <<chain, latest_tid, done, crashes>>
    BY <1>6, <1>t DEF MigrateTxs
  <2>3. store[n].height >= 1
    BY <2>1 DEF NodeOK, NodeType
  <2>4. NodeOK(chain, r, r, latest_tid[n], "migrated", done[n])
    BY <2>1, <2>3, MigrateOK
  <2> HIDE DEF r
  <2>5. NodeInv(n)'
    BY <1>t, <2>2, <2>4 DEF NodeInv
  <2> QED BY <1>t, <2>2, <2>5, OtherNodes DEF Untouched, Phases
<1>7. ASSUME NEW n \in Nodes, CommitDone(n) PROVE IInv'
  <2>1. /\ NodeOK(chain, store[n], disk[n], latest_tid[n], phase[n], done[n])
        /\ phase[n] \in {"committed", "migrated"}
    BY <1>7 DEF IInv, NodeInv, CommitDone
  <2>2. /\ store[n].height \in Nat /\ store[n].height >= 1
        /\ store[n] = disk[n]
    BY <2>1 DEF NodeOK, NodeType, IsStore
  <2>3. /\ CommitTid(store[n].height) = LoadTid(disk[n].height)
        /\ CommitTid(store[n].height) \in Nat
    BY <2>2, CommitTidIsLoadTid, LoadTidGrows
  <2>4. NodeOK(chain, disk[n], disk[n], CommitTid(store[n].height), "idle", done[n])
    BY <2>1, <2>3, QuietOK DEF Phases
  <2>5. NodeInv(n)'
    BY <1>7, <1>t, <2>2, <2>4 DEF NodeInv, CommitDone
  <2> QED BY <1>7, <1>t, <2>3, <2>5, OtherNodes DEF CommitDone, Untouched, Phases
<1>8. ASSUME NEW n \in Nodes, Crash(n) PROVE IInv'
  <2>1. /\ NodeOK(chain, store[n], disk[n], latest_tid[n], phase[n], done[n])
        /\ latest_tid[n] \in Nat
    BY <1>8, <1>t DEF IInv, NodeInv
  <2>2. NodeOK(chain, disk[n], disk[n], latest_tid[n], "down", done[n])
    BY <2>1, QuietOK DEF Phases
  <2>3. NodeInv(n)'
    BY <1>8, <1>t, <2>2 DEF NodeInv, Crash
  <2> QED BY <1>8, <1>t, <2>3, OtherNodes DEF Crash, Untouched, Phases
<1>9. ASSUME NEW n \in Nodes, Load(n) PROVE IInv'
  <2>1. /\ NodeOK(chain, store[n], disk[n], latest_tid[n], phase[n], done[n])
        /\ phase[n] = "down"
    BY <1>9 DEF IInv, NodeInv, Load
  <2>2. store[n] = disk[n] /\ disk[n].height \in Nat
    BY <2>1 DEF NodeOK, NodeType, IsStore
  <2>3. LoadTid(disk[n].height) \in Nat
    BY <2>2, LoadTidGrows
  <2>4. NodeOK(chain, disk[n], disk[n], LoadTid(disk[n].height), "idle", done[n])
    BY <2>1, <2>3, QuietOK DEF Phases
  <2>5. NodeInv(n)'
    BY <1>9, <1>t, <2>2, <2>4 DEF NodeInv, Load
  <2> QED BY <1>9, <1>t, <2>3, <2>5, OtherNodes DEF Load, Untouched, Phases
<1> QED BY <1>1, <1>2, <1>3, <1>4, <1>5, <1>6, <1>7, <1>8, <1>9 DEF Next, Step

-----------------------------------------------------------------------------
(* The theorems.                                                           *)

\* The inductive invariant holds in every reachable state.
THEOREM Invariance == Spec => []IInv
BY InitInv, NextInv, PTL DEF Spec

\* Type correctness: in particular every id that begin_block, commit and load
\* compute is a natural number, which (height - 1) << 32 is not at height 0.
THEOREM TypeCorrect == Spec => []TypeOK
<1>1. IInv => TypeOK
  BY DEF IInv
<1> QED BY <1>1, Invariance, PTL

\* Every multisig transaction submitted in block 2 or above stays in the store
\* under its token, whatever blocks, crashes, replays and migrations follow.
THEOREM SubmissionsStay == Spec => []SubmissionsKept
<1>1. IInv => SubmissionsKept
  <2> SUFFICES ASSUME IInv, NEW n \in Nodes, NEW b \in 2 .. store[n].height,
                      NEW pos \in 1 .. Len(chain[b]), chain[b][pos] = "submit"
               PROVE  Kept(n, b, pos)
    BY DEF SubmissionsKept
  <2>1. AllKept(chain, store[n], store[n].height)
    BY DEF IInv, NodeInv, NodeOK, NodeType, NodeKept
  <2> QED BY <2>1 DEF AllKept, KeptUpTo, KeptIn, Kept
<1> QED BY <1>1, Invariance, PTL

\* A block above the second only adds entries to the tables: the ids it takes
\* are new, also when it is replayed after a crash.
THEOREM IdsAreNew == Spec => NoOverwrite
<1> DEFINE Adds == \A n \in Nodes :
          (phase[n] = "block" /\ phase'[n] = "block" /\ store[n].height >= 2)
          => /\ \A k \in DOMAIN store[n].txs :
                    /\ k \in DOMAIN store'[n].txs
                    /\ store'[n].txs[k] = store[n].txs[k]
             /\ \A k \in DOMAIN store[n].events :
                    /\ k \in DOMAIN store'[n].events
                    /\ store'[n].events[k] = store[n].events[k]
<1>1. IInv /\ [Next]_vars => [Adds]_vars
  <2> SUFFICES ASSUME IInv, Next, NEW n \in Nodes,
                      phase[n] = "block", phase'[n] = "block",
                      store[n].height >= 2
               PROVE  /\ \A k \in DOMAIN store[n].txs :
                             /\ k \in DOMAIN store'[n].txs
                             /\ store'[n].txs[k] = store[n].txs[k]
                      /\ \A k \in DOMAIN store[n].events :
                             /\ k \in DOMAIN store'[n].events
                             /\ store'[n].events[k] = store[n].events[k]
    OBVIOUS
  <2>t. phase \in [Nodes -> Phases] /\ DOMAIN store = Nodes
    BY DEF IInv, TypeOK
  <2>1. CASE store'[n] = store[n]
    BY <2>1
  <2>2. CASE DeliverTx(n)
    <3>1. NodeOK(chain, store[n], disk[n], latest_tid[n], "block", done[n])
      BY DEF IInv, NodeInv
    <3> DEFINE cmd   == chain[store[n].height + 1][done[n] + 1]
               entry == [block  |-> store[n].height + 1,
                         pos    |-> done[n] + 1,
                         legacy |-> cmd = "submit" /\ ~active[n]]
               r     == Apply(store[n], cmd, latest_tid[n], entry)
    <3>2. /\ store' = [store EXCEPT ![n] = r]
          /\ done[n] < Len(chain[store[n].height + 1])
      BY <2>2 DEF DeliverTx, CurrentBlock
    <3>3. (cmd = "submit" /\ ~active[n]) \in BOOLEAN
      OBVIOUS
    <3>4. cmd \in Commands /\ entry \in Entries
      BY <3>1, <3>2, <3>3, DeliverTxOK, ZenonT(60)
    <3>5. /\ IsStore(store[n]) /\ latest_tid[n] \in Nat
          /\ store[n].height \in Nat
      BY <3>1 DEF NodeOK, NodeType, IsStore
    <3> HIDE DEF cmd, entry
    <3>6. /\ \A k \in DOMAIN store[n].txs :
                k <= latest_tid[n] => k \in DOMAIN r.txs /\ r.txs[k] = store[n].txs[k]
          /\ \A k \in DOMAIN store[n].events :
                k <= latest_tid[n] => k \in DOMAIN r.events /\ r.events[k] = store[n].events[k]
      BY <3>4, <3>5, ApplyFacts
    <3>7. \A k \in Keys(store[n]) : k <= latest_tid[n]
      <4>1. Keys(store[n]) \subseteq Nat
        BY <3>5 DEF Keys, IsStore, IsTable
      <4>2. /\ LoadTid(store[n].height) <= latest_tid[n]
            /\ \A k \in Keys(store[n]) :
                  k <= KeyLimit(store[n].height) \/ k <= latest_tid[n]
        BY <3>1 DEF NodeOK, NodeIds
      <4>3. /\ LoadTid(store[n].height) \in Nat
            /\ KeyLimit(store[n].height) \in Nat
            /\ KeyLimit(store[n].height) < LoadTid(store[n].height)
        BY <3>5, LoadTidGrows, KeyLimits
      <4> QED BY <3>5, <4>1, <4>2, <4>3
    <3>8. store'[n] = r
      BY <2>t, <3>2
    <3> QED BY <3>6, <3>7, <3>8 DEF Keys
  <2>3. store'[n] = store[n] \/ DeliverTx(n)
    BY <2>t DEF Next, Step, BeginBlock, DeliverTx, CommitBlock, MigrateEvents,
                MigrateTxs, CommitDone, Crash, Load
  <2> QED BY <2>1, <2>2, <2>3
<1> QED BY <1>1, Invariance, PTL DEF Spec, NoOverwrite

-----------------------------------------------------------------------------
(* What a step does to the variables of one node.                          *)

Keeps(n) ==
    /\ store'[n] = store[n] /\ disk'[n] = disk[n] /\ latest_tid'[n] = latest_tid[n]
    /\ active'[n] = active[n] /\ phase'[n] = phase[n] /\ done'[n] = done[n]

Begins(n) ==
    /\ phase[n] = "idle" /\ phase'[n] = "block" /\ done'[n] = 0
    /\ store[n].height < MaxHeight
    /\ store'[n] = store[n] /\ disk'[n] = disk[n] /\ latest_tid'[n] = latest_tid[n]
    /\ active'[n] = active[n]

\* The entry of command number i + 1 of the block after height h.
EntryOf(c, h, i, on) ==
    [block |-> h + 1, pos |-> i + 1, legacy |-> c[h + 1][i + 1] = "submit" /\ ~on]

Delivers(n) ==
    LET h == store[n].height
        i == done[n]
    IN  /\ phase[n] = "block" /\ phase'[n] = "block"
        /\ i < Len(chain[h + 1]) /\ done'[n] = i + 1
        /\ store'[n] = Apply(store[n], chain[h + 1][i + 1], latest_tid[n],
                             EntryOf(chain, h, i, active[n]))
        /\ latest_tid'[n] = latest_tid[n] + IdsTaken(chain[h + 1][i + 1])
        /\ disk'[n] = disk[n] /\ active'[n] = active[n]

Raised(s) == [s EXCEPT !.height = @ + 1]

Commits(n) ==
    /\ phase[n] = "block" /\ phase'[n] = "committed"
    /\ done[n] = Len(chain[store[n].height + 1])
    /\ store'[n] = Raised(store[n]) /\ disk'[n] = Raised(store[n])
    /\ latest_tid'[n] = latest_tid[n] /\ active'[n] = active[n] /\ done'[n] = done[n]

NewEvents(s) == [s EXCEPT !.events = Modernise(@)]

NewTxs(s) == [s EXCEPT !.txs = Modernise(@)]

MovesEvents(n) ==
    /\ phase[n] = "committed" /\ phase'[n] = "migrating"
    /\ store[n].height = MigrationHeight
    /\ store'[n] = NewEvents(store[n]) /\ disk'[n] = NewEvents(store[n])
    /\ latest_tid'[n] = latest_tid[n] /\ active'[n] = active[n] /\ done'[n] = done[n]

MovesTxs(n) ==
    /\ phase[n] = "migrating" /\ phase'[n] = "migrated"
    /\ store'[n] = NewTxs(store[n]) /\ disk'[n] = NewTxs(store[n])
    /\ active'[n] = TRUE
    /\ latest_tid'[n] = latest_tid[n] /\ done'[n] = done[n]

Finishes(n) ==
    /\ \/ phase[n] = "migrated"
       \/ phase[n] = "committed" /\ store[n].height # MigrationHeight
    /\ phase'[n] = "idle"
    /\ disk'[n] = store[n] /\ store'[n] = store[n]
    /\ latest_tid'[n] = CommitTid(store[n].height)
    /\ active'[n] = active[n] /\ done'[n] = done[n]

Stops(n) ==
    /\ phase[n] \in CrashPhases /\ phase'[n] = "down"
    /\ store'[n] = disk[n] /\ disk'[n] = disk[n]
    /\ latest_tid'[n] = latest_tid[n] /\ active'[n] = active[n] /\ done'[n] = done[n]

Loads(n) ==
    /\ phase[n] = "down" /\ phase'[n] = "idle"
    /\ latest_tid'[n] = LoadTid(disk[n].height)
    /\ active'[n] = (disk[n].height >= MigrationHeight)
    /\ store'[n] = store[n] /\ disk'[n] = disk[n] /\ done'[n] = done[n]

LEMMA StepsOfNode ==
    ASSUME IInv, [Next]_vars, NEW n \in Nodes
    PROVE  /\ chain' = chain
           /\ \/ Keeps(n) \/ Begins(n) \/ Delivers(n) \/ Commits(n) \/ MovesEvents(n)
              \/ MovesTxs(n) \/ Finishes(n) \/ Stops(n) \/ Loads(n)
<1>t. /\ DOMAIN store = Nodes /\ DOMAIN disk = Nodes
      /\ latest_tid \in [Nodes -> Nat] /\ active \in [Nodes -> BOOLEAN]
      /\ phase \in [Nodes -> Phases] /\ done \in [Nodes -> Nat]
  BY DEF IInv, TypeOK
<1>1. CASE UNCHANGED vars
  BY <1>1 DEF vars, Keeps
<1>2. ASSUME NEW m \in Nodes, Step(m) \/ Crash(m)
      PROVE  /\ chain' = chain
             /\ m # n => Keeps(n)
  BY <1>2, <1>t DEF Step, BeginBlock, DeliverTx, CommitBlock, MigrateEvents, MigrateTxs,
                    CommitDone, Load, Crash, Keeps
<1>3. CASE BeginBlock(n)
  BY <1>3, <1>t DEF BeginBlock, Begins
<1>4. CASE DeliverTx(n)
  BY <1>4, <1>t DEF DeliverTx, CurrentBlock, Delivers, EntryOf
<1>5. CASE CommitBlock(n)
  BY <1>5, <1>t DEF CommitBlock, CurrentBlock, Commits, Raised
<1>6. CASE MigrateEvents(n)
  BY <1>6, <1>t DEF MigrateEvents, MovesEvents, NewEvents
<1>7. CASE MigrateTxs(n)
  BY <1>7, <1>t DEF MigrateTxs, MovesTxs, NewTxs
<1>8. CASE CommitDone(n)
  BY <1>8, <1>t DEF CommitDone, Finishes
<1>9. CASE Crash(n)
  BY <1>9, <1>t DEF Crash, Stops
<1>10. CASE Load(n)
  BY <1>10, <1>t DEF Load, Loads
<1>11. CASE Next
  <2>1. PICK m \in Nodes : Step(m) \/ Crash(m)
    BY <1>11 DEF Next
  <2>2. chain' = chain /\ (m # n => Keeps(n))
    BY <1>2, <2>1
  <2>3. m = n => \/ BeginBlock(n) \/ DeliverTx(n) \/ CommitBlock(n) \/ MigrateEvents(n)
                 \/ MigrateTxs(n) \/ CommitDone(n) \/ Load(n) \/ Crash(n)
    BY <2>1 DEF Step
  <2> QED BY <1>3, <1>4, <1>5, <1>6, <1>7, <1>8, <1>9, <1>10, <2>2, <2>3
<1> QED BY <1>1, <1>11

-----------------------------------------------------------------------------
(* The number of events.                                                   *)

\* The first block logs nothing.
QuietStart(c) == MaxHeight > 0 /\ \A pos \in 1 .. Len(c[1]) : c[1][pos] = "reject"

Exact(s) == IsFiniteSet(DOMAIN s.events) /\ s.nb_events = Cardinality(DOMAIN s.events)

\* Ids are new from the second block on, when the first has left none.
EventsOK(c, s, d, tid, ph) ==
    QuietStart(c) =>
        /\ Exact(s) /\ Exact(d) /\ DOMAIN d.events \subseteq DOMAIN s.events
        /\ d.height <= 1 => DOMAIN d.events = {}
        /\ ph = "block" => /\ \A k \in DOMAIN s.events : k <= tid
                           /\ s.height = 0 => DOMAIN s.events = {}

CountInv == \A n \in Nodes : EventsOK(chain, store[n], disk[n], latest_tid[n], phase[n])

\* A command logs at most one event, under an id above tid.
LEMMA ApplyCounts ==
    ASSUME NEW s, IsStore(s), NEW cmd \in Commands, NEW tid \in Nat, NEW entry \in Entries,
           NEW r, r = Apply(s, cmd, tid, entry),
           Exact(s), \A k \in DOMAIN s.events : k <= tid
    PROVE  /\ Exact(r)
           /\ \A k \in DOMAIN r.events : k <= tid + IdsTaken(cmd)
           /\ cmd = "reject" => r = s
<1>0. IsTable(s.events) /\ s.nb_events \in Nat /\ DOMAIN s.events \subseteq Nat
  BY DEF IsStore, IsTable
<1>1. CASE cmd = "reject"
  BY <1>0, <1>1 DEF Apply, IdsTaken
<1>2. ASSUME NEW id \in {tid + 1, tid + 2}, r.nb_events = s.nb_events + 1,
             r.events = Put(s.events, id, entry), id <= tid + IdsTaken(cmd)
      PROVE  /\ Exact(r)
             /\ \A k \in DOMAIN r.events : k <= tid + IdsTaken(cmd)
  <2>1. id \in Nat /\ id \notin DOMAIN s.events
    BY <1>0, <1>2
  <2>2. DOMAIN r.events = DOMAIN s.events \cup {id}
    <3>1. DOMAIN Put(s.events, id, entry) = DOMAIN s.events \cup {id}
      BY DEF Put
    <3> QED BY <1>2, <3>1
  <2>3. IsFiniteSet(DOMAIN r.events) /\ Cardinality(DOMAIN r.events) = Cardinality(DOMAIN s.events) + 1
    <3> DEFINE D == DOMAIN s.events
    <3>1. IsFiniteSet(D) /\ id \notin D
      BY <2>1 DEF Exact
    <3> HIDE DEF D
    <3>2. IsFiniteSet(D \cup {id}) /\ Cardinality(D \cup {id}) = Cardinality(D) + 1
      BY <3>1, FS_AddElement
    <3> QED BY <2>2, <3>2 DEF D
  <2>4. IdsTaken(cmd) \in {1, 2}
    BY DEF IdsTaken
  <2> QED BY <1>0, <1>2, <2>2, <2>3, <2>4 DEF Exact
<1>3. CASE cmd = "log"
  <2>1. r.nb_events = s.nb_events + 1 /\ r.events = Put(s.events, tid + 1, entry)
    BY <1>3 DEF Apply, log_event, IsStore
  <2>2. tid + 1 <= tid + IdsTaken(cmd)
    BY <1>3 DEF IdsTaken
  <2> QED BY <1>2, <1>3, <2>1, <2>2
<1>4. CASE cmd = "submit"
  <2>1. r.nb_events = s.nb_events + 1 /\ r.events = Put(s.events, tid + 2, entry)
    BY <1>4 DEF Apply, log_event, IsStore
  <2>2. tid + 2 <= tid + IdsTaken(cmd)
    BY <1>4 DEF IdsTaken
  <2> QED BY <1>2, <1>4, <2>1, <2>2
<1> QED BY <1>1, <1>3, <1>4 DEF Commands

\* The types of one node, as the steps below need them.
LEMMA NodeFacts ==
    ASSUME IInv, NEW n \in Nodes
    PROVE  /\ IsStore(store[n]) /\ IsStore(disk[n])
           /\ store[n].height \in Nat /\ disk[n].height \in Nat
           /\ latest_tid[n] \in Nat /\ done[n] \in Nat /\ active[n] \in BOOLEAN
           /\ phase[n] \in Phases
           /\ phase[n] # "block" => store[n] = disk[n]
           /\ phase[n] = "block" => /\ store[n].height < MaxHeight
                                    /\ disk[n].height = store[n].height
                                    /\ done[n] <= Len(chain[store[n].height + 1])
           /\ phase[n] = "idle" => latest_tid[n] = LoadTid(store[n].height)
           /\ phase[n] \in {"committed", "migrating", "migrated"} => store[n].height >= 1
           /\ \A k \in Keys(disk[n]) : k <= KeyLimit(disk[n].height)
           /\ chain \in [1 .. MaxHeight -> Blocks]
BY DEF IInv, TypeOK, NodeInv, NodeOK, NodeType, NodeIds, IsStore

LEMMA CommandFacts ==
    ASSUME IInv, NEW n \in Nodes, Delivers(n), NEW on
    PROVE  /\ chain[store[n].height + 1][done[n] + 1] \in Commands
           /\ EntryOf(chain, store[n].height, done[n], on) \in Entries
           /\ done[n] + 1 \in 1 .. Len(chain[store[n].height + 1])
<1> DEFINE b == store[n].height + 1
<1>1. /\ store[n].height \in Nat /\ store[n].height < MaxHeight /\ done[n] \in Nat
      /\ chain \in [1 .. MaxHeight -> Blocks] /\ done[n] < Len(chain[b]) /\ MaxHeight \in Nat
  BY NodeFacts, BoundsAssumption DEF Delivers
<1>2. chain[b] \in Seq(Commands)
  BY <1>1, BlocksAssumption
<1>3. done[n] + 1 \in 1 .. Len(chain[b])
  BY <1>1, <1>2
<1>4. chain[b][done[n] + 1] \in Commands
  BY <1>2, <1>3
<1>5. EntryOf(chain, store[n].height, done[n], on) \in Entries
  BY <1>1 DEF EntryOf, Entries
<1> QED BY <1>3, <1>4, <1>5

\* Changes of a tree that leave its events where they are.
LEMMA SameEventIds ==
    ASSUME NEW s, IsStore(s), NEW r, r \in {Raised(s), NewEvents(s), NewTxs(s)}
    PROVE  /\ DOMAIN r.events = DOMAIN s.events /\ r.nb_events = s.nb_events
           /\ Exact(s) => Exact(r)
           /\ r.height = IF r = Raised(s) THEN s.height + 1 ELSE s.height
<1>1. s = [height |-> s.height, nb_events |-> s.nb_events, events |-> s.events, txs |-> s.txs]
  BY DEF IsStore
<1>2. IsTable(s.events) /\ IsTable(s.txs)
  BY DEF IsStore
<1> DEFINE ME == Modernise(s.events)
           MT == Modernise(s.txs)
<1>3. DOMAIN ME = DOMAIN s.events
  BY <1>2, ModerniseFacts
<1>4. \/ r = [height |-> s.height + 1, nb_events |-> s.nb_events, events |-> s.events, txs |-> s.txs] /\ r = Raised(s)
      \/ r = [height |-> s.height, nb_events |-> s.nb_events, events |-> ME, txs |-> s.txs]
      \/ r = [height |-> s.height, nb_events |-> s.nb_events, events |-> s.events, txs |-> MT]
  BY <1>1 DEF Raised, NewEvents, NewTxs
<1>5. Raised(s).height = s.height + 1
  BY <1>1 DEF Raised
<1> HIDE DEF ME, MT
<1>6. /\ DOMAIN r.events = DOMAIN s.events /\ r.nb_events = s.nb_events
      /\ r.height = IF r = Raised(s) THEN s.height + 1 ELSE s.height
  BY <1>3, <1>4, <1>5
<1> QED BY <1>6 DEF Exact

LEMMA CountInit == Init => CountInv
<1> SUFFICES ASSUME Init, NEW n \in Nodes
             PROVE  EventsOK(chain, store[n], disk[n], latest_tid[n], phase[n])
  BY DEF CountInv
<1>1. store[n] = Genesis /\ disk[n] = Genesis /\ phase[n] = "idle"
  BY DEF Init
<1>2. DOMAIN Genesis.events = {} /\ Genesis.nb_events = 0
  BY DEF Genesis, EmptyTable
<1>3. Exact(Genesis)
  BY <1>2, FS_EmptySet DEF Exact
<1> QED BY <1>1, <1>2, <1>3 DEF EventsOK

LEMMA CountStep == IInv /\ CountInv /\ [Next]_vars => CountInv'
<1> SUFFICES ASSUME IInv, CountInv, [Next]_vars, NEW n \in Nodes, QuietStart(chain)
             PROVE  /\ Exact(store'[n]) /\ Exact(disk'[n])
                    /\ DOMAIN disk'[n].events \subseteq DOMAIN store'[n].events
                    /\ disk'[n].height <= 1 => DOMAIN disk'[n].events = {}
                    /\ phase'[n] = "block" =>
                          /\ \A k \in DOMAIN store'[n].events : k <= latest_tid'[n]
                          /\ store'[n].height = 0 => DOMAIN store'[n].events = {}
  BY StepsOfNode DEF CountInv, EventsOK
<1> DEFINE s == store[n]
           d == disk[n]
<1>1. /\ Exact(s) /\ Exact(d) /\ DOMAIN d.events \subseteq DOMAIN s.events
      /\ d.height <= 1 => DOMAIN d.events = {}
      /\ phase[n] = "block" => /\ \A k \in DOMAIN s.events : k <= latest_tid[n]
                               /\ s.height = 0 => DOMAIN s.events = {}
  BY DEF CountInv, EventsOK
<1>2. /\ IsStore(s) /\ IsStore(d) /\ s.height \in Nat /\ d.height \in Nat
      /\ latest_tid[n] \in Nat /\ (phase[n] # "block" => s = d)
      /\ phase[n] = "block" => d.height = s.height
  BY NodeFacts
<1>3. CASE Keeps(n)
  BY <1>1, <1>3 DEF Keeps
<1>4. CASE Begins(n)
  <2>1. s = d /\ latest_tid[n] = LoadTid(s.height) /\ phase[n] = "idle"
    BY <1>4, NodeFacts DEF Begins
  <2>2. \A k \in DOMAIN s.events : k <= latest_tid[n]
    <3>1. CASE s.height <= 1
      BY <1>1, <2>1, <3>1
    <3>2. CASE s.height >= 2
      <4>1. KeyLimit(s.height) < LoadTid(s.height) /\ KeyLimit(s.height) \in Nat
        BY <1>2, <3>2, KeyLimits
      <4>2. \A k \in DOMAIN s.events : k \in Nat /\ k <= KeyLimit(s.height)
        BY <1>2, <2>1, NodeFacts DEF Keys, IsStore, IsTable
      <4> QED BY <1>2, <2>1, <4>1, <4>2
    <3> QED BY <1>2, <3>1, <3>2
  <2> QED BY <1>1, <1>2, <1>4, <2>1, <2>2 DEF Begins
<1>5. CASE Delivers(n)
  <2> DEFINE cmd == chain[s.height + 1][done[n] + 1]
             entry == EntryOf(chain, s.height, done[n], active[n])
             r == Apply(s, cmd, latest_tid[n], entry)
  <2>1. /\ store'[n] = r /\ disk'[n] = d /\ latest_tid'[n] = latest_tid[n] + IdsTaken(cmd)
        /\ phase[n] = "block" /\ phase'[n] = "block"
    BY <1>5 DEF Delivers
  <2>2. cmd \in Commands /\ entry \in Entries /\ done[n] + 1 \in 1 .. Len(chain[s.height + 1])
    BY <1>5, CommandFacts
  <2>3. s.height = 0 => cmd = "reject"
    <3>1. s.height = 0 => s.height + 1 = 1
      OBVIOUS
    <3> QED BY <2>2, <3>1 DEF QuietStart
  <2>4. r = Apply(s, cmd, latest_tid[n], entry)
    OBVIOUS
  <2> HIDE DEF cmd, entry, r
  <2>5. /\ Exact(r)
        /\ \A k \in DOMAIN r.events : k <= latest_tid[n] + IdsTaken(cmd)
        /\ cmd = "reject" => r = s
    BY <1>1, <1>2, <2>1, <2>2, <2>4, ApplyCounts
  <2>6. r.height = s.height
    BY <1>2, <2>2, <2>4, ApplyFacts, SMTT(60)
  <2>7. DOMAIN d.events \subseteq DOMAIN r.events
    <3>1. \A k \in DOMAIN s.events : k <= latest_tid[n] => k \in DOMAIN r.events
      BY <1>2, <2>2, <2>4, ApplyFacts, SMTT(60)
    <3> QED BY <1>1, <2>1, <3>1
  <2> QED BY <1>1, <2>1, <2>3, <2>5, <2>6, <2>7
<1>6. CASE Commits(n)
  <2> DEFINE r == Raised(s)
  <2>1. store'[n] = r /\ disk'[n] = r /\ phase'[n] = "committed" /\ phase[n] = "block"
    BY <1>6 DEF Commits
  <2>2. DOMAIN r.events = DOMAIN s.events /\ Exact(r) /\ r.height = s.height + 1
    BY <1>1, <1>2, SameEventIds
  <2> HIDE DEF r
  <2>3. r.height <= 1 => s.height = 0
    BY <1>2, <2>2
  <2> QED BY <1>1, <2>1, <2>2, <2>3
<1>7. ASSUME NEW r \in {NewEvents(s), NewTxs(s)}, phase[n] # "block", phase'[n] # "block",
             store'[n] = r, disk'[n] = r
      PROVE  /\ Exact(store'[n]) /\ Exact(disk'[n])
             /\ DOMAIN disk'[n].events \subseteq DOMAIN store'[n].events
             /\ disk'[n].height <= 1 => DOMAIN disk'[n].events = {}
  <2>1. DOMAIN r.events = DOMAIN s.events /\ Exact(r) /\ r.height \in {s.height, s.height + 1}
    BY <1>1, <1>2, <1>7, SameEventIds
  <2>2. r.height <= 1 => s.height <= 1
    BY <1>2, <2>1
  <2> QED BY <1>1, <1>2, <1>7, <2>1, <2>2
<1>8. CASE MovesEvents(n)
  BY <1>7, <1>8 DEF MovesEvents
<1>9. CASE MovesTxs(n)
  BY <1>7, <1>9 DEF MovesTxs
<1>10. CASE Finishes(n)
  BY <1>1, <1>2, <1>10 DEF Finishes
<1>11. CASE Stops(n)
  BY <1>1, <1>11 DEF Stops
<1>12. CASE Loads(n)
  BY <1>1, <1>12 DEF Loads
<1> QED BY <1>3, <1>4, <1>5, <1>6, <1>8, <1>9, <1>10, <1>11, <1>12, StepsOfNode

LEMMA SplitCardinality ==
    ASSUME NEW S, IsFiniteSet(S), NEW T \in SUBSET S
    PROVE  Cardinality(S) = Cardinality(T) + Cardinality(S \ T)
<1>1. S \cap T = T
  OBVIOUS
<1>2. Cardinality(S) \in Nat /\ Cardinality(T) \in Nat
  BY FS_Subset, FS_CardinalityType
<1>3. Cardinality(S \ T) = Cardinality(S) - Cardinality(S \cap T)
  BY FS_Difference
<1> QED BY <1>1, <1>2, <1>3

\* nb_events, which log_event reads and writes back, is the number of events
\* that events.list finds committed plus those of the block being executed,
\* across crashes and replays, if the first block logs none (its ids are taken
\* again by the second).
THEOREM EventsAreCounted == Spec => []NbEventsExact
<1>1. IInv /\ CountInv => NbEventsExact
  <2> SUFFICES ASSUME IInv, CountInv, NEW n \in Nodes, QuietStart(chain)
               PROVE  /\ store[n].nb_events =
                            Cardinality(Listed(n)) + Cardinality(DOMAIN store[n].events \ Listed(n))
                      /\ phase[n] # "block" => store[n].nb_events = Cardinality(Listed(n))
    BY DEF NbEventsExact, QuietStart
  <2>1. /\ Exact(store[n])
        /\ DOMAIN disk[n].events \subseteq DOMAIN store[n].events
    BY DEF CountInv, EventsOK
  <2>2. Cardinality(DOMAIN store[n].events) =
            Cardinality(Listed(n)) + Cardinality(DOMAIN store[n].events \ Listed(n))
    BY <2>1, SplitCardinality DEF Exact, Listed
  <2>3. phase[n] # "block" => store[n] = disk[n]
    BY NodeFacts
  <2> QED BY <2>1, <2>2, <2>3 DEF Exact, Listed
<1> QED BY <1>1, CountInit, CountStep, Invariance, PTL DEF Spec

-----------------------------------------------------------------------------
(* The order of the keys.                                                  *)

\* Nothing was executed after command i of block b.
AtMost(e, b, i) == e.block < b \/ (e.block = b /\ e.pos <= i)

\* What the next id, above tid, is put after.
Ready(table, tid, b, i) ==
    /\ InOrder(table)
    /\ \A k \in DOMAIN table : table[k].block >= 2 => k <= tid /\ AtMost(table[k], b, i)

Resting(table, h) ==
    /\ InOrder(table)
    /\ \A k \in DOMAIN table : table[k].block <= h

NodeOrder(s, d, tid, ph, dn) ==
    /\ Resting(d.events, d.height) /\ Resting(d.txs, d.height)
    /\ \A k \in DOMAIN s.events : s.events[k].block <= s.height + 1
    /\ \A k \in DOMAIN s.txs : s.txs[k].block <= s.height + 1
    /\ ph = "block" => /\ Ready(s.events, tid, s.height + 1, dn)
                       /\ Ready(s.txs, tid, s.height + 1, dn)

OrderInv ==
    \A n \in Nodes : NodeOrder(store[n], disk[n], latest_tid[n], phase[n], done[n])

\* A command's entry comes last, under an id above all of block 2 and later.
LEMMA PutReady ==
    ASSUME NEW table, IsTable(table), NEW tid \in Nat, NEW b \in Nat, NEW i \in Nat,
           Ready(table, tid, b, i), \A k \in DOMAIN table : table[k].block <= b,
           NEW id \in Nat, tid < id, NEW entry \in Entries,
           entry.block = b, entry.pos = i + 1, NEW top \in Nat, id <= top
    PROVE  /\ Ready(Put(table, id, entry), top, b, i + 1)
           /\ \A k \in DOMAIN Put(table, id, entry) : Put(table, id, entry)[k].block <= b
<1> DEFINE T == Put(table, id, entry)
<1>1. /\ DOMAIN T = DOMAIN table \cup {id} /\ T[id] = entry
      /\ \A k \in DOMAIN table \ {id} : T[k] = table[k]
  BY DEF Put
<1>2. \A k \in DOMAIN table : k \in Nat /\ table[k].block \in Nat /\ table[k].pos \in Nat
  BY DEF IsTable, Entries
<1> HIDE DEF T
<1>3. \A k \in DOMAIN T : T[k].block >= 2 => k <= id /\ AtMost(T[k], b, i + 1)
  BY <1>1, <1>2 DEF Ready, AtMost
<1>4. InOrder(T)
  <2> SUFFICES ASSUME NEW k \in DOMAIN T, NEW l \in DOMAIN T, k < l,
                      T[k].block >= 2, T[l].block >= 2
               PROVE  Before(T[k], T[l])
    BY DEF InOrder
  <2>1. k # id
    BY <1>1, <1>2, <1>3
  <2>2. k \in DOMAIN table /\ T[k] = table[k] /\ AtMost(table[k], b, i)
    BY <1>1, <2>1 DEF Ready
  <2>3. CASE l = id
    BY <1>1, <1>2, <2>2, <2>3 DEF AtMost, Before
  <2>4. CASE l # id
    BY <1>1, <2>2, <2>4 DEF Ready, InOrder
  <2> QED BY <2>3, <2>4
<1>5. \A k \in DOMAIN T : T[k].block <= b
  BY <1>1
<1>6. Ready(T, top, b, i + 1)
  BY <1>1, <1>2, <1>3, <1>4 DEF Ready
<1> QED BY <1>5, <1>6 DEF T

\* A command that writes nothing to a table, or takes ids only.
LEMMA ReadyGrows ==
    ASSUME NEW table, IsTable(table), NEW tid \in Nat, NEW b \in Nat, NEW i \in Nat,
           Ready(table, tid, b, i), NEW top \in Nat, tid <= top
    PROVE  Ready(table, top, b, i + 1)
<1>1. \A k \in DOMAIN table : k \in Nat /\ table[k].block \in Nat /\ table[k].pos \in Nat
  BY DEF IsTable, Entries
<1> QED BY <1>1 DEF Ready, AtMost

LEMMA ApplyReady ==
    ASSUME NEW s, IsStore(s), NEW cmd \in Commands, NEW tid \in Nat, NEW entry \in Entries,
           NEW i \in Nat, entry.block = s.height + 1, entry.pos = i + 1,
           \A k \in DOMAIN s.events : s.events[k].block <= s.height + 1,
           \A k \in DOMAIN s.txs : s.txs[k].block <= s.height + 1,
           Ready(s.events, tid, s.height + 1, i), Ready(s.txs, tid, s.height + 1, i),
           NEW r, r = Apply(s, cmd, tid, entry)
    PROVE  /\ Ready(r.events, tid + IdsTaken(cmd), s.height + 1, i + 1)
           /\ Ready(r.txs, tid + IdsTaken(cmd), s.height + 1, i + 1)
           /\ \A k \in DOMAIN r.events : r.events[k].block <= s.height + 1
           /\ \A k \in DOMAIN r.txs : r.txs[k].block <= s.height + 1
<1>0. /\ IsTable(s.events) /\ IsTable(s.txs) /\ s.height \in Nat /\ s.height + 1 \in Nat
      /\ tid + 1 \in Nat /\ tid + 2 \in Nat
  BY DEF IsStore
<1>1. CASE cmd = "reject"
  <2>1. r = s /\ IdsTaken(cmd) = 1
    BY <1>1 DEF Apply, IdsTaken
  <2> QED BY <1>0, <2>1, ReadyGrows
<1>2. CASE cmd = "log"
  <2>1. r.events = Put(s.events, tid + 1, entry) /\ r.txs = s.txs /\ IdsTaken(cmd) = 1
    BY <1>2 DEF Apply, log_event, IsStore, IdsTaken
  <2>2. Ready(r.txs, tid + 1, s.height + 1, i + 1)
    BY <1>0, <2>1, ReadyGrows
  <2>3. /\ Ready(r.events, tid + 1, s.height + 1, i + 1)
        /\ \A k \in DOMAIN r.events : r.events[k].block <= s.height + 1
    BY <1>0, <2>1, PutReady
  <2> QED BY <2>1, <2>2, <2>3
<1>3. CASE cmd = "submit"
  <2>1. /\ r.events = Put(s.events, tid + 2, entry) /\ r.txs = Put(s.txs, tid + 1, entry)
        /\ IdsTaken(cmd) = 2
    BY <1>3 DEF Apply, log_event, IsStore, IdsTaken
  <2>2. /\ Ready(r.txs, tid + 2, s.height + 1, i + 1)
        /\ \A k \in DOMAIN r.txs : r.txs[k].block <= s.height + 1
    BY <1>0, <2>1, PutReady
  <2>3. /\ Ready(r.events, tid + 2, s.height + 1, i + 1)
        /\ \A k \in DOMAIN r.events : r.events[k].block <= s.height + 1
    BY <1>0, <2>1, PutReady
  <2> QED BY <2>1, <2>2, <2>3
<1> QED BY <1>1, <1>2, <1>3 DEF Commands

\* A migrated table holds the same blocks and positions.
LEMMA ModerniseResting ==
    ASSUME NEW table, IsTable(table), NEW h, Resting(table, h)
    PROVE  Resting(Modernise(table), h)
<1>1. /\ DOMAIN Modernise(table) = DOMAIN table
      /\ \A k \in DOMAIN table :
            /\ Modernise(table)[k].block = table[k].block
            /\ Modernise(table)[k].pos = table[k].pos
  BY ModerniseFacts
<1> QED BY <1>1 DEF Resting, InOrder, Before

LEMMA OrderInit == Init => OrderInv
<1> SUFFICES ASSUME Init, NEW n \in Nodes
             PROVE  NodeOrder(store[n], disk[n], latest_tid[n], phase[n], done[n])
  BY DEF OrderInv
<1>1. store[n] = Genesis /\ disk[n] = Genesis /\ phase[n] = "idle"
  BY DEF Init
<1>2. DOMAIN Genesis.events = {} /\ DOMAIN Genesis.txs = {}
  BY DEF Genesis, EmptyTable
<1> QED BY <1>1, <1>2 DEF NodeOrder, Resting, InOrder

LEMMA OrderStep == IInv /\ OrderInv /\ [Next]_vars => OrderInv'
<1> SUFFICES ASSUME IInv, OrderInv, [Next]_vars, NEW n \in Nodes
             PROVE  NodeOrder(store'[n], disk'[n], latest_tid'[n], phase'[n], done'[n])
  BY DEF OrderInv
<1> DEFINE s == store[n]
           d == disk[n]
           h == s.height
<1>1. NodeOrder(s, d, latest_tid[n], phase[n], done[n])
  BY DEF OrderInv
<1>2. /\ IsStore(s) /\ IsStore(d) /\ h \in Nat /\ d.height \in Nat
      /\ latest_tid[n] \in Nat /\ done[n] \in Nat /\ (phase[n] # "block" => s = d)
      /\ phase[n] = "block" => d.height = h
  BY NodeFacts
<1>3. /\ IsTable(s.events) /\ IsTable(s.txs)
      /\ \A k \in DOMAIN s.events : k \in Nat /\ s.events[k].block \in Nat /\ s.events[k].pos \in Nat
      /\ \A k \in DOMAIN s.txs : k \in Nat /\ s.txs[k].block \in Nat /\ s.txs[k].pos \in Nat
  BY <1>2 DEF IsStore, IsTable, Entries
<1>4. ASSUME NEW r, NEW tid, NEW ph, NEW dn, ph # "block", r.height \in Nat,
             Resting(r.events, r.height), Resting(r.txs, r.height), IsStore(r)
      PROVE  NodeOrder(r, r, tid, ph, dn)
  <2>1. /\ \A k \in DOMAIN r.events : r.events[k].block \in Nat
        /\ \A k \in DOMAIN r.txs : r.txs[k].block \in Nat
    BY <1>4 DEF IsStore, IsTable, Entries
  <2> QED BY <1>4, <2>1 DEF NodeOrder, Resting
<1>5. CASE Keeps(n)
  BY <1>1, <1>5 DEF Keeps
<1>6. CASE Begins(n)
  <2>1. /\ s = d /\ latest_tid[n] = LoadTid(h) /\ latest_tid'[n] = latest_tid[n]
        /\ store'[n] = s /\ disk'[n] = d /\ phase'[n] = "block" /\ done'[n] = 0
    BY <1>6, NodeFacts DEF Begins
  <2>2. ASSUME NEW table \in {s.events, s.txs} PROVE Ready(table, latest_tid[n], h + 1, 0)
    <3>1. Resting(table, h) /\ DOMAIN table \subseteq Keys(d)
      BY <1>1, <2>1 DEF NodeOrder, Keys
    <3>2. \A k \in DOMAIN table : /\ k \in Nat /\ table[k].block \in Nat
                                   /\ k <= KeyLimit(h) /\ table[k].block <= h
      BY <1>3, <2>1, <3>1, NodeFacts DEF Resting
    <3>3. h >= 2 => KeyLimit(h) < LoadTid(h) /\ KeyLimit(h) \in Nat /\ LoadTid(h) \in Nat
      BY <1>2, KeyLimits, LoadTidGrows
    <3> HIDE DEF h
    <3>4. \A k \in DOMAIN table : table[k].block >= 2 => k <= latest_tid[n]
      BY <1>2, <2>1, <3>2, <3>3
    <3>5. \A k \in DOMAIN table : AtMost(table[k], h + 1, 0)
      BY <1>2, <3>2 DEF AtMost
    <3> QED BY <3>1, <3>4, <3>5 DEF Ready, Resting
  <2> QED BY <1>1, <2>1, <2>2 DEF NodeOrder
<1>7. CASE Delivers(n)
  <2> DEFINE cmd == chain[h + 1][done[n] + 1]
             entry == EntryOf(chain, h, done[n], active[n])
             r == Apply(s, cmd, latest_tid[n], entry)
  <2>1. /\ store'[n] = r /\ disk'[n] = d /\ latest_tid'[n] = latest_tid[n] + IdsTaken(cmd)
        /\ phase[n] = "block" /\ phase'[n] = "block" /\ done'[n] = done[n] + 1
    BY <1>7 DEF Delivers
  <2>2. cmd \in Commands /\ entry \in Entries
    BY <1>7, CommandFacts
  <2>3. entry.block = h + 1 /\ entry.pos = done[n] + 1
    BY DEF EntryOf
  <2>4. r = Apply(s, cmd, latest_tid[n], entry)
    OBVIOUS
  <2> HIDE DEF cmd, entry, r
  <2>5. r.height = h
    BY <1>2, <2>2, <2>4, ApplyFacts, SMTT(60)
  <2>6. /\ Ready(s.events, latest_tid[n], h + 1, done[n]) /\ Ready(s.txs, latest_tid[n], h + 1, done[n])
        /\ \A k \in DOMAIN s.events : s.events[k].block <= h + 1
        /\ \A k \in DOMAIN s.txs : s.txs[k].block <= h + 1
        /\ Resting(d.events, d.height) /\ Resting(d.txs, d.height)
    BY <1>1, <2>1 DEF NodeOrder
  <2>7. /\ Ready(r.events, latest_tid[n] + IdsTaken(cmd), h + 1, done[n] + 1)
        /\ Ready(r.txs, latest_tid[n] + IdsTaken(cmd), h + 1, done[n] + 1)
        /\ \A k \in DOMAIN r.events : r.events[k].block <= h + 1
        /\ \A k \in DOMAIN r.txs : r.txs[k].block <= h + 1
    BY <1>2, <2>2, <2>3, <2>4, <2>6, ApplyReady
  <2> QED BY <2>1, <2>5, <2>6, <2>7 DEF NodeOrder
<1>8. CASE Commits(n)
  <2> DEFINE r == Raised(s)
  <2>1. store'[n] = r /\ disk'[n] = r /\ phase'[n] = "committed" /\ phase[n] = "block"
    BY <1>8 DEF Commits
  <2>2. r.height = h + 1 /\ r.events = s.events /\ r.txs = s.txs
    BY <1>2 DEF Raised, IsStore
  <2> HIDE DEF r
  <2>3. Resting(r.events, r.height) /\ Resting(r.txs, r.height)
    BY <1>1, <2>1, <2>2 DEF NodeOrder, Ready, Resting
  <2>4. IsStore(store'[n])
    BY NextInv DEF IInv, TypeOK
  <2> QED BY <1>2, <1>4, <2>1, <2>2, <2>3, <2>4
<1>9. CASE MovesEvents(n)
  <2> DEFINE r == NewEvents(s)
  <2>1. store'[n] = r /\ disk'[n] = r /\ phase'[n] = "migrating" /\ s = d
    BY <1>2, <1>9 DEF MovesEvents
  <2>2. r.events = Modernise(s.events) /\ r.txs = s.txs /\ r.height = h
    BY <1>2 DEF NewEvents, IsStore
  <2> HIDE DEF r
  <2>3. Resting(r.events, r.height) /\ Resting(r.txs, r.height)
    BY <1>1, <1>3, <2>1, <2>2, ModerniseResting DEF NodeOrder
  <2>4. IsStore(store'[n])
    BY NextInv DEF IInv, TypeOK
  <2> QED BY <1>2, <1>4, <2>1, <2>2, <2>3, <2>4
<1>10. CASE MovesTxs(n)
  <2> DEFINE r == NewTxs(s)
  <2>1. store'[n] = r /\ disk'[n] = r /\ phase'[n] = "migrated" /\ s = d
    BY <1>2, <1>10 DEF MovesTxs
  <2>2. r.txs = Modernise(s.txs) /\ r.events = s.events /\ r.height = h
    BY <1>2 DEF NewTxs, IsStore
  <2> HIDE DEF r
  <2>3. Resting(r.events, r.height) /\ Resting(r.txs, r.height)
    BY <1>1, <1>3, <2>1, <2>2, ModerniseResting DEF NodeOrder
  <2>4. IsStore(store'[n])
    BY NextInv DEF IInv, TypeOK
  <2> QED BY <1>2, <1>4, <2>1, <2>2, <2>3, <2>4
<1>11. CASE Finishes(n) \/ Stops(n) \/ Loads(n)
  <2>1. store'[n] = d /\ disk'[n] = d /\ phase'[n] # "block"
    BY <1>2, <1>11 DEF Finishes, Stops, Loads
  <2>2. Resting(d.events, d.height) /\ Resting(d.txs, d.height)
    BY <1>1 DEF NodeOrder
  <2> QED BY <1>2, <1>4, <2>1, <2>2
<1> QED BY <1>5, <1>6, <1>7, <1>8, <1>9, <1>10, <1>11, StepsOfNode

\* Among what block 2 and later ones wrote, ids are in the order of execution,
\* on every node, whatever crashes and replays there were.
THEOREM KeysAreInOrder == Spec => []KeysFollowExecution
<1>1. IInv /\ OrderInv => KeysFollowExecution
  <2> SUFFICES ASSUME IInv, OrderInv, NEW n \in Nodes
               PROVE  InOrder(store[n].events) /\ InOrder(store[n].txs)
    BY DEF KeysFollowExecution
  <2>1. NodeOrder(store[n], disk[n], latest_tid[n], phase[n], done[n])
    BY DEF OrderInv
  <2>2. phase[n] # "block" => store[n] = disk[n]
    BY NodeFacts
  <2> QED BY <2>1, <2>2 DEF NodeOrder, Ready, Resting
<1> QED BY <1>1, OrderInit, OrderStep, Invariance, PTL DEF Spec

-----------------------------------------------------------------------------
(* The replay of a chain: what a node without crashes holds at height h    *)
(* after i commands of the next block, and its latest_tid.                 *)

BlockLen(c, h) == IF h < MaxHeight THEN Len(c[h + 1]) ELSE 0

Delivered(c, h, i, x) ==
    [s |-> Apply(x.s, c[h + 1][i + 1], x.t, EntryOf(c, h, i, h >= MigrationHeight)),
     t |-> x.t + IdsTaken(c[h + 1][i + 1])]

Runs(g, c, h, x, n) ==
    /\ g[0] = x
    /\ \A i \in 0 .. n - 1 : g[i + 1] = Delivered(c, h, i, g[i])

\* The store after commit, the migration included.
Settled(s) ==
    IF s.height + 1 = MigrationHeight THEN NewTxs(NewEvents(Raised(s))) ELSE Raised(s)

Start(f, c, h) ==
    IF h = 0 THEN [s |-> Genesis, t |-> 0]
    ELSE [s |-> Settled(f[h - 1][BlockLen(c, h - 1)].s), t |-> LoadTid(h)]

Replays(f, c, N) == \A h \in 0 .. N : Runs(f[h], c, h, Start(f, c, h), BlockLen(c, h))

LEMMA RunsExist ==
    ASSUME NEW c, NEW h, NEW x, NEW N \in Nat
    PROVE  \E g : Runs(g, c, h, x, N)
<1> DEFINE S == {n \in 0 .. N : \E g : Runs(g, c, h, x, n)}
<1>1. 0 \in S
  <2> DEFINE g == [i \in 0 .. 0 |-> x]
  <2>1. g[0] = x
    OBVIOUS
  <2> HIDE DEF g
  <2>2. Runs(g, c, h, x, 0)
    BY <2>1 DEF Runs
  <2> QED BY <2>2
<1>2. ASSUME NEW n \in S, n < N PROVE n + 1 \in S
  <2>1. PICK g : Runs(g, c, h, x, n)
    OBVIOUS
  <2>2. n \in Nat /\ n + 1 \in 0 .. N
    BY <1>2
  <2> DEFINE k == [i \in 0 .. n + 1 |-> IF i <= n THEN g[i] ELSE Delivered(c, h, n, g[n])]
  <2>3. \A i \in 0 .. n : k[i] = g[i]
    BY <2>2
  <2>4. k[n + 1] = Delivered(c, h, n, g[n])
    BY <2>2
  <2> HIDE DEF k
  <2>5. ASSUME NEW i \in 0 .. (n + 1) - 1 PROVE k[i + 1] = Delivered(c, h, i, k[i])
    <3>1. CASE i = n
      BY <2>2, <2>3, <2>4, <3>1
    <3>2. CASE i # n
      <4>1. i \in 0 .. n - 1 /\ i \in 0 .. n /\ i + 1 \in 0 .. n
        BY <2>2, <3>2
      <4> QED BY <2>1, <2>3, <4>1 DEF Runs
    <3> QED BY <3>1, <3>2
  <2>6. k[0] = x
    <3>1. 0 \in 0 .. n
      BY <2>2
    <3> QED BY <2>1, <2>3, <3>1 DEF Runs
  <2>7. Runs(k, c, h, x, n + 1)
    BY <2>5, <2>6 DEF Runs
  <2> QED BY <2>2, <2>7
<1>3. S \in SUBSET (0 .. N)
  OBVIOUS
<1> HIDE DEF S
<1>4. S = 0 .. N
  BY <1>1, <1>2, <1>3, InductionUpTo
<1>5. N \in S
  BY <1>4
<1> QED BY <1>5 DEF S

LEMMA BlockLenType ==
    ASSUME NEW c \in [1 .. MaxHeight -> Blocks], NEW h \in Nat
    PROVE  BlockLen(c, h) \in Nat
<1>1. CASE h < MaxHeight
  <2>1. h + 1 \in 1 .. MaxHeight
    BY <1>1, BoundsAssumption
  <2>2. c[h + 1] \in Seq(Commands)
    BY <2>1, BlocksAssumption
  <2> QED BY <1>1, <2>2 DEF BlockLen
<1>2. CASE ~(h < MaxHeight)
  BY <1>2 DEF BlockLen
<1> QED BY <1>1, <1>2

LEMMA ReplaysExist ==
    ASSUME NEW c \in [1 .. MaxHeight -> Blocks]
    PROVE  \E f : Replays(f, c, MaxHeight)
<1> DEFINE N == MaxHeight
           S == {n \in 0 .. N : \E f : Replays(f, c, n)}
<1>0. N \in Nat
  BY BoundsAssumption
<1>1. 0 \in S
  <2>1. PICK g : Runs(g, c, 0, [s |-> Genesis, t |-> 0], BlockLen(c, 0))
    BY BlockLenType, RunsExist
  <2> DEFINE f == [h \in 0 .. 0 |-> g]
  <2>2. f[0] = g
    OBVIOUS
  <2>3. Start(f, c, 0) = [s |-> Genesis, t |-> 0]
    BY DEF Start
  <2> HIDE DEF f
  <2>4. Replays(f, c, 0)
    BY <2>1, <2>2, <2>3 DEF Replays
  <2> QED BY <1>0, <2>4
<1>2. ASSUME NEW n \in S, n < N PROVE n + 1 \in S
  <2>1. PICK f : Replays(f, c, n)
    OBVIOUS
  <2>2. n \in Nat /\ n + 1 \in 0 .. N
    BY <1>0, <1>2
  <2>3. PICK g : Runs(g, c, n + 1, Start(f, c, n + 1), BlockLen(c, n + 1))
    <3>1. n + 1 \in Nat
      BY <2>2
    <3>2. BlockLen(c, n + 1) \in Nat
      BY <3>1, BlockLenType
    <3> QED BY <3>2, RunsExist
  <2> DEFINE k == [h \in 0 .. n + 1 |-> IF h <= n THEN f[h] ELSE g]
  <2>4. (\A h \in 0 .. n : k[h] = f[h]) /\ k[n + 1] = g
    BY <2>2
  <2> HIDE DEF k
  <2>5. \A h \in 0 .. n + 1 : Start(k, c, h) = Start(f, c, h)
    <3>1. SUFFICES ASSUME NEW h \in 0 .. n + 1, h # 0 PROVE k[h - 1] = f[h - 1]
      BY DEF Start
    <3>2. h - 1 \in 0 .. n
      BY <2>2, <3>1
    <3> QED BY <2>4, <3>2
  <2>6. ASSUME NEW h \in 0 .. n + 1 PROVE Runs(k[h], c, h, Start(k, c, h), BlockLen(c, h))
    <3>1. CASE h \in 0 .. n
      BY <2>1, <2>4, <2>5, <3>1 DEF Replays
    <3>2. CASE h = n + 1
      BY <2>3, <2>4, <2>5, <3>2
    <3> QED BY <2>2, <3>1, <3>2
  <2>7. Replays(k, c, n + 1)
    BY <2>6 DEF Replays
  <2> QED BY <2>2, <2>7
<1>3. S \in SUBSET (0 .. N)
  OBVIOUS
<1> HIDE DEF S, N
<1>4. S = 0 .. N
  BY <1>0, <1>1, <1>2, <1>3, InductionUpTo
<1>5. N \in S
  BY <1>0, <1>4
<1> QED BY <1>5 DEF S, N

\* Where node n is in the replay f.
Follows(f, c, s, d, tid, on, ph, dn) ==
    LET h == s.height
        end == f[h - 1][BlockLen(c, h - 1)].s
    IN  /\ ph \in {"idle", "down", "migrated"} => s = f[h][0].s
        /\ ph = "block" => /\ s = f[h][dn].s /\ tid = f[h][dn].t
                           /\ d = f[h][0].s
        /\ ph = "committed" => s = Raised(end) /\ end.height + 1 = h
        /\ ph = "migrating" => /\ s = NewEvents(Raised(end)) /\ end.height + 1 = h
        /\ ph \in {"migrating", "migrated"} => h = MigrationHeight
        /\ ph \in {"idle", "block"} => (on <=> h >= MigrationHeight)
        /\ ph = "committed" => (on <=> h - 1 >= MigrationHeight)
        /\ ph = "migrated" => on

ReplayInv ==
    \E f : /\ Replays(f, chain, MaxHeight)
           /\ \A n \in Nodes : Follows(f, chain, store[n], disk[n], latest_tid[n],
                                       active[n], phase[n], done[n])

\* No crash falls between the commits that surround the migration.
MigrationUndisturbed == "committed" \notin CrashPhases /\ "migrating" \notin CrashPhases

LEMMA ReplayInit == Init => ReplayInv
<1> SUFFICES ASSUME Init PROVE ReplayInv
  OBVIOUS
<1>1. PICK f : Replays(f, chain, MaxHeight)
  BY ReplaysExist DEF Init
<1>2. f[0][0] = [s |-> Genesis, t |-> 0]
  <2>1. 0 \in 0 .. MaxHeight
    BY BoundsAssumption
  <2> QED BY <1>1, <2>1 DEF Replays, Runs, Start
<1>3. f[0][0].s = Genesis /\ Genesis.height = 0
  BY <1>2 DEF Genesis
<1>4. \A n \in Nodes : store[n] = Genesis /\ phase[n] = "idle" /\ active[n] = FALSE
  BY DEF Init
<1>5. ~(0 >= MigrationHeight)
  BY BoundsAssumption
<1>6. ASSUME NEW n \in Nodes
      PROVE  Follows(f, chain, store[n], disk[n], latest_tid[n], active[n], phase[n], done[n])
  BY <1>3, <1>4, <1>5 DEF Follows
<1> QED BY <1>1, <1>6 DEF ReplayInv

LEMMA FollowsStep ==
    ASSUME IInv, [Next]_vars, MigrationUndisturbed, NEW n \in Nodes,
           NEW f, Replays(f, chain, MaxHeight),
           Follows(f, chain, store[n], disk[n], latest_tid[n], active[n], phase[n], done[n])
    PROVE  Follows(f, chain, store'[n], disk'[n], latest_tid'[n], active'[n], phase'[n], done'[n])
<1> DEFINE s == store[n]
           h == s.height
           end == f[h - 1][BlockLen(chain, h - 1)].s
<1>1. /\ IsStore(s) /\ h \in 0 .. MaxHeight /\ h \in Nat /\ MaxHeight \in Nat
      /\ MigrationHeight \in Nat /\ MigrationHeight >= 1
      /\ chain \in [1 .. MaxHeight -> Blocks]
  <2>1. IsStore(s) /\ chain \in [1 .. MaxHeight -> Blocks]
    BY NodeFacts
  <2>2. h \in 0 .. MaxHeight
    BY <2>1 DEF IsStore
  <2>3. MaxHeight \in Nat /\ MigrationHeight \in Nat /\ MigrationHeight >= 1
    BY BoundsAssumption
  <2> HIDE DEF h
  <2> QED BY <2>1, <2>2, <2>3
<1>2. /\ phase[n] # "block" => s = disk[n]
      /\ phase[n] = "block" => h < MaxHeight /\ disk[n].height = h /\ done[n] <= Len(chain[h + 1])
      /\ phase[n] = "idle" => latest_tid[n] = LoadTid(h)
      /\ phase[n] \in {"committed", "migrating", "migrated"} => h >= 1
      /\ done[n] \in Nat
  BY NodeFacts
<1>3. \A j \in 0 .. MaxHeight : /\ f[j][0] = Start(f, chain, j)
                                /\ \A i \in 0 .. BlockLen(chain, j) - 1 :
                                      f[j][i + 1] = Delivered(chain, j, i, f[j][i])
  BY DEF Replays, Runs
<1>4. h >= 1 => f[h][0].s = Settled(end) /\ f[h][0].t = LoadTid(h)
  <2> SUFFICES ASSUME h >= 1 PROVE f[h][0].s = Settled(end) /\ f[h][0].t = LoadTid(h)
    OBVIOUS
  <2>1. f[h][0] = Start(f, chain, h)
    BY <1>1, <1>3
  <2>2. h # 0
    BY <1>1
  <2>3. Start(f, chain, h) = [s |-> Settled(end), t |-> LoadTid(h)]
    BY <2>2 DEF Start
  <2> QED BY <2>1, <2>3
<1>5. CASE Keeps(n)
  BY <1>5 DEF Keeps
<1>6. CASE Begins(n)
  <2>1. f[h][0].t = LoadTid(h)
    <3>1. CASE h = 0
      <4>1. f[0][0] = Start(f, chain, 0) /\ Start(f, chain, 0) = [s |-> Genesis, t |-> 0]
        <5>1. 0 \in 0 .. MaxHeight
          BY <1>1
        <5>2. f[0][0] = Start(f, chain, 0)
          BY <1>3, <5>1
        <5> QED BY <5>2 DEF Start
      <4>2. f[0][0].t = 0
        BY <4>1
      <4> QED BY <3>1, <4>2, LoadTidGrows
    <3>2. CASE h # 0
      BY <1>1, <1>4, <3>2
    <3> QED BY <3>1, <3>2
  <2> QED BY <1>2, <1>6, <2>1 DEF Begins, Follows
<1>7. CASE Delivers(n)
  <2> DEFINE i == done[n]
             cmd == chain[h + 1][i + 1]
             x == f[h][i]
             r == Apply(s, cmd, latest_tid[n], EntryOf(chain, h, i, active[n]))
  <2>1. /\ store'[n] = r /\ disk'[n] = disk[n] /\ latest_tid'[n] = latest_tid[n] + IdsTaken(cmd)
        /\ phase[n] = "block" /\ phase'[n] = "block" /\ active'[n] = active[n]
        /\ done'[n] = i + 1 /\ i < Len(chain[h + 1])
    BY <1>7 DEF Delivers
  <2>2. x.s = s /\ x.t = latest_tid[n] /\ disk[n] = f[h][0].s /\ (active[n] <=> h >= MigrationHeight)
    BY <2>1 DEF Follows
  <2>3. EntryOf(chain, h, i, active[n]) = EntryOf(chain, h, i, h >= MigrationHeight)
    BY <2>2 DEF EntryOf
  <2>4. i \in 0 .. BlockLen(chain, h) - 1
    <3>1. BlockLen(chain, h) = Len(chain[h + 1]) /\ BlockLen(chain, h) \in Nat
      BY <1>1, <1>2, <2>1, BlockLenType DEF BlockLen
    <3> QED BY <1>2, <2>1, <3>1
  <2>5. f[h][i + 1] = Delivered(chain, h, i, x)
    BY <1>1, <1>3, <2>4
  <2>6. f[h][i + 1].s = r /\ f[h][i + 1].t = latest_tid[n] + IdsTaken(cmd)
    BY <2>2, <2>3, <2>5 DEF Delivered
  <2>7. r.height = h
    <3>1. cmd \in Commands /\ EntryOf(chain, h, i, active[n]) \in Entries /\ latest_tid[n] \in Nat
      BY <1>7, CommandFacts, NodeFacts
    <3> HIDE DEF cmd
    <3> QED BY <1>1, <3>1, ApplyFacts
  <2> HIDE DEF cmd, x, r, i, h
  <2> QED BY <2>1, <2>2, <2>6, <2>7 DEF Follows
<1>8. CASE Commits(n)
  <2> DEFINE r == Raised(s)
             g == h + 1
  <2>1. /\ store'[n] = r /\ phase[n] = "block" /\ phase'[n] = "committed" /\ active'[n] = active[n]
        /\ done[n] = Len(chain[h + 1])
    BY <1>8 DEF Commits
  <2>2. s = f[h][done[n]].s /\ (active[n] <=> h >= MigrationHeight)
    BY <2>1 DEF Follows
  <2>3. r.height = h + 1
    BY <1>1 DEF Raised, IsStore
  <2>4. g - 1 = h /\ BlockLen(chain, h) = done[n]
    BY <1>1, <1>2, <2>1 DEF BlockLen
  <2>5. f[g - 1][BlockLen(chain, g - 1)].s = s
    BY <2>2, <2>4
  <2> HIDE DEF r, h, g
  <2>6. r = Raised(s) /\ s.height + 1 = g /\ r.height = g
    BY <2>3 DEF r, h, g
  <2> QED BY <2>1, <2>2, <2>4, <2>5, <2>6 DEF Follows
<1>9. CASE MovesEvents(n)
  <2> DEFINE r == NewEvents(s)
  <2>1. store'[n] = r /\ phase[n] = "committed" /\ phase'[n] = "migrating" /\ h = MigrationHeight
    BY <1>9 DEF MovesEvents
  <2>2. s = Raised(end) /\ end.height + 1 = h
    BY <2>1 DEF Follows
  <2>3. r.height = h
    BY <1>1 DEF NewEvents, IsStore
  <2>4. r = NewEvents(Raised(end))
    BY <2>2
  <2> HIDE DEF r
  <2> QED BY <2>1, <2>2, <2>3, <2>4 DEF Follows
<1>10. CASE MovesTxs(n)
  <2> DEFINE r == NewTxs(s)
  <2>1. store'[n] = r /\ phase[n] = "migrating" /\ phase'[n] = "migrated" /\ active'[n] = TRUE
    BY <1>10 DEF MovesTxs
  <2>2. s = NewEvents(Raised(end)) /\ end.height + 1 = h /\ h = MigrationHeight
    BY <2>1 DEF Follows
  <2>3. r.height = h
    BY <1>1 DEF NewTxs, IsStore
  <2>4. f[h][0].s = r
    BY <1>1, <1>4, <2>2 DEF Settled
  <2> HIDE DEF r
  <2> QED BY <2>1, <2>2, <2>3, <2>4 DEF Follows
<1>11. CASE Finishes(n)
  <2>1. /\ store'[n] = s /\ phase'[n] = "idle" /\ active'[n] = active[n]
        /\ phase[n] = "migrated" \/ (phase[n] = "committed" /\ h # MigrationHeight)
    BY <1>11 DEF Finishes
  <2>2. CASE phase[n] = "migrated"
    BY <1>1, <2>1, <2>2 DEF Follows
  <2>3. CASE phase[n] = "committed" /\ h # MigrationHeight
    <3>1. s = Raised(end) /\ end.height + 1 = h /\ (active[n] <=> h - 1 >= MigrationHeight) /\ h >= 1
      BY <1>2, <2>3 DEF Follows
    <3>2. f[h][0].s = s
      BY <1>4, <2>3, <3>1 DEF Settled
    <3>3. active[n] <=> h >= MigrationHeight
      BY <1>1, <2>3, <3>1
    <3> QED BY <2>1, <3>2, <3>3 DEF Follows
  <2> QED BY <2>1, <2>2, <2>3
<1>12. CASE Stops(n)
  <2>1. store'[n] = disk[n] /\ phase'[n] = "down" /\ phase[n] \notin {"committed", "migrating"}
    BY <1>12 DEF Stops, MigrationUndisturbed
  <2>2. disk[n].height = h /\ disk[n] = f[h][0].s
    <3>1. CASE phase[n] = "block"
      BY <1>2, <3>1 DEF Follows
    <3>2. CASE phase[n] # "block"
      <4>1. phase[n] \in {"idle", "down", "migrated"}
        BY <2>1, <3>2, NodeFacts DEF Phases
      <4> QED BY <1>2, <3>2, <4>1 DEF Follows
    <3> QED BY <3>1, <3>2
  <2> QED BY <2>1, <2>2 DEF Follows
<1>13. CASE Loads(n)
  <2>1. /\ store'[n] = s /\ phase'[n] = "idle" /\ phase[n] = "down"
        /\ active'[n] = (disk[n].height >= MigrationHeight)
    BY <1>13 DEF Loads
  <2> QED BY <1>2, <2>1 DEF Follows
<1> QED BY <1>5, <1>6, <1>7, <1>8, <1>9, <1>10, <1>11, <1>12, <1>13, StepsOfNode

LEMMA ReplayStep ==
    ASSUME MigrationUndisturbed
    PROVE  IInv /\ ReplayInv /\ [Next]_vars => ReplayInv'
<1> SUFFICES ASSUME IInv, ReplayInv, [Next]_vars PROVE ReplayInv'
  OBVIOUS
<1>1. PICK f : /\ Replays(f, chain, MaxHeight)
               /\ \A n \in Nodes : Follows(f, chain, store[n], disk[n], latest_tid[n],
                                           active[n], phase[n], done[n])
  BY DEF ReplayInv
<1>2. \A n \in Nodes : Follows(f, chain, store'[n], disk'[n], latest_tid'[n], active'[n], phase'[n], done'[n])
  BY <1>1, FollowsStep
<1>3. chain' = chain
  BY DEF Next, Step, BeginBlock, DeliverTx, CommitBlock, MigrateEvents, MigrateTxs,
         CommitDone, Load, Crash, vars
<1>4. /\ Replays(f, chain', MaxHeight)
      /\ \A n \in Nodes : Follows(f, chain', store'[n], disk'[n], latest_tid'[n],
                                  active'[n], phase'[n], done'[n])
  BY <1>1, <1>2, <1>3
<1> QED BY <1>4 DEF ReplayInv

\* Replicas at the same height hold the same data and give the next block the
\* same ids, whichever of them crashed and whatever was replayed, as long as
\* no crash falls between the commits that surround the migration.  (One that
\* does leaves a node that will never migrate: run migration_crash.)
THEOREM ReplicasAgree ==
    ASSUME MigrationUndisturbed
    PROVE  Spec => []SameHeightSameState
<1>1. IInv /\ ReplayInv => SameHeightSameState
  <2> SUFFICES ASSUME IInv, ReplayInv, NEW m \in Nodes, NEW n \in Nodes,
                      phase[m] = "idle", phase[n] = "idle", store[m].height = store[n].height
               PROVE  store[m] = store[n] /\ latest_tid[m] = latest_tid[n]
    BY DEF SameHeightSameState
  <2>1. PICK f : \A k \in Nodes : Follows(f, chain, store[k], disk[k], latest_tid[k],
                                          active[k], phase[k], done[k])
    BY DEF ReplayInv
  <2>2. store[m] = f[store[m].height][0].s /\ store[n] = f[store[n].height][0].s
    BY <2>1 DEF Follows
  <2>3. latest_tid[m] = LoadTid(store[m].height) /\ latest_tid[n] = LoadTid(store[n].height)
    BY NodeFacts
  <2> QED BY <2>2, <2>3
<1> QED BY <1>1, ReplayInit, ReplayStep, Invariance, PTL DEF Spec

-----------------------------------------------------------------------------
(* The memo migration.                                                     *)

Modern(table) == \A k \in DOMAIN table : ~table[k].legacy

ModernStore(s) == Modern(s.events) /\ Modern(s.txs)

\* Commit runs the migration of height h before it is done with height h, so
\* a tree that has just been raised is as its block left it.
Moved(s, d, ph) ==
    /\ ph \in {"idle", "down", "block"} /\ s.height >= MigrationHeight => ModernStore(s)
    /\ ph = "block" /\ s.height >= MigrationHeight => ModernStore(d)
    /\ ph = "committed" /\ s.height > MigrationHeight => ModernStore(s)
    /\ ph = "migrating" => Modern(s.events)
    /\ ph = "migrated" => ModernStore(s)

MovedInv == \A n \in Nodes : Moved(store[n], disk[n], phase[n])

LEMMA ModerniseIsModern ==
    ASSUME NEW table, IsTable(table)
    PROVE  Modern(Modernise(table))
BY DEF Modernise, Modern, IsTable, Entries

LEMMA PutModern ==
    ASSUME NEW table, IsTable(table), NEW id \in Nat, NEW entry \in Entries,
           ~entry.legacy, Modern(table)
    PROVE  Modern(Put(table, id, entry))
<1> DEFINE T == Put(table, id, entry)
<1>1. /\ DOMAIN T = DOMAIN table \cup {id} /\ T[id] = entry
      /\ \A k \in DOMAIN table \ {id} : T[k] = table[k]
  BY PutFacts
<1> HIDE DEF T
<1>2. Modern(T)
  BY <1>1 DEF Modern
<1> QED BY <1>2 DEF T

\* A command writes one entry, and to a modern tree a modern one.
LEMMA ApplyModern ==
    ASSUME NEW s, IsStore(s), NEW cmd \in Commands, NEW tid \in Nat,
           NEW entry \in Entries, ~entry.legacy, ModernStore(s),
           NEW r, r = Apply(s, cmd, tid, entry)
    PROVE  ModernStore(r)
<1>0. IsTable(s.events) /\ IsTable(s.txs) /\ tid + 1 \in Nat /\ tid + 2 \in Nat
  BY DEF IsStore
<1>1. CASE cmd = "reject"
  BY <1>1 DEF Apply
<1>2. CASE cmd = "log"
  <2>1. r.events = Put(s.events, tid + 1, entry) /\ r.txs = s.txs
    BY <1>2 DEF Apply, log_event, IsStore
  <2> QED BY <1>0, <2>1, PutModern DEF ModernStore
<1>3. CASE cmd = "submit"
  <2>1. r.events = Put(s.events, tid + 2, entry) /\ r.txs = Put(s.txs, tid + 1, entry)
    BY <1>3 DEF Apply, log_event, IsStore
  <2> QED BY <1>0, <2>1, PutModern DEF ModernStore
<1> QED BY <1>1, <1>2, <1>3 DEF Commands

LEMMA MovedStep ==
    ASSUME MigrationUndisturbed
    PROVE  IInv /\ ReplayInv /\ MovedInv /\ [Next]_vars => MovedInv'
<1> SUFFICES ASSUME IInv, ReplayInv, MovedInv, [Next]_vars, NEW n \in Nodes
             PROVE  Moved(store'[n], disk'[n], phase'[n])
  BY DEF MovedInv
<1> DEFINE s == store[n]
           d == disk[n]
           h == s.height
<1>1. Moved(s, d, phase[n])
  BY DEF MovedInv
<1>2. /\ IsStore(s) /\ IsStore(d) /\ h \in Nat /\ d.height \in Nat /\ latest_tid[n] \in Nat
      /\ phase[n] # "block" => s = d
      /\ phase[n] = "block" => d.height = h
      /\ phase[n] \in Phases
  BY NodeFacts
<1>3. MigrationHeight \in Nat
  BY BoundsAssumption
<1>4. /\ phase[n] = "block" => (active[n] <=> h >= MigrationHeight)
      /\ phase[n] = "migrating" => h = MigrationHeight
  BY DEF ReplayInv, Follows
<1>5. CASE Keeps(n)
  BY <1>1, <1>5 DEF Keeps
<1>6. CASE Begins(n)
  BY <1>1, <1>2, <1>6 DEF Begins, Moved
<1>7. CASE Delivers(n)
  <2> DEFINE cmd == chain[h + 1][done[n] + 1]
             entry == EntryOf(chain, h, done[n], active[n])
             r == Apply(s, cmd, latest_tid[n], entry)
  <2>1. store'[n] = r /\ disk'[n] = d /\ phase[n] = "block" /\ phase'[n] = "block"
    BY <1>7 DEF Delivers
  <2>2. cmd \in Commands /\ entry \in Entries
    BY <1>7, CommandFacts
  <2>3. active[n] => ~entry.legacy
    BY DEF EntryOf
  <2>4. r = Apply(s, cmd, latest_tid[n], entry)
    OBVIOUS
  <2> HIDE DEF cmd, entry, r
  <2>5. r.height = h
    BY <1>2, <2>2, <2>4, ApplyFacts
  <2>6. h >= MigrationHeight => ModernStore(s) /\ ModernStore(d) /\ active[n]
    BY <1>1, <1>4, <2>1 DEF Moved
  <2>7. h >= MigrationHeight => ModernStore(r)
    BY <1>2, <2>2, <2>3, <2>4, <2>6, ApplyModern
  <2> QED BY <2>1, <2>5, <2>6, <2>7 DEF Moved
<1>8. CASE Commits(n)
  <2> DEFINE r == Raised(s)
  <2>1. store'[n] = r /\ phase[n] = "block" /\ phase'[n] = "committed"
    BY <1>8 DEF Commits
  <2>2. r.height = h + 1 /\ r.events = s.events /\ r.txs = s.txs
    BY <1>2 DEF Raised, IsStore
  <2> HIDE DEF r
  <2>3. r.height > MigrationHeight => h >= MigrationHeight
    BY <1>2, <1>3, <2>2
  <2>4. r.height > MigrationHeight => ModernStore(r)
    BY <1>1, <2>1, <2>2, <2>3 DEF Moved, ModernStore
  <2> QED BY <2>1, <2>4 DEF Moved
<1>9. CASE MovesEvents(n)
  <2> DEFINE r == NewEvents(s)
  <2>1. store'[n] = r /\ phase'[n] = "migrating"
    BY <1>9 DEF MovesEvents
  <2>2. r.events = Modernise(s.events) /\ IsTable(s.events)
    BY <1>2 DEF NewEvents, IsStore
  <2> HIDE DEF r
  <2>3. Modern(r.events)
    BY <2>2, ModerniseIsModern
  <2> QED BY <2>1, <2>3 DEF Moved
<1>10. CASE MovesTxs(n)
  <2> DEFINE r == NewTxs(s)
  <2>1. store'[n] = r /\ phase[n] = "migrating" /\ phase'[n] = "migrated"
    BY <1>10 DEF MovesTxs
  <2>2. r.txs = Modernise(s.txs) /\ r.events = s.events /\ IsTable(s.txs)
    BY <1>2 DEF NewTxs, IsStore
  <2> HIDE DEF r
  <2>3. Modern(r.txs) /\ Modern(r.events)
    BY <1>1, <2>1, <2>2, ModerniseIsModern DEF Moved
  <2> QED BY <2>1, <2>3 DEF Moved, ModernStore
<1>11. CASE Finishes(n)
  <2>1. /\ store'[n] = s /\ phase'[n] = "idle"
        /\ phase[n] = "migrated" \/ (phase[n] = "committed" /\ h # MigrationHeight)
    BY <1>11 DEF Finishes
  <2>2. h >= MigrationHeight => phase[n] = "migrated" \/ (phase[n] = "committed" /\ h > MigrationHeight)
    BY <1>2, <1>3, <2>1
  <2> QED BY <1>1, <2>1, <2>2 DEF Moved
<1>12. CASE Stops(n)
  <2>1. store'[n] = d /\ phase'[n] = "down" /\ phase[n] \notin {"committed", "migrating"}
    BY <1>12 DEF Stops, MigrationUndisturbed
  <2>2. d.height >= MigrationHeight => ModernStore(d)
    <3>1. CASE phase[n] = "block"
      BY <1>1, <1>2, <3>1 DEF Moved
    <3>2. CASE phase[n] # "block"
      BY <1>1, <1>2, <2>1, <3>2 DEF Moved, Phases
    <3> QED BY <3>1, <3>2
  <2> QED BY <2>1, <2>2 DEF Moved
<1>13. CASE Loads(n)
  BY <1>1, <1>13 DEF Loads, Moved
<1> QED BY <1>5, <1>6, <1>7, <1>8, <1>9, <1>10, <1>11, <1>12, <1>13, StepsOfNode

\* Past its height the memo migration has moved the whole database, and what
\* is written afterwards, by a node that was up or by one that was loaded,
\* has the new fields: again if no crash falls inside the migration.
THEOREM NothingLegacyRemains ==
    ASSUME MigrationUndisturbed
    PROVE  Spec => []MigrationComplete
<1>1. Init => MovedInv
  <2>1. ~(0 >= MigrationHeight)
    BY BoundsAssumption
  <2>2. Genesis.height = 0
    BY DEF Genesis
  <2> QED BY <2>1, <2>2 DEF Init, MovedInv, Moved
<1>2. MovedInv => MigrationComplete
  BY DEF MovedInv, Moved, ModernStore, Modern, MigrationComplete
<1> QED BY <1>1, <1>2, MovedStep, ReplayInit, ReplayStep, Invariance, PTL DEF Spec
==============================================================================
