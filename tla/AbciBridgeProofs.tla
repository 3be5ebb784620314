-------------------------- MODULE AbciBridgeProofs --------------------------
(***************************************************************************)
(* Proofs about AbciBridge for any requests, chain, block size, number of  *)
(* polls, failed calls and restarts: its type invariant and all of its     *)
(* safety properties.                                                      *)
(*                                                                         *)
(* A step is first read field by field (Moves), so that each invariant is  *)
(* shown to be kept by one case per move.  What the network holds after a  *)
(* block is a recursive function of the chain; that it exists, and that a  *)
(* new block leaves its earlier values alone, is shown by induction.       *)
(*                                                                         *)
(* The invariants build on each other.  Base is what holds whatever has    *)
(* failed; Heights relates the application's height to Tendermint's;       *)
(* InStep says that an accepted hash is that of the tree in memory;        *)
(* DecidedOnce and Once that nothing is decided or executed twice; Told    *)
(* that answers are those of every other node; Healthy that a node without *)
(* failures holds what every other holds; Durable and Kept that what was   *)
(* reported is on disk, or else in memory.                                 *)
(***************************************************************************)
EXTENDS AbciBridge, Induction

-----------------------------------------------------------------------------
(* The log of a node without faults.                                       *)

Grown(log, r, time) == IF Decodable(r) THEN Append(log, Entry(r, time)) ELSE log

AreLogsOf(f, log, block, time) ==
    f = [i \in 0 .. Len(block) |-> IF i = 0 THEN log
                                   ELSE IF Decodable(block[i])
                                        THEN Append(f[i - 1], Entry(block[i], time))
                                        ELSE f[i - 1]]

\* A transaction keeps the shape of the log.
LEMMA GrownType ==
    ASSUME NEW log \in Seq(EntryType), NEW r \in Requests, NEW time \in 0 .. MaxHeight
    PROVE  Grown(log, r, time) \in Seq(EntryType)
<1>1. Entry(r, time) \in EntryType
  BY DEF Entry, EntryType
<1> QED BY <1>1 DEF Grown

\* The recursive function that LogsOf defines exists.
LEMMA LogsOfExist ==
    ASSUME NEW log, NEW block \in Seq(Requests), NEW time
    PROVE  \E f : AreLogsOf(f, log, block, time)
<1> DEFINE N == Len(block)
           Upto(f, n) == /\ f[0] = log
                         /\ \A i \in 1 .. n : f[i] = Grown(f[i - 1], block[i], time)
           S == {n \in 0 .. N : \E f : Upto(f, n)}
<1>0. N \in Nat
  OBVIOUS
<1>1. 0 \in S
  <2> DEFINE f == [i \in 0 .. 0 |-> log]
  <2>1. f[0] = log
    OBVIOUS
  <2> HIDE DEF f
  <2>2. Upto(f, 0)
    BY <2>1
  <2> QED BY <1>0, <2>2
<1>2. ASSUME NEW n \in S, n < N PROVE n + 1 \in S
  <2>1. PICK f : Upto(f, n)
    OBVIOUS
  <2>2. n \in Nat /\ n + 1 \in 0 .. N
    BY <1>0, <1>2
  <2> DEFINE g == [i \in 0 .. n + 1 |-> IF i <= n THEN f[i] ELSE Grown(f[n], block[n + 1], time)]
  <2>3. (\A i \in 0 .. n : g[i] = f[i]) /\ g[n + 1] = Grown(f[n], block[n + 1], time)
    BY <2>2
  <2> HIDE DEF g
  <2>4. ASSUME NEW i \in 1 .. n + 1 PROVE g[i] = Grown(g[i - 1], block[i], time)
    <3>1. CASE i = n + 1
      <4>1. i - 1 = n /\ n \in 0 .. n
        BY <2>2, <3>1
      <4> QED BY <2>3, <3>1, <4>1
    <3>2. CASE i # n + 1
      <4>1. i \in 1 .. n /\ i \in 0 .. n /\ i - 1 \in 0 .. n
        BY <2>2, <3>2
      <4> QED BY <2>1, <2>3, <4>1
    <3> QED BY <3>1, <3>2
  <2>5. g[0] = log
    <3>1. 0 \in 0 .. n
      BY <2>2
    <3> QED BY <2>1, <2>3, <3>1
  <2>6. Upto(g, n + 1)
    BY <2>4, <2>5
  <2> QED BY <2>2, <2>6
<1>3. S \in SUBSET (0 .. N)
  OBVIOUS
<1> HIDE DEF S
<1>4. N \in S
  BY <1>0, <1>1, <1>2, <1>3, InductionUpTo
<1>5. PICK f : Upto(f, N)
  BY <1>4 DEF S
<1> DEFINE g == [i \in 0 .. N |-> f[i]]
<1>6. g[0] = log /\ \A i \in 1 .. N : g[i] = Grown(g[i - 1], block[i], time)
  <2>1. g[0] = f[0] /\ \A i \in 1 .. N : g[i] = f[i] /\ g[i - 1] = f[i - 1]
    BY <1>0
  <2> HIDE DEF g
  <2> QED BY <1>5, <2>1
<1>7. g = [i \in 0 .. N |-> IF i = 0 THEN log
                            ELSE IF Decodable(block[i])
                                 THEN Append(g[i - 1], Entry(block[i], time))
                                 ELSE g[i - 1]]
  <2>1. \A i \in 0 .. N : g[i] = IF i = 0 THEN log
                                 ELSE IF Decodable(block[i])
                                      THEN Append(g[i - 1], Entry(block[i], time))
                                      ELSE g[i - 1]
    <3> HIDE DEF g
    <3> QED BY <1>6, <1>0 DEF Grown
  <2> QED BY <2>1
<1> HIDE DEF g
<1> QED BY <1>7 DEF AreLogsOf

\* What LogsOf is at each transaction of a block.
LEMMA LogsOfStep ==
    ASSUME NEW log, NEW block \in Seq(Requests), NEW time
    PROVE  /\ LogsOf(log, block, time)[0] = log
           /\ \A i \in 1 .. Len(block) :
                 LogsOf(log, block, time)[i] = Grown(LogsOf(log, block, time)[i - 1], block[i], time)
<1> DEFINE f == LogsOf(log, block, time)
<1>1. f = CHOOSE g : AreLogsOf(g, log, block, time)
  BY DEF LogsOf, AreLogsOf
<1>2. AreLogsOf(f, log, block, time)
  BY <1>1, LogsOfExist
<1> HIDE DEF f
<1>3. f[0] = log /\ \A i \in 1 .. Len(block) : f[i] = Grown(f[i - 1], block[i], time)
  <2>1. \A i \in 0 .. Len(block) : f[i] = IF i = 0 THEN log
                                          ELSE IF Decodable(block[i])
                                               THEN Append(f[i - 1], Entry(block[i], time))
                                               ELSE f[i - 1]
    BY <1>2 DEF AreLogsOf
  <2>2. Len(block) \in Nat
    OBVIOUS
  <2> QED BY <2>1, <2>2 DEF Grown
<1> QED BY <1>3 DEF f

\* The logs within a block are logs.
LEMMA LogsOfType ==
    ASSUME NEW log \in Seq(EntryType), NEW block \in Seq(Requests), NEW time \in 0 .. MaxHeight
    PROVE  \A i \in 0 .. Len(block) : LogsOf(log, block, time)[i] \in Seq(EntryType)
<1> DEFINE f == LogsOf(log, block, time)
           N == Len(block)
           S == {i \in 0 .. N : f[i] \in Seq(EntryType)}
<1>0. N \in Nat
  OBVIOUS
<1>1. 0 \in S
  BY <1>0, LogsOfStep, SMTT(60)
<1>2. ASSUME NEW n \in S, n < N PROVE n + 1 \in S
  <2>1. n + 1 \in 1 .. N /\ (n + 1) - 1 = n /\ block[n + 1] \in Requests /\ f[n] \in Seq(EntryType)
    BY <1>0, <1>2
  <2>2. f[n + 1] = Grown(f[n], block[n + 1], time)
    <3>1. \A i \in 1 .. N : f[i] = Grown(f[i - 1], block[i], time)
      BY LogsOfStep
    <3> HIDE DEF f
    <3> QED BY <2>1, <3>1
  <2>3. f[n + 1] \in Seq(EntryType)
    BY <2>1, <2>2, GrownType
  <2> QED BY <1>0, <2>1, <2>3
<1>3. S \in SUBSET (0 .. N)
  OBVIOUS
<1>4. \A i \in S : f[i] \in Seq(EntryType)
  OBVIOUS
<1> HIDE DEF S, f
<1>5. S = 0 .. N
  BY <1>0, <1>1, <1>2, <1>3, InductionUpTo
<1> QED BY <1>4, <1>5 DEF f

IsChain(c) == c \in Seq(Seq(Requests)) /\ Len(c) <= MaxHeight

AreCanonLogs(f, c) ==
    f = [h \in 0 .. Len(c) |-> IF h = 0 THEN <<>>
                               ELSE LogsOf(f[h - 1], c[h], h)[Len(c[h])]]

\* So does the one that CanonLogs defines.
LEMMA CanonLogsExist ==
    ASSUME NEW c \in Seq(Seq(Requests))
    PROVE  \E f : AreCanonLogs(f, c)
<1> DEFINE N == Len(c)
           Last(log, h) == LogsOf(log, c[h], h)[Len(c[h])]
           Upto(f, n) == /\ f[0] = <<>>
                         /\ \A h \in 1 .. n : f[h] = Last(f[h - 1], h)
           S == {n \in 0 .. N : \E f : Upto(f, n)}
<1>0. N \in Nat
  OBVIOUS
<1>1. 0 \in S
  <2> DEFINE f == [i \in 0 .. 0 |-> <<>>]
  <2>1. f[0] = <<>>
    OBVIOUS
  <2> HIDE DEF f
  <2>2. Upto(f, 0)
    BY <2>1
  <2> QED BY <1>0, <2>2
<1>2. ASSUME NEW n \in S, n < N PROVE n + 1 \in S
  <2>1. PICK f : Upto(f, n)
    OBVIOUS
  <2>2. n \in Nat /\ n + 1 \in 0 .. N
    BY <1>0, <1>2
  <2> HIDE DEF Last
  <2> DEFINE g == [i \in 0 .. n + 1 |-> IF i <= n THEN f[i] ELSE Last(f[n], n + 1)]
  <2>3. (\A i \in 0 .. n : g[i] = f[i]) /\ g[n + 1] = Last(f[n], n + 1)
    BY <2>2
  <2> HIDE DEF g
  <2>4. ASSUME NEW i \in 1 .. n + 1 PROVE g[i] = Last(g[i - 1], i)
    <3>1. CASE i = n + 1
      <4>1. i - 1 = n /\ n \in 0 .. n
        BY <2>2, <3>1
      <4> QED BY <2>3, <3>1, <4>1
    <3>2. CASE i # n + 1
      <4>1. i \in 1 .. n /\ i \in 0 .. n /\ i - 1 \in 0 .. n
        BY <2>2, <3>2
      <4> QED BY <2>1, <2>3, <4>1
    <3> QED BY <3>1, <3>2
  <2>5. g[0] = <<>>
    <3>1. 0 \in 0 .. n
      BY <2>2
    <3> QED BY <2>1, <2>3, <3>1
  <2>6. Upto(g, n + 1)
    BY <2>4, <2>5
  <2> QED BY <2>2, <2>6
<1>3. S \in SUBSET (0 .. N)
  OBVIOUS
<1> HIDE DEF S
<1>4. N \in S
  BY <1>0, <1>1, <1>2, <1>3, InductionUpTo
<1>5. PICK f : Upto(f, N)
  BY <1>4 DEF S
<1> HIDE DEF Last
<1> DEFINE g == [i \in 0 .. N |-> f[i]]
<1>6. g[0] = <<>> /\ \A i \in 1 .. N : g[i] = Last(g[i - 1], i)
  <2>1. g[0] = f[0] /\ \A i \in 1 .. N : g[i] = f[i] /\ g[i - 1] = f[i - 1]
    BY <1>0
  <2> HIDE DEF g
  <2> QED BY <1>5, <2>1
<1>7. g = [i \in 0 .. N |-> IF i = 0 THEN <<>> ELSE Last(g[i - 1], i)]
  <2>1. \A i \in 0 .. N : g[i] = IF i = 0 THEN <<>> ELSE Last(g[i - 1], i)
    <3> HIDE DEF g
    <3> QED BY <1>6, <1>0
  <2> QED BY <2>1
<1> HIDE DEF g
<1> QED BY <1>7 DEF AreCanonLogs, Last

\* What CanonLogs is at each block.
LEMMA CanonStep ==
    ASSUME NEW c \in Seq(Seq(Requests))
    PROVE  /\ CanonLogs(c)[0] = <<>>
           /\ \A h \in 1 .. Len(c) :
                 CanonLogs(c)[h] = LogsOf(CanonLogs(c)[h - 1], c[h], h)[Len(c[h])]
<1> DEFINE f == CanonLogs(c)
           Last(log, h) == LogsOf(log, c[h], h)[Len(c[h])]
<1>1. f = CHOOSE g : AreCanonLogs(g, c)
  BY DEF CanonLogs, AreCanonLogs
<1>2. AreCanonLogs(f, c)
  BY <1>1, CanonLogsExist
<1> HIDE DEF f
<1>3. f = [h \in 0 .. Len(c) |-> IF h = 0 THEN <<>> ELSE Last(f[h - 1], h)]
  BY <1>2 DEF AreCanonLogs
<1> HIDE DEF Last
<1>4. f[0] = <<>> /\ \A h \in 1 .. Len(c) : f[h] = Last(f[h - 1], h)
  <2>1. \A h \in 0 .. Len(c) : f[h] = IF h = 0 THEN <<>> ELSE Last(f[h - 1], h)
    BY <1>3
  <2>2. Len(c) \in Nat
    OBVIOUS
  <2> QED BY <2>1, <2>2
<1> QED BY <1>4 DEF f, Last

\* The logs of the network are logs.
LEMMA CanonType ==
    ASSUME NEW c, IsChain(c)
    PROVE  \A h \in 0 .. Len(c) : CanonLogs(c)[h] \in Seq(EntryType)
<1> DEFINE f == CanonLogs(c)
           N == Len(c)
           S == {h \in 0 .. N : f[h] \in Seq(EntryType)}
<1>0. N \in Nat /\ c \in Seq(Seq(Requests)) /\ N <= MaxHeight /\ MaxHeight \in Nat
  BY BridgeAssumption DEF IsChain
<1>1. 0 \in S
  <2>1. f[0] = <<>>
    BY <1>0, CanonStep
  <2>2. <<>> \in Seq(EntryType)
    OBVIOUS
  <2>3. f[0] \in Seq(EntryType) /\ 0 \in 0 .. N
    <3> HIDE DEF f
    <3> QED BY <1>0, <2>1, <2>2
  <2> HIDE DEF f
  <2> QED BY <2>3
<1>2. ASSUME NEW n \in S, n < N PROVE n + 1 \in S
  <2> DEFINE h == n + 1
             b == c[h]
  <2>1. h \in 1 .. N /\ h - 1 = n /\ f[n] \in Seq(EntryType) /\ h \in 0 .. MaxHeight
    BY <1>0, <1>2
  <2>2. b \in Seq(Requests) /\ Len(b) \in 0 .. Len(b)
    BY <1>0, <2>1
  <2>3. f[h] = LogsOf(f[n], b, h)[Len(b)]
    <3>1. \A j \in 1 .. N : f[j] = LogsOf(f[j - 1], c[j], j)[Len(c[j])]
      BY <1>0, CanonStep
    <3> HIDE DEF f, h
    <3> QED BY <2>1, <3>1
  <2>4. f[h] \in Seq(EntryType)
    <3> HIDE DEF f, h, b
    <3> QED BY <2>1, <2>2, <2>3, LogsOfType
  <2> QED BY <1>0, <2>1, <2>4
<1>3. S \in SUBSET (0 .. N)
  OBVIOUS
<1>4. \A h \in S : f[h] \in Seq(EntryType)
  OBVIOUS
<1> HIDE DEF S, f
<1>5. S = 0 .. N
  BY <1>0, <1>1, <1>2, <1>3, InductionUpTo
<1> QED BY <1>4, <1>5 DEF f

\* A new block does not change the logs of the blocks before it.
LEMMA CanonStable ==
    ASSUME NEW c \in Seq(Seq(Requests)), NEW b \in Seq(Requests)
    PROVE  \A h \in 0 .. Len(c) : CanonLogs(Append(c, b))[h] = CanonLogs(c)[h]
<1> DEFINE d == Append(c, b)
           f == CanonLogs(c)
           g == CanonLogs(d)
           N == Len(c)
           S == {h \in 0 .. N : g[h] = f[h]}
<1>0. /\ N \in Nat /\ d \in Seq(Seq(Requests)) /\ Len(d) = N + 1
      /\ \A h \in 1 .. N : d[h] = c[h]
  OBVIOUS
<1>1. /\ f[0] = <<>> /\ \A j \in 1 .. N : f[j] = LogsOf(f[j - 1], c[j], j)[Len(c[j])]
      /\ g[0] = <<>> /\ \A j \in 1 .. Len(d) : g[j] = LogsOf(g[j - 1], d[j], j)[Len(d[j])]
  BY <1>0, CanonStep
<1> HIDE DEF f, g, d
<1>2. 0 \in S
  BY <1>0, <1>1
<1>3. ASSUME NEW n \in S, n < N PROVE n + 1 \in S
  <2> DEFINE h == n + 1
  <2>1. h \in 1 .. N /\ h \in 1 .. Len(d) /\ h - 1 = n /\ g[n] = f[n]
    BY <1>0, <1>3
  <2> HIDE DEF h
  <2>2. g[h] = f[h]
    BY <1>0, <1>1, <2>1
  <2> QED BY <1>0, <2>1, <2>2 DEF h
<1>4. S \in SUBSET (0 .. N)
  OBVIOUS
<1>5. \A h \in S : g[h] = f[h]
  OBVIOUS
<1> HIDE DEF S
<1>6. S = 0 .. N
  BY <1>0, <1>2, <1>3, <1>4, InductionUpTo
<1> QED BY <1>5, <1>6 DEF f, g, d

\* Equal hashes mean equal trees, and the text of an error is no hash.
LEMMA HashFacts ==
    /\ \A a, x, b, y : Hash(a, x) = Hash(b, y) => a = b /\ x = y
    /\ \A a, x : Hash(a, x) # NotAHash
BY DEF Hash, NotAHash

-----------------------------------------------------------------------------
(* The steps of the node, read field by field.                             *)

HashType == [log : Seq(EntryType), height : Nat, error : BOOLEAN]

AppType == [height : Nat, log : Seq(EntryType), time : 0 .. MaxHeight, hash : HashType]

DiskType == [height : Nat, log : Seq(EntryType)]

Typed ==
    /\ TypeOK
    /\ app \in AppType /\ disk \in DiskType

NodeIs(pc, up, h, results, data) ==
    /\ node' = [pc |-> pc, up |-> up, height |-> h, results |-> results, data |-> data]
    /\ node'.pc = pc /\ node'.up = up /\ node'.height = h
    /\ node'.results = results /\ node'.data = data

ToPc(pc) == NodeIs(pc, node.up, node.height, node.results, node.data)

ToBegin(h) == NodeIs("begin", node.up, h, <<>>, node.data)

ToReady == NodeIs("ready", TRUE, node.height, node.results, node.data)

TmIs(store, state, hash, last, saved) ==
    /\ tm' = [store |-> store, state |-> state, hash |-> hash, last |-> last, saved |-> saved]
    /\ tm'.store = store /\ tm'.state = state /\ tm'.hash = hash
    /\ tm'.last = last /\ tm'.saved = saved

AppIs(height, log, time, hash) ==
    /\ app' = [height |-> height, log |-> log, time |-> time, hash |-> hash]
    /\ app'.height = height /\ app'.log = log /\ app'.time = time /\ app'.hash = hash

DiskIs(height, log) ==
    /\ disk' = [height |-> height, log |-> log]
    /\ disk'.height = height /\ disk'.log = log

\* The rest of the node is left alone.
Elsewhere == UNCHANGED <<chain, app, disk>>

\* Clients, the mempool and the index.
MQuiet == UNCHANGED <<chain, node, tm, app, disk, hurt>> /\ pending' \in {pending, {}}

MDecide ==
    /\ \E b \in Seq(Requests) : chain' = Append(chain, b)
    /\ Len(chain) < MaxHeight
    /\ UNCHANGED <<node, tm, app, disk, hurt, pending, index, client>>

MStart ==
    /\ node.pc = "down" /\ ToPc("info")
    /\ Elsewhere /\ UNCHANGED <<tm, hurt, pending, index, client>>

MNext ==
    /\ node.pc = "ready" /\ tm.store < Len(chain) /\ Accepts(tm.store + 1)
    /\ ToBegin(tm.store + 1)
    /\ TmIs(tm.store + 1, tm.state, tm.hash, tm.last, tm.saved)
    /\ Elsewhere /\ UNCHANGED <<hurt, pending, index, client>>

\* Why Tendermint stops.
StopReason ==
    \/ node.pc = "ready" /\ ~Accepts(tm.store + 1)
    \/ node.pc = "info" /\ "info" \in hurt'
    \/ node.pc = "info" /\ app.height > tm.store
    \/ node.pc = "info" /\ app.height = tm.store /\ tm.state = tm.store /\ tm.store # 0 /\ AppHash # tm.hash
    \/ node.pc = "info" /\ app.height = tm.store /\ tm.state < tm.store /\ tm.saved.height # tm.store
    \/ node.pc = "info" /\ app.height < tm.store /\ app.height >= tm.state /\ ~Accepts(tm.store)
    \/ node.pc = "save" /\ node.height < tm.state /\ node.data # CanonHash(node.height)
    \/ node.pc = "save" /\ node.height = tm.state /\ node.height < tm.store /\ ~Accepts(tm.store)
    \/ node.pc = "save" /\ node.height = tm.store /\ tm.state = tm.store /\ node.data # tm.hash

MStop ==
    /\ node.pc \in {"ready", "info", "save"} /\ ToPc("halted")
    /\ \/ tm' = tm
       \/ /\ node.pc = "ready" /\ tm.store < Len(chain)
          /\ TmIs(tm.store + 1, tm.state, tm.hash, tm.last, tm.saved)
    /\ hurt' \in {hurt, hurt \cup {"info"}}
    /\ StopReason
    /\ Elsewhere /\ UNCHANGED <<pending, index, client>>

MServe ==
    /\ node.pc = "info" /\ ToReady /\ tm.state = tm.store
    /\ \/ hurt' = hurt \cup {"info"} /\ tm.store = 0
       \/ hurt' = hurt /\ app.height = tm.store /\ (tm.store = 0 \/ AppHash = tm.hash)
    /\ Elsewhere /\ UNCHANGED <<tm, pending, index, client>>

MServeSaved ==
    /\ node.pc = "info" /\ ToReady
    /\ app.height = tm.store /\ tm.state < tm.store /\ tm.saved.height = tm.store
    /\ TmIs(tm.store, tm.store, AppHash, tm.saved.results, tm.saved)
    /\ pending' = pending \cup IndexedBy(tm.store, tm.saved.results)
    /\ Elsewhere /\ UNCHANGED <<hurt, index, client>>

MReplay ==
    /\ node.pc = "info"
    /\ \/ /\ hurt' = hurt /\ app.height < tm.state
          /\ ToBegin(app.height + 1)
       \/ /\ hurt' = hurt \cup {"info"} /\ 0 < tm.state
          /\ ToBegin(1)
    /\ Elsewhere /\ UNCHANGED <<tm, pending, index, client>>

MReapply ==
    /\ node.pc = "info" /\ Accepts(tm.store) /\ ToBegin(tm.store)
    /\ tm.store = tm.state + 1
    /\ \/ hurt' = hurt /\ app.height = tm.state
       \/ hurt' = hurt \cup {"info"} /\ tm.state = 0
    /\ Elsewhere /\ UNCHANGED <<tm, pending, index, client>>

MBegin ==
    /\ node.pc = "begin" /\ ToPc("deliver")
    /\ \/ /\ hurt' = hurt
          /\ AppIs(app.height, app.log, node.height, app.hash)
       \/ /\ hurt' = hurt \cup {"begin"}
          /\ app' = app
    /\ UNCHANGED <<chain, disk, tm, pending, index, client>>

MDeliver ==
    LET i == Len(node.results) + 1
        r == chain[node.height][i]
        log == Append(app.log, Entry(r, app.time))
    IN  /\ node.pc = "deliver" /\ i \in DOMAIN chain[node.height]
        /\ \E fate \in Fates :
              /\ r \in Garbled => fate = "ok"
              /\ NodeIs("deliver", node.up, node.height,
                        Append(node.results, Answered(r, fate, log)), node.data)
              /\ \/ fate = "ok" /\ hurt' = hurt
                 \/ fate # "ok" /\ hurt' = hurt \cup {"deliver"}
              /\ IF r \in Garbled \/ fate = "request" THEN app' = app
                 ELSE AppIs(app.height, log, app.time, app.hash)
        /\ UNCHANGED <<chain, disk, tm, pending, index, client>>

MEnd ==
    /\ node.pc = "deliver" /\ Len(node.results) = Len(chain[node.height]) /\ ToPc("commit")
    /\ \/ node.height <= tm.state /\ tm' = tm
       \/ /\ node.height > tm.state
          /\ TmIs(tm.store, tm.state, tm.hash, tm.last,
                  [height |-> node.height, results |-> node.results])
    /\ Elsewhere /\ UNCHANGED <<hurt, pending, index, client>>

MCommit ==
    LET height == app.height + 1
        hash == Hash(app.log, height)
    IN  /\ node.pc = "commit"
        /\ \/ /\ hurt' = hurt
              /\ NodeIs("save", node.up, node.height, node.results, hash)
           \/ /\ hurt' = hurt \cup {"commit"}
              /\ NodeIs("save", node.up, node.height, node.results, NotAHash)
        /\ \/ /\ AppIs(height, app.log, app.time, hash)
              /\ DiskIs(height, app.log)
           \/ /\ UNCHANGED <<app, disk>>
              /\ hurt' = hurt \cup {"commit"} /\ node'.data = NotAHash
        /\ UNCHANGED <<chain, tm, pending, index, client>>

MAgain ==
    /\ node.pc = "save" /\ node.height < tm.state
    /\ node.data = CanonHash(node.height) /\ ToBegin(node.height + 1)
    /\ Elsewhere /\ UNCHANGED <<tm, hurt, pending, index, client>>

MOnto ==
    /\ node.pc = "save" /\ node.height = tm.state /\ node.height < tm.store
    /\ Accepts(tm.store) /\ ToBegin(tm.store)
    /\ Elsewhere /\ UNCHANGED <<tm, hurt, pending, index, client>>

MServeAgain ==
    /\ node.pc = "save" /\ node.height = tm.store /\ tm.state = tm.store
    /\ node.data = tm.hash /\ ToReady
    /\ Elsewhere /\ UNCHANGED <<tm, hurt, pending, index, client>>

MSave ==
    /\ node.pc = "save" /\ node.height > tm.state /\ ToReady
    /\ TmIs(tm.store, node.height, node.data, node.results, tm.saved)
    /\ pending' = pending \cup IndexedBy(node.height, node.results)
    /\ Elsewhere /\ UNCHANGED <<hurt, index, client>>

Down == NodeIs("down", FALSE, 0, <<>>, NotAHash)

Loaded == AppIs(disk.height, disk.log, ClockTime, NotAHash)

MRestart ==
    /\ \/ /\ hurt' = hurt                                     \* of the whole node
          /\ Loaded /\ Down /\ pending' = {}
       \/ /\ app.log = disk.log => hurt' = hurt               \* of Tendermint
          /\ app.log # disk.log => hurt' = hurt \cup {"bridge"}
          /\ app' = app /\ Down /\ pending' = {}
       \/ /\ Splits("application") => hurt' = hurt \cup {"application"}
          /\ ~Splits("application") => hurt' = hurt           \* of the application
          /\ Loaded /\ node' = node /\ pending' = pending
    /\ UNCHANGED <<chain, disk, tm, index, client>>

Moves ==
    \/ MQuiet \/ MDecide \/ MStart \/ MNext \/ MStop \/ MServe \/ MServeSaved \/ MReplay
    \/ MReapply \/ MBegin \/ MDeliver \/ MEnd \/ MCommit \/ MAgain \/ MOnto \/ MServeAgain
    \/ MSave \/ MRestart

Running == {"begin", "deliver", "commit", "save"}

\* What holds of a node whatever has failed.
Base ==
    /\ Typed
    /\ tm.store <= Len(chain)
    /\ node.pc \in Running => 1 <= node.height /\ node.height <= tm.store
    /\ node.pc = "ready" => tm.store = tm.state /\ node.up
    /\ node.up => node.pc \notin {"down", "info"}
    /\ node.up /\ node.pc \in Running => node.height > tm.state
    /\ node.pc = "begin" => node.results = <<>>
    /\ node.pc = "deliver" => Len(node.results) <= Len(chain[node.height])
    /\ node.pc \in {"commit", "save"} => Len(node.results) = Len(chain[node.height])
    /\ tm.saved.height <= tm.store
    /\ tm.saved.height >= 1 => Len(tm.saved.results) = Len(chain[tm.saved.height])
    /\ node.pc \in {"commit", "save"} /\ node.height > tm.state =>
          tm.saved.height = node.height /\ tm.saved.results = node.results
    /\ app.height = disk.height
    /\ tm.store = 0 => app.log = <<>> /\ disk.log = <<>> /\ disk.height = 0
    /\ app.hash # NotAHash => app.hash = Hash(disk.log, disk.height)
    /\ node.pc = "save" /\ node.data # NotAHash =>
          node.data = Hash(disk.log, disk.height) /\ app.log = disk.log

\* The fields of the typed state.
LEMMA BaseTypes ==
    ASSUME Typed
    PROVE  /\ chain \in Seq(Seq(Requests)) /\ Len(chain) \in Nat /\ Len(chain) <= MaxHeight
           /\ MaxHeight \in Nat /\ IsChain(chain)
           /\ node \in NodeType /\ tm \in TendermintType
           /\ node.pc \in Phases /\ node.up \in BOOLEAN /\ node.height \in 0 .. MaxHeight
           /\ node.results \in Seq(ResultType) /\ node.data \in HashType
           /\ Len(node.results) \in Nat
           /\ tm.store \in Nat /\ tm.state \in Nat /\ tm.store \in 0 .. MaxHeight
           /\ tm.store \in {tm.state, tm.state + 1}
           /\ tm.hash \in HashType /\ tm.last \in Seq(ResultType)
           /\ tm.saved.height \in Nat /\ tm.saved.results \in Seq(ResultType)
           /\ app \in AppType /\ disk \in DiskType
           /\ app.height \in Nat /\ app.log \in Seq(EntryType) /\ app.hash \in HashType
           /\ app.time \in 0 .. MaxHeight
           /\ disk.height \in Nat /\ disk.log \in Seq(EntryType)
<1>1. MaxHeight \in Nat
  BY BridgeAssumption
<1>2. chain \in Seq(Seq(Requests)) /\ Len(chain) \in Nat /\ Len(chain) <= MaxHeight
  BY DEF Typed, TypeOK
<1>3. /\ node \in NodeType /\ tm \in TendermintType /\ tm.store \in {tm.state, tm.state + 1}
      /\ app \in AppType /\ disk \in DiskType
  BY DEF Typed, TypeOK
<1>4. /\ node.pc \in Phases /\ node.up \in BOOLEAN /\ node.height \in 0 .. MaxHeight
      /\ node.results \in Seq(ResultType) /\ node.data \in HashType
  BY <1>3 DEF NodeType, HashType
<1>5. Len(node.results) \in Nat
  BY <1>4
<1>6. /\ tm.store \in 0 .. MaxHeight /\ tm.state \in 0 .. MaxHeight
      /\ tm.hash \in HashType /\ tm.last \in Seq(ResultType)
      /\ tm.saved \in [height : 0 .. MaxHeight, results : Seq(ResultType)]
  BY <1>3 DEF TendermintType, HashType
<1>7. tm.saved.height \in Nat /\ tm.saved.results \in Seq(ResultType) /\ tm.store \in Nat /\ tm.state \in Nat
  BY <1>1, <1>6
<1>8. /\ app.height \in Nat /\ app.log \in Seq(EntryType) /\ app.hash \in HashType
      /\ app.time \in 0 .. MaxHeight
      /\ disk.height \in Nat /\ disk.log \in Seq(EntryType)
  BY <1>3 DEF AppType, DiskType
<1>9. IsChain(chain)
  BY <1>2 DEF IsChain
<1> QED BY <1>1, <1>2, <1>3, <1>4, <1>5, <1>6, <1>7, <1>8, <1>9

\* The forms in which the actions write node and tm.
LEMMA NodeForms ==
    ASSUME node \in NodeType
    PROVE  /\ Halts => ToPc("halted")
           /\ Serves => ToReady
           /\ \A h : Begins(h) => ToBegin(h)
           /\ \A pc : node' = [node EXCEPT !.pc = pc] => ToPc(pc)
BY DEF NodeType, Halts, Serves, Begins, ToPc, ToReady, ToBegin, NodeIs

LEMMA TmForms ==
    ASSUME tm \in TendermintType
    PROVE  /\ \A h : tm' = [tm EXCEPT !.store = h] => TmIs(h, tm.state, tm.hash, tm.last, tm.saved)
           /\ \A s, x, l : tm' = [tm EXCEPT !.state = s, !.hash = x, !.last = l]
                           => TmIs(tm.store, s, x, l, tm.saved)
           /\ \A s : tm' = [tm EXCEPT !.saved = s]
                     => TmIs(tm.store, tm.state, tm.hash, tm.last, s)
BY DEF TendermintType, TmIs

LEMMA BlocksAreSeqs ==
    ASSUME Typed, NEW b \in Blocks
    PROVE  b \in Seq(Requests)
<1>1. PICK n \in 0 .. BlockSize : b \in [1 .. n -> pool]
  BY DEF Blocks
<1>2. pool \subseteq Requests /\ n \in Nat
  BY BridgeAssumption DEF Typed, TypeOK
<1>3. b \in [1 .. n -> Requests]
  BY <1>1, <1>2
<1> QED BY <1>2, <1>3

\* The handshake is one of the moves.
LEMMA InfoMoves ==
    ASSUME Base, NEW fate \in Fates, Info(fate)
    PROVE  MStop \/ MServe \/ MServeSaved \/ MReplay \/ MReapply
<1> DEFINE reported == IF fate = "ok" THEN app.height ELSE 0
           hash == IF fate = "ok" THEN AppHash ELSE NotAHash
<1>t. /\ app.height \in Nat /\ tm.store \in Nat /\ tm.state \in Nat
      /\ tm.store \in {tm.state, tm.state + 1} /\ node \in NodeType /\ tm \in TendermintType
  BY BaseTypes DEF Base
<1>1. /\ node.pc = "info" /\ fate \in {"ok", "request"}
      /\ Elsewhere /\ UNCHANGED <<index, client>>
  BY DEF Info, Fates, Elsewhere
<1>2. \/ fate = "ok" /\ hurt' = hurt
      \/ fate = "request" /\ hurt' = hurt \cup {"info"}
  BY <1>1 DEF Info, Call
<1>3. /\ reported \in Nat
      /\ fate = "ok" => reported = app.height /\ hash = AppHash
      /\ fate = "request" => reported = 0
  BY <1>1, <1>t
<1>4. \/ reported > tm.store /\ Halts /\ UNCHANGED <<tm, pending>>
      \/ /\ reported = tm.store /\ tm.state = tm.store /\ UNCHANGED <<tm, pending>>
         /\ \/ (tm.store = 0 \/ hash = tm.hash) /\ Serves
            \/ ~(tm.store = 0 \/ hash = tm.hash) /\ Halts
      \/ /\ reported = tm.store /\ tm.state < tm.store
         /\ \/ /\ tm.saved.height = tm.store /\ Serves
               /\ tm' = [tm EXCEPT !.state = tm.store, !.hash = hash, !.last = tm.saved.results]
               /\ pending' = pending \cup IndexedBy(tm.store, tm.saved.results)
            \/ tm.saved.height # tm.store /\ Halts /\ UNCHANGED <<tm, pending>>
      \/ /\ reported < tm.store /\ UNCHANGED <<tm, pending>>
         /\ \/ reported < tm.state /\ Begins(reported + 1)
            \/ reported >= tm.state /\ Reapply
  <2> DEFINE A == Halts /\ UNCHANGED <<tm, pending>>
             B == /\ IF tm.store = 0 \/ hash = tm.hash THEN Serves ELSE Halts
                  /\ UNCHANGED <<tm, pending>>
             C == IF tm.saved.height = tm.store
                  THEN /\ Serves
                       /\ tm' = [tm EXCEPT !.state = tm.store, !.hash = hash,
                                           !.last = tm.saved.results]
                       /\ pending' = pending \cup IndexedBy(tm.store, tm.saved.results)
                  ELSE Halts /\ UNCHANGED <<tm, pending>>
             D == /\ IF reported < tm.state THEN Begins(reported + 1) ELSE Reapply
                  /\ UNCHANGED <<tm, pending>>
  <2>1. (CASE reported > tm.store -> A
           [] reported = tm.store /\ tm.state = tm.store -> B
           [] reported = tm.store /\ tm.state < tm.store -> C
           [] reported < tm.store -> D)
    BY DEF Info
  <2> HIDE DEF A, B, C, D, reported, hash
  <2>2. \/ reported > tm.store /\ A
        \/ reported = tm.store /\ tm.state = tm.store /\ B
        \/ reported = tm.store /\ tm.state < tm.store /\ C
        \/ reported < tm.store /\ D
    <3>1. /\ reported > tm.store => ~(reported = tm.store) /\ ~(reported < tm.store)
          /\ reported = tm.store => ~(reported > tm.store) /\ ~(reported < tm.store)
          /\ reported < tm.store => ~(reported = tm.store) /\ ~(reported > tm.store)
          /\ tm.state < tm.store => ~(tm.state = tm.store)
          /\ reported > tm.store \/ reported = tm.store \/ reported < tm.store
          /\ tm.state < tm.store \/ tm.state = tm.store
      BY <1>t, <1>3
    <3>2. CASE reported > tm.store
      <4>1. A
        BY <2>1, <3>1, <3>2, Zenon
      <4> QED BY <3>2, <4>1
    <3>3. CASE reported = tm.store /\ tm.state = tm.store
      <4>1. B
        BY <2>1, <3>1, <3>3, Zenon
      <4> QED BY <3>3, <4>1
    <3>4. CASE reported = tm.store /\ tm.state < tm.store
      <4>1. C
        BY <2>1, <3>1, <3>4, Zenon
      <4> QED BY <3>4, <4>1
    <3>5. CASE reported < tm.store
      <4>1. D
        BY <2>1, <3>1, <3>5, Zenon
      <4> QED BY <3>5, <4>1
    <3> QED BY <3>1, <3>2, <3>3, <3>4, <3>5
  <2>3. A => Halts /\ UNCHANGED <<tm, pending>>
    BY DEF A
  <2>4. B => /\ UNCHANGED <<tm, pending>>
             /\ \/ (tm.store = 0 \/ hash = tm.hash) /\ Serves
                \/ ~(tm.store = 0 \/ hash = tm.hash) /\ Halts
    BY DEF B
  <2>5. C => \/ /\ tm.saved.height = tm.store /\ Serves
                /\ tm' = [tm EXCEPT !.state = tm.store, !.hash = hash, !.last = tm.saved.results]
                /\ pending' = pending \cup IndexedBy(tm.store, tm.saved.results)
             \/ tm.saved.height # tm.store /\ Halts /\ UNCHANGED <<tm, pending>>
    BY DEF C
  <2>6. D => /\ UNCHANGED <<tm, pending>>
             /\ \/ reported < tm.state /\ Begins(reported + 1)
                \/ reported >= tm.state /\ Reapply
    BY <1>t, <1>3 DEF D
  <2> QED BY <2>2, <2>3, <2>4, <2>5, <2>6
<1> HIDE DEF reported, hash
<1>5. ASSUME Halts, UNCHANGED <<tm, pending>>, StopReason PROVE MStop
  BY <1>1, <1>2, <1>5, <1>t, NodeForms DEF MStop
<1>6. fate = "request" => "info" \in hurt'
  BY <1>2
<1>7. CASE reported > tm.store /\ Halts /\ UNCHANGED <<tm, pending>>
  <2>1. StopReason
    BY <1>1, <1>3, <1>6, <1>7 DEF StopReason
  <2> QED BY <1>5, <1>7, <2>1
<1>8. CASE /\ reported = tm.store /\ tm.state = tm.store /\ UNCHANGED <<tm, pending>>
           /\ ~(tm.store = 0 \/ hash = tm.hash) /\ Halts
  <2>1. StopReason
    BY <1>1, <1>3, <1>6, <1>8 DEF StopReason
  <2> QED BY <1>5, <1>8, <2>1
<1>9. CASE /\ reported = tm.store /\ tm.state = tm.store /\ UNCHANGED <<tm, pending>>
           /\ (tm.store = 0 \/ hash = tm.hash) /\ Serves
  BY <1>1, <1>2, <1>3, <1>9, <1>t, NodeForms DEF MServe
<1>10. CASE /\ reported = tm.store /\ tm.state < tm.store
            /\ tm.saved.height = tm.store /\ Serves
            /\ tm' = [tm EXCEPT !.state = tm.store, !.hash = hash, !.last = tm.saved.results]
            /\ pending' = pending \cup IndexedBy(tm.store, tm.saved.results)
  <2>1. fate = "ok"
    BY <1>1, <1>3, <1>10, <1>t
  <2>2. TmIs(tm.store, tm.store, AppHash, tm.saved.results, tm.saved)
    BY <1>3, <1>10, <1>t, <2>1, TmForms
  <2>3. ToReady
    BY <1>10, <1>t, NodeForms
  <2> QED BY <1>1, <1>2, <1>3, <1>10, <2>1, <2>2, <2>3 DEF MServeSaved
<1>11. CASE /\ reported = tm.store /\ tm.state < tm.store
            /\ tm.saved.height # tm.store /\ Halts /\ UNCHANGED <<tm, pending>>
  <2>1. StopReason
    BY <1>1, <1>3, <1>6, <1>11 DEF StopReason
  <2> QED BY <1>5, <1>11, <2>1
<1>12. CASE /\ reported < tm.store /\ UNCHANGED <<tm, pending>>
            /\ reported < tm.state /\ Begins(reported + 1)
  <2>1. ToBegin(reported + 1)
    BY <1>12, <1>t, NodeForms
  <2> QED BY <1>1, <1>2, <1>3, <1>12, <2>1 DEF MReplay
<1>13. CASE /\ reported < tm.store /\ UNCHANGED <<tm, pending>>
            /\ reported >= tm.state /\ Reapply
  <2>1. reported = tm.state /\ tm.store = tm.state + 1
    BY <1>3, <1>13, <1>t
  <2>2. CASE Accepts(tm.store)
    <3>1. ToBegin(tm.store)
      BY <1>13, <1>t, <2>2, NodeForms DEF Reapply
    <3> QED BY <1>1, <1>2, <1>3, <1>13, <2>1, <2>2, <3>1 DEF MReapply
  <2>3. CASE ~Accepts(tm.store)
    <3>1. StopReason
      BY <1>1, <1>3, <1>6, <1>13, <2>3 DEF StopReason
    <3> QED BY <1>5, <1>13, <2>3, <3>1 DEF Reapply
  <2> QED BY <2>2, <2>3
<1> QED BY <1>4, <1>7, <1>8, <1>9, <1>10, <1>11, <1>12, <1>13

\* So is the end of a replayed block.
LEMMA SaveMoves ==
    ASSUME Base, SaveReplayed
    PROVE  MStop \/ MAgain \/ MOnto \/ MServeAgain
<1>t. /\ node.height \in Nat /\ tm.store \in Nat /\ tm.state \in Nat
      /\ tm.store \in {tm.state, tm.state + 1} /\ node \in NodeType /\ tm \in TendermintType
  BY BaseTypes DEF Base
<1>1. /\ node.pc = "save" /\ node.height <= tm.state
      /\ Elsewhere /\ UNCHANGED <<tm, pending, index, client, hurt>>
  BY DEF SaveReplayed, Elsewhere
<1>2. \/ /\ node.height < tm.state
         /\ \/ node.data = CanonHash(node.height) /\ Begins(node.height + 1)
            \/ node.data # CanonHash(node.height) /\ Halts
      \/ node.height = tm.state /\ node.height < tm.store /\ Reapply
      \/ /\ node.height = tm.store /\ tm.state = tm.store
         /\ \/ node.data = tm.hash /\ Serves
            \/ node.data # tm.hash /\ Halts
  <2> DEFINE A == IF node.data = CanonHash(node.height) THEN Begins(node.height + 1) ELSE Halts
             B == IF node.data = tm.hash THEN Serves ELSE Halts
  <2>1. (CASE node.height < tm.state -> A
           [] node.height = tm.state /\ node.height < tm.store -> Reapply
           [] node.height = tm.store -> B)
    BY DEF SaveReplayed
  <2> HIDE DEF A, B
  <2>2. \/ node.height < tm.state /\ A
        \/ node.height = tm.state /\ node.height < tm.store /\ Reapply
        \/ node.height = tm.store /\ tm.state = tm.store /\ B
    <3> DEFINE h == node.height
    <3>1. /\ h < tm.state => ~(h = tm.state) /\ ~(h = tm.store)
          /\ h = tm.state /\ h < tm.store => ~(h < tm.state) /\ ~(h = tm.store)
          /\ h = tm.store => ~(h < tm.state) /\ ~(h < tm.store) /\ tm.state = tm.store
          /\ h < tm.state \/ (h = tm.state /\ h < tm.store) \/ h = tm.store
      BY <1>t, <1>1
    <3>2. CASE h < tm.state
      <4>1. A
        BY <2>1, <3>1, <3>2, Zenon
      <4> QED BY <3>2, <4>1
    <3>3. CASE h = tm.state /\ h < tm.store
      <4>1. Reapply
        BY <2>1, <3>1, <3>3, Zenon
      <4> QED BY <3>3, <4>1
    <3>4. CASE h = tm.store
      <4>1. B
        BY <2>1, <3>1, <3>4, Zenon
      <4> QED BY <3>1, <3>4, <4>1
    <3> QED BY <3>1, <3>2, <3>3, <3>4
  <2>3. A => \/ node.data = CanonHash(node.height) /\ Begins(node.height + 1)
             \/ node.data # CanonHash(node.height) /\ Halts
    BY DEF A
  <2>4. B => \/ node.data = tm.hash /\ Serves
             \/ node.data # tm.hash /\ Halts
    BY DEF B
  <2> QED BY <2>2, <2>3, <2>4
<1>3. ASSUME Halts, StopReason PROVE MStop
  BY <1>1, <1>3, <1>t, NodeForms DEF MStop
<1>4. CASE node.height < tm.state /\ node.data = CanonHash(node.height) /\ Begins(node.height + 1)
  BY <1>1, <1>4, <1>t, NodeForms DEF MAgain
<1>5. CASE node.height < tm.state /\ node.data # CanonHash(node.height) /\ Halts
  <2>1. StopReason
    BY <1>1, <1>5 DEF StopReason
  <2> QED BY <1>3, <1>5, <2>1
<1>6. CASE node.height = tm.state /\ node.height < tm.store /\ Reapply
  <2>1. CASE Accepts(tm.store)
    BY <1>1, <1>6, <1>t, <2>1, NodeForms DEF MOnto, Reapply
  <2>2. CASE ~Accepts(tm.store)
    <3>1. StopReason
      BY <1>1, <1>6, <2>2 DEF StopReason
    <3> QED BY <1>3, <1>6, <2>2, <3>1 DEF Reapply
  <2> QED BY <2>1, <2>2
<1>7. CASE node.height = tm.store /\ tm.state = tm.store /\ node.data = tm.hash /\ Serves
  BY <1>1, <1>7, <1>t, NodeForms DEF MServeAgain
<1>8. CASE node.height = tm.store /\ tm.state = tm.store /\ node.data # tm.hash /\ Halts
  <2>1. StopReason
    BY <1>1, <1>8 DEF StopReason
  <2> QED BY <1>3, <1>8, <2>1
<1> QED BY <1>2, <1>4, <1>5, <1>6, <1>7, <1>8

\* So is every step.
LEMMA StepMoves ==
    ASSUME Base, [Next]_vars
    PROVE  Moves
<1>t. /\ node \in NodeType /\ tm \in TendermintType /\ app \in AppType /\ disk \in DiskType
      /\ node.height \in Nat /\ tm.state \in Nat
  BY BaseTypes DEF Base
<1>1. CASE UNCHANGED vars
  BY <1>1 DEF vars, MQuiet, Moves
<1>2. CASE \E r \in Requests : Submit(r) \/ SubmitFails(r) \/ Inject(r) \/ Poll(r)
  BY <1>2 DEF Submit, SubmitFails, Inject, Poll, MQuiet, Moves
<1>3. CASE Index
  BY <1>3 DEF Index, MQuiet, Moves
<1>4. CASE Decide
  BY <1>4, BlocksAreSeqs DEF Base, Decide, MDecide, Moves
<1>5. CASE Start
  BY <1>5, <1>t, NodeForms DEF Start, MStart, Moves, Elsewhere
<1>6. CASE NextBlock
  <2>1. TmIs(tm.store + 1, tm.state, tm.hash, tm.last, tm.saved)
    BY <1>6, <1>t, TmForms DEF NextBlock
  <2>2. CASE Accepts(tm.store + 1)
    BY <1>6, <1>t, <2>1, <2>2, NodeForms DEF NextBlock, MNext, Moves, Elsewhere
  <2>3. CASE ~Accepts(tm.store + 1)
    <3>1. StopReason
      BY <1>6, <2>3 DEF NextBlock, StopReason
    <3> QED BY <1>6, <1>t, <2>1, <2>3, <3>1, NodeForms DEF NextBlock, MStop, Moves, Elsewhere
  <2> QED BY <2>2, <2>3
<1>7. CASE EndBlock
  <2>1. CASE node.height > tm.state
    <3>1. TmIs(tm.store, tm.state, tm.hash, tm.last, [height |-> node.height, results |-> node.results])
      BY <1>7, <1>t, <2>1, TmForms DEF EndBlock
    <3> QED BY <1>7, <1>t, <2>1, <3>1, NodeForms DEF EndBlock, MEnd, Moves, Elsewhere
  <2>2. CASE ~(node.height > tm.state)
    BY <1>7, <1>t, <2>2, NodeForms DEF EndBlock, MEnd, Moves, Elsewhere
  <2> QED BY <2>1, <2>2
<1>8. CASE SaveReplayed
  BY <1>8, SaveMoves DEF Moves
<1>9. CASE SaveNew
  <2>1. TmIs(tm.store, node.height, node.data, node.results, tm.saved)
    BY <1>9, <1>t, TmForms DEF SaveNew
  <2> QED BY <1>9, <1>t, <2>1, NodeForms DEF SaveNew, MSave, Moves, Elsewhere
<1>10. ASSUME NEW fate \in Fates, Info(fate) PROVE Moves
  BY <1>10, InfoMoves DEF Moves
<1>11. ASSUME NEW fate \in Fates, BeginBlock(fate) PROVE Moves
  <2>1. fate = "ok" => AppIs(app.height, app.log, node.height, app.hash)
    BY <1>11, <1>t DEF BeginBlock, AppIs, AppType
  <2> QED BY <1>11, <1>t, <2>1, NodeForms DEF BeginBlock, Call, MBegin, Moves
<1>12. ASSUME NEW fate \in Fates, DeliverTx(fate) PROVE Moves
  <2> DEFINE i == Len(node.results) + 1
             r == chain[node.height][i]
             log == Append(app.log, Entry(r, app.time))
  <2>1. /\ node.pc = "deliver" /\ i \in DOMAIN chain[node.height]
        /\ r \in Garbled => fate = "ok"
        /\ Call(fate, "deliver")
        /\ app' = IF r \in Garbled \/ fate = "request" THEN app ELSE [app EXCEPT !.log = log]
        /\ node' = [node EXCEPT !.results = Append(@, Answered(r, fate, log))]
        /\ UNCHANGED <<chain, disk, tm, pending, index, client>>
    BY <1>12 DEF DeliverTx
  <2>2. NodeIs("deliver", node.up, node.height, Append(node.results, Answered(r, fate, log)), node.data)
    BY <2>1, <1>t DEF NodeIs, NodeType
  <2>3. IF r \in Garbled \/ fate = "request" THEN app' = app
        ELSE AppIs(app.height, log, app.time, app.hash)
    BY <2>1, <1>t DEF AppIs, AppType
  <2>4. \/ fate = "ok" /\ hurt' = hurt
        \/ fate # "ok" /\ hurt' = hurt \cup {"deliver"}
    BY <2>1 DEF Call
  <2>5. MDeliver
    BY <2>1, <2>2, <2>3, <2>4 DEF MDeliver
  <2> QED BY <2>5 DEF Moves
<1>13. ASSUME NEW fate \in Fates, Commit(fate) PROVE Moves
  <2> DEFINE height == app.height + 1
             hash == Hash(app.log, height)
  <2>1. /\ node.pc = "commit" /\ Call(fate, "commit")
        /\ IF fate = "request" THEN UNCHANGED <<app, disk>>
           ELSE /\ app' = [app EXCEPT !.height = height, !.hash = hash]
                /\ disk' = [height |-> height, log |-> app.log]
        /\ node' = [node EXCEPT !.pc = "save", !.data = IF fate = "ok" THEN hash ELSE NotAHash]
        /\ UNCHANGED <<chain, tm, pending, index, client>>
    BY <1>13 DEF Commit
  <2>2. /\ fate = "ok" => hurt' = hurt
        /\ fate # "ok" => hurt' = hurt \cup {"commit"}
    BY <2>1 DEF Call
  <2> HIDE DEF hash
  <2>3. /\ fate = "ok" => NodeIs("save", node.up, node.height, node.results, hash)
        /\ fate # "ok" => NodeIs("save", node.up, node.height, node.results, NotAHash)
    BY <2>1, <1>t DEF NodeIs, NodeType
  <2>4. fate # "request" => /\ AppIs(height, app.log, app.time, hash)
                            /\ DiskIs(height, app.log)
    <3> SUFFICES ASSUME fate # "request"
                 PROVE  /\ AppIs(height, app.log, app.time, hash)
                        /\ DiskIs(height, app.log)
      OBVIOUS
    <3> HIDE DEF height
    <3>1. /\ app' = [app EXCEPT !.height = height, !.hash = hash]
          /\ disk' = [height |-> height, log |-> app.log]
      BY <2>1
    <3>2. AppIs(height, app.log, app.time, hash)
      BY <1>t, <3>1 DEF AppIs, AppType
    <3>3. DiskIs(height, app.log)
      BY <3>1 DEF DiskIs
    <3> QED BY <3>2, <3>3
  <2>5. fate = "request" => UNCHANGED <<app, disk>> /\ node'.data = NotAHash
    BY <2>1, <2>3 DEF NodeIs
  <2>6. MCommit
    <3>1. CASE fate = "ok"
      BY <2>1, <2>2, <2>3, <2>4, <3>1 DEF MCommit, hash
    <3>2. CASE fate = "reply"
      BY <2>1, <2>2, <2>3, <2>4, <3>2 DEF MCommit, hash
    <3>3. CASE fate = "request"
      BY <2>1, <2>2, <2>3, <2>5, <3>3 DEF MCommit, hash
    <3> QED BY <3>1, <3>2, <3>3 DEF Fates
  <2> QED BY <2>6 DEF Moves
<1>14. ASSUME NEW part \in {"node", "bridge", "application"}, Restart(part) PROVE Moves
  <2>1. UNCHANGED <<chain, disk, tm, index, client>>
    BY <1>14 DEF Restart
  <2>2. part # "application" => Down /\ pending' = {}
    BY <1>14, <1>t DEF Restart, Down, NodeIs, NodeType
  <2>3. part # "bridge" => Loaded
    BY <1>14 DEF Restart, Loaded, LoadApp, AppIs
  <2>4. hurt' = IF Splits(part) THEN hurt \cup {part} ELSE hurt
    BY <1>14 DEF Restart
  <2>5. CASE part = "node"
    <3>1. hurt' = hurt
      BY <2>4, <2>5 DEF Splits
    <3> QED BY <2>1, <2>2, <2>3, <2>5, <3>1 DEF MRestart, Moves
  <2>6. CASE part = "bridge"
    <3>1. (app.log = disk.log => hurt' = hurt) /\ (app.log # disk.log => hurt' = hurt \cup {"bridge"})
      BY <2>4, <2>6 DEF Splits
    <3>2. app' = app
      BY <1>14, <2>6 DEF Restart
    <3> QED BY <2>1, <2>2, <2>6, <3>1, <3>2 DEF MRestart, Moves
  <2>7. CASE part = "application"
    <3>1. node' = node /\ pending' = pending
      BY <1>14, <2>7 DEF Restart
    <3>2. /\ Splits("application") => hurt' = hurt \cup {"application"}
          /\ ~Splits("application") => hurt' = hurt
      BY <2>4, <2>7
    <3> QED BY <2>1, <2>3, <2>7, <3>1, <3>2 DEF MRestart, Moves
  <2> QED BY <2>5, <2>6, <2>7
<1> QED BY <1>1, <1>2, <1>3, <1>4, <1>5, <1>6, <1>7, <1>8, <1>9, <1>10, <1>11, <1>12, <1>13,
           <1>14 DEF Next, NodeStep

-----------------------------------------------------------------------------
(* Types.                                                                  *)

LEMMA HashTypes ==
    /\ NotAHash \in HashType
    /\ \A log \in Seq(EntryType), h \in Nat : Hash(log, h) \in HashType
    /\ Typed => AppHash \in HashType
<1>1. NotAHash \in HashType
  <2>1. <<>> \in Seq(EntryType)
    OBVIOUS
  <2> QED BY <2>1 DEF NotAHash, HashType
<1>2. \A log \in Seq(EntryType), h \in Nat : Hash(log, h) \in HashType
  BY DEF Hash, HashType
<1>3. Typed => AppHash \in HashType
  BY <1>2, BaseTypes DEF AppHash
<1> QED BY <1>1, <1>2, <1>3

LEMMA ResultTypes ==
    /\ NoResult \in ResultType /\ Undecodable \in ResultType /\ TransportError \in ResultType
    /\ \A log \in Seq(EntryType) : Len(log) > 0 => Response(log) \in ResultType
    /\ \A r, fate, log : log \in Seq(EntryType) /\ Len(log) > 0 => Answered(r, fate, log) \in ResultType
<1>1. NoResult \in ResultType /\ Undecodable \in ResultType /\ TransportError \in ResultType
  BY BridgeAssumption DEF NoResult, NoTime, Undecodable, TransportError, Result, ResultType
<1>2. ASSUME NEW log \in Seq(EntryType), Len(log) > 0 PROVE Response(log) \in ResultType
  <2>1. Len(log) \in Nat /\ log[Len(log)] \in EntryType
    BY <1>2
  <2> QED BY <2>1, BridgeAssumption DEF EntryType, Response, NoTime, Result, ResultType
<1>3. ASSUME NEW r, NEW fate, NEW log \in Seq(EntryType), Len(log) > 0
      PROVE  Answered(r, fate, log) \in ResultType
  BY <1>1, <1>2, <1>3 DEF Answered
<1> QED BY <1>1, <1>2, <1>3

LEMMA IndexedTypes ==
    ASSUME Typed, NEW h \in 1 .. Len(chain), NEW results \in Seq(ResultType),
           Len(results) = Len(chain[h])
    PROVE  IndexedBy(h, results) \subseteq Requests \X ResultType
<1>1. chain[h] \in Seq(Requests)
  BY BaseTypes
<1>2. DOMAIN chain[h] = 1 .. Len(chain[h]) /\ DOMAIN results = 1 .. Len(results)
  BY <1>1
<1>3. \A i \in DOMAIN chain[h] : chain[h][i] \in Requests /\ results[i] \in ResultType
  BY <1>1, <1>2
<1> QED BY <1>3 DEF IndexedBy

\* The application's next log.
LEMMA NextLogType ==
    ASSUME Base, node.pc = "deliver",
           NEW i \in DOMAIN chain[node.height]
    PROVE  /\ chain[node.height] \in Seq(Requests) /\ chain[node.height][i] \in Requests
           /\ Append(app.log, Entry(chain[node.height][i], app.time)) \in Seq(EntryType)
<1>1. node.height \in 1 .. Len(chain) /\ chain \in Seq(Seq(Requests))
  BY BaseTypes DEF Base, Running
<1>2. chain[node.height] \in Seq(Requests)
  BY <1>1
<1>3. chain[node.height][i] \in Requests
  BY <1>2
<1>4. Entry(chain[node.height][i], app.time) \in EntryType
  BY <1>3, BaseTypes DEF Base, Entry, EntryType
<1>5. app.log \in Seq(EntryType)
  BY BaseTypes DEF Base
<1> QED BY <1>2, <1>3, <1>4, <1>5

\* Blocks are only added.
LEMMA ChainTyped ==
    ASSUME Base, Moves
    PROVE  /\ chain' \in Seq(Seq(Requests)) /\ Len(chain') <= MaxHeight
           /\ Len(chain) <= Len(chain')
           /\ \A h \in 1 .. Len(chain) : chain'[h] = chain[h]
<1>t. chain \in Seq(Seq(Requests)) /\ Len(chain) <= MaxHeight /\ MaxHeight \in Nat
  BY BaseTypes DEF Base
<1>1. CASE MDecide
  BY <1>t, <1>1 DEF MDecide
<1>2. CASE ~MDecide
  <2>1. chain' = chain
    BY <1>2 DEF Moves, MQuiet, MStart, MNext, MStop, MServe, MServeSaved, MReplay, MReapply,
                MBegin, MDeliver, MEnd, MCommit, MAgain, MOnto, MServeAgain, MSave, MRestart,
                Elsewhere
  <2> QED BY <1>t, <2>1
<1> QED BY <1>1, <1>2

\* A move keeps the shape of node.
LEMMA NodeTyped ==
    ASSUME Base, Moves
    PROVE  node' \in NodeType
<1>t. /\ node \in NodeType /\ node.pc \in Phases /\ node.up \in BOOLEAN /\ node.height \in 0 .. MaxHeight
      /\ node.results \in Seq(ResultType) /\ node.data \in HashType
      /\ tm.store \in Nat /\ tm.state \in Nat /\ tm.store \in {tm.state, tm.state + 1}
      /\ MaxHeight \in Nat /\ tm.store <= MaxHeight /\ app.height \in Nat
      /\ Len(chain) \in Nat /\ Len(chain) <= MaxHeight /\ app.log \in Seq(EntryType)
  BY BaseTypes DEF Base
<1>e. <<>> \in Seq(ResultType)
  OBVIOUS
<1>1. ASSUME NEW pc \in Phases, NEW up \in BOOLEAN, NEW h \in 0 .. MaxHeight,
             NEW results \in Seq(ResultType), NEW data \in HashType,
             NodeIs(pc, up, h, results, data)
      PROVE  node' \in NodeType
  BY <1>1 DEF NodeIs, NodeType, HashType
<1>2. ASSUME NEW pc \in Phases, ToPc(pc) PROVE node' \in NodeType
  BY <1>1, <1>2, <1>t DEF ToPc
<1>3. ASSUME NEW h \in 0 .. MaxHeight, ToBegin(h) PROVE node' \in NodeType
  BY <1>1, <1>3, <1>t, <1>e DEF ToBegin, Phases
<1>4. ASSUME ToReady PROVE node' \in NodeType
  BY <1>1, <1>4, <1>t DEF ToReady, Phases
<1>5. CASE UNCHANGED node
  BY <1>5, <1>t
<1>6. CASE MStart \/ MStop \/ MBegin \/ MEnd
  BY <1>2, <1>6 DEF MStart, MStop, MBegin, MEnd, Phases
<1>7. CASE MServe \/ MServeSaved \/ MServeAgain \/ MSave
  BY <1>4, <1>7 DEF MServe, MServeSaved, MServeAgain, MSave
<1>8. CASE MNext \/ MReplay \/ MReapply \/ MAgain \/ MOnto
  <2>1. \E h \in 0 .. MaxHeight : ToBegin(h)
    <3>1. CASE MNext
      BY <1>t, <3>1 DEF MNext
    <3>2. CASE MReplay
      BY <1>t, <3>2 DEF MReplay
    <3>3. CASE MReapply \/ MOnto
      BY <1>t, <3>3 DEF MReapply, MOnto
    <3>4. CASE MAgain
      BY <1>t, <3>4 DEF MAgain
    <3> QED BY <1>8, <3>1, <3>2, <3>3, <3>4
  <2> QED BY <1>3, <2>1
<1>9. CASE MDeliver
  <2> DEFINE r == chain[node.height][Len(node.results) + 1]
             log == Append(app.log, Entry(r, app.time))
  <2>1. PICK fate \in Fates : NodeIs("deliver", node.up, node.height,
                                     Append(node.results, Answered(r, fate, log)), node.data)
    BY <1>9 DEF MDeliver
  <2>2. log \in Seq(EntryType) /\ Len(log) > 0
    <3>1. log \in Seq(EntryType)
      BY <1>9, NextLogType DEF MDeliver
    <3>2. app.log \in Seq(EntryType)
      BY <1>t
    <3> QED BY <3>1, <3>2
  <2> HIDE DEF log, r
  <2>3. Answered(r, fate, log) \in ResultType
    BY <2>2, ResultTypes
  <2>4. Append(node.results, Answered(r, fate, log)) \in Seq(ResultType)
    BY <1>t, <2>3
  <2> QED BY <1>1, <1>t, <2>1, <2>4 DEF Phases
<1>10. CASE MCommit
  <2> DEFINE hash == Hash(app.log, app.height + 1)
  <2>1. hash \in HashType /\ NotAHash \in HashType
    <3>1. app.height + 1 \in Nat
      BY <1>t
    <3> QED BY <1>t, <3>1, HashTypes
  <2>2. \/ NodeIs("save", node.up, node.height, node.results, hash)
        \/ NodeIs("save", node.up, node.height, node.results, NotAHash)
    BY <1>10 DEF MCommit
  <2> HIDE DEF hash
  <2> QED BY <1>1, <1>t, <2>1, <2>2 DEF Phases
<1>11. CASE MRestart
  <2>1. UNCHANGED node \/ Down
    BY <1>11 DEF MRestart
  <2>2. NotAHash \in HashType /\ 0 \in 0 .. MaxHeight
    BY <1>t, HashTypes
  <2>3. Down => node' \in NodeType
    BY <1>1, <1>e, <2>2 DEF Down, Phases
  <2> QED BY <1>5, <2>1, <2>3
<1> QED BY <1>5, <1>6, <1>7, <1>8, <1>9, <1>10, <1>11 DEF Moves, MQuiet, MDecide

\* A move keeps the shape of tm.
LEMMA TmTyped ==
    ASSUME Base, Moves
    PROVE  tm' \in TendermintType /\ tm'.store \in {tm'.state, tm'.state + 1}
<1>t. /\ tm \in TendermintType /\ tm.store \in 0 .. MaxHeight
      /\ node.results \in Seq(ResultType) /\ node.data \in HashType /\ node.height \in 0 .. MaxHeight
      /\ tm.store \in Nat /\ tm.state \in Nat /\ tm.store \in {tm.state, tm.state + 1}
      /\ MaxHeight \in Nat /\ Len(chain) \in Nat /\ Len(chain) <= MaxHeight
      /\ tm.saved.results \in Seq(ResultType)
  BY BaseTypes DEF Base
<1>s. /\ tm.saved \in [height : 0 .. MaxHeight, results : Seq(ResultType)]
      /\ tm.hash \in HashType /\ tm.last \in Seq(ResultType) /\ tm.state \in 0 .. MaxHeight
  BY <1>t DEF TendermintType, HashType
<1>1. ASSUME NEW store \in 0 .. MaxHeight, NEW state \in 0 .. MaxHeight, NEW hash \in HashType,
             NEW last \in Seq(ResultType),
             NEW saved \in [height : 0 .. MaxHeight, results : Seq(ResultType)],
             TmIs(store, state, hash, last, saved), store \in {state, state + 1}
      PROVE  tm' \in TendermintType /\ tm'.store \in {tm'.state, tm'.state + 1}
  <2>1. tm' = [store |-> store, state |-> state, hash |-> hash, last |-> last, saved |-> saved]
    BY <1>1 DEF TmIs
  <2>2. tm' \in TendermintType
    BY <2>1 DEF TendermintType, HashType
  <2> QED BY <1>1, <2>2 DEF TmIs
<1>2. CASE UNCHANGED tm
  BY <1>2, <1>t
<1>3. CASE TmIs(tm.store + 1, tm.state, tm.hash, tm.last, tm.saved) /\ tm.store < Len(chain) /\ node.pc = "ready"
  <2>1. tm.store + 1 \in 0 .. MaxHeight /\ tm.store = tm.state
    BY <1>3, <1>t DEF Base
  <2>2. tm.store + 1 \in {tm.state, tm.state + 1}
    BY <2>1
  <2> QED BY <1>1, <1>3, <1>s, <2>1, <2>2
<1>4. CASE MServeSaved
  <2>1. AppHash \in HashType
    BY HashTypes DEF Base
  <2> QED BY <1>1, <1>4, <1>t, <1>s, <2>1 DEF MServeSaved
<1>5. CASE MEnd
  <2> DEFINE saved == [height |-> node.height, results |-> node.results]
  <2>1. saved \in [height : 0 .. MaxHeight, results : Seq(ResultType)]
    BY <1>t
  <2>2. UNCHANGED tm \/ TmIs(tm.store, tm.state, tm.hash, tm.last, saved)
    BY <1>5 DEF MEnd
  <2> HIDE DEF saved
  <2> QED BY <1>1, <1>2, <1>t, <1>s, <2>1, <2>2
<1>6. CASE MSave
  <2>1. TmIs(tm.store, node.height, node.data, node.results, tm.saved)
    BY <1>6 DEF MSave
  <2>2. tm.store = node.height
    BY <1>6, <1>t DEF MSave, Base, Running
  <2>3. tm.store \in {node.height, node.height + 1}
    BY <2>2
  <2> QED BY <1>1, <1>t, <1>s, <2>1, <2>3
<1> QED BY <1>2, <1>3, <1>4, <1>5, <1>6 DEF Moves, MQuiet, MDecide, MStart, MNext, MStop, MServe,
       MReplay, MReapply, MBegin, MDeliver, MCommit, MAgain, MOnto, MServeAgain, MRestart

\* A move keeps the shape of app and disk.
LEMMA AppTyped ==
    ASSUME Base, Moves
    PROVE  app' \in AppType /\ disk' \in DiskType
<1>t. /\ app \in AppType /\ disk \in DiskType /\ app.height \in Nat /\ app.log \in Seq(EntryType)
      /\ app.hash \in HashType /\ app.time \in 0 .. MaxHeight /\ node.height \in 0 .. MaxHeight
      /\ disk.height \in Nat /\ disk.log \in Seq(EntryType) /\ MaxHeight \in Nat
  BY BaseTypes DEF Base
<1>1. ASSUME NEW height \in Nat, NEW log \in Seq(EntryType), NEW time \in 0 .. MaxHeight,
             NEW hash \in HashType, AppIs(height, log, time, hash)
      PROVE  app' \in AppType
  BY <1>1 DEF AppIs, AppType
<1>2. CASE UNCHANGED <<app, disk>>
  BY <1>2, <1>t
<1>3. CASE MBegin
  BY <1>1, <1>3, <1>t DEF MBegin
<1>4. CASE MDeliver
  <2> DEFINE r == chain[node.height][Len(node.results) + 1]
             log == Append(app.log, Entry(r, app.time))
  <2>1. UNCHANGED app \/ AppIs(app.height, log, app.time, app.hash)
    BY <1>4 DEF MDeliver
  <2>2. log \in Seq(EntryType)
    BY <1>4, NextLogType DEF MDeliver
  <2>3. UNCHANGED disk
    BY <1>4 DEF MDeliver
  <2> HIDE DEF log
  <2> QED BY <1>1, <1>t, <2>1, <2>2, <2>3
<1>5. CASE MCommit
  <2> DEFINE height == app.height + 1
             hash == Hash(app.log, height)
  <2>1. height \in Nat
    BY <1>t
  <2>2. \/ UNCHANGED <<app, disk>>
        \/ AppIs(height, app.log, app.time, hash) /\ DiskIs(height, app.log)
    BY <1>5 DEF MCommit
  <2> HIDE DEF height
  <2>3. hash \in HashType
    BY <1>t, <2>1, HashTypes
  <2> HIDE DEF hash
  <2>4. DiskIs(height, app.log) => disk' \in DiskType
    BY <1>t, <2>1 DEF DiskIs, DiskType
  <2> QED BY <1>1, <1>t, <2>1, <2>2, <2>3, <2>4
<1>6. CASE MRestart
  <2>1. ClockTime \in 0 .. MaxHeight
    BY <1>t DEF ClockTime
  <2>2. (UNCHANGED app \/ Loaded) /\ UNCHANGED disk
    BY <1>6 DEF MRestart
  <2>3. Loaded => app' \in AppType
    BY <1>1, <1>t, <2>1, HashTypes DEF Loaded
  <2> QED BY <1>t, <2>2, <2>3
<1> QED BY <1>2, <1>3, <1>4, <1>5, <1>6 DEF Moves, MQuiet, MDecide, MStart, MNext, MStop, MServe,
       MServeSaved, MReplay, MReapply, MEnd, MAgain, MOnto, MServeAgain, MSave, Elsewhere

ClientType == [state : {"idle", "waiting", "done", "failed", "timedout", "refused"},
               polls : 0 .. MaxPolls, answer : ResultType]

\* wait_response counts a turn and stops after the last one, so the count
\* of a client that still waits is below the limit.
TurnsLeft ==
    \A r \in Requests : /\ client[r].state = "waiting" => client[r].polls < MaxPolls
                        /\ client[r].state = "idle" => client[r].polls = 0

\* The steps, seen from outside the node.
LEMMA OuterSteps ==
    ASSUME [Next]_vars
    PROVE  \/ UNCHANGED <<client, index, chain>> /\ pool' \subseteq pool
           \/ \E r \in Requests : Submit(r) \/ SubmitFails(r) \/ Inject(r) \/ Poll(r)
           \/ Index
           \/ Decide
<1>1. CASE UNCHANGED vars
  BY <1>1 DEF vars
<1>2. CASE NodeStep
  BY <1>2 DEF NodeStep, Start, NextBlock, EndBlock, SaveReplayed, SaveNew, Info, BeginBlock,
              DeliverTx, Commit
<1>3. ASSUME NEW part, Restart(part) PROVE UNCHANGED <<client, index, chain>> /\ pool' \subseteq pool
  <2>1. UNCHANGED pool \/ pool' \in SUBSET pool
    BY <1>3 DEF Restart
  <2> QED BY <1>3, <2>1 DEF Restart
<1> QED BY <1>1, <1>2, <1>3 DEF Next

\* An answer to a client changes that client only.
LEMMA TellTyped ==
    ASSUME Typed, TurnsLeft,
           NEW r \in Requests, NEW state \in {"waiting", "done", "failed", "refused"},
           NEW answer \in ResultType, Tell(r, state, answer),
           state = "waiting" => client[r].state = "idle"
    PROVE  /\ client' \in [Requests -> ClientType] /\ TurnsLeft'
           /\ client'[r].state = state /\ client'[r].answer = answer
           /\ \A q \in Requests \ {r} : client'[q] = client[q]
<1> DEFINE n == [client[r] EXCEPT !.state = state, !.answer = answer]
<1>t. client \in [Requests -> ClientType] /\ MaxPolls \in Nat /\ MaxPolls > 0
  BY BridgeAssumption DEF Typed, TypeOK, ClientType
<1>1. client[r] \in ClientType
  BY <1>t
<1>2. n \in ClientType /\ n.polls = client[r].polls /\ n.state = state /\ n.answer = answer
  BY <1>1 DEF ClientType
<1>3. client' = [client EXCEPT ![r] = n]
  BY <1>t DEF Tell
<1> HIDE DEF n
<1>4. n.state = "waiting" => n.polls < MaxPolls
  BY <1>2, <1>t DEF TurnsLeft
<1>5. n.state # "idle"
  BY <1>2
<1>6. client' \in [Requests -> ClientType] /\ client'[r] = n /\ \A q \in Requests \ {r} : client'[q] = client[q]
  BY <1>t, <1>2, <1>3
<1>7. TurnsLeft'
  BY <1>4, <1>5, <1>6 DEF TurnsLeft
<1> QED BY <1>2, <1>6, <1>7

\* One turn of wait_response.
LEMMA PollTyped ==
    ASSUME Typed, TurnsLeft, NEW r \in Requests, Poll(r)
    PROVE  /\ client' \in [Requests -> ClientType] /\ TurnsLeft'
           /\ client[r].state = "waiting"
           /\ client'[r].state \in {"waiting", "timedout", "failed", "done"}
           /\ client'[r].state = "done" => client'[r].answer = index[r] /\ Status(r) = "done"
           /\ \A q \in Requests \ {r} : client'[q] = client[q]
<1>t. /\ client \in [Requests -> ClientType] /\ MaxPolls \in Nat /\ MaxPolls > 0
      /\ index \in [Requests -> ResultType]
  BY BridgeAssumption DEF Typed, TypeOK, ClientType
<1>0. client[r].state = "waiting"
  BY DEF Poll
<1>1. CASE ~Serving \/ Status(r) = "error"
  <2>1. Tell(r, "failed", NoResult)
    BY <1>1 DEF Poll
  <2> QED BY <1>0, <2>1, ResultTypes, TellTyped
<1>2. CASE ~(~Serving \/ Status(r) = "error") /\ Status(r) = "done"
  <2>1. Tell(r, "done", index[r])
    BY <1>2 DEF Poll
  <2>2. index[r] \in ResultType
    BY <1>t
  <2> QED BY <1>0, <1>2, <2>1, <2>2, TellTyped
<1>3. CASE ~(~Serving \/ Status(r) = "error") /\ Status(r) # "done"
  <2> DEFINE next == IF TurnsUsed(client[r].polls + 1) THEN "timedout" ELSE "waiting"
             n == [client[r] EXCEPT !.polls = @ + 1, !.state = next]
  <2>1. client' = [client EXCEPT ![r].polls = @ + 1,
                                 ![r].state = IF TurnsUsed(client[r].polls + 1)
                                              THEN "timedout" ELSE @]
    BY <1>3 DEF Poll
  <2>2. client[r] \in ClientType
    BY <1>t
  <2>3. client[r].polls \in Nat /\ client[r].polls < MaxPolls
    BY <1>0, <2>2, <1>t DEF TurnsLeft, ClientType
  <2>4. client' = [client EXCEPT ![r] = n]
    BY <1>0, <1>t, <2>1, <2>2 DEF ClientType
  <2>5. /\ next \in {"timedout", "waiting"}
        /\ next = "waiting" => client[r].polls + 1 # MaxPolls
    BY DEF TurnsUsed
  <2> HIDE DEF next
  <2>6. n \in ClientType /\ n.state = next /\ n.polls = client[r].polls + 1
    <3>1. client[r].polls + 1 \in 0 .. MaxPolls
      BY <1>t, <2>3
    <3> QED BY <2>2, <2>5, <3>1 DEF ClientType
  <2> HIDE DEF n
  <2>7. /\ client' \in [Requests -> ClientType] /\ client'[r] = n
        /\ \A q \in Requests \ {r} : client'[q] = client[q]
    BY <1>t, <2>4, <2>6
  <2>8. n.state = "waiting" => n.polls < MaxPolls
    BY <1>t, <2>3, <2>5, <2>6
  <2>9. TurnsLeft'
    BY <2>5, <2>6, <2>7, <2>8 DEF TurnsLeft
  <2> QED BY <1>0, <2>5, <2>6, <2>7, <2>9
<1> QED BY <1>1, <1>2, <1>3

\* What the indexer writes was pending.
LEMMA IndexTyped ==
    ASSUME Typed, Index
    PROVE  /\ index' \in [Requests -> ResultType]
           /\ \A r \in Requests : index'[r] = index[r] \/ <<r, index'[r]>> \in pending
<1>t. index \in [Requests -> ResultType] /\ pending \subseteq Requests \X ResultType
  BY DEF Typed, TypeOK
<1> DEFINE new(r) == IF \E p \in pending : p[1] = r
                     THEN (CHOOSE p \in pending : p[1] = r)[2] ELSE index[r]
<1>1. index' = [r \in Requests |-> new(r)]
  BY DEF Index
<1>2. ASSUME NEW r \in Requests
      PROVE  new(r) \in ResultType /\ (new(r) = index[r] \/ <<r, new(r)>> \in pending)
  <2>1. CASE \E p \in pending : p[1] = r
    <3> DEFINE p == CHOOSE q \in pending : q[1] = r
    <3>1. p \in pending /\ p[1] = r
      BY <2>1
    <3>2. new(r) = p[2]
      BY <2>1
    <3> HIDE DEF p, new
    <3>3. p = <<p[1], p[2]>> /\ p[2] \in ResultType
      BY <1>t, <3>1
    <3> QED BY <3>1, <3>2, <3>3
  <2>2. CASE ~\E p \in pending : p[1] = r
    BY <1>t, <2>2
  <2> QED BY <2>1, <2>2
<1> HIDE DEF new
<1> QED BY <1>1, <1>2

LEMMA ClientsTyped ==
    ASSUME Typed, TurnsLeft, [Next]_vars
    PROVE  /\ client' \in [Requests -> ClientType] /\ TurnsLeft'
           /\ index' \in [Requests -> ResultType]
           /\ pool' \subseteq Requests
<1>t. /\ client \in [Requests -> ClientType] /\ index \in [Requests -> ResultType]
      /\ pool \subseteq Requests
  BY DEF Typed, TypeOK, ClientType
<1>0. UNCHANGED client => client' \in [Requests -> ClientType] /\ TurnsLeft'
  BY <1>t DEF TurnsLeft
<1>1. CASE UNCHANGED <<client, index, chain>> /\ pool' \subseteq pool
  BY <1>0, <1>1, <1>t
<1>2. ASSUME NEW r \in Requests, Submit(r) \/ SubmitFails(r)
      PROVE  /\ client' \in [Requests -> ClientType] /\ TurnsLeft'
             /\ UNCHANGED index /\ pool' \subseteq Requests
  <2>1. /\ client[r].state = "idle"
        /\ Tell(r, "refused", NoResult) \/ Tell(r, "waiting", NoResult) \/ Tell(r, "failed", NoResult)
        /\ UNCHANGED index /\ pool' \subseteq pool \cup {r}
    BY <1>2 DEF Submit, SubmitFails
  <2>2. client' \in [Requests -> ClientType] /\ TurnsLeft'
    BY <2>1, ResultTypes, TellTyped
  <2> QED BY <1>t, <2>1, <2>2
<1>3. ASSUME NEW r \in Requests, Inject(r)
      PROVE  UNCHANGED <<client, index>> /\ pool' \subseteq Requests
  BY <1>3, <1>t DEF Inject
<1>4. ASSUME NEW r \in Requests, Poll(r)
      PROVE  /\ client' \in [Requests -> ClientType] /\ TurnsLeft'
             /\ UNCHANGED <<index, pool>>
  BY <1>4, PollTyped DEF Poll
<1>5. CASE Index
  <2>1. UNCHANGED <<client, pool>>
    BY <1>5 DEF Index
  <2> QED BY <1>0, <1>5, <1>t, <2>1, IndexTyped
<1>6. CASE Decide
  <2>1. UNCHANGED <<client, index>> /\ pool' \subseteq pool
    BY <1>6 DEF Decide
  <2> QED BY <1>0, <1>t, <2>1
<1> QED BY <1>0, <1>1, <1>2, <1>3, <1>4, <1>5, <1>6, <1>t, OuterSteps

\* What waits to be indexed is a request with a result.
LEMMA PendingTyped ==
    ASSUME Base, Moves
    PROVE  pending' \subseteq Requests \X ResultType
<1>t. /\ pending \subseteq Requests \X ResultType
      /\ node.height \in Nat /\ tm.store \in Nat /\ tm.state \in Nat /\ Len(chain) \in Nat
      /\ node.results \in Seq(ResultType) /\ tm.saved.results \in Seq(ResultType)
  BY BaseTypes DEF Base, Typed, TypeOK
<1>1. CASE pending' \in {pending, {}}
  BY <1>1, <1>t
<1>2. CASE MServeSaved
  <2>1. tm.store \in 1 .. Len(chain) /\ Len(tm.saved.results) = Len(chain[tm.store])
    BY <1>2, <1>t DEF MServeSaved, Base
  <2>2. IndexedBy(tm.store, tm.saved.results) \subseteq Requests \X ResultType
    BY <1>t, <2>1, IndexedTypes DEF Base
  <2> QED BY <1>2, <1>t, <2>2 DEF MServeSaved
<1>3. CASE MSave
  <2>1. node.height \in 1 .. Len(chain) /\ Len(node.results) = Len(chain[node.height])
    BY <1>3, <1>t DEF MSave, Base, Running
  <2>2. IndexedBy(node.height, node.results) \subseteq Requests \X ResultType
    BY <1>t, <2>1, IndexedTypes DEF Base
  <2> QED BY <1>3, <1>t, <2>2 DEF MSave
<1> QED BY <1>1, <1>2, <1>3 DEF Moves, MQuiet, MDecide, MStart, MNext, MStop, MServe, MReplay,
       MReapply, MBegin, MDeliver, MEnd, MCommit, MAgain, MOnto, MServeAgain, MRestart

\* A step keeps the types.
LEMMA TypesKept ==
    ASSUME Base, TurnsLeft, [Next]_vars
    PROVE  Typed' /\ TurnsLeft'
<1>1. Moves
  BY StepMoves
<1>2. /\ chain' \in Seq(Seq(Requests)) /\ Len(chain') <= MaxHeight
      /\ node' \in NodeType
      /\ tm' \in TendermintType /\ tm'.store \in {tm'.state, tm'.state + 1}
      /\ app' \in AppType /\ disk' \in DiskType
      /\ pending' \subseteq Requests \X ResultType
  BY <1>1, ChainTyped, NodeTyped, TmTyped, AppTyped, PendingTyped
<1>3. /\ client' \in [Requests -> ClientType] /\ TurnsLeft'
      /\ index' \in [Requests -> ResultType]
      /\ pool' \subseteq Requests
  BY ClientsTyped DEF Base
<1>4. /\ app'.log \in Seq(EntryType) /\ app'.time \in 0 .. MaxHeight
      /\ disk'.log \in Seq(EntryType)
  BY <1>2 DEF AppType, DiskType
<1> QED BY <1>2, <1>3, <1>4 DEF Typed, TypeOK, ClientType

LEMMA InitBase == Init => Base /\ TurnsLeft
<1> SUFFICES ASSUME Init PROVE Base /\ TurnsLeft
  OBVIOUS
<1>0. MaxHeight \in Nat /\ MaxPolls \in Nat /\ MaxPolls > 0
  BY BridgeAssumption
<1>e. /\ <<>> \in Seq(Seq(Requests)) /\ <<>> \in Seq(ResultType) /\ <<>> \in Seq(EntryType)
      /\ Len(<<>>) = 0
  OBVIOUS
<1>1. node \in NodeType /\ node.pc = "down" /\ ~node.up
  BY <1>0, <1>e, HashTypes DEF Init, NodeType, Phases, HashType
<1>2. /\ tm \in TendermintType /\ tm.store = 0 /\ tm.state = 0 /\ tm.saved.height = 0
  <2> DEFINE x == Hash(<<>>, 0)
             saved == [height |-> 0, results |-> <<>>]
  <2>1. x \in HashType
    BY <1>e, HashTypes
  <2>2. saved \in [height : 0 .. MaxHeight, results : Seq(ResultType)] /\ saved.height = 0
    BY <1>0, <1>e
  <2>3. tm = [store |-> 0, state |-> 0, hash |-> x, last |-> <<>>, saved |-> saved]
    BY DEF Init
  <2> HIDE DEF x, saved
  <2>4. tm \in TendermintType
    BY <1>0, <1>e, <2>1, <2>2, <2>3 DEF TendermintType, HashType
  <2> QED BY <2>2, <2>3, <2>4
<1>3. app \in AppType /\ app.height = 0 /\ app.log = <<>> /\ app.hash = NotAHash /\ app.time \in 0 .. MaxHeight
  BY <1>0, <1>e, HashTypes DEF Init, AppType, ClockTime
<1>4. disk \in DiskType /\ disk.height = 0 /\ disk.log = <<>>
  BY <1>e DEF Init, DiskType
<1>5. /\ client \in [Requests -> ClientType] /\ index \in [Requests -> ResultType] /\ TurnsLeft
  BY <1>0, ResultTypes DEF Init, ClientType, TurnsLeft
<1>6. chain \in Seq(Seq(Requests)) /\ Len(chain) = 0 /\ pool \subseteq Requests /\ pending \subseteq Requests \X ResultType
  BY <1>e DEF Init
<1>7. Typed
  BY <1>0, <1>e, <1>1, <1>2, <1>3, <1>4, <1>5, <1>6 DEF Typed, TypeOK, ClientType
<1> QED BY <1>1, <1>2, <1>3, <1>4, <1>5, <1>6, <1>7 DEF Base, Running

\* A step keeps Base.
LEMMA BaseStep ==
    ASSUME Base, TurnsLeft, [Next]_vars
    PROVE  Base'
<1>T. Typed'
  BY TypesKept
<1>M. Moves
  BY StepMoves
<1>t. /\ node.height \in Nat /\ tm.store \in Nat /\ tm.state \in Nat /\ Len(chain) \in Nat
      /\ tm.store \in {tm.state, tm.state + 1} /\ tm.saved.height \in Nat
      /\ node.results \in Seq(ResultType) /\ Len(node.results) \in Nat
      /\ app.height \in Nat /\ disk.height \in Nat
      /\ node.pc \in Phases
  BY BaseTypes DEF Base
<1>c. /\ Len(chain) <= Len(chain') /\ Len(chain') \in Nat
      /\ \A h \in 1 .. Len(chain) : chain'[h] = chain[h]
  BY <1>M, ChainTyped, SMTT(60)
<1>h. \A a, x : Hash(a, x) # NotAHash
  BY HashFacts
<1>1. CASE UNCHANGED <<node, tm, app, disk>>
  <2>1. node.pc \in Running => chain'[node.height] = chain[node.height]
    BY <1>t, <1>c, SMTT(60) DEF Base
  <2>2. tm.saved.height >= 1 => chain'[tm.saved.height] = chain[tm.saved.height]
    BY <1>t, <1>c, SMTT(60) DEF Base
  <2>3. tm.store <= Len(chain')
    BY <1>t, <1>c DEF Base
  <2> QED BY <1>1, <1>T, <2>1, <2>2, <2>3 DEF Base, Running
<1>2. CASE MStart
  BY <1>2, <1>T, <1>t DEF Base, Running, MStart, ToPc, NodeIs, Elsewhere
<1>3. CASE MNext
  BY <1>3, <1>T, <1>t DEF Base, Running, MNext, ToBegin, NodeIs, TmIs, Elsewhere
<1>4. CASE MStop
  BY <1>4, <1>T, <1>t, SMTT(60) DEF Base, Running, MStop, ToPc, NodeIs, TmIs, Elsewhere
<1>5. CASE MServe
  BY <1>5, <1>T, <1>t DEF Base, Running, MServe, ToReady, NodeIs, Elsewhere
<1>6. CASE MServeSaved
  BY <1>6, <1>T, <1>t DEF Base, Running, MServeSaved, ToReady, NodeIs, TmIs, Elsewhere
<1>7. CASE MReplay
  BY <1>7, <1>T, <1>t DEF Base, Running, MReplay, ToBegin, NodeIs, Elsewhere
<1>8. CASE MReapply
  BY <1>8, <1>T, <1>t DEF Base, Running, MReapply, ToBegin, NodeIs, Elsewhere
<1>9. CASE MBegin
  BY <1>9, <1>T, <1>t DEF Base, Running, MBegin, ToPc, NodeIs, AppIs
<1>10. CASE MDeliver
  BY <1>10, <1>T, <1>t DEF Base, Running, MDeliver, NodeIs, AppIs
<1>11. CASE MEnd
  BY <1>11, <1>T, <1>t, SMTT(60) DEF Base, Running, MEnd, ToPc, NodeIs, TmIs, Elsewhere
<1>12. CASE MCommit
  BY <1>12, <1>T, <1>t, <1>h DEF Base, Running, MCommit, NodeIs, AppIs, DiskIs
<1>13. CASE MAgain
  BY <1>13, <1>T, <1>t DEF Base, Running, MAgain, ToBegin, NodeIs, Elsewhere
<1>14. CASE MOnto
  BY <1>14, <1>T, <1>t DEF Base, Running, MOnto, ToBegin, NodeIs, Elsewhere
<1>15. CASE MServeAgain
  BY <1>15, <1>T, <1>t DEF Base, Running, MServeAgain, ToReady, NodeIs, Elsewhere
<1>16. CASE MSave
  BY <1>16, <1>T, <1>t DEF Base, Running, MSave, ToReady, NodeIs, TmIs, Elsewhere
<1>17. CASE MRestart
  BY <1>17, <1>T, <1>t DEF Base, Running, MRestart, Loaded, Down, NodeIs, AppIs
<1> QED BY <1>M, <1>1, <1>2, <1>3, <1>4, <1>5, <1>6, <1>7, <1>8, <1>9, <1>10, <1>11, <1>12, <1>13,
           <1>14, <1>15, <1>16, <1>17 DEF Moves, MQuiet, MDecide

\* Whatever has failed, a node is between blocks that Tendermint stored, and the
\* application in memory and on disk are at the same height.
THEOREM BaseInvariance == Spec => [](Base /\ TurnsLeft)
<1>1. Base /\ TurnsLeft /\ [Next]_vars => (Base /\ TurnsLeft)'
  BY BaseStep, TypesKept
<1> QED BY <1>1, InitBase, PTL DEF Spec

\* Polls and blocks stay within their bounds, records keep their shape, and
\* Tendermint has at most one block stored that it has no state for.
THEOREM TypeCorrect == Spec => []TypeOK
<1>1. Base => TypeOK
  BY DEF Base, Typed
<1> QED BY <1>1, BaseInvariance, PTL

-----------------------------------------------------------------------------
(* Heights.                                                                *)

\* The hash that the header after block h of chain c carries.
Canon(c, h) == Hash(CanonLogs(c)[h], h)

\* A step changes nothing the network held before.
LEMMA CanonSteady ==
    ASSUME Base, Moves
    PROVE  /\ \A h \in 0 .. Len(chain) : CanonLogs(chain')[h] = CanonLogs(chain)[h]
           /\ \A h \in 0 .. Len(chain) : Canon(chain', h) = Canon(chain, h)
<1>t. chain \in Seq(Seq(Requests))
  BY BaseTypes DEF Base
<1>1. \A h \in 0 .. Len(chain) : CanonLogs(chain')[h] = CanonLogs(chain)[h]
  <2>1. CASE MDecide
    <3>1. PICK b \in Seq(Requests) : chain' = Append(chain, b)
      BY <2>1 DEF MDecide
    <3> QED BY <1>t, <3>1, CanonStable
  <2>2. CASE ~MDecide
    <3>1. chain' = chain
      BY <2>2 DEF Moves, MQuiet, MStart, MNext, MStop, MServe, MServeSaved, MReplay, MReapply,
                  MBegin, MDeliver, MEnd, MCommit, MAgain, MOnto, MServeAgain, MSave, MRestart,
                  Elsewhere
    <3> QED BY <3>1
  <2> QED BY <2>1, <2>2
<1> QED BY <1>1 DEF Canon

LEMMA CanonIsHash == \A c, h : Canon(c, h) # NotAHash
BY HashFacts DEF Canon

\* What the application says of its height is what it holds.  Tendermint goes
\* on to a block only when the hash of the one before was right, and a right
\* hash came from a commit that was made: only the last block it has a state
\* for can be missing, and then its hash was not right.
Heights ==
    "info" \notin hurt =>
        /\ disk.height <= tm.store
        /\ tm.hash = Canon(chain, tm.state) => disk.height >= tm.state
        /\ disk.height < tm.state => "commit" \in hurt
        /\ node.pc \in {"begin", "deliver", "commit"} => node.height = app.height + 1
        /\ node.pc = "save" => node.height \in {app.height, app.height + 1}
        /\ node.pc = "save" /\ node.height # app.height =>
              node.data = NotAHash /\ "commit" \in hurt
        /\ node.pc \in Running /\ node.height <= tm.state =>
              tm.hash # Canon(chain, tm.state) /\ "commit" \in hurt
        /\ app.log # disk.log => app.height < tm.store

LEMMA HeightsInit == Init => Heights
BY DEF Init, Heights, Running

\* A step keeps Heights.
LEMMA HeightsStep ==
    ASSUME Base, Heights, [Next]_vars
    PROVE  Heights'
<1>M. Moves
  BY StepMoves
<1>t. /\ node.height \in Nat /\ tm.store \in Nat /\ tm.state \in Nat /\ Len(chain) \in Nat
      /\ tm.store \in {tm.state, tm.state + 1}
      /\ app.height \in Nat /\ app.height = disk.height /\ tm.store <= Len(chain)
      /\ node.pc \in Running => 1 <= node.height /\ node.height <= tm.store
      /\ node.pc = "ready" => tm.store = tm.state
  BY BaseTypes DEF Base
<1>c. \A h \in 0 .. Len(chain) : Canon(chain', h) = Canon(chain, h)
  BY <1>M, CanonSteady
<1>h. \A c, h : Canon(c, h) # NotAHash
  BY CanonIsHash
<1>a. \A h : Accepts(h) => tm.hash = Canon(chain, h - 1)
  BY DEF Accepts, CanonHash, Canon, CanonLog
<1>s. tm.state \in 0 .. Len(chain) /\ (tm.store + 1) - 1 = tm.store
  BY <1>t
<1>1. CASE UNCHANGED <<node, tm, app, disk, hurt>>
  <2>1. Canon(chain', tm.state) = Canon(chain, tm.state)
    BY <1>c, <1>s
  <2> QED BY <1>1, <2>1 DEF Heights
<1>2. CASE MStart
  BY <1>2, <1>t DEF Heights, Running, MStart, ToPc, NodeIs, Elsewhere
<1>3. CASE MNext
  BY <1>3, <1>t, <1>a, <1>s DEF Heights, Running, MNext, ToBegin, NodeIs, TmIs, Elsewhere
<1>4. CASE MStop
  BY <1>4, <1>t DEF Heights, Running, MStop, ToPc, NodeIs, TmIs, Elsewhere
<1>5. CASE MServe
  BY <1>5, <1>t DEF Heights, Running, MServe, ToReady, NodeIs, Elsewhere
<1>6. CASE MServeSaved
  BY <1>6, <1>t DEF Heights, Running, MServeSaved, ToReady, NodeIs, TmIs, Elsewhere
<1>7. CASE MReplay
  BY <1>7, <1>t DEF Heights, Running, MReplay, ToBegin, NodeIs, Elsewhere
<1>8. CASE MReapply
  BY <1>8, <1>t DEF Heights, Running, MReapply, ToBegin, NodeIs, Elsewhere
<1>9. CASE MBegin
  BY <1>9, <1>t DEF Heights, Running, MBegin, ToPc, NodeIs, AppIs
<1>10. CASE MDeliver
  BY <1>10, <1>t DEF Heights, Running, MDeliver, NodeIs, AppIs
<1>11. CASE MEnd
  BY <1>11, <1>t DEF Heights, Running, MEnd, ToPc, NodeIs, TmIs, Elsewhere
<1>12. CASE MCommit
  BY <1>12, <1>t DEF Heights, Running, MCommit, NodeIs, AppIs, DiskIs
<1>13. CASE MAgain
  <2>1. node.data # NotAHash
    BY <1>13, <1>h DEF MAgain, CanonHash, Canon, CanonLog
  <2> QED BY <1>13, <1>t, <2>1 DEF Heights, Running, MAgain, ToBegin, NodeIs, Elsewhere
<1>14. CASE MOnto
  <2>1. tm.hash = Canon(chain, tm.state)
    <3>1. tm.store - 1 = tm.state
      BY <1>14, <1>t DEF MOnto
    <3> QED BY <1>14, <1>a, <3>1 DEF MOnto
  <2> QED BY <1>14, <1>t, <2>1 DEF Heights, Running, MOnto, ToBegin, NodeIs, Elsewhere
<1>15. CASE MServeAgain
  BY <1>15, <1>t DEF Heights, Running, MServeAgain, ToReady, NodeIs, Elsewhere
<1>16. CASE MSave
  BY <1>16, <1>t, <1>h DEF Heights, Running, MSave, ToReady, NodeIs, TmIs, Elsewhere
<1>17. CASE MRestart
  BY <1>17, <1>t DEF Heights, Running, MRestart, Loaded, Down, NodeIs, AppIs
<1> QED BY <1>M, <1>1, <1>2, <1>3, <1>4, <1>5, <1>6, <1>7, <1>8, <1>9, <1>10, <1>11, <1>12, <1>13,
           <1>14, <1>15, <1>16, <1>17 DEF Moves, MQuiet, MDecide

\* Unless abci.info failed, the height the application answers is that of the
\* blocks it holds, and a block that is run is the next one.
THEOREM HeightsInvariance == Spec => [](Base /\ Heights)
<1>1. Base /\ TurnsLeft /\ Heights /\ [Next]_vars => Heights'
  BY HeightsStep
<1> QED BY <1>1, HeightsInit, BaseInvariance, PTL DEF Spec

-----------------------------------------------------------------------------
(* A divergence is noticed before the next block.                          *)

InStep ==
    /\ node.pc \in {"down", "info"} /\ "bridge" \notin hurt => app.log = disk.log
    /\ ~({"info", "bridge"} \subseteq hurt) =>
          /\ node.pc = "ready" /\ tm.hash = Canon(chain, tm.state) =>
                app.log = CanonLogs(chain)[tm.state] /\ disk.log = app.log
          /\ node.pc = "begin" /\ node.up =>
                app.log = CanonLogs(chain)[node.height - 1] /\ disk.log = app.log

LEMMA InStepInit == Init => InStep
BY DEF Init, InStep

\* The hash that abci.info answers is that of the tree in memory.
LEMMA AppHashFacts ==
    ASSUME Base, Heights, InStep, node.pc = "info", app.height = tm.store,
           ~({"info", "bridge"} \subseteq hurt)
    PROVE  /\ app.log = disk.log
           /\ \A h : AppHash = Canon(chain, h) => app.log = CanonLogs(chain)[h]
<1>1. app.log = disk.log
  <2>1. CASE "bridge" \notin hurt
    BY <2>1 DEF InStep
  <2>2. CASE "info" \notin hurt
    BY <2>2, BaseTypes DEF Base, Heights
  <2> QED BY <2>1, <2>2
<1>2. AppHash = Hash(app.log, app.height)
  BY <1>1 DEF AppHash, Base
<1> QED BY <1>1, <1>2, HashFacts DEF Canon

\* A step keeps InStep.
LEMMA InStepStep ==
    ASSUME Base, Heights, InStep, [Next]_vars
    PROVE  InStep'
<1>M. Moves
  BY StepMoves
<1>t. /\ node.height \in Nat /\ tm.store \in Nat /\ tm.state \in Nat /\ Len(chain) \in Nat
      /\ tm.store <= Len(chain) /\ chain \in Seq(Seq(Requests))
      /\ tm.store \in {tm.state, tm.state + 1}
      /\ node.pc \in Running => 1 <= node.height /\ node.height <= tm.store
      /\ node.pc = "ready" => tm.store = tm.state
      /\ node.up => node.pc \notin {"down", "info"}
      /\ node.up /\ node.pc \in Running => node.height > tm.state
      /\ node.pc = "save" /\ node.data # NotAHash =>
            node.data = Hash(disk.log, disk.height) /\ app.log = disk.log
  BY BaseTypes DEF Base
<1>c. \A h \in 0 .. Len(chain) : /\ Canon(chain', h) = Canon(chain, h)
                                 /\ CanonLogs(chain')[h] = CanonLogs(chain)[h]
  BY <1>M, CanonSteady
<1>d. \A h : node.pc = "save" /\ node.data = Canon(chain, h) =>
          app.log = disk.log /\ app.log = CanonLogs(chain)[h]
  BY <1>t, HashFacts, CanonIsHash DEF Canon
<1>1. CASE UNCHANGED <<node, tm, app, disk, hurt>>
  <2>1. tm.state \in 0 .. Len(chain) /\ (node.pc = "begin" => node.height - 1 \in 0 .. Len(chain))
    BY <1>t DEF Running
  <2> QED BY <1>1, <1>c, <2>1 DEF InStep
<1>2. CASE MStart
  BY <1>2, <1>t DEF InStep, Running, MStart, ToPc, NodeIs, Elsewhere
<1>3. CASE MNext
  <2>1. tm.hash = Canon(chain, tm.state) /\ (tm.store + 1) - 1 = tm.state
    <3>1. (tm.store + 1) - 1 = tm.state
      BY <1>3, <1>t DEF MNext
    <3> QED BY <1>3, <3>1 DEF MNext, Accepts, CanonHash, Canon, CanonLog
  <2> QED BY <1>3, <2>1 DEF InStep, MNext, ToBegin, NodeIs, TmIs, Elsewhere
<1>4. CASE MStop
  BY <1>4 DEF InStep, MStop, ToPc, NodeIs, Elsewhere
<1>5. CASE MServe
  <2>1. ASSUME ~({"info", "bridge"} \subseteq hurt'), tm.hash = Canon(chain, tm.state)
        PROVE  app.log = CanonLogs(chain)[tm.state] /\ disk.log = app.log
    <3>1. ~({"info", "bridge"} \subseteq hurt)
      BY <1>5, <2>1 DEF MServe
    <3>2. CASE tm.store = 0
      <4>1. app.log = <<>> /\ disk.log = <<>> /\ tm.state = 0
        BY <1>5, <3>2 DEF Base, MServe
      <4> QED BY <1>t, <4>1, CanonStep
    <3>3. CASE tm.store # 0
      <4>1. app.height = tm.store /\ AppHash = tm.hash /\ node.pc = "info"
        BY <1>5, <3>3 DEF MServe
      <4> QED BY <2>1, <3>1, <4>1, AppHashFacts
    <3> QED BY <3>2, <3>3
  <2> QED BY <1>5, <2>1 DEF InStep, MServe, ToReady, NodeIs, Elsewhere
<1>6. CASE MServeSaved
  <2>1. ASSUME ~({"info", "bridge"} \subseteq hurt), AppHash = Canon(chain, tm.store)
        PROVE  app.log = CanonLogs(chain)[tm.store] /\ disk.log = app.log
    <3>1. app.height = tm.store /\ node.pc = "info"
      BY <1>6 DEF MServeSaved
    <3> QED BY <2>1, <3>1, AppHashFacts
  <2> QED BY <1>6, <2>1 DEF InStep, MServeSaved, ToReady, NodeIs, TmIs, Elsewhere
<1>7. CASE MReplay
  BY <1>7, <1>t DEF InStep, MReplay, ToBegin, NodeIs, Elsewhere
<1>8. CASE MReapply
  BY <1>8, <1>t DEF InStep, MReapply, ToBegin, NodeIs, Elsewhere
<1>9. CASE MBegin
  BY <1>9 DEF InStep, MBegin, ToPc, NodeIs
<1>10. CASE MDeliver
  BY <1>10 DEF InStep, MDeliver, NodeIs
<1>11. CASE MEnd
  BY <1>11 DEF InStep, MEnd, ToPc, NodeIs
<1>12. CASE MCommit
  BY <1>12 DEF InStep, MCommit, NodeIs
<1>13. CASE MAgain
  BY <1>13, <1>t DEF InStep, MAgain, ToBegin, NodeIs, Elsewhere, Running
<1>14. CASE MOnto
  BY <1>14, <1>t DEF InStep, MOnto, ToBegin, NodeIs, Elsewhere, Running
<1>15. CASE MServeAgain
  BY <1>15, <1>d DEF InStep, MServeAgain, ToReady, NodeIs, Elsewhere
<1>16. CASE MSave
  BY <1>16, <1>d DEF InStep, MSave, ToReady, NodeIs, TmIs, Elsewhere
<1>17. CASE MRestart
  BY <1>17 DEF InStep, MRestart, Loaded, Down, NodeIs, AppIs
<1> QED BY <1>M, <1>1, <1>2, <1>3, <1>4, <1>5, <1>6, <1>7, <1>8, <1>9, <1>10, <1>11, <1>12, <1>13,
           <1>14, <1>15, <1>16, <1>17 DEF Moves, MQuiet, MDecide

\* A node whose state differs from that of the network, because the bridge
\* dropped an error of beginBlock or passed one of deliverTx or commit on as
\* an answer, begins no further block: Tendermint stops on the hash first.
THEOREM DivergenceIsContained == Spec => []DivergenceContained
<1>1. InStep => DivergenceContained
  BY DEF InStep, DivergenceContained, CanonLog
<1>2. Base /\ Heights /\ InStep /\ [Next]_vars => InStep'
  BY InStepStep
<1> QED BY <1>1, <1>2, InStepInit, HeightsInvariance, PTL DEF Spec

-----------------------------------------------------------------------------
(* What is decided is decided once.                                        *)

InBlock(b, r) == \E i \in 1 .. Len(b) : b[i] = r

InChain(c, r) == \E h \in 1 .. Len(c) : InBlock(c[h], r)

NoRepeat(c) ==
    \A g, h \in 1 .. Len(c) : \A i \in 1 .. Len(c[g]), j \in 1 .. Len(c[h]) :
        c[g][i] = c[h][j] => g = h /\ i = j

DecidedOnce ==
    /\ NoRepeat(chain)
    /\ \A r \in pool : ~InChain(chain, r)
    /\ \A r \in Requests \ Garbled :
          r \in pool \/ InChain(chain, r) => client[r].state \notin {"idle", "refused"}
    /\ \A r \in Garbled : client[r].state = "idle"

\* Decided, as a predicate.
LEMMA DecidedFacts ==
    ASSUME NEW c \in Seq(Seq(Requests)), NEW r
    PROVE  r \in UNION {{c[h][i] : i \in DOMAIN c[h]} : h \in DOMAIN c} <=> InChain(c, r)
<1>1. DOMAIN c = 1 .. Len(c)
  OBVIOUS
<1>2. \A h \in 1 .. Len(c) : c[h] \in Seq(Requests)
  OBVIOUS
<1>3. \A h \in 1 .. Len(c) : DOMAIN c[h] = 1 .. Len(c[h])
  BY <1>2
<1>4. r \in UNION {{c[h][i] : i \in DOMAIN c[h]} : h \in DOMAIN c}
      <=> \E h \in DOMAIN c : \E i \in DOMAIN c[h] : c[h][i] = r
  OBVIOUS
<1>5. (\E h \in DOMAIN c : \E i \in DOMAIN c[h] : c[h][i] = r) <=> InChain(c, r)
  BY <1>1, <1>3 DEF InChain, InBlock
<1> QED BY <1>4, <1>5

\* What a new block adds to the decided transactions.
LEMMA AppendInChain ==
    ASSUME NEW c \in Seq(Seq(Requests)), NEW b \in Seq(Requests), NEW r
    PROVE  InChain(Append(c, b), r) <=> InChain(c, r) \/ InBlock(b, r)
<1> DEFINE d == Append(c, b)
<1>1. /\ Len(c) \in Nat /\ Len(d) = Len(c) + 1 /\ d[Len(c) + 1] = b
      /\ \A h \in 1 .. Len(c) : d[h] = c[h]
  OBVIOUS
<1> HIDE DEF d
<1>2. ASSUME InChain(d, r) PROVE InChain(c, r) \/ InBlock(b, r)
  <2>1. PICK h \in 1 .. Len(d) : InBlock(d[h], r)
    BY <1>2 DEF InChain
  <2>2. CASE h = Len(c) + 1
    BY <1>1, <2>1, <2>2
  <2>3. CASE h # Len(c) + 1
    <3>1. h \in 1 .. Len(c)
      BY <1>1, <2>3
    <3> QED BY <1>1, <2>1, <3>1 DEF InChain
  <2> QED BY <2>2, <2>3
<1>3. ASSUME InChain(c, r) PROVE InChain(d, r)
  <2>1. PICK h \in 1 .. Len(c) : InBlock(c[h], r)
    BY <1>3 DEF InChain
  <2>2. h \in 1 .. Len(d) /\ d[h] = c[h]
    BY <1>1
  <2> QED BY <2>1, <2>2 DEF InChain
<1>4. ASSUME InBlock(b, r) PROVE InChain(d, r)
  <2>1. Len(c) + 1 \in 1 .. Len(d)
    BY <1>1
  <2> QED BY <1>1, <1>4, <2>1 DEF InChain
<1> QED BY <1>2, <1>3, <1>4 DEF d

\* A block of new transactions repeats none.
LEMMA AppendNoRepeat ==
    ASSUME NEW c \in Seq(Seq(Requests)), NEW b \in Seq(Requests), NoRepeat(c),
           \A i, j \in 1 .. Len(b) : b[i] = b[j] => i = j,
           \A i \in 1 .. Len(b) : ~InChain(c, b[i])
    PROVE  NoRepeat(Append(c, b))
<1> DEFINE d == Append(c, b)
           N == Len(c) + 1
<1>1. /\ Len(c) \in Nat /\ Len(d) = N /\ d[N] = b
      /\ \A h \in 1 .. Len(c) : d[h] = c[h]
      /\ \A h \in 1 .. N : h = N \/ h \in 1 .. Len(c)
  OBVIOUS
<1> HIDE DEF d, N
<1>2. SUFFICES ASSUME NEW g \in 1 .. N, NEW h \in 1 .. N,
                      NEW i \in 1 .. Len(d[g]), NEW j \in 1 .. Len(d[h]), d[g][i] = d[h][j]
               PROVE  g = h /\ i = j
  BY <1>1 DEF NoRepeat, d
<1>3. CASE g = N /\ h = N
  BY <1>1, <1>2, <1>3
<1>4. CASE g = N /\ h \in 1 .. Len(c)
  <2>1. d[g] = b /\ d[h] = c[h]
    BY <1>1, <1>4
  <2>2. InChain(c, b[i])
    BY <1>2, <1>4, <2>1 DEF InChain, InBlock
  <2> QED BY <2>1, <2>2
<1>5. CASE h = N /\ g \in 1 .. Len(c)
  <2>1. d[h] = b /\ d[g] = c[g]
    BY <1>1, <1>5
  <2>2. InChain(c, b[j])
    BY <1>2, <1>5, <2>1 DEF InChain, InBlock
  <2> QED BY <2>1, <2>2
<1>6. CASE g \in 1 .. Len(c) /\ h \in 1 .. Len(c)
  <2>1. d[h] = c[h] /\ d[g] = c[g]
    BY <1>1, <1>6
  <2> QED BY <1>2, <1>6, <2>1 DEF NoRepeat
<1> QED BY <1>1, <1>3, <1>4, <1>5, <1>6

LEMMA DecidedOnceInit == Init => DecidedOnce
<1> SUFFICES ASSUME Init PROVE DecidedOnce
  OBVIOUS
<1>1. chain = <<>> /\ pool = {} /\ \A r \in Requests : client[r].state = "idle"
  BY DEF Init
<1>2. Garbled \subseteq Requests
  BY BridgeAssumption
<1>3. Len(chain) = 0
  BY <1>1
<1>4. ~\E h \in 1 .. Len(chain) : TRUE
  BY <1>3
<1> QED BY <1>1, <1>2, <1>4 DEF DecidedOnce, NoRepeat, InChain

\* A step keeps DecidedOnce.
LEMMA DecidedOnceStep ==
    ASSUME Base, TurnsLeft, DecidedOnce, [Next]_vars
    PROVE  DecidedOnce'
<1>t. /\ Typed /\ chain \in Seq(Seq(Requests)) /\ pool \subseteq Requests
      /\ Garbled \subseteq Requests /\ Garbled \cup Denied \cup Unsupported \subseteq Requests
  BY BaseTypes, BridgeAssumption DEF Base, Typed, TypeOK
<1>1. CASE UNCHANGED <<client, index, chain>> /\ pool' \subseteq pool
  BY <1>1 DEF DecidedOnce
<1>2. ASSUME NEW r \in Requests, Submit(r) \/ SubmitFails(r) PROVE DecidedOnce'
  <2>1. /\ client[r].state = "idle" /\ r \notin Garbled /\ chain' = chain
        /\ \/ Tell(r, "refused", NoResult) /\ pool' = pool
           \/ Tell(r, "waiting", NoResult) /\ pool' = pool \cup {r}
           \/ Tell(r, "failed", NoResult) /\ pool' \in {pool, pool \cup {r}}
    BY <1>2 DEF Submit, SubmitFails
  <2>2. r \notin pool /\ ~InChain(chain, r)
    BY <2>1 DEF DecidedOnce
  <2>3. /\ \A q \in Requests \ {r} : client'[q] = client[q]
        /\ \/ client'[r].state = "refused" /\ pool' = pool
           \/ client'[r].state \in {"waiting", "failed"} /\ pool' \subseteq pool \cup {r}
    BY <1>t, <2>1, ResultTypes, TellTyped
  <2> QED BY <1>t, <2>1, <2>2, <2>3 DEF DecidedOnce
<1>3. ASSUME NEW r \in Requests, Inject(r) PROVE DecidedOnce'
  <2>1. /\ r \in Garbled /\ r \notin Decided /\ pool' = pool \cup {r}
        /\ UNCHANGED <<chain, client>>
    BY <1>3 DEF Inject
  <2>2. ~InChain(chain, r)
    BY <1>t, <2>1, DecidedFacts DEF Decided
  <2> QED BY <2>1, <2>2 DEF DecidedOnce
<1>4. ASSUME NEW r \in Requests, Poll(r) PROVE DecidedOnce'
  <2>1. /\ UNCHANGED <<chain, pool>> /\ client[r].state = "waiting"
        /\ client'[r].state \in {"waiting", "timedout", "failed", "done"}
        /\ \A q \in Requests \ {r} : client'[q] = client[q]
    BY <1>4, <1>t, PollTyped DEF Poll
  <2>2. r \notin Garbled
    BY <2>1 DEF DecidedOnce
  <2> QED BY <1>t, <2>1, <2>2 DEF DecidedOnce
<1>5. CASE Index
  BY <1>5 DEF Index, DecidedOnce
<1>6. CASE Decide
  <2>1. PICK b \in Blocks : /\ \A i, j \in DOMAIN b : i # j => b[i] # b[j]
                            /\ chain' = Append(chain, b)
                            /\ pool' = pool \ {b[i] : i \in DOMAIN b}
                            /\ client' = client
    BY <1>6 DEF Decide
  <2>2. b \in Seq(Requests) /\ DOMAIN b = 1 .. Len(b)
    BY <1>t, BlocksAreSeqs
  <2>3. \A i \in 1 .. Len(b) : b[i] \in pool
    <3>1. PICK n \in 0 .. BlockSize : b \in [1 .. n -> pool]
      BY DEF Blocks
    <3> QED BY <2>2, <3>1
  <2>4. NoRepeat(chain')
    BY <1>t, <2>1, <2>2, <2>3, AppendNoRepeat DEF DecidedOnce
  <2>5. \A r : InChain(chain', r) => InChain(chain, r) \/ InBlock(b, r)
    BY <1>t, <2>1, <2>2, AppendInChain
  <2>6. \A r : InBlock(b, r) => r \in pool
    BY <2>3 DEF InBlock
  <2>7. \A r \in pool' : r \in pool /\ ~InBlock(b, r)
    BY <2>1, <2>2 DEF InBlock
  <2> QED BY <2>1, <2>4, <2>5, <2>6, <2>7 DEF DecidedOnce
<1> QED BY <1>1, <1>2, <1>3, <1>4, <1>5, <1>6, OuterSteps

\* No transaction is decided twice, and none that a front end refused.
THEOREM DecidedOnceInvariance == Spec => []DecidedOnce
<1>1. Base /\ TurnsLeft /\ DecidedOnce /\ [Next]_vars => DecidedOnce'
  BY DecidedOnceStep
<1> QED BY <1>1, DecidedOnceInit, BaseInvariance, PTL DEF Spec

-----------------------------------------------------------------------------
(* A decided command is executed once.                                     *)

\* The entries of log come from the blocks before h and from the first n
\* transactions of block h.
From(c, log, h, n) ==
    \A k \in 1 .. Len(log) : \/ \E g \in 1 .. h - 1 : InBlock(c[g], log[k].req)
                             \/ \E j \in 1 .. n : c[h][j] = log[k].req

Distinct(log) == \A i, j \in 1 .. Len(log) : i # j => log[i].req # log[j].req

Once ==
    hurt \cap {"info", "bridge"} = {} =>
        /\ Distinct(app.log) /\ Distinct(disk.log)
        /\ From(chain, disk.log, disk.height + 1, 0)
        /\ node.pc \in {"begin", "deliver", "commit"} =>
              From(chain, app.log, node.height, Len(node.results))
        /\ node.pc = "save" => From(chain, app.log, node.height + 1, 0)
        /\ node.pc = "ready" => From(chain, app.log, tm.store + 1, 0)

LEMMA FromLater ==
    ASSUME NEW c, NEW log, NEW h \in Nat, NEW k \in Nat, h <= k, From(c, log, h, 0), NEW n \in Nat
    PROVE  From(c, log, k, n)
<1>1. \A g \in 1 .. h - 1 : g \in 1 .. k - 1
  OBVIOUS
<1> QED BY <1>1 DEF From

LEMMA FromMore ==
    ASSUME NEW c, NEW log, NEW h \in Nat, NEW n \in Nat, From(c, log, h, n)
    PROVE  From(c, log, h, n + 1)
<1>1. \A j \in 1 .. n : j \in 1 .. n + 1
  OBVIOUS
<1> QED BY <1>1 DEF From

LEMMA FromWhole ==
    ASSUME NEW c, NEW log, NEW h \in Nat, h >= 1, From(c, log, h, Len(c[h]))
    PROVE  From(c, log, h + 1, 0)
<1>1. h \in 1 .. (h + 1) - 1 /\ \A g \in 1 .. h - 1 : g \in 1 .. (h + 1) - 1
  OBVIOUS
<1> QED BY <1>1 DEF From, InBlock

LEMMA FromSteady ==
    ASSUME Base, Moves, NEW log, NEW h \in Nat, NEW n \in Nat, From(chain, log, h, n),
           h <= Len(chain) + 1, n >= 1 => h \in 1 .. Len(chain)
    PROVE  From(chain', log, h, n)
<1>1. Len(chain) \in Nat /\ \A g \in 1 .. Len(chain) : chain'[g] = chain[g]
  BY ChainTyped, BaseTypes DEF Base
<1>2. \A g \in 1 .. h - 1 : chain'[g] = chain[g]
  BY <1>1
<1>3. \A j \in 1 .. n : chain'[h] = chain[h]
  BY <1>1
<1> QED BY <1>2, <1>3 DEF From

\* An executed transaction comes from its place in the chain and is new there.
LEMMA FromNext ==
    ASSUME NEW c \in Seq(Seq(Requests)), NoRepeat(c),
           NEW log \in Seq(EntryType), NEW time, NEW h \in 1 .. Len(c), NEW n \in Nat,
           n + 1 \in 1 .. Len(c[h]), From(c, log, h, n), Distinct(log),
           NEW new, new = Append(log, Entry(c[h][n + 1], time))
    PROVE  From(c, new, h, n + 1) /\ Distinct(new)
<1> DEFINE r == c[h][n + 1]
           L == Len(log)
<1>1. /\ L \in Nat /\ Len(new) = L + 1 /\ new[L + 1].req = r
      /\ \A k \in 1 .. L : new[k] = log[k]
      /\ \A k \in 1 .. L + 1 : k = L + 1 \/ k \in 1 .. L
  BY SMTT(60) DEF Entry
<1>2. c[h] \in Seq(Requests) /\ Len(c[h]) \in Nat
  OBVIOUS
<1>3. ASSUME NEW k \in 1 .. L PROVE log[k].req # r
  <2>1. CASE \E g \in 1 .. h - 1 : InBlock(c[g], log[k].req)
    <3>1. PICK g \in 1 .. h - 1 : InBlock(c[g], log[k].req)
      BY <2>1
    <3>2. g \in 1 .. Len(c) /\ g # h
      OBVIOUS
    <3>3. PICK i \in 1 .. Len(c[g]) : c[g][i] = log[k].req
      BY <3>1 DEF InBlock
    <3>4. h \in 1 .. Len(c) /\ i \in 1 .. Len(c[g]) /\ n + 1 \in 1 .. Len(c[h])
      OBVIOUS
    <3>5. c[g][i] = c[h][n + 1] => g = h
      BY <3>2, <3>4, Zenon DEF NoRepeat
    <3> QED BY <3>2, <3>3, <3>5
  <2>2. CASE \E j \in 1 .. n : c[h][j] = log[k].req
    <3>1. PICK j \in 1 .. n : c[h][j] = log[k].req
      BY <2>2
    <3>2. j \in 1 .. Len(c[h]) /\ j # n + 1
      BY <1>2
    <3> QED BY <3>1, <3>2 DEF NoRepeat
  <2> QED BY <2>1, <2>2 DEF From
<1> HIDE DEF r, L
<1>4. Distinct(new)
  <2> SUFFICES ASSUME NEW i \in 1 .. L + 1, NEW j \in 1 .. L + 1, i # j
               PROVE  new[i].req # new[j].req
    BY <1>1 DEF Distinct
  <2>1. CASE i \in 1 .. L /\ j \in 1 .. L
    BY <1>1, <2>1 DEF Distinct, L
  <2>2. CASE i = L + 1 /\ j \in 1 .. L
    BY <1>1, <1>3, <2>2
  <2>3. CASE j = L + 1 /\ i \in 1 .. L
    BY <1>1, <1>3, <2>3
  <2> QED BY <1>1, <2>1, <2>2, <2>3
<1>5. From(c, new, h, n + 1)
  <2> SUFFICES ASSUME NEW k \in 1 .. L + 1
               PROVE  \/ \E g \in 1 .. h - 1 : InBlock(c[g], new[k].req)
                      \/ \E j \in 1 .. n + 1 : c[h][j] = new[k].req
    BY <1>1 DEF From
  <2>1. CASE k = L + 1
    <3>1. n + 1 \in 1 .. n + 1 /\ c[h][n + 1] = new[k].req
      BY <1>1, <2>1 DEF r
    <3> QED BY <3>1
  <2>2. CASE k \in 1 .. L
    <3>1. new[k] = log[k]
      BY <1>1, <2>2
    <3>2. From(c, log, h, n + 1)
      BY FromMore
    <3> QED BY <2>2, <3>1, <3>2 DEF From, L
  <2> QED BY <1>1, <2>1, <2>2
<1> QED BY <1>4, <1>5

LEMMA OnceInit == Init => Once
<1> SUFFICES ASSUME Init PROVE Once
  OBVIOUS
<1>1. app.log = <<>> /\ disk.log = <<>> /\ node.pc = "down" /\ Len(<<>>) = 0
  BY DEF Init
<1>2. ~\E k \in 1 .. Len(<<>>) : TRUE
  BY <1>1
<1> QED BY <1>1, <1>2 DEF Once, Distinct, From

\* A step keeps Once.
LEMMA OnceStep ==
    ASSUME Base, Heights, InStep, DecidedOnce, Once, [Next]_vars
    PROVE  Once'
<1>M. Moves
  BY StepMoves
<1>t. /\ node.height \in Nat /\ tm.store \in Nat /\ tm.state \in Nat /\ Len(chain) \in Nat
      /\ tm.store <= Len(chain) /\ chain \in Seq(Seq(Requests))
      /\ tm.store \in {tm.state, tm.state + 1}
      /\ node.results \in Seq(ResultType) /\ Len(node.results) \in Nat
      /\ node.pc \in Running => 1 <= node.height /\ node.height <= tm.store
      /\ node.pc = "begin" => node.results = <<>>
      /\ node.pc = "commit" => Len(node.results) = Len(chain[node.height])
      /\ app.height = disk.height /\ disk.height \in Nat /\ app.log \in Seq(EntryType)
      /\ Len(<<>>) = 0
  BY BaseTypes DEF Base
<1>s. hurt \subseteq hurt'
  BY <1>M DEF Moves, MQuiet, MDecide, MStart, MNext, MStop, MServe, MServeSaved, MReplay, MReapply,
              MBegin, MDeliver, MEnd, MCommit, MAgain, MOnto, MServeAgain, MSave, MRestart
<1> SUFFICES ASSUME hurt' \cap {"info", "bridge"} = {}
             PROVE  /\ Distinct(app'.log) /\ Distinct(disk'.log)
                    /\ From(chain', disk'.log, disk'.height + 1, 0)
                    /\ node'.pc \in {"begin", "deliver", "commit"} =>
                          From(chain', app'.log, node'.height, Len(node'.results))
                    /\ node'.pc = "save" => From(chain', app'.log, node'.height + 1, 0)
                    /\ node'.pc = "ready" => From(chain', app'.log, tm'.store + 1, 0)
  BY DEF Once
<1>0. "info" \notin hurt /\ "bridge" \notin hurt /\ "info" \notin hurt' /\ "bridge" \notin hurt'
  BY <1>s
<1>1. /\ Distinct(app.log) /\ Distinct(disk.log)
      /\ From(chain, disk.log, disk.height + 1, 0)
      /\ node.pc \in {"begin", "deliver", "commit"} =>
            From(chain, app.log, node.height, Len(node.results))
      /\ node.pc = "save" => From(chain, app.log, node.height + 1, 0)
      /\ node.pc = "ready" => From(chain, app.log, tm.store + 1, 0)
  BY <1>0 DEF Once
<1>2. /\ disk.height <= tm.store
      /\ node.pc \in {"begin", "deliver", "commit"} => node.height = app.height + 1
      /\ node.pc = "save" => node.height \in {app.height, app.height + 1}
      /\ node.pc \in {"down", "info"} => app.log = disk.log
  BY <1>0 DEF Heights, InStep
<1>3. From(chain, disk.log, tm.store + 1, 0)
  <2>1. disk.height + 1 \in Nat /\ tm.store + 1 \in Nat /\ disk.height + 1 <= tm.store + 1
    BY <1>t, <1>2
  <2> QED BY <1>1, <2>1, FromLater
<1>4. CASE UNCHANGED <<node, tm, app, disk, hurt>>
  <2>1. From(chain', disk.log, disk.height + 1, 0)
    <3>1. disk.height + 1 \in Nat /\ disk.height + 1 <= Len(chain) + 1
      BY <1>t, <1>2
    <3> QED BY <1>M, <1>1, <3>1, FromSteady
  <2>2. node.pc \in {"begin", "deliver", "commit"} =>
            From(chain', app.log, node.height, Len(node.results))
    <3>1. node.pc \in Running => node.height \in 1 .. Len(chain) /\ node.height <= Len(chain) + 1
      BY <1>t, SMTT(60)
    <3> QED BY <1>M, <1>1, <1>t, <3>1, FromSteady DEF Running
  <2>3. node.pc = "save" => From(chain', app.log, node.height + 1, 0)
    <3>1. node.pc = "save" => node.height + 1 \in Nat /\ node.height + 1 <= Len(chain) + 1
      BY <1>t DEF Running
    <3> QED BY <1>M, <1>1, <3>1, FromSteady
  <2>4. node.pc = "ready" => From(chain', app.log, tm.store + 1, 0)
    <3>1. tm.store + 1 \in Nat /\ tm.store + 1 <= Len(chain) + 1
      BY <1>t
    <3> QED BY <1>M, <1>1, <3>1, FromSteady
  <2> QED BY <1>1, <1>4, <2>1, <2>2, <2>3, <2>4
<1>5. CASE MStart
  BY <1>5, <1>1 DEF MStart, ToPc, NodeIs, Elsewhere
<1>6. CASE MNext
  BY <1>6, <1>1, <1>t DEF MNext, ToBegin, NodeIs, TmIs, Elsewhere
<1>7. CASE MStop
  BY <1>7, <1>1 DEF MStop, ToPc, NodeIs, Elsewhere
<1>8. CASE MServe
  BY <1>8, <1>1, <1>2, <1>3 DEF MServe, ToReady, NodeIs, Elsewhere
<1>9. CASE MServeSaved
  BY <1>9, <1>1, <1>2, <1>3 DEF MServeSaved, ToReady, NodeIs, TmIs, Elsewhere
<1>10. CASE MReplay
  BY <1>10, <1>0, <1>1, <1>2, <1>t DEF MReplay, ToBegin, NodeIs, Elsewhere
<1>11. CASE MReapply
  BY <1>11, <1>0, <1>1, <1>2, <1>t DEF MReapply, ToBegin, NodeIs, Elsewhere
<1>12. CASE MBegin
  BY <1>12, <1>1 DEF MBegin, ToPc, NodeIs, AppIs
<1>13. CASE MDeliver
  <2> DEFINE n == Len(node.results)
             r == chain[node.height][n + 1]
             log == Append(app.log, Entry(r, app.time))
  <2>1. /\ node.pc = "deliver" /\ node'.pc = "deliver" /\ node'.height = node.height
        /\ app'.log = app.log \/ app'.log = log
        /\ chain' = chain /\ disk' = disk
        /\ n + 1 \in DOMAIN chain[node.height]
    BY <1>13 DEF MDeliver, NodeIs, AppIs
  <2>2. Len(node'.results) = n + 1
    <3>1. PICK x : node'.results = Append(node.results, x)
      BY <1>13 DEF MDeliver, NodeIs
    <3> QED BY <1>t, <3>1
  <2>3. node.height \in 1 .. Len(chain) /\ n + 1 \in 1 .. Len(chain[node.height])
    <3>1. node.height \in 1 .. Len(chain)
      BY <1>t, <2>1 DEF Running
    <3>2. chain[node.height] \in Seq(Requests)
      BY <1>t, <3>1
    <3> QED BY <2>1, <3>1, <3>2
  <2>4. From(chain, app.log, node.height, n)
    BY <1>1, <2>1
  <2>5. NoRepeat(chain)
    BY DEF DecidedOnce
  <2>6. log = Append(app.log, Entry(chain[node.height][n + 1], app.time)) /\ n \in Nat
    BY <1>t
  <2> HIDE DEF log, n, r
  <2>7. From(chain, log, node.height, n + 1) /\ Distinct(log)
    BY <1>1, <1>t, <2>3, <2>4, <2>5, <2>6, FromNext
  <2>8. From(chain, app.log, node.height, n + 1)
    BY <1>t, <2>4, <2>6, FromMore
  <2> QED BY <1>1, <2>1, <2>2, <2>7, <2>8
<1>14. CASE MEnd
  BY <1>14, <1>1 DEF MEnd, ToPc, NodeIs, Elsewhere
<1>15. CASE MCommit
  <2>1. /\ node.pc = "commit" /\ node'.pc = "save" /\ node'.height = node.height /\ chain' = chain
        /\ app'.log = app.log
        /\ disk' = disk \/ (disk'.log = app.log /\ disk'.height = app.height + 1)
    BY <1>15 DEF MCommit, NodeIs, AppIs, DiskIs
  <2>2. From(chain, app.log, node.height + 1, 0)
    BY <1>1, <1>t, <2>1, FromWhole DEF Running
  <2> QED BY <1>1, <1>2, <2>1, <2>2
<1>16. CASE MAgain
  BY <1>16, <1>1, <1>t DEF MAgain, ToBegin, NodeIs, Elsewhere
<1>17. CASE MOnto
  <2>1. tm.store = node.height + 1
    BY <1>17, <1>t DEF MOnto
  <2> QED BY <1>17, <1>1, <1>t, <2>1 DEF MOnto, ToBegin, NodeIs, Elsewhere
<1>18. CASE MServeAgain
  BY <1>18, <1>1 DEF MServeAgain, ToReady, NodeIs, Elsewhere
<1>19. CASE MSave
  <2>1. tm.store = node.height
    BY <1>19, <1>t DEF MSave, Running
  <2> QED BY <1>19, <1>1, <2>1 DEF MSave, ToReady, NodeIs, TmIs, Elsewhere
<1>20. CASE MRestart
  <2>1. /\ disk' = disk /\ chain' = chain /\ tm' = tm
        /\ \/ app'.log = disk.log /\ node'.pc = "down"
           \/ app'.log = app.log /\ node'.pc = "down"
           \/ app'.log = disk.log /\ node' = node
    BY <1>20 DEF MRestart, Loaded, Down, NodeIs, AppIs
  <2>2. node.pc \in {"begin", "deliver", "commit"} =>
            From(chain, disk.log, node.height, Len(node.results))
    BY <1>1, <1>2, <1>t, FromLater
  <2>3. node.pc = "save" => From(chain, disk.log, node.height + 1, 0)
    <3>1. node.pc = "save" => disk.height + 1 \in Nat /\ node.height + 1 \in Nat /\ disk.height + 1 <= node.height + 1
      BY <1>t, <1>2
    <3> QED BY <1>1, <3>1, FromLater
  <2> QED BY <1>1, <1>3, <2>1, <2>2, <2>3
<1> QED BY <1>M, <1>4, <1>5, <1>6, <1>7, <1>8, <1>9, <1>10, <1>11, <1>12, <1>13, <1>14, <1>15,
           <1>16, <1>17, <1>18, <1>19, <1>20 DEF Moves, MQuiet, MDecide

\* The invariants about the course of a node, together.
THEOREM ControlInvariance == Spec => [](Base /\ TurnsLeft /\ Heights /\ InStep /\ DecidedOnce)
<1>1. Base /\ Heights /\ InStep /\ [Next]_vars => InStep'
  BY InStepStep
<1> QED BY <1>1, InStepInit, BaseInvariance, HeightsInvariance, DecidedOnceInvariance, PTL DEF Spec

\* A decided command is executed at most once, whatever calls of the bridge
\* fail and whenever the node or the application restarts, unless abci.info
\* lied about the height or Tendermint restarted alone in the middle of a
\* block.
THEOREM ExecutedOnce == Spec => []NoDoubleExecution
<1>1. Base /\ Once => NoDoubleExecution
  <2>1. Base => app.log \in Seq(EntryType)
    BY BaseTypes DEF Base
  <2>2. Base => DOMAIN app.log = 1 .. Len(app.log)
    BY <2>1
  <2> QED BY <2>2 DEF Once, Distinct, NoDoubleExecution
<1>2. Base /\ Heights /\ InStep /\ DecidedOnce /\ Once /\ [Next]_vars => Once'
  BY OnceStep
<1> QED BY <1>1, <1>2, OnceInit, ControlInvariance, PTL DEF Spec

-----------------------------------------------------------------------------
(* What the node reports of a command.                                     *)

\* The response a was given for r, to the transaction index or to a client.
Reported(r, a) ==
    /\ a.data # 0
    /\ \/ <<r, a>> \in pending
       \/ index[r] = a
       \/ client[r].state = "done" /\ client[r].answer = a

Within(h, results, r, a) ==
    \E i \in 1 .. Len(chain[h]) : r = chain[h][i] /\ a = results[i]

Fresh(r, a) ==
    \/ MServeSaved /\ Within(tm.store, tm.saved.results, r, a)
    \/ MSave /\ Within(node.height, node.results, r, a)

\* What is indexed of a block are its transactions with their results.
LEMMA IndexedFacts ==
    ASSUME Typed, NEW h \in 1 .. Len(chain), NEW results, NEW r, NEW a,
           <<r, a>> \in IndexedBy(h, results)
    PROVE  Within(h, results, r, a)
<1>1. chain[h] \in Seq(Requests)
  BY BaseTypes
<1>2. DOMAIN chain[h] = 1 .. Len(chain[h])
  BY <1>1
<1>3. PICK i \in DOMAIN chain[h] : <<r, a>> = <<chain[h][i], results[i]>>
  BY DEF IndexedBy
<1> QED BY <1>2, <1>3 DEF Within

\* What is reported after a step was reported before or is of the block that ends.
LEMMA ReportsStep ==
    ASSUME Base, TurnsLeft, [Next]_vars, NEW r \in Requests, NEW a, Reported(r, a)'
    PROVE  a.data # 0 /\ (Reported(r, a) \/ Fresh(r, a))
<1>M. Moves
  BY StepMoves
<1>t. /\ Typed /\ client \in [Requests -> ClientType]
      /\ node.height \in Nat /\ tm.store \in Nat /\ tm.state \in Nat /\ Len(chain) \in Nat
      /\ tm.store <= Len(chain)
      /\ node.pc \in Running => 1 <= node.height /\ node.height <= tm.store
  <2>1. client \in [Requests -> ClientType]
    BY DEF Base, Typed, TypeOK, ClientType
  <2> QED BY <2>1, BaseTypes DEF Base
<1>0. /\ a.data # 0
      /\ <<r, a>> \in pending' \/ index'[r] = a \/ (client'[r].state = "done" /\ client'[r].answer = a)
  BY DEF Reported
<1>1. CASE <<r, a>> \in pending'
  <2>1. CASE pending' \in {pending, {}}
    BY <1>0, <1>1, <2>1 DEF Reported
  <2>2. CASE MServeSaved
    <3>1. tm.store \in 1 .. Len(chain) /\ pending' = pending \cup IndexedBy(tm.store, tm.saved.results)
      BY <2>2, <1>t DEF MServeSaved
    <3> QED BY <1>0, <1>1, <1>t, <2>2, <3>1, IndexedFacts DEF Reported, Fresh
  <2>3. CASE MSave
    <3>1. node.height \in 1 .. Len(chain) /\ pending' = pending \cup IndexedBy(node.height, node.results)
      BY <2>3, <1>t DEF MSave, Running
    <3> QED BY <1>0, <1>1, <1>t, <2>3, <3>1, IndexedFacts DEF Reported, Fresh
  <2> QED BY <1>M, <2>1, <2>2, <2>3 DEF Moves, MQuiet, MDecide, MStart, MNext, MStop, MServe,
         MReplay, MReapply, MBegin, MDeliver, MEnd, MCommit, MAgain, MOnto, MServeAgain, MRestart
<1>2. CASE index'[r] = a
  <2>1. CASE Index
    BY <1>0, <1>2, <1>t, <2>1, IndexTyped DEF Reported
  <2>2. CASE ~Index
    <3>1. index' = index
      BY <2>2, OuterSteps DEF Submit, SubmitFails, Inject, Poll, Decide
    <3> QED BY <1>0, <1>2, <3>1 DEF Reported
  <2> QED BY <2>1, <2>2
<1>3. CASE client'[r].state = "done" /\ client'[r].answer = a
  <2>1. CASE client'[r] = client[r]
    BY <1>0, <1>3, <2>1 DEF Reported
  <2>2. ASSUME NEW q \in Requests, Submit(q) \/ SubmitFails(q)
        PROVE  client'[r] = client[r]
    <3>1. /\ client[q].state = "idle"
          /\ Tell(q, "refused", NoResult) \/ Tell(q, "waiting", NoResult) \/ Tell(q, "failed", NoResult)
      BY <2>2 DEF Submit, SubmitFails
    <3>2. client'[q].state # "done" /\ \A p \in Requests \ {q} : client'[p] = client[p]
      BY <1>t, <3>1, ResultTypes, TellTyped
    <3> QED BY <1>3, <3>2
  <2>3. ASSUME NEW q \in Requests, Poll(q)
        PROVE  client'[r] = client[r] \/ a = index[r]
    BY <1>3, <1>t, <2>3, PollTyped
  <2>4. CASE a = index[r]
    BY <1>0, <2>4 DEF Reported
  <2>5. UNCHANGED client \/ \E q \in Requests : Submit(q) \/ SubmitFails(q) \/ Poll(q)
    BY OuterSteps DEF Inject, Index, Decide
  <2> QED BY <2>1, <2>2, <2>3, <2>4, <2>5
<1> QED BY <1>0, <1>1, <1>2, <1>3

-----------------------------------------------------------------------------
(* The answers of a node that lost nothing.                                *)

\* What every other node answers for the transactions of block h of chain c,
\* and its log after the first n of them.
ResultsOf(c, h) ==
    IF h = 0 THEN <<>>
    ELSE [i \in 1 .. Len(c[h]) |->
             IF c[h][i] \in Garbled THEN Undecodable
             ELSE Response(LogsOf(CanonLogs(c)[h - 1], c[h], h)[i])]

Partly(c, h, n) == LogsOf(CanonLogs(c)[h - 1], c[h], h)[n]

\* The answers of the network to a block, one by one.
LEMMA ResultsOfFacts ==
    ASSUME NEW c \in Seq(Seq(Requests)), NEW h \in 1 .. Len(c)
    PROVE  /\ ResultsOf(c, h) = [i \in 1 .. Len(c[h]) |->
                                    IF c[h][i] \in Garbled THEN Undecodable
                                    ELSE Response(Partly(c, h, i))]
           /\ \A i \in 1 .. Len(c[h]) :
                 ResultsOf(c, h)[i] = IF c[h][i] \in Garbled THEN Undecodable
                                      ELSE Response(Partly(c, h, i))
           /\ c[h] \in Seq(Requests) /\ Len(c[h]) \in Nat
<1>1. h # 0
  OBVIOUS
<1>2. c[h] \in Seq(Requests) /\ Len(c[h]) \in Nat
  OBVIOUS
<1>3. ResultsOf(c, h) = [i \in 1 .. Len(c[h]) |-> IF c[h][i] \in Garbled THEN Undecodable
                                                  ELSE Response(Partly(c, h, i))]
  BY <1>1 DEF ResultsOf, Partly
<1> QED BY <1>2, <1>3

\* The network's log within a block, from that before it to that after it.
LEMMA PartlyFacts ==
    ASSUME NEW c, IsChain(c), NEW h \in 1 .. Len(c)
    PROVE  /\ Partly(c, h, 0) = CanonLogs(c)[h - 1]
           /\ Partly(c, h, Len(c[h])) = CanonLogs(c)[h]
           /\ \A n \in 0 .. Len(c[h]) : Partly(c, h, n) \in Seq(EntryType)
           /\ \A n \in 1 .. Len(c[h]) :
                 Partly(c, h, n) = Grown(Partly(c, h, n - 1), c[h][n], h)
<1>1. c \in Seq(Seq(Requests)) /\ c[h] \in Seq(Requests) /\ h - 1 \in 0 .. Len(c) /\ h \in 0 .. MaxHeight
  BY BridgeAssumption DEF IsChain
<1>2. CanonLogs(c)[h - 1] \in Seq(EntryType)
  BY <1>1, CanonType
<1>3. CanonLogs(c)[h] = LogsOf(CanonLogs(c)[h - 1], c[h], h)[Len(c[h])]
  BY <1>1, CanonStep
<1> DEFINE log == CanonLogs(c)[h - 1]
<1> HIDE DEF log
<1>4. \A n \in 0 .. Len(c[h]) : LogsOf(log, c[h], h)[n] \in Seq(EntryType)
  BY <1>1, <1>2, LogsOfType DEF log
<1>5. /\ LogsOf(log, c[h], h)[0] = log
      /\ \A n \in 1 .. Len(c[h]) :
            LogsOf(log, c[h], h)[n] = Grown(LogsOf(log, c[h], h)[n - 1], c[h][n], h)
  BY <1>1, LogsOfStep, ZenonT(60)
<1> QED BY <1>3, <1>4, <1>5 DEF Partly, log

\* A new block changes neither.
LEMMA ResultsSteady ==
    ASSUME Base, Moves
    PROVE  \A h \in 1 .. Len(chain) :
               /\ chain'[h] = chain[h]
               /\ ResultsOf(chain', h) = ResultsOf(chain, h)
               /\ \A n : Partly(chain', h, n) = Partly(chain, h, n)
<1> SUFFICES ASSUME NEW h \in 1 .. Len(chain)
             PROVE  /\ chain'[h] = chain[h]
                    /\ ResultsOf(chain', h) = ResultsOf(chain, h)
                    /\ \A n : Partly(chain', h, n) = Partly(chain, h, n)
  OBVIOUS
<1>1. chain'[h] = chain[h] /\ h - 1 \in 0 .. Len(chain)
  BY ChainTyped, BaseTypes DEF Base
<1>2. CanonLogs(chain')[h - 1] = CanonLogs(chain)[h - 1]
  BY <1>1, CanonSteady
<1> QED BY <1>1, <1>2 DEF ResultsOf, Partly

\* Every other node gives the answer a for r.
CanonAnswer(c, r, a) ==
    \E h \in 1 .. Len(c) : \E i \in 1 .. Len(c[h]) : c[h][i] = r /\ a = ResultsOf(c, h)[i]

\* As far as the transactions of block h have been answered, they have been
\* answered as everywhere.
Answers(c, h, results) ==
    \A i \in 1 .. Len(results) : results[i] = ResultsOf(c, h)[i]

\* A response tells how many commands ran before and the time of the block: a
\* node that lost none of either answers as every other.
Told ==
    hurt \subseteq {"commit"} =>
        /\ Len(disk.log) = Len(CanonLogs(chain)[disk.height])
        /\ node.pc = "begin" => app.log = disk.log
        /\ node.pc \in {"deliver", "commit"} =>
              /\ app.time = node.height
              /\ Len(app.log) = Len(Partly(chain, node.height, Len(node.results)))
        /\ node.pc \in {"deliver", "commit", "save"} => Answers(chain, node.height, node.results)
        /\ tm.saved.height >= 1 => Answers(chain, tm.saved.height, tm.saved.results)

ToldOutside ==
    hurt \subseteq {"commit"} =>
        \A r \in Requests : \A a : Reported(r, a) => CanonAnswer(chain, r, a)

LEMMA ToldInit == Init => Told /\ ToldOutside
<1> SUFFICES ASSUME Init PROVE Told /\ ToldOutside
  OBVIOUS
<1>1. /\ chain = <<>> /\ disk.log = <<>> /\ disk.height = 0 /\ node.pc = "down"
      /\ tm.saved.height = 0 /\ pending = {}
      /\ \A r \in Requests : index[r] = NoResult /\ client[r].state = "idle"
  BY DEF Init
<1>2. CanonLogs(<<>>)[0] = <<>>
  <2>1. <<>> \in Seq(Seq(Requests))
    OBVIOUS
  <2> QED BY <2>1, CanonStep
<1>3. NoResult.data = 0
  BY DEF NoResult, Result
<1>4. \A r \in Requests : \A a : ~Reported(r, a)
  BY <1>1, <1>3 DEF Reported
<1> QED BY <1>1, <1>2, <1>4 DEF Told, ToldOutside

\* The log and the answers after the next transaction, whose call succeeds.
LogAfter(r, log, time) == IF r \in Garbled THEN log ELSE Append(log, Entry(r, time))

AnswersAfter(r, results, log, time) ==
    Append(results, Answered(r, "ok", Append(log, Entry(r, time))))

Counted(results, n) == Len(results) = n

\* A call that succeeds answers as everywhere.
LEMMA ToldDeliver ==
    ASSUME NEW c, IsChain(c), NEW h \in 1 .. Len(c),
           NEW n \in Nat, n + 1 \in 1 .. Len(c[h]),
           NEW results \in Seq(ResultType), Counted(results, n), Answers(c, h, results),
           NEW log \in Seq(EntryType), Len(log) = Len(Partly(c, h, n))
    PROVE  /\ Answers(c, h, AnswersAfter(c[h][n + 1], results, log, h))
           /\ Len(LogAfter(c[h][n + 1], log, h)) = Len(Partly(c, h, n + 1))
           /\ Len(AnswersAfter(c[h][n + 1], results, log, h)) = n + 1
<1> DEFINE r == c[h][n + 1]
           p == Partly(c, h, n)
           q == Partly(c, h, n + 1)
           new == Append(log, Entry(r, h))
           more == AnswersAfter(r, results, log, h)
           after == LogAfter(r, log, h)
<1>1. /\ c \in Seq(Seq(Requests)) /\ c[h] \in Seq(Requests) /\ Len(c[h]) \in Nat
      /\ r \in Requests /\ n \in 0 .. Len(c[h]) /\ (n + 1) - 1 = n
  BY DEF IsChain
<1>2. p \in Seq(EntryType) /\ q \in Seq(EntryType) /\ q = Grown(p, r, h)
  <2>1. \A k \in 1 .. Len(c[h]) : Partly(c, h, k) = Grown(Partly(c, h, k - 1), c[h][k], h)
    BY PartlyFacts
  <2>2. \A k \in 0 .. Len(c[h]) : Partly(c, h, k) \in Seq(EntryType)
    BY PartlyFacts
  <2>3. n + 1 \in 0 .. Len(c[h])
    BY <1>1
  <2> QED BY <1>1, <2>1, <2>2, <2>3
<1>3. ResultsOf(c, h)[n + 1] = IF r \in Garbled THEN Undecodable ELSE Response(q)
  BY <1>1, ResultsOfFacts
<1>4. h \in 0 .. MaxHeight
  BY BridgeAssumption DEF IsChain
<1>5. Entry(r, h) \in EntryType /\ Entry(r, h).time = h
  BY <1>1, <1>4 DEF Entry, EntryType
<1>6. Len(p) = Len(log)
  OBVIOUS
<1>7. new = Append(log, Entry(r, h)) /\ more = Append(results, Answered(r, "ok", new))
  BY DEF AnswersAfter
<1>8. (r \in Garbled => after = log) /\ (r \notin Garbled => after = new)
  BY DEF LogAfter
<1> HIDE DEF p, q, r, new, more, after
<1>9. r \notin Garbled => Len(new) = Len(q) /\ Response(new) = Response(q)
  <2>1. SUFFICES ASSUME r \notin Garbled PROVE Len(new) = Len(q) /\ Response(new) = Response(q)
    OBVIOUS
  <2>2. q = Append(p, Entry(r, h))
    BY <1>2, <2>1 DEF Grown, Decodable
  <2>3. Len(new) = Len(q) /\ new[Len(new)] = Entry(r, h) /\ q[Len(q)] = Entry(r, h)
    BY <1>2, <1>5, <1>6, <1>7, <2>2
  <2> QED BY <2>3 DEF Response
<1>10. Len(after) = Len(q)
  BY <1>2, <1>6, <1>8, <1>9 DEF Grown, Decodable
<1>11. Answered(r, "ok", new) = ResultsOf(c, h)[n + 1]
  BY <1>3, <1>9 DEF Answered
<1>12. /\ Len(more) = n + 1 /\ more[n + 1] = Answered(r, "ok", new)
       /\ \A i \in 1 .. n : more[i] = results[i]
       /\ \A i \in 1 .. n + 1 : i = n + 1 \/ i \in 1 .. n
  <2>1. Answered(r, "ok", new) \in ResultType
    <3>1. new \in Seq(EntryType) /\ Len(new) > 0
      BY <1>5, <1>7
    <3> QED BY <3>1, ResultTypes
  <2> QED BY <1>7, <2>1 DEF Counted
<1>13. Answers(c, h, more)
  BY <1>11, <1>12 DEF Answers, Counted
<1> QED BY <1>10, <1>12, <1>13 DEF q, r, more, after

\* A failure is not forgotten.
LEMMA HurtGrows ==
    ASSUME Moves
    PROVE  hurt \subseteq hurt'
BY DEF Moves, MQuiet, MDecide, MStart, MNext, MStop, MServe, MServeSaved, MReplay, MReapply,
       MBegin, MDeliver, MEnd, MCommit, MAgain, MOnto, MServeAgain, MSave, MRestart

\* A step keeps Told.
LEMMA ToldStep ==
    ASSUME Base, Heights, InStep, Told, [Next]_vars
    PROVE  Told'
<1>M. Moves
  BY StepMoves
<1>t. /\ node.height \in Nat /\ tm.store \in Nat /\ tm.state \in Nat /\ Len(chain) \in Nat
      /\ tm.store <= Len(chain) /\ chain \in Seq(Seq(Requests)) /\ IsChain(chain)
      /\ tm.store \in {tm.state, tm.state + 1}
      /\ node.results \in Seq(ResultType) /\ Len(node.results) \in Nat
      /\ node.pc \in Running => node.height \in 1 .. Len(chain)
      /\ node.pc = "ready" => tm.store = tm.state
      /\ node.pc = "begin" => node.results = <<>>
      /\ node.pc = "commit" => Len(node.results) = Len(chain[node.height])
      /\ app.height = disk.height /\ disk.height \in Nat /\ app.log \in Seq(EntryType)
      /\ app.time \in 0 .. MaxHeight
      /\ tm.saved.height \in Nat /\ tm.saved.height <= tm.store
      /\ node.pc = "save" /\ node.data # NotAHash => app.log = disk.log
      /\ Len(<<>>) = 0
  BY BaseTypes DEF Base
<1> SUFFICES ASSUME hurt' \subseteq {"commit"}
             PROVE  /\ Len(disk'.log) = Len(CanonLogs(chain')[disk'.height])
                    /\ node'.pc = "begin" => app'.log = disk'.log
                    /\ node'.pc \in {"deliver", "commit"} =>
                          /\ app'.time = node'.height
                          /\ Len(app'.log) = Len(Partly(chain', node'.height, Len(node'.results)))
                    /\ node'.pc \in {"deliver", "commit", "save"} =>
                          Answers(chain', node'.height, node'.results)
                    /\ tm'.saved.height >= 1 => Answers(chain', tm'.saved.height, tm'.saved.results)
  BY DEF Told
<1>0. hurt \subseteq {"commit"} /\ "info" \notin hurt /\ "bridge" \notin hurt
  BY <1>M, HurtGrows
<1>1. /\ Len(disk.log) = Len(CanonLogs(chain)[disk.height])
      /\ node.pc = "begin" => app.log = disk.log
      /\ node.pc \in {"deliver", "commit"} =>
            /\ app.time = node.height
            /\ Len(app.log) = Len(Partly(chain, node.height, Len(node.results)))
      /\ node.pc \in {"deliver", "commit", "save"} => Answers(chain, node.height, node.results)
      /\ tm.saved.height >= 1 => Answers(chain, tm.saved.height, tm.saved.results)
  BY <1>0 DEF Told
<1>2. /\ disk.height <= tm.store /\ disk.height \in 0 .. Len(chain)
      /\ node.pc \in {"begin", "deliver", "commit"} => node.height = disk.height + 1
      /\ node.pc \in {"down", "info"} => app.log = disk.log
      /\ node.pc = "save" /\ node.height <= tm.state => tm.hash # Canon(chain, tm.state)
      /\ node.pc = "ready" /\ tm.hash = Canon(chain, tm.state) => app.log = disk.log
  BY <1>0, <1>t DEF Heights, InStep, Running
<1>a. \A h : Accepts(h) => tm.hash = Canon(chain, h - 1)
  BY DEF Accepts, CanonHash, Canon, CanonLog
<1>3. CASE UNCHANGED <<node, tm, app, disk, hurt>>
  <2>1. CanonLogs(chain')[disk.height] = CanonLogs(chain)[disk.height]
    BY <1>M, <1>2, CanonSteady
  <2>2. \A h \in 1 .. Len(chain) : /\ ResultsOf(chain', h) = ResultsOf(chain, h)
                                   /\ \A n : Partly(chain', h, n) = Partly(chain, h, n)
    BY <1>M, ResultsSteady
  <2>3. tm.saved.height >= 1 => tm.saved.height \in 1 .. Len(chain)
    BY <1>t
  <2>4. tm.saved.height >= 1 => Answers(chain', tm.saved.height, tm.saved.results)
    BY <1>1, <2>2, <2>3 DEF Answers
  <2>5. node.pc \in {"deliver", "commit", "save"} => Answers(chain', node.height, node.results)
    BY <1>1, <1>t, <2>2 DEF Answers, Running
  <2>6. node.pc \in {"deliver", "commit"} =>
            Len(app.log) = Len(Partly(chain', node.height, Len(node.results)))
    BY <1>1, <1>t, <2>2 DEF Running
  <2> QED BY <1>1, <1>3, <2>1, <2>4, <2>5, <2>6
<1>4. CASE MStart
  BY <1>4, <1>1 DEF MStart, ToPc, NodeIs, Elsewhere
<1>5. CASE MNext
  <2>1. app.log = disk.log
    <3>1. (tm.store + 1) - 1 = tm.state
      BY <1>5, <1>t DEF MNext
    <3> QED BY <1>5, <1>2, <1>a, <3>1 DEF MNext
  <2> QED BY <1>5, <1>1, <2>1 DEF MNext, ToBegin, NodeIs, TmIs, Elsewhere
<1>6. CASE MStop
  BY <1>6, <1>1 DEF MStop, ToPc, NodeIs, TmIs, Elsewhere
<1>7. CASE MServe
  BY <1>7, <1>1 DEF MServe, ToReady, NodeIs, Elsewhere
<1>8. CASE MServeSaved
  BY <1>8, <1>1 DEF MServeSaved, ToReady, NodeIs, TmIs, Elsewhere
<1>9. CASE MReplay
  BY <1>9, <1>1, <1>2 DEF MReplay, ToBegin, NodeIs, Elsewhere
<1>10. CASE MReapply
  BY <1>10, <1>1, <1>2 DEF MReapply, ToBegin, NodeIs, Elsewhere
<1>11. CASE MBegin
  <2>1. /\ app'.log = app.log /\ app'.time = node.height
        /\ disk' = disk /\ chain' = chain /\ tm' = tm
        /\ node'.pc = "deliver" /\ node'.height = node.height /\ node'.results = <<>>
        /\ node.pc = "begin"
    BY <1>11, <1>t DEF MBegin, ToPc, NodeIs, AppIs
  <2>2. Len(app.log) = Len(Partly(chain, node.height, 0))
    <3>1. node.height - 1 = disk.height /\ node.height \in 1 .. Len(chain)
      BY <1>2, <1>t, <2>1, SMTT(60) DEF Running
    <3>2. Partly(chain, node.height, 0) = CanonLogs(chain)[disk.height]
      BY <1>t, <3>1, PartlyFacts, SMTT(60)
    <3> QED BY <1>1, <2>1, <3>2
  <2>3. Answers(chain, node.height, <<>>)
    <3>1. ~\E i \in 1 .. Len(<<>>) : TRUE
      BY <1>t
    <3> QED BY <3>1 DEF Answers
  <2> QED BY <1>1, <1>t, <2>1, <2>2, <2>3
<1>12. CASE MDeliver
  <2> DEFINE n == Len(node.results)
             h == node.height
             r == chain[h][n + 1]
             new == Append(app.log, Entry(r, app.time))
             more == AnswersAfter(r, node.results, app.log, app.time)
             after == LogAfter(r, app.log, app.time)
  <2>1. n \in Nat /\ h \in 1 .. Len(chain) /\ n + 1 \in 1 .. Len(chain[h]) /\ node.pc = "deliver"
    <3>1. node.pc = "deliver" /\ n + 1 \in DOMAIN chain[h]
      BY <1>12 DEF MDeliver
    <3>2. h \in 1 .. Len(chain)
      BY <1>t, <3>1 DEF Running
    <3>3. chain[h] \in Seq(Requests)
      BY <1>t, <3>2
    <3> QED BY <1>t, <3>1, <3>2, <3>3, SMTT(60)
  <2>2. /\ app'.log = after /\ app'.time = h
        /\ node'.pc = "deliver" /\ node'.height = h /\ node'.results = more
        /\ chain' = chain /\ disk' = disk /\ tm' = tm
    <3>1. /\ NodeIs("deliver", node.up, h, Append(node.results, Answered(r, "ok", new)), node.data)
          /\ r \in Garbled => app' = app
          /\ r \notin Garbled => AppIs(app.height, new, app.time, app.hash)
          /\ chain' = chain /\ disk' = disk /\ tm' = tm
      BY <1>12 DEF MDeliver
    <3>2. /\ more = Append(node.results, Answered(r, "ok", new))
          /\ r \in Garbled => after = app.log
          /\ r \notin Garbled => after = new
      BY DEF AnswersAfter, LogAfter
    <3>3. app.time = h
      BY <1>1, <2>1
    <3> HIDE DEF r, new, more, h, after
    <3> QED BY <3>1, <3>2, <3>3 DEF NodeIs, AppIs
  <2>3. Counted(node.results, n) /\ Answers(chain, h, node.results) /\ Len(app.log) = Len(Partly(chain, h, n))
    BY <1>1, <2>1 DEF Counted
  <2> HIDE DEF n, h
  <2>4. /\ Answers(chain, h, more) /\ Len(after) = Len(Partly(chain, h, n + 1)) /\ Len(more) = n + 1
    <3>1. IsChain(chain)
      BY <1>t
    <3>2. node.results \in Seq(ResultType)
      BY <1>t
    <3>3. app.log \in Seq(EntryType)
      BY <1>t
    <3>4. /\ more = AnswersAfter(chain[h][n + 1], node.results, app.log, h)
          /\ after = LogAfter(chain[h][n + 1], app.log, h)
      BY <1>1, <2>1 DEF h, n
    <3>5. n \in Nat
      BY <2>1
    <3>6. h \in 1 .. Len(chain)
      BY <2>1
    <3>7. n + 1 \in 1 .. Len(chain[h])
      BY <2>1
    <3>8. Counted(node.results, n) /\ Answers(chain, h, node.results)
      BY <2>3
    <3>9. Len(app.log) = Len(Partly(chain, h, n))
      BY <2>3
    <3> HIDE DEF r, more, after
    <3> QED BY <3>1, <3>2, <3>3, <3>4, <3>5, <3>6, <3>7, <3>8, <3>9, ToldDeliver
  <2> HIDE DEF r, more, after
  <2> QED BY <1>1, <2>2, <2>4
<1>13. CASE MEnd
  BY <1>13, <1>1 DEF MEnd, ToPc, NodeIs, TmIs, Elsewhere
<1>14. CASE MCommit
  <2>1. /\ node.pc = "commit" /\ node'.pc = "save" /\ node'.height = node.height
        /\ node'.results = node.results /\ chain' = chain /\ tm' = tm
        /\ disk' = disk \/ (disk'.log = app.log /\ disk'.height = disk.height + 1)
    BY <1>14, <1>t DEF MCommit, NodeIs, AppIs, DiskIs
  <2>2. Len(app.log) = Len(CanonLogs(chain)[node.height])
    <3>1. node.height \in 1 .. Len(chain)
      BY <1>t, <2>1 DEF Running
    <3>2. Partly(chain, node.height, Len(chain[node.height])) = CanonLogs(chain)[node.height]
      BY <1>t, <3>1, PartlyFacts
    <3> QED BY <1>1, <1>t, <2>1, <3>2
  <2>3. node.height = disk.height + 1
    BY <1>2, <2>1
  <2> QED BY <1>1, <2>1, <2>2, <2>3
<1>15. CASE MAgain
  <2>1. node.data # NotAHash
    BY <1>15, CanonIsHash DEF MAgain, CanonHash, Canon, CanonLog
  <2> QED BY <1>15, <1>1, <1>t, <2>1 DEF MAgain, ToBegin, NodeIs, Elsewhere
<1>16. CASE MOnto
  <2>1. node.pc = "save" /\ node.height <= tm.state /\ tm.hash = Canon(chain, tm.state)
    <3>1. tm.store - 1 = tm.state
      BY <1>16, <1>t DEF MOnto
    <3> QED BY <1>16, <1>t, <1>a, <3>1 DEF MOnto
  <2> QED BY <1>2, <2>1
<1>17. CASE MServeAgain
  BY <1>17, <1>1 DEF MServeAgain, ToReady, NodeIs, Elsewhere
<1>18. CASE MSave
  BY <1>18, <1>1 DEF MSave, ToReady, NodeIs, TmIs, Elsewhere
<1>19. CASE MRestart
  <2>1. /\ disk' = disk /\ chain' = chain /\ tm' = tm
        /\ \/ node'.pc = "down"
           \/ /\ app'.log = disk.log /\ node' = node
              /\ ~Splits("application")
    <3>1. "application" \notin hurt'
      OBVIOUS
    <3> QED BY <1>19, <3>1 DEF MRestart, Loaded, Down, NodeIs, AppIs
  <2>2. ~Splits("application") => app.log = disk.log /\ node.pc \notin {"deliver", "commit"}
    BY DEF Splits
  <2> QED BY <1>1, <2>1, <2>2
<1> QED BY <1>M, <1>3, <1>4, <1>5, <1>6, <1>7, <1>8, <1>9, <1>10, <1>11, <1>12, <1>13, <1>14,
           <1>15, <1>16, <1>17, <1>18, <1>19 DEF Moves, MQuiet, MDecide

\* A step keeps ToldOutside.
LEMMA ToldOutsideStep ==
    ASSUME Base, TurnsLeft, Told, ToldOutside, [Next]_vars
    PROVE  ToldOutside'
<1>M. Moves
  BY StepMoves
<1> SUFFICES ASSUME hurt' \subseteq {"commit"}, NEW r \in Requests, NEW a, Reported(r, a)'
             PROVE  CanonAnswer(chain', r, a)
  BY DEF ToldOutside
<1>0. hurt \subseteq {"commit"}
  BY <1>M, HurtGrows
<1>t. /\ node.height \in Nat /\ tm.store \in Nat /\ tm.state \in Nat /\ Len(chain) \in Nat
      /\ tm.store <= Len(chain) /\ tm.saved.height \in Nat
      /\ node.pc \in Running => node.height \in 1 .. Len(chain)
      /\ tm.saved.height >= 1 => Len(tm.saved.results) = Len(chain[tm.saved.height])
      /\ node.pc = "save" => Len(node.results) = Len(chain[node.height])
  BY BaseTypes DEF Base
<1>1. /\ Reported(r, a) => CanonAnswer(chain, r, a)
      /\ node.pc = "save" => Answers(chain, node.height, node.results)
      /\ tm.saved.height >= 1 => Answers(chain, tm.saved.height, tm.saved.results)
  BY <1>0 DEF Told, ToldOutside
<1>2. CASE Reported(r, a)
  <2>1. PICK h \in 1 .. Len(chain) : \E i \in 1 .. Len(chain[h]) :
            chain[h][i] = r /\ a = ResultsOf(chain, h)[i]
    BY <1>1, <1>2 DEF CanonAnswer
  <2>2. chain'[h] = chain[h] /\ ResultsOf(chain', h) = ResultsOf(chain, h)
    BY <1>M, ResultsSteady
  <2>3. h \in 1 .. Len(chain')
    <3>1. Len(chain) <= Len(chain') /\ chain' \in Seq(Seq(Requests))
      BY <1>M, ChainTyped
    <3>2. Len(chain') \in Nat
      BY <3>1
    <3> QED BY <1>t, <3>1, <3>2
  <2> QED BY <2>1, <2>2, <2>3 DEF CanonAnswer
<1>3. CASE MServeSaved /\ Within(tm.store, tm.saved.results, r, a)
  <2>1. tm.store \in 1 .. Len(chain) /\ tm.saved.height = tm.store /\ chain' = chain
    BY <1>3, <1>t DEF MServeSaved, Elsewhere
  <2>2. PICK i \in 1 .. Len(chain[tm.store]) : r = chain[tm.store][i] /\ a = tm.saved.results[i]
    BY <1>3 DEF Within
  <2>3. a = ResultsOf(chain, tm.store)[i]
    BY <1>1, <1>t, <2>1, <2>2 DEF Answers
  <2> QED BY <2>1, <2>2, <2>3 DEF CanonAnswer
<1>4. CASE MSave /\ Within(node.height, node.results, r, a)
  <2>1. node.height \in 1 .. Len(chain) /\ node.pc = "save" /\ chain' = chain
    BY <1>4, <1>t DEF MSave, Elsewhere, Running
  <2>2. PICK i \in 1 .. Len(chain[node.height]) : r = chain[node.height][i] /\ a = node.results[i]
    BY <1>4 DEF Within
  <2>3. a = ResultsOf(chain, node.height)[i]
    BY <1>1, <1>t, <2>1, <2>2 DEF Answers
  <2> QED BY <2>1, <2>2, <2>3 DEF CanonAnswer
<1> QED BY <1>2, <1>3, <1>4, ReportsStep DEF Fresh

\* r is an envelope of one of the first s blocks.
Settled(r, s) == r \notin Garbled /\ \E h \in 1 .. s : InBlock(chain[h], r)

\* Only an envelope gets a response, and only once Tendermint has a state for
\* its block is it reported.
Envelopes(h, results) ==
    \A i \in 1 .. Len(results) : results[i].data # 0 => chain[h][i] \notin Garbled

Meant ==
    /\ node.pc \in {"deliver", "commit", "save"} => Envelopes(node.height, node.results)
    /\ tm.saved.height >= 1 => Envelopes(tm.saved.height, tm.saved.results)
    /\ \A r \in Requests : \A a : Reported(r, a) => Settled(r, tm.state)

LEMMA MeantInit == Init => Meant
<1> SUFFICES ASSUME Init PROVE Meant
  OBVIOUS
<1>1. /\ node.pc = "down" /\ tm.saved.height = 0 /\ pending = {}
      /\ \A r \in Requests : index[r] = NoResult /\ client[r].state = "idle"
  BY DEF Init
<1>2. NoResult.data = 0
  BY DEF NoResult, Result
<1>3. \A r \in Requests : \A a : ~Reported(r, a)
  BY <1>1, <1>2 DEF Reported
<1> QED BY <1>1, <1>3 DEF Meant

\* A step keeps Meant.
LEMMA MeantStep ==
    ASSUME Base, TurnsLeft, Meant, [Next]_vars
    PROVE  Meant'
<1>M. Moves
  BY StepMoves
<1>t. /\ node.height \in Nat /\ tm.store \in Nat /\ tm.state \in Nat /\ Len(chain) \in Nat
      /\ tm.store <= Len(chain) /\ tm.saved.height \in Nat
      /\ tm.saved.height <= tm.store /\ tm.store \in {tm.state, tm.state + 1}
      /\ node.results \in Seq(ResultType) /\ Len(node.results) \in Nat
      /\ node.pc \in Running => node.height \in 1 .. Len(chain)
      /\ tm.saved.height >= 1 => Len(tm.saved.results) = Len(chain[tm.saved.height])
      /\ node.pc = "save" => Len(node.results) = Len(chain[node.height])
      /\ Len(<<>>) = 0
  BY BaseTypes DEF Base
<1>c. \A h \in 1 .. Len(chain) : chain'[h] = chain[h]
  BY <1>M, ChainTyped
<1>1. /\ node.pc \in {"deliver", "commit", "save"} => Envelopes(node.height, node.results)
      /\ tm.saved.height >= 1 => Envelopes(tm.saved.height, tm.saved.results)
      /\ \A r \in Requests : \A a : Reported(r, a) => Settled(r, tm.state)
  BY DEF Meant
<1>2. tm.state <= tm'.state
  BY <1>M, <1>t DEF Moves, MQuiet, MDecide, MStart, MNext, MStop, MServe, MServeSaved, MReplay,
         MReapply, MBegin, MDeliver, MEnd, MCommit, MAgain, MOnto, MServeAgain, MSave, MRestart, TmIs
<1>3. ASSUME NEW r \in Requests, NEW a, Reported(r, a)' PROVE Settled(r, tm.state)'
  <2> SUFFICES r \notin Garbled /\ \E h \in 1 .. tm'.state : InBlock(chain'[h], r)
    BY DEF Settled
  <2>1. CASE Reported(r, a)
    <3>1. PICK h \in 1 .. tm.state : r \notin Garbled /\ InBlock(chain[h], r)
      BY <1>1, <2>1 DEF Settled
    <3>2. h \in 1 .. Len(chain)
      BY <1>t
    <3>3. h \in 1 .. tm'.state
      <4>1. tm'.state \in Nat
        BY <1>M, TmTyped DEF TendermintType
      <4> QED BY <1>t, <1>2, <4>1
    <3> QED BY <1>c, <3>1, <3>2, <3>3
  <2>2. CASE MServeSaved /\ Within(tm.store, tm.saved.results, r, a)
    <3>1. tm.store \in 1 .. Len(chain) /\ tm.saved.height = tm.store /\ tm'.state = tm.store
      BY <2>2, <1>t DEF MServeSaved, TmIs
    <3>2. PICK i \in 1 .. Len(chain[tm.store]) : r = chain[tm.store][i] /\ a = tm.saved.results[i]
      BY <2>2 DEF Within
    <3>3. r \notin Garbled
      BY <1>1, <1>t, <1>3, <3>1, <3>2, ReportsStep, SMTT(60) DEF Envelopes
    <3>4. InBlock(chain'[tm.store], r) /\ tm.store \in 1 .. tm'.state
      BY <1>c, <1>t, <3>1, <3>2 DEF InBlock
    <3> QED BY <3>3, <3>4
  <2>3. CASE MSave /\ Within(node.height, node.results, r, a)
    <3>1. node.height \in 1 .. Len(chain) /\ node.pc = "save" /\ tm'.state = node.height
      BY <2>3, <1>t DEF MSave, TmIs, Running
    <3>2. PICK i \in 1 .. Len(chain[node.height]) : r = chain[node.height][i] /\ a = node.results[i]
      BY <2>3 DEF Within
    <3>3. r \notin Garbled
      BY <1>1, <1>t, <1>3, <3>1, <3>2, ReportsStep DEF Envelopes
    <3>4. InBlock(chain'[node.height], r) /\ node.height \in 1 .. tm'.state
      BY <1>c, <1>t, <3>1, <3>2 DEF InBlock
    <3> QED BY <3>3, <3>4
  <2> QED BY <1>3, <2>1, <2>2, <2>3, ReportsStep DEF Fresh
<1>4. ASSUME NEW h \in 1 .. Len(chain), NEW results, Envelopes(h, results)
      PROVE  \A i \in 1 .. Len(results) : results[i].data # 0 => chain'[h][i] \notin Garbled
  BY <1>4, <1>c DEF Envelopes
<1>5. /\ node'.pc \in {"deliver", "commit", "save"} => Envelopes(node.height, node.results)'
      /\ tm'.saved.height >= 1 => Envelopes(tm.saved.height, tm.saved.results)'
  <2> SUFFICES
        /\ node'.pc \in {"deliver", "commit", "save"} =>
              \A i \in 1 .. Len(node'.results) :
                  node'.results[i].data # 0 => chain'[node'.height][i] \notin Garbled
        /\ tm'.saved.height >= 1 =>
              \A i \in 1 .. Len(tm'.saved.results) :
                  tm'.saved.results[i].data # 0 => chain'[tm'.saved.height][i] \notin Garbled
    BY DEF Envelopes
  <2>n. node.pc \in {"deliver", "commit", "save"} =>
            \A i \in 1 .. Len(node.results) :
                node.results[i].data # 0 => chain'[node.height][i] \notin Garbled
    BY <1>1, <1>4, <1>t DEF Running
  <2>s. tm.saved.height >= 1 =>
            \A i \in 1 .. Len(tm.saved.results) :
                tm.saved.results[i].data # 0 => chain'[tm.saved.height][i] \notin Garbled
    <3>1. tm.saved.height >= 1 => tm.saved.height \in 1 .. Len(chain)
      BY <1>t
    <3> QED BY <1>1, <1>4, <3>1
  <2>1. CASE MBegin
    <3>1. node'.results = node.results /\ node.pc = "begin" /\ tm' = tm
      BY <2>1 DEF MBegin, ToPc, NodeIs
    <3>2. node'.results = <<>>
      BY <3>1 DEF Base
    <3>3. ~\E i \in 1 .. Len(node'.results) : TRUE
      BY <1>t, <3>2
    <3> QED BY <2>s, <3>1, <3>3
  <2>2. CASE MDeliver
    <3> DEFINE n == Len(node.results)
               h == node.height
               r == chain[h][n + 1]
    <3>1. PICK fate : /\ node'.results = Append(node.results, Answered(r, fate, Append(app.log, Entry(r, app.time))))
                      /\ node'.height = h /\ chain' = chain /\ tm' = tm /\ node.pc = "deliver"
                      /\ r \in Garbled => fate = "ok"
      BY <2>2 DEF MDeliver, NodeIs
    <3> DEFINE x == Answered(r, fate, Append(app.log, Entry(r, app.time)))
    <3>2. x.data # 0 => r \notin Garbled
      BY <3>1 DEF Answered, Undecodable, Result
    <3>3. node'.results = Append(node.results, x)
      BY <3>1
    <3> HIDE DEF x
    <3>4. /\ Len(node'.results) = n + 1 /\ node'.results[n + 1] = x
          /\ \A i \in 1 .. n : node'.results[i] = node.results[i]
          /\ \A i \in 1 .. n + 1 : i = n + 1 \/ i \in 1 .. n
      BY <1>t, <3>3
    <3> QED BY <2>n, <2>s, <3>1, <3>2, <3>4
  <2>3. CASE MEnd
    BY <2>3, <2>n, <2>s DEF MEnd, ToPc, NodeIs, TmIs
  <2>4. CASE MCommit
    BY <2>4, <2>n, <2>s DEF MCommit, NodeIs
  <2>5. CASE UNCHANGED <<node, tm>>
    BY <2>5, <2>n, <2>s
  <2>6. CASE MStart \/ MNext \/ MStop \/ MServe \/ MServeSaved \/ MReplay \/ MReapply
    BY <2>6, <2>s DEF MStart, MNext, MStop, MServe, MServeSaved, MReplay, MReapply, ToPc, ToBegin,
                      ToReady, NodeIs, TmIs
  <2>7. CASE MAgain \/ MOnto \/ MServeAgain \/ MSave
    BY <2>7, <2>s DEF MAgain, MOnto, MServeAgain, MSave, ToBegin, ToReady, NodeIs, TmIs
  <2>8. CASE MRestart
    BY <2>8, <2>n, <2>s DEF MRestart, Down, NodeIs
  <2> QED BY <1>M, <2>1, <2>2, <2>3, <2>4, <2>5, <2>6, <2>7, <2>8 DEF Moves, MQuiet, MDecide
<1> QED BY <1>3, <1>5 DEF Meant

\* What a client takes for the response of its command is one.
Responded == \A r \in Requests : client[r].state = "done" => client[r].answer.data # 0

LEMMA RespondedInit == Init => Responded
<1>1. Init => \A r \in Requests : client[r].state = "idle"
  BY DEF Init
<1> QED BY <1>1 DEF Responded

\* A step keeps Responded.
LEMMA RespondedStep ==
    ASSUME Base, TurnsLeft, Responded, [Next]_vars
    PROVE  Responded'
<1>t. Typed
  BY DEF Base
<1>1. CASE UNCHANGED client
  BY <1>1 DEF Responded
<1>2. ASSUME NEW q \in Requests, Submit(q) \/ SubmitFails(q)
      PROVE  client'[q].state # "done" /\ \A p \in Requests \ {q} : client'[p] = client[p]
  <2>1. /\ client[q].state = "idle"
        /\ Tell(q, "refused", NoResult) \/ Tell(q, "waiting", NoResult) \/ Tell(q, "failed", NoResult)
    BY <1>2 DEF Submit, SubmitFails
  <2> QED BY <1>t, <2>1, ResultTypes, TellTyped
<1>3. ASSUME NEW q \in Requests, Poll(q)
      PROVE  /\ client'[q].state = "done" => client'[q].answer.data # 0
             /\ \A p \in Requests \ {q} : client'[p] = client[p]
  <2>1. Status(q) = "done" => index[q].data # 0
    BY DEF Status
  <2> QED BY <1>t, <1>3, <2>1, PollTyped
<1>4. UNCHANGED client \/ \E q \in Requests : Submit(q) \/ SubmitFails(q) \/ Poll(q)
  BY OuterSteps DEF Inject, Index, Decide
<1> QED BY <1>1, <1>2, <1>3, <1>4 DEF Responded

\* Results, saved results, index and clients hold true answers.
THEOREM AnswersInvariance == Spec => [](Told /\ ToldOutside /\ Meant /\ Responded)
<1>1. Base /\ TurnsLeft /\ Heights /\ InStep /\ Told /\ ToldOutside /\ Meant /\ Responded
          /\ [Next]_vars => (Told /\ ToldOutside /\ Meant /\ Responded)'
  BY ToldStep, ToldOutsideStep, MeantStep, RespondedStep
<1> QED BY <1>1, ToldInit, MeantInit, RespondedInit, ControlInvariance, PTL DEF Spec

\* A client is told the truth: a refused command never takes effect, one that
\* is done was decided, and its answer is what every other node gives unless
\* this one had lost a call of beginBlock or deliverTx, a height or a part of
\* itself.
THEOREM AnswersAreTruthful == Spec => []AnswersAreTrue
<1>1. ASSUME Base, DecidedOnce, ToldOutside, Meant, Responded
      PROVE  AnswersAreTrue
  <2> SUFFICES ASSUME NEW r \in Requests
               PROVE  /\ client[r].state = "refused" => r \notin Decided \cup pool
                      /\ client[r].state = "done" =>
                            /\ r \in Decided
                            /\ hurt \subseteq {"commit"} =>
                                  \E h \in DOMAIN chain : \E i \in DOMAIN chain[h] :
                                      chain[h][i] = r /\ client[r].answer = CanonResults(h)[i]
    BY DEF AnswersAreTrue
  <2>t. /\ chain \in Seq(Seq(Requests)) /\ Len(chain) \in Nat
        /\ tm.store \in Nat /\ tm.state \in Nat /\ tm.store \in {tm.state, tm.state + 1}
        /\ tm.store <= Len(chain)
    BY <1>1, BaseTypes DEF Base
  <2>1. r \in Decided <=> InChain(chain, r)
    BY <2>t, DecidedFacts DEF Decided
  <2>2. client[r].state = "refused" => r \notin Decided \cup pool
    <3>1. client[r].state = "refused" => r \notin Garbled
      BY <1>1 DEF DecidedOnce
    <3> QED BY <1>1, <2>1, <3>1 DEF DecidedOnce
  <2>3. ASSUME client[r].state = "done"
        PROVE  /\ r \in Decided
               /\ hurt \subseteq {"commit"} =>
                     \E h \in DOMAIN chain : \E i \in DOMAIN chain[h] :
                         chain[h][i] = r /\ client[r].answer = CanonResults(h)[i]
    <3> DEFINE a == client[r].answer
    <3>1. Reported(r, a)
      BY <1>1, <2>3 DEF Responded, Reported
    <3> HIDE DEF a
    <3>2. PICK h \in 1 .. tm.state : InBlock(chain[h], r)
      BY <1>1, <3>1 DEF Meant, Settled
    <3>3. h \in 1 .. Len(chain)
      BY <2>t
    <3>4. r \in Decided
      BY <2>1, <3>2, <3>3 DEF InChain
    <3>5. ASSUME hurt \subseteq {"commit"}
          PROVE  \E g \in DOMAIN chain : \E i \in DOMAIN chain[g] :
                     chain[g][i] = r /\ a = CanonResults(g)[i]
      <4>1. CanonAnswer(chain, r, a)
        BY <1>1, <3>1, <3>5 DEF ToldOutside
      <4>2. PICK g \in 1 .. Len(chain) : \E i \in 1 .. Len(chain[g]) :
                chain[g][i] = r /\ a = ResultsOf(chain, g)[i]
        BY <4>1 DEF CanonAnswer
      <4>3. CanonResults(g) = ResultsOf(chain, g)
        BY DEF CanonResults, ResultsOf, CanonLog
      <4>4. g \in DOMAIN chain /\ DOMAIN chain[g] = 1 .. Len(chain[g])
        <5>1. chain[g] \in Seq(Requests)
          BY <2>t
        <5> QED BY <2>t, <5>1
      <4> QED BY <4>2, <4>3, <4>4
    <3> QED BY <3>4, <3>5 DEF a
  <2> QED BY <2>2, <2>3
<1> QED BY <1>1, ControlInvariance, AnswersInvariance, PTL

-----------------------------------------------------------------------------
(* Tendermint never stops a healthy node.                                  *)

\* A node without failures holds what every other holds, between two blocks
\* and in the middle of one, and so does what Tendermint saved from it.
Healthy ==
    hurt = {} =>
        /\ disk.log = CanonLogs(chain)[disk.height]
        /\ tm.hash = Canon(chain, tm.state)
        /\ tm.last = ResultsOf(chain, tm.state)
        /\ disk.height > tm.state => tm.saved.height = disk.height
        /\ node.pc \in {"deliver", "commit"} =>
              /\ app.time = node.height
              /\ app.log = Partly(chain, node.height, Len(node.results))
        /\ node.pc = "save" => node.data = Canon(chain, node.height)
        /\ node.pc # "halted"

LEMMA HealthyInit == Init => Healthy
<1> SUFFICES ASSUME Init PROVE Healthy
  OBVIOUS
<1>1. /\ chain = <<>> /\ disk.log = <<>> /\ disk.height = 0 /\ node.pc = "down"
      /\ tm.state = 0 /\ tm.hash = Hash(<<>>, 0) /\ tm.last = <<>>
  BY DEF Init
<1>2. CanonLogs(<<>>)[0] = <<>>
  <2>1. <<>> \in Seq(Seq(Requests))
    OBVIOUS
  <2> QED BY <2>1, CanonStep
<1>3. Canon(<<>>, 0) = Hash(<<>>, 0)
  BY <1>2 DEF Canon
<1>4. ResultsOf(<<>>, 0) = <<>>
  BY DEF ResultsOf
<1> QED BY <1>1, <1>2, <1>3, <1>4 DEF Healthy

\* A whole block of answers.
LEMMA WholeAnswers ==
    ASSUME NEW c \in Seq(Seq(Requests)), NEW h \in 1 .. Len(c),
           NEW results \in Seq(ResultType), Len(results) = Len(c[h]), Answers(c, h, results)
    PROVE  results = ResultsOf(c, h)
<1> DEFINE f(i) == IF c[h][i] \in Garbled THEN Undecodable ELSE Response(Partly(c, h, i))
<1>1. /\ ResultsOf(c, h) = [i \in 1 .. Len(c[h]) |-> f(i)]
      /\ \A i \in 1 .. Len(c[h]) : ResultsOf(c, h)[i] = f(i)
  BY ResultsOfFacts
<1> HIDE DEF f
<1>2. results = [i \in 1 .. Len(c[h]) |-> results[i]]
  OBVIOUS
<1>3. \A i \in 1 .. Len(c[h]) : results[i] = f(i)
  BY <1>1 DEF Answers
<1> QED BY <1>1, <1>2, <1>3

\* The next entry.
LEMMA HealthyDeliver ==
    ASSUME NEW c, IsChain(c), NEW h \in 1 .. Len(c), NEW n \in Nat, n + 1 \in 1 .. Len(c[h])
    PROVE  LogAfter(c[h][n + 1], Partly(c, h, n), h) = Partly(c, h, n + 1)
<1>1. \A k \in 1 .. Len(c[h]) : Partly(c, h, k) = Grown(Partly(c, h, k - 1), c[h][k], h)
  BY PartlyFacts
<1>2. (n + 1) - 1 = n
  OBVIOUS
<1>3. Partly(c, h, n + 1) = Grown(Partly(c, h, n), c[h][n + 1], h)
  BY <1>1, <1>2
<1> QED BY <1>3 DEF Grown, Decodable, LogAfter

\* None of the reasons to stop applies.
LEMMA NoReasonToStop ==
    ASSUME Base, Heights, InStep, Healthy, hurt = {}, hurt' = {}, StopReason
    PROVE  FALSE
<1>t. /\ node.height \in Nat /\ tm.store \in Nat /\ tm.state \in Nat
      /\ tm.store \in {tm.state, tm.state + 1}
      /\ app.height = disk.height /\ disk.height \in Nat
      /\ node.pc = "ready" => tm.store = tm.state
      /\ (tm.store + 1) - 1 = tm.store
  BY BaseTypes DEF Base
<1>1. /\ disk.log = CanonLogs(chain)[disk.height]
      /\ tm.hash = Canon(chain, tm.state) /\ tm.last = ResultsOf(chain, tm.state)
      /\ disk.height > tm.state => tm.saved.height = disk.height
  BY DEF Healthy
<1>2. /\ disk.height <= tm.store
      /\ node.pc = "save" => node.height > tm.state
      /\ node.pc = "info" => app.log = disk.log
  BY <1>t DEF Heights, InStep, Running
<1>3. \A h : h - 1 = tm.state => Accepts(h)
  BY <1>1 DEF Accepts, CanonHash, Canon, CanonLog, CanonResults, ResultsOf
<1>4. node.pc = "info" /\ app.height = tm.state => AppHash = tm.hash
  <2>1. app.log = disk.log => AppHash = Hash(app.log, app.height)
    BY DEF AppHash, Base
  <2> QED BY <1>1, <1>2, <1>t, <2>1 DEF Canon
<1>5. node.pc = "info" /\ app.height < tm.store /\ app.height >= tm.state => tm.store - 1 = tm.state
  BY <1>t
<1> QED BY <1>1, <1>2, <1>3, <1>4, <1>5, <1>t DEF StopReason

\* A step keeps Healthy.
LEMMA HealthyStep ==
    ASSUME Base, Heights, InStep, Told, Healthy, [Next]_vars
    PROVE  Healthy'
<1>M. Moves
  BY StepMoves
<1>t. /\ node.height \in Nat /\ tm.store \in Nat /\ tm.state \in Nat /\ Len(chain) \in Nat
      /\ tm.store <= Len(chain) /\ chain \in Seq(Seq(Requests)) /\ IsChain(chain)
      /\ tm.store \in {tm.state, tm.state + 1}
      /\ node.results \in Seq(ResultType) /\ Len(node.results) \in Nat
      /\ tm.saved.results \in Seq(ResultType) /\ tm.saved.height \in Nat
      /\ tm.saved.height >= 1 => Len(tm.saved.results) = Len(chain[tm.saved.height])
      /\ node.pc \in Running => node.height \in 1 .. Len(chain) /\ node.height <= tm.store
      /\ node.pc = "ready" => tm.store = tm.state
      /\ node.pc = "begin" => node.results = <<>>
      /\ node.pc \in {"commit", "save"} => Len(node.results) = Len(chain[node.height])
      /\ node.pc \in {"commit", "save"} /\ node.height > tm.state => tm.saved.height = node.height
      /\ app.height = disk.height /\ disk.height \in Nat /\ app.log \in Seq(EntryType)
      /\ Len(<<>>) = 0
  BY BaseTypes DEF Base
<1> SUFFICES ASSUME hurt' = {}
             PROVE  /\ disk'.log = CanonLogs(chain')[disk'.height]
                    /\ tm'.hash = Canon(chain', tm'.state)
                    /\ tm'.last = ResultsOf(chain', tm'.state)
                    /\ disk'.height > tm'.state => tm'.saved.height = disk'.height
                    /\ node'.pc \in {"deliver", "commit"} =>
                          /\ app'.time = node'.height
                          /\ app'.log = Partly(chain', node'.height, Len(node'.results))
                    /\ node'.pc = "save" => node'.data = Canon(chain', node'.height)
                    /\ node'.pc # "halted"
  BY DEF Healthy
<1>0. hurt = {}
  BY <1>M, HurtGrows
<1>1. /\ disk.log = CanonLogs(chain)[disk.height]
      /\ tm.hash = Canon(chain, tm.state)
      /\ tm.last = ResultsOf(chain, tm.state)
      /\ disk.height > tm.state => tm.saved.height = disk.height
      /\ node.pc \in {"deliver", "commit"} =>
            /\ app.time = node.height
            /\ app.log = Partly(chain, node.height, Len(node.results))
      /\ node.pc = "save" => node.data = Canon(chain, node.height)
      /\ node.pc # "halted"
  BY <1>0 DEF Healthy
<1>2. /\ disk.height <= tm.store /\ disk.height \in 0 .. Len(chain)
      /\ disk.height >= tm.state
      /\ node.pc \in {"begin", "deliver", "commit"} => node.height = disk.height + 1
      /\ node.pc \in Running => node.height > tm.state
      /\ node.pc \in {"down", "info"} => app.log = disk.log
  BY <1>0, <1>t DEF Heights, InStep
<1>3. /\ node.pc = "begin" => app.log = disk.log
      /\ node.pc = "save" => Answers(chain, node.height, node.results)
      /\ tm.saved.height >= 1 => Answers(chain, tm.saved.height, tm.saved.results)
  BY <1>0 DEF Told
<1>4. CASE UNCHANGED <<node, tm, app, disk, hurt>>
  <2>1. /\ CanonLogs(chain')[disk.height] = CanonLogs(chain)[disk.height]
        /\ Canon(chain', tm.state) = Canon(chain, tm.state)
        /\ node.pc = "save" => Canon(chain', node.height) = Canon(chain, node.height)
    <3>1. tm.state \in 0 .. Len(chain) /\ (node.pc = "save" => node.height \in 0 .. Len(chain))
      BY <1>t, SMTT(60) DEF Running
    <3> QED BY <1>M, <1>2, <3>1, CanonSteady
  <2>2. \A h \in 1 .. Len(chain) : /\ ResultsOf(chain', h) = ResultsOf(chain, h)
                                   /\ \A n : Partly(chain', h, n) = Partly(chain, h, n)
    BY <1>M, ResultsSteady
  <2>3. ResultsOf(chain', tm.state) = ResultsOf(chain, tm.state)
    <3>1. CASE tm.state = 0
      BY <3>1 DEF ResultsOf
    <3>2. CASE tm.state # 0
      <4>1. tm.state \in 1 .. Len(chain)
        BY <1>t, <3>2
      <4> QED BY <2>2, <4>1
    <3> QED BY <3>1, <3>2
  <2>4. node.pc \in {"deliver", "commit"} =>
            app.log = Partly(chain', node.height, Len(node.results))
    BY <1>1, <1>t, <2>2 DEF Running
  <2> QED BY <1>1, <1>4, <2>1, <2>3, <2>4
<1>5. CASE MStart
  BY <1>5, <1>1 DEF MStart, ToPc, NodeIs, Elsewhere
<1>6. CASE MNext
  BY <1>6, <1>1 DEF MNext, ToBegin, NodeIs, TmIs, Elsewhere
<1>7. CASE MStop
  BY <1>7, <1>0, NoReasonToStop DEF MStop
<1>8. CASE MServe
  BY <1>8, <1>1 DEF MServe, ToReady, NodeIs, Elsewhere
<1>9. CASE MServeSaved
  <2>1. /\ node.pc = "info" /\ app.height = tm.store /\ tm.state < tm.store
        /\ tm.saved.height = tm.store
        /\ tm'.state = tm.store /\ tm'.hash = AppHash /\ tm'.last = tm.saved.results
        /\ tm'.saved = tm.saved
        /\ disk' = disk /\ chain' = chain /\ node'.pc = "ready"
    BY <1>9 DEF MServeSaved, ToReady, NodeIs, TmIs, Elsewhere
  <2>2. AppHash = Canon(chain, tm.store)
    <3>1. app.log = disk.log => AppHash = Hash(app.log, app.height)
      BY DEF AppHash, Base
    <3> QED BY <1>1, <1>2, <1>t, <2>1, <3>1 DEF Canon
  <2>3. tm.saved.results = ResultsOf(chain, tm.store)
    <3>1. tm.store \in 1 .. Len(chain)
      BY <1>t, <2>1
    <3>2. Len(tm.saved.results) = Len(chain[tm.store]) /\ Answers(chain, tm.store, tm.saved.results)
      BY <1>3, <1>t, <2>1, <3>1
    <3> QED BY <1>t, <3>1, <3>2, WholeAnswers
  <2> QED BY <1>1, <1>2, <1>t, <2>1, <2>2, <2>3
<1>10. CASE MReplay
  BY <1>10, <1>1 DEF MReplay, ToBegin, NodeIs, Elsewhere
<1>11. CASE MReapply
  BY <1>11, <1>1 DEF MReapply, ToBegin, NodeIs, Elsewhere
<1>12. CASE MBegin
  <2>1. /\ app'.log = app.log /\ app'.time = node.height
        /\ disk' = disk /\ chain' = chain /\ tm' = tm
        /\ node'.pc = "deliver" /\ node'.height = node.height /\ node'.results = <<>>
        /\ node.pc = "begin"
    BY <1>12, <1>t DEF MBegin, ToPc, NodeIs, AppIs
  <2>2. app.log = Partly(chain, node.height, 0)
    <3>1. node.height - 1 = disk.height /\ node.height \in 1 .. Len(chain)
      BY <1>2, <1>t, <2>1, SMTT(60) DEF Running
    <3>2. Partly(chain, node.height, 0) = CanonLogs(chain)[disk.height]
      BY <1>t, <3>1, PartlyFacts, SMTT(60)
    <3> QED BY <1>1, <1>3, <2>1, <3>2
  <2> QED BY <1>1, <1>t, <2>1, <2>2
<1>13. CASE MDeliver
  <2> DEFINE n == Len(node.results)
             h == node.height
             r == chain[h][n + 1]
             new == Append(app.log, Entry(r, app.time))
             after == LogAfter(r, app.log, app.time)
  <2>1. n \in Nat /\ h \in 1 .. Len(chain) /\ n + 1 \in 1 .. Len(chain[h]) /\ node.pc = "deliver"
    <3>1. node.pc = "deliver" /\ n + 1 \in DOMAIN chain[h]
      BY <1>13 DEF MDeliver
    <3>2. h \in 1 .. Len(chain)
      BY <1>t, <3>1 DEF Running
    <3>3. chain[h] \in Seq(Requests)
      BY <1>t, <3>2
    <3> QED BY <1>t, <3>1, <3>2, <3>3, SMTT(60)
  <2>2. /\ app'.log = after /\ app'.time = app.time
        /\ node'.pc = "deliver" /\ node'.height = h
        /\ chain' = chain /\ disk' = disk /\ tm' = tm
    <3>1. /\ node'.pc = "deliver" /\ node'.height = h
          /\ r \in Garbled => app' = app
          /\ r \notin Garbled => AppIs(app.height, new, app.time, app.hash)
          /\ chain' = chain /\ disk' = disk /\ tm' = tm
      BY <1>13 DEF MDeliver, NodeIs
    <3>2. /\ r \in Garbled => after = app.log
          /\ r \notin Garbled => after = new
      BY DEF LogAfter
    <3> HIDE DEF r, new, h, after
    <3> QED BY <3>1, <3>2 DEF AppIs
  <2>3. Len(node'.results) = n + 1
    <3>1. PICK x : node'.results = Append(node.results, x)
      BY <1>13 DEF MDeliver, NodeIs
    <3> QED BY <1>t, <3>1
  <2>4. app.log = Partly(chain, h, n) /\ app.time = h
    BY <1>1, <2>1
  <2>5. IsChain(chain)
    BY <1>t
  <2>6. after = LogAfter(chain[h][n + 1], Partly(chain, h, n), h)
    BY <2>4
  <2> HIDE DEF n, h, r, new, after
  <2>7. LogAfter(chain[h][n + 1], Partly(chain, h, n), h) = Partly(chain, h, n + 1)
    BY <2>1, <2>5, HealthyDeliver
  <2> QED BY <1>1, <2>2, <2>3, <2>4, <2>6, <2>7
<1>14. CASE MEnd
  <2>1. node.pc = "deliver" /\ disk.height <= tm.state
    <3>1. node.pc = "deliver"
      BY <1>14 DEF MEnd
    <3>2. node.height = disk.height + 1 /\ node.height <= tm.store
      BY <1>2, <1>t, <3>1 DEF Running
    <3>3. /\ disk.height \in Nat /\ tm.store \in Nat /\ tm.state \in Nat
          /\ tm.store = tm.state \/ tm.store = tm.state + 1
      BY <1>t
    <3>4. disk.height + 1 <= tm.state + 1
      BY <3>2, <3>3
    <3> QED BY <3>1, <3>3, <3>4
  <2>2. /\ disk' = disk /\ chain' = chain /\ app' = app /\ tm'.state = tm.state
        /\ tm'.hash = tm.hash /\ tm'.last = tm.last
        /\ node'.pc = "commit" /\ node'.height = node.height /\ node'.results = node.results
    BY <1>14 DEF MEnd, ToPc, NodeIs, TmIs, Elsewhere
  <2> QED BY <1>1, <1>t, <2>1, <2>2
<1>15. CASE MCommit
  <2>1. /\ node.pc = "commit" /\ node'.pc = "save" /\ node'.height = node.height
        /\ chain' = chain /\ tm' = tm
        /\ disk'.log = app.log /\ disk'.height = disk.height + 1
        /\ node'.data = Hash(app.log, disk.height + 1)
    <3>1. hurt' # hurt \cup {"commit"}
      BY <1>0
    <3> QED BY <1>15, <1>t, <3>1 DEF MCommit, NodeIs, AppIs, DiskIs
  <2>2. app.log = CanonLogs(chain)[node.height]
    <3>1. node.height \in 1 .. Len(chain)
      BY <1>t, <2>1 DEF Running
    <3>2. Partly(chain, node.height, Len(chain[node.height])) = CanonLogs(chain)[node.height]
      BY <1>t, <3>1, PartlyFacts
    <3> QED BY <1>1, <1>t, <2>1, <3>2
  <2>3. node.height = disk.height + 1 /\ tm.saved.height = node.height
    BY <1>2, <1>t, <2>1 DEF Running
  <2>4. node'.data = Canon(chain, node.height)
    BY <2>1, <2>2, <2>3 DEF Canon
  <2> QED BY <1>1, <2>1, <2>2, <2>3, <2>4
<1>16. CASE MAgain
  BY <1>16, <1>1 DEF MAgain, ToBegin, NodeIs, Elsewhere
<1>17. CASE MOnto
  BY <1>17, <1>1 DEF MOnto, ToBegin, NodeIs, Elsewhere
<1>18. CASE MServeAgain
  BY <1>18, <1>1 DEF MServeAgain, ToReady, NodeIs, Elsewhere
<1>19. CASE MSave
  <2>1. /\ node.pc = "save" /\ tm'.state = node.height /\ tm'.hash = node.data
        /\ tm'.last = node.results /\ tm'.saved = tm.saved
        /\ disk' = disk /\ chain' = chain /\ node'.pc = "ready"
    BY <1>19 DEF MSave, ToReady, NodeIs, TmIs, Elsewhere
  <2>2. node.results = ResultsOf(chain, node.height)
    <3>1. node.height \in 1 .. Len(chain)
      BY <1>t, <2>1 DEF Running
    <3> QED BY <1>3, <1>t, <2>1, <3>1, WholeAnswers
  <2>3. disk.height <= node.height
    BY <1>2, <1>t, <2>1 DEF Running
  <2> QED BY <1>1, <1>t, <2>1, <2>2, <2>3
<1>20. CASE MRestart
  <2>1. /\ disk' = disk /\ chain' = chain /\ tm' = tm
        /\ \/ node'.pc = "down"
           \/ node' = node /\ ~Splits("application")
    <3>1. "application" \notin hurt'
      OBVIOUS
    <3> QED BY <1>20, <3>1 DEF MRestart, Loaded, Down, NodeIs, AppIs
  <2>2. ~Splits("application") => node.pc \notin {"deliver", "commit"}
    BY DEF Splits
  <2> QED BY <1>1, <2>1, <2>2
<1> QED BY <1>M, <1>4, <1>5, <1>6, <1>7, <1>8, <1>9, <1>10, <1>11, <1>12, <1>13, <1>14, <1>15,
           <1>16, <1>17, <1>18, <1>19, <1>20 DEF Moves, MQuiet, MDecide

\* A node none of whose calls failed, and whose parts did not restart in the
\* middle of a block without each other, is never stopped by Tendermint.
THEOREM HealthyNodesRun == Spec => []HealthyNeverHalts
<1>1. Healthy => HealthyNeverHalts
  BY DEF Healthy, HealthyNeverHalts
<1>2. Base /\ Heights /\ InStep /\ Told /\ Healthy /\ [Next]_vars => Healthy'
  BY HealthyStep
<1> QED BY <1>1, <1>2, HealthyInit, ControlInvariance, AnswersInvariance, PTL DEF Spec

-----------------------------------------------------------------------------
(* A client sees what it was told is done.                                 *)

Ran(log, r) == \E i \in 1 .. Len(log) : log[i].req = r

\* Executed, as a predicate.
LEMMA RanFacts ==
    ASSUME NEW log \in Seq(EntryType), NEW r
    PROVE  r \in Executed(log) <=> Ran(log, r)
<1>1. DOMAIN log = 1 .. Len(log)
  OBVIOUS
<1> QED BY <1>1 DEF Executed, Ran

\* An entry that is appended, and those before it, are in the log.
LEMMA RanAppend ==
    ASSUME NEW log \in Seq(EntryType), NEW r, NEW time
    PROVE  /\ Ran(Append(log, Entry(r, time)), r)
           /\ \A q : Ran(log, q) => Ran(Append(log, Entry(r, time)), q)
<1> DEFINE L == Len(log)
           new == Append(log, Entry(r, time))
<1>1. /\ L \in Nat /\ Len(new) = L + 1 /\ new[L + 1].req = r
      /\ \A k \in 1 .. L : new[k] = log[k]
  BY DEF Entry
<1>2. L + 1 \in 1 .. L + 1 /\ \A k \in 1 .. L : k \in 1 .. L + 1
  BY <1>1
<1> HIDE DEF new
<1>3. Ran(new, r)
  BY <1>1, <1>2 DEF Ran
<1>4. \A q : Ran(log, q) => Ran(new, q)
  BY <1>1, <1>2 DEF Ran
<1> QED BY <1>3, <1>4 DEF new

\* One more transaction: what ran stays, a response means that it ran, and
\* with no call lost every envelope runs.
LEMMA DeliverFacts ==
    ASSUME Base, MDeliver
    PROVE  /\ node.pc = "deliver" /\ node'.pc = "deliver" /\ node'.height = node.height
           /\ UNCHANGED <<chain, disk, tm>>
           /\ Len(node'.results) = Len(node.results) + 1
           /\ \A i \in 1 .. Len(node.results) : node'.results[i] = node.results[i]
           /\ \A q : Ran(app.log, q) => Ran(app'.log, q)
           /\ node'.results[Len(node.results) + 1].data # 0 =>
                 Ran(app'.log, chain[node.height][Len(node.results) + 1])
           /\ "deliver" \notin hurt' /\ chain[node.height][Len(node.results) + 1] \notin Garbled =>
                 Ran(app'.log, chain[node.height][Len(node.results) + 1])
<1> DEFINE n == Len(node.results)
           r == chain[node.height][n + 1]
           new == Append(app.log, Entry(r, app.time))
<1>t. node.results \in Seq(ResultType) /\ app.log \in Seq(EntryType) /\ n \in Nat
  BY BaseTypes DEF Base
<1>1. PICK fate \in Fates :
          /\ r \in Garbled => fate = "ok"
          /\ NodeIs("deliver", node.up, node.height,
                    Append(node.results, Answered(r, fate, new)), node.data)
          /\ fate # "ok" => hurt' = hurt \cup {"deliver"}
          /\ r \in Garbled \/ fate = "request" => app' = app
          /\ r \notin Garbled /\ fate # "request" => AppIs(app.height, new, app.time, app.hash)
  BY DEF MDeliver
<1>2. node.pc = "deliver" /\ UNCHANGED <<chain, disk, tm>>
  BY DEF MDeliver
<1> DEFINE x == Answered(r, fate, new)
<1>3. x.data # 0 => r \notin Garbled /\ fate = "ok"
  BY <1>1 DEF Answered, Undecodable, TransportError, Result
<1>4. Ran(new, r) /\ \A q : Ran(app.log, q) => Ran(new, q)
  BY <1>t, RanAppend
<1>5. /\ node'.pc = "deliver" /\ node'.height = node.height
      /\ node'.results = Append(node.results, x)
      /\ r \in Garbled \/ fate = "request" => app'.log = app.log
      /\ r \notin Garbled /\ fate # "request" => app'.log = new
  BY <1>1 DEF NodeIs, AppIs
<1> HIDE DEF x, new
<1>6. /\ Len(node'.results) = n + 1 /\ node'.results[n + 1] = x
      /\ \A i \in 1 .. n : node'.results[i] = node.results[i]
  BY <1>t, <1>5
<1>7. "deliver" \notin hurt' => fate = "ok"
  BY <1>1
<1> HIDE DEF n, r
<1>8. \A q : Ran(app.log, q) => Ran(app'.log, q)
  BY <1>4, <1>5
<1>9. r \notin Garbled /\ fate = "ok" => Ran(app'.log, r)
  BY <1>4, <1>5
<1> QED BY <1>2, <1>3, <1>5, <1>6, <1>7, <1>8, <1>9 DEF n, r

\* The logs, whatever the step.
LEMMA LogMoves ==
    ASSUME Moves
    PROVE  \/ app'.log = app.log /\ disk'.log = disk.log
           \/ MCommit /\ app'.log = app.log /\ disk'.log = app.log
           \/ MRestart /\ app'.log = disk.log /\ disk' = disk
           \/ MDeliver /\ disk' = disk
<1>1. CASE MCommit
  BY <1>1 DEF MCommit, AppIs, DiskIs
<1>2. CASE MRestart
  BY <1>2 DEF MRestart, Loaded, AppIs
<1>3. CASE MDeliver
  BY <1>3 DEF MDeliver
<1>4. CASE MBegin
  BY <1>4 DEF MBegin, AppIs
<1> QED BY <1>1, <1>2, <1>3, <1>4 DEF Moves, MQuiet, MDecide, MStart, MNext, MStop, MServe,
       MServeSaved, MReplay, MReapply, MEnd, MAgain, MOnto, MServeAgain, MSave, Elsewhere

\* What is on disk is in memory too.
Superset == \A r : Ran(disk.log, r) => Ran(app.log, r)

\* A step keeps Superset, and takes nothing from the disk.
LEMMA SupersetStep ==
    ASSUME Base, Superset, [Next]_vars
    PROVE  /\ Superset'
           /\ \A r : Ran(disk.log, r) => Ran(disk'.log, r)
<1>M. Moves
  BY StepMoves
<1>1. CASE MDeliver
  BY <1>1, DeliverFacts DEF Superset
<1> QED BY <1>M, <1>1, LogMoves DEF Superset

\* The transactions of block h that were given a response are in log.
InLog(c, h, results, log) ==
    \A i \in 1 .. Len(results) : results[i].data # 0 => Ran(log, c[h][i])

\* Without a failed commit a command is durable before it is reported.
Durable ==
    hurt \cap {"info", "application", "commit"} = {} =>
        /\ \A r \in Requests : \A a : Reported(r, a) => Ran(disk.log, r)
        /\ node.pc \in {"deliver", "commit", "save"} =>
              InLog(chain, node.height, node.results, app.log)
        /\ node.pc = "save" => app.log = disk.log
        /\ tm.saved.height >= 1 /\ disk.height >= tm.saved.height =>
              InLog(chain, tm.saved.height, tm.saved.results, disk.log)

LEMMA DurableInit == Init => Durable
<1> SUFFICES ASSUME Init PROVE Durable
  OBVIOUS
<1>1. /\ node.pc = "down" /\ tm.saved.height = 0 /\ pending = {}
      /\ \A r \in Requests : index[r] = NoResult /\ client[r].state = "idle"
  BY DEF Init
<1>2. NoResult.data = 0
  BY DEF NoResult, Result
<1>3. \A r \in Requests : \A a : ~Reported(r, a)
  BY <1>1, <1>2 DEF Reported
<1> QED BY <1>1, <1>3 DEF Durable

\* A step keeps Durable.
LEMMA DurableStep ==
    ASSUME Base, TurnsLeft, Heights, Superset, Durable, [Next]_vars
    PROVE  Durable'
<1>M. Moves
  BY StepMoves
<1>t. /\ node.height \in Nat /\ tm.store \in Nat /\ tm.state \in Nat /\ Len(chain) \in Nat
      /\ tm.store <= Len(chain) /\ tm.saved.height \in Nat /\ tm.saved.height <= tm.store
      /\ node.results \in Seq(ResultType) /\ Len(node.results) \in Nat
      /\ tm.saved.height >= 1 => Len(tm.saved.results) = Len(chain[tm.saved.height])
      /\ node.pc \in Running => node.height \in 1 .. Len(chain)
      /\ node.pc = "begin" => node.results = <<>>
      /\ node.pc \in {"commit", "save"} => Len(node.results) = Len(chain[node.height])
      /\ node.pc = "commit" /\ node.height > tm.state =>
            tm.saved.height = node.height /\ tm.saved.results = node.results
      /\ app.height = disk.height /\ disk.height \in Nat
      /\ Len(<<>>) = 0
  BY BaseTypes, SMTT(60) DEF Base
<1> SUFFICES ASSUME hurt' \cap {"info", "application", "commit"} = {}
             PROVE  /\ \A r \in Requests : \A a : Reported(r, a)' => Ran(disk'.log, r)
                    /\ node'.pc \in {"deliver", "commit", "save"} =>
                          InLog(chain', node'.height, node'.results, app'.log)
                    /\ node'.pc = "save" => app'.log = disk'.log
                    /\ tm'.saved.height >= 1 /\ disk'.height >= tm'.saved.height =>
                          InLog(chain', tm'.saved.height, tm'.saved.results, disk'.log)
  BY DEF Durable
<1>0. /\ "info" \notin hurt /\ "application" \notin hurt /\ "commit" \notin hurt
      /\ "application" \notin hurt' /\ "commit" \notin hurt'
  BY <1>M, HurtGrows
<1>1. /\ \A r \in Requests : \A a : Reported(r, a) => Ran(disk.log, r)
      /\ node.pc \in {"deliver", "commit", "save"} =>
            InLog(chain, node.height, node.results, app.log)
      /\ node.pc = "save" => app.log = disk.log
      /\ tm.saved.height >= 1 /\ disk.height >= tm.saved.height =>
            InLog(chain, tm.saved.height, tm.saved.results, disk.log)
  <2>1. hurt \cap {"info", "application", "commit"} = {}
    BY <1>0
  <2> QED BY <2>1 DEF Durable
<1>2. node.pc \in {"deliver", "commit"} => node.height = disk.height + 1 /\ node.height > tm.state
  BY <1>0, <1>t DEF Heights, Running
<1>3. ASSUME NEW r \in Requests, NEW a, Reported(r, a)' PROVE Ran(disk'.log, r)
  <2>1. \A q : Ran(disk.log, q) => Ran(disk'.log, q)
    BY SupersetStep
  <2>2. CASE Reported(r, a)
    BY <1>1, <2>1, <2>2
  <2>3. CASE MServeSaved /\ Within(tm.store, tm.saved.results, r, a)
    <3>1. /\ tm.store \in 1 .. Len(chain) /\ tm.saved.height = tm.store
          /\ disk.height >= tm.saved.height /\ tm.saved.height >= 1
      BY <2>3, <1>t DEF MServeSaved
    <3>2. PICK i \in 1 .. Len(chain[tm.store]) : r = chain[tm.store][i] /\ a = tm.saved.results[i]
      BY <2>3 DEF Within
    <3>3. Ran(disk.log, r)
      BY <1>1, <1>3, <1>t, <3>1, <3>2, ReportsStep DEF InLog
    <3> QED BY <2>1, <3>3
  <2>4. CASE MSave /\ Within(node.height, node.results, r, a)
    <3>1. node.pc = "save"
      BY <2>4 DEF MSave
    <3>2. PICK i \in 1 .. Len(chain[node.height]) : r = chain[node.height][i] /\ a = node.results[i]
      BY <2>4 DEF Within
    <3>3. Ran(disk.log, r)
      BY <1>1, <1>3, <1>t, <3>1, <3>2, ReportsStep DEF InLog
    <3> QED BY <2>1, <3>3
  <2> QED BY <1>3, <2>2, <2>3, <2>4, ReportsStep DEF Fresh
<1>n. node.pc \in {"deliver", "commit", "save"} =>
          InLog(chain', node.height, node.results, app.log)
  <2>1. node.pc \in {"deliver", "commit", "save"} => chain'[node.height] = chain[node.height]
    BY <1>M, <1>t, ChainTyped DEF Running
  <2> QED BY <1>1, <2>1 DEF InLog
<1>s. tm.saved.height >= 1 /\ disk.height >= tm.saved.height =>
          InLog(chain', tm.saved.height, tm.saved.results, disk.log)
  <2>1. tm.saved.height >= 1 => tm.saved.height \in 1 .. Len(chain)
    BY <1>t
  <2>2. tm.saved.height >= 1 => chain'[tm.saved.height] = chain[tm.saved.height]
    BY <1>M, <2>1, ChainTyped
  <2> QED BY <1>1, <2>2 DEF InLog
<1>4. /\ node'.pc \in {"deliver", "commit", "save"} =>
            InLog(chain', node'.height, node'.results, app'.log)
      /\ node'.pc = "save" => app'.log = disk'.log
      /\ tm'.saved.height >= 1 /\ disk'.height >= tm'.saved.height =>
            InLog(chain', tm'.saved.height, tm'.saved.results, disk'.log)
  <2>1. CASE UNCHANGED <<node, tm, app, disk>>
    BY <2>1, <1>1, <1>n, <1>s
  <2>2. CASE MStart \/ MNext \/ MStop \/ MServe \/ MServeSaved \/ MReplay \/ MReapply
    BY <2>2, <1>s DEF MStart, MNext, MStop, MServe, MServeSaved, MReplay, MReapply, ToPc, ToBegin,
                      ToReady, NodeIs, TmIs, Elsewhere
  <2>3. CASE MAgain \/ MOnto \/ MServeAgain \/ MSave
    BY <2>3, <1>s DEF MAgain, MOnto, MServeAgain, MSave, ToBegin, ToReady, NodeIs, TmIs, Elsewhere
  <2>4. CASE MBegin
    <3>1. /\ node'.pc = "deliver" /\ node'.results = node.results /\ node.pc = "begin"
          /\ tm' = tm /\ disk' = disk
      BY <2>4 DEF MBegin, ToPc, NodeIs
    <3>2. ~\E i \in 1 .. Len(node'.results) : TRUE
      BY <1>t, <3>1
    <3>3. InLog(chain', node'.height, node'.results, app'.log)
      BY <3>2 DEF InLog
    <3> QED BY <1>s, <3>1, <3>3
  <2>5. CASE MDeliver
    <3> DEFINE n == Len(node.results)
               h == node.height
    <3>1. /\ node.pc = "deliver" /\ node'.pc = "deliver" /\ node'.height = h
          /\ chain' = chain /\ disk' = disk /\ tm' = tm
          /\ Len(node'.results) = n + 1
          /\ \A i \in 1 .. n : node'.results[i] = node.results[i]
          /\ \A q : Ran(app.log, q) => Ran(app'.log, q)
          /\ node'.results[n + 1].data # 0 => Ran(app'.log, chain[h][n + 1])
      BY <2>5, DeliverFacts
    <3>2. \A i \in 1 .. n + 1 : i = n + 1 \/ i \in 1 .. n
      BY <1>t
    <3>3. \A i \in 1 .. n : node.results[i].data # 0 => Ran(app.log, chain[h][i])
      BY <1>1, <3>1 DEF InLog
    <3> HIDE DEF n, h
    <3>4. InLog(chain', node'.height, node'.results, app'.log)
      BY <3>1, <3>2, <3>3 DEF InLog
    <3> QED BY <1>s, <3>1, <3>4
  <2>6. CASE MEnd
    <3>1. /\ node.pc = "deliver" /\ node'.pc = "commit" /\ node'.height = node.height
          /\ node'.results = node.results /\ app' = app /\ disk' = disk
          /\ tm'.saved.height = node.height \/ tm' = tm
      BY <2>6 DEF MEnd, ToPc, NodeIs, TmIs, Elsewhere
    <3>2. tm'.saved.height = node.height => ~(disk'.height >= tm'.saved.height)
      BY <1>2, <1>t, <3>1
    <3> QED BY <1>n, <1>s, <3>1, <3>2
  <2>7. CASE MCommit
    <3>1. /\ node.pc = "commit" /\ node'.pc = "save" /\ node'.height = node.height
          /\ node'.results = node.results /\ tm' = tm
          /\ app'.log = app.log /\ disk'.log = app.log /\ disk'.height = app.height + 1
      <4>1. hurt' # hurt \cup {"commit"}
        BY <1>0
      <4> QED BY <2>7, <4>1 DEF MCommit, NodeIs, AppIs, DiskIs
    <3>2. tm.saved.height = node.height /\ tm.saved.results = node.results
      BY <1>2, <1>t, <3>1
    <3> QED BY <1>n, <3>1, <3>2
  <2>8. CASE MRestart
    <3>1. /\ disk' = disk /\ tm' = tm
          /\ \/ node'.pc = "down"
             \/ /\ app'.log = disk.log /\ node' = node
                /\ ~Splits("application")
      BY <2>8, <1>0 DEF MRestart, Loaded, Down, NodeIs, AppIs
    <3>2. ~Splits("application") => app.log = disk.log
      BY DEF Splits
    <3> QED BY <1>1, <1>n, <1>s, <3>1, <3>2
  <2> QED BY <1>M, <2>1, <2>2, <2>3, <2>4, <2>5, <2>6, <2>7, <2>8 DEF Moves, MQuiet, MDecide
<1> QED BY <1>3, <1>4

\* The envelopes among the first n transactions of block h are in log.
Holds(c, log, h, n) ==
    \A i \in 1 .. n : c[h][i] \notin Garbled => Ran(log, c[h][i])

\* Without a lost call of deliverTx the application in memory holds all that
\* Tendermint counts as executed, also what a failed commit left off the disk.
Kept ==
    hurt \cap {"info", "application", "deliver"} = {} =>
        /\ \A h \in 1 .. disk.height : Holds(chain, disk.log, h, Len(chain[h]))
        /\ node.pc \in {"deliver", "commit", "save"} =>
              Holds(chain, app.log, node.height, Len(node.results))
        /\ Serving => \A h \in 1 .. tm.state : Holds(chain, app.log, h, Len(chain[h]))

LEMMA KeptInit == Init => Kept
<1> SUFFICES ASSUME Init PROVE Kept
  OBVIOUS
<1>1. node.pc = "down" /\ disk.height = 0 /\ tm.state = 0
  BY DEF Init
<1>2. ~\E h \in 1 .. 0 : TRUE
  OBVIOUS
<1> QED BY <1>1, <1>2 DEF Kept

\* A log that holds more holds the block too.
LEMMA HoldsGrows ==
    ASSUME NEW c, NEW log, NEW new, NEW h, NEW n, Holds(c, log, h, n),
           \A r : Ran(log, r) => Ran(new, r)
    PROVE  Holds(c, new, h, n)
BY DEF Holds

\* A step keeps Kept.
LEMMA KeptStep ==
    ASSUME Base, Heights, Superset, Kept, [Next]_vars
    PROVE  Kept'
<1>M. Moves
  BY StepMoves
<1>t. /\ node.height \in Nat /\ tm.store \in Nat /\ tm.state \in Nat /\ Len(chain) \in Nat
      /\ tm.store <= Len(chain) /\ tm.store \in {tm.state, tm.state + 1}
      /\ node.results \in Seq(ResultType) /\ Len(node.results) \in Nat
      /\ node.pc \in Running => node.height \in 1 .. Len(chain) /\ node.height <= tm.store
      /\ node.pc = "begin" => node.results = <<>>
      /\ node.pc \in {"commit", "save"} => Len(node.results) = Len(chain[node.height])
      /\ node.up \in BOOLEAN
      /\ app.height = disk.height /\ disk.height \in Nat
      /\ Len(<<>>) = 0
  BY BaseTypes DEF Base
<1> SUFFICES ASSUME hurt' \cap {"info", "application", "deliver"} = {}
             PROVE  /\ \A h \in 1 .. disk'.height : Holds(chain', disk'.log, h, Len(chain'[h]))
                    /\ node'.pc \in {"deliver", "commit", "save"} =>
                          Holds(chain', app'.log, node'.height, Len(node'.results))
                    /\ node'.up /\ node'.pc # "halted" =>
                          \A h \in 1 .. tm'.state : Holds(chain', app'.log, h, Len(chain'[h]))
  BY DEF Kept, Serving
<1>0. /\ "info" \notin hurt /\ "application" \notin hurt /\ "deliver" \notin hurt
      /\ "info" \notin hurt' /\ "application" \notin hurt' /\ "deliver" \notin hurt'
  BY <1>M, HurtGrows
<1>1. /\ \A h \in 1 .. disk.height : Holds(chain, disk.log, h, Len(chain[h]))
      /\ node.pc \in {"deliver", "commit", "save"} =>
            Holds(chain, app.log, node.height, Len(node.results))
      /\ node.up /\ node.pc # "halted" =>
            \A h \in 1 .. tm.state : Holds(chain, app.log, h, Len(chain[h]))
  <2>1. hurt \cap {"info", "application", "deliver"} = {}
    BY <1>0
  <2> QED BY <2>1 DEF Kept, Serving
<1>2. /\ disk.height <= tm.store
      /\ node.pc \in {"deliver", "commit"} => node.height = disk.height + 1
      /\ node.pc = "save" => node.height \in {disk.height, disk.height + 1}
  BY <1>0, <1>t DEF Heights
<1>c. \A h \in 1 .. Len(chain) : chain'[h] = chain[h]
  BY <1>M, ChainTyped
\* The same, of the chain after the step.
<1>d. \A h \in 1 .. disk.height : Holds(chain', disk.log, h, Len(chain'[h]))
  <2>1. \A h \in 1 .. disk.height : chain'[h] = chain[h]
    BY <1>c, <1>t, <1>2
  <2> QED BY <1>1, <2>1 DEF Holds
<1>n. node.pc \in {"deliver", "commit", "save"} =>
          Holds(chain', app.log, node.height, Len(node.results))
  <2>1. node.pc \in {"deliver", "commit", "save"} => chain'[node.height] = chain[node.height]
    BY <1>c, <1>t DEF Running
  <2> QED BY <1>1, <2>1 DEF Holds
<1>u. node.up /\ node.pc # "halted" =>
          \A h \in 1 .. tm.state : Holds(chain', app.log, h, Len(chain'[h]))
  <2>1. \A h \in 1 .. tm.state : chain'[h] = chain[h]
    BY <1>c, <1>t
  <2> QED BY <1>1, <2>1 DEF Holds
\* Memory holds what the disk does.
<1>a. \A h \in 1 .. disk.height : Holds(chain', app.log, h, Len(chain'[h]))
  BY <1>d, HoldsGrows DEF Superset
\* At the end of a block memory holds all blocks up to it.
<1>e. node.pc \in {"commit", "save"} =>
          \A h \in 1 .. node.height : Holds(chain', app.log, h, Len(chain'[h]))
  <2> SUFFICES ASSUME node.pc \in {"commit", "save"}, NEW h \in 1 .. node.height
               PROVE  Holds(chain', app.log, h, Len(chain'[h]))
    OBVIOUS
  <2>1. CASE h = node.height
    <3>1. Len(node.results) = Len(chain'[h])
      BY <1>c, <1>t, <2>1 DEF Running
    <3> QED BY <1>n, <2>1, <3>1
  <2>2. CASE h # node.height
    <3>1. h \in 1 .. disk.height
      BY <1>2, <1>t, <2>2
    <3> QED BY <1>a, <3>1
  <2> QED BY <2>1, <2>2
<1>3. CASE UNCHANGED <<node, tm, app, disk>>
  BY <1>3, <1>d, <1>n, <1>u
<1>4. CASE MStart \/ MNext \/ MStop \/ MReplay \/ MReapply
  <2>1. /\ app' = app /\ disk' = disk /\ tm'.state = tm.state
        /\ node'.pc \notin {"deliver", "commit", "save"}
        /\ node'.up = node.up /\ (node'.pc = "halted" \/ node.pc # "halted")
    BY <1>4 DEF MStart, MNext, MStop, MReplay, MReapply, ToPc, ToBegin, NodeIs, TmIs, Elsewhere
  <2> QED BY <1>d, <1>u, <2>1
<1>5. CASE MServe
  <2>1. /\ app' = app /\ disk' = disk /\ tm' = tm /\ node'.pc = "ready"
        /\ tm.state = disk.height
    BY <1>5, <1>0, <1>t DEF MServe, ToReady, NodeIs, Elsewhere
  <2> QED BY <1>a, <1>d, <2>1
<1>6. CASE MServeSaved
  <2>1. /\ app' = app /\ disk' = disk /\ node'.pc = "ready"
        /\ tm'.state = disk.height
    BY <1>6, <1>t DEF MServeSaved, ToReady, NodeIs, TmIs, Elsewhere
  <2> QED BY <1>a, <1>d, <2>1
<1>7. CASE MBegin
  <2>1. /\ app'.log = app.log /\ disk' = disk /\ tm' = tm /\ node'.up = node.up
        /\ node.pc = "begin" /\ node'.results = <<>>
    BY <1>7, <1>t DEF MBegin, ToPc, NodeIs, AppIs
  <2>2. ~\E i \in 1 .. Len(<<>>) : TRUE
    BY <1>t
  <2>3. Holds(chain', app.log, node'.height, Len(node'.results))
    BY <2>1, <2>2 DEF Holds
  <2> QED BY <1>d, <1>u, <2>1, <2>3
<1>8. CASE MDeliver
  <2> DEFINE n == Len(node.results)
             k == node.height
  <2>1. /\ node.pc = "deliver" /\ node'.pc = "deliver" /\ node'.height = k
        /\ chain' = chain /\ disk' = disk /\ tm' = tm
        /\ Len(node'.results) = n + 1
        /\ \A q : Ran(app.log, q) => Ran(app'.log, q)
        /\ chain[k][n + 1] \notin Garbled => Ran(app'.log, chain[k][n + 1])
    BY <1>0, <1>8, DeliverFacts
  <2>2. \A i \in 1 .. n + 1 : i = n + 1 \/ i \in 1 .. n
    BY <1>t
  <2>3. Holds(chain, app.log, k, n)
    BY <1>1, <2>1
  <2>4. node'.up = node.up
    BY <1>8 DEF MDeliver, NodeIs
  <2> HIDE DEF n, k
  <2>5. Holds(chain, app'.log, k, n)
    BY <2>1, <2>3, HoldsGrows
  <2>6. Holds(chain, app'.log, k, n + 1)
    BY <2>1, <2>2, <2>5 DEF Holds
  <2>7. node'.up => \A h \in 1 .. tm.state : Holds(chain', app'.log, h, Len(chain'[h]))
    BY <1>u, <2>1, <2>4, HoldsGrows
  <2> QED BY <1>d, <2>1, <2>6, <2>7
<1>9. CASE MEnd
  <2>1. /\ app' = app /\ disk' = disk /\ tm'.state = tm.state /\ node'.up = node.up
        /\ node.pc = "deliver" /\ node'.height = node.height /\ node'.results = node.results
    BY <1>9 DEF MEnd, ToPc, NodeIs, TmIs, Elsewhere
  <2> QED BY <1>d, <1>n, <1>u, <2>1
<1>10. CASE MCommit
  <2>1. /\ node.pc = "commit" /\ node'.pc = "save" /\ node'.height = node.height
        /\ node'.results = node.results /\ tm' = tm /\ node'.up = node.up
        /\ app'.log = app.log
        /\ disk' = disk \/ (disk'.log = app.log /\ disk'.height = node.height)
    BY <1>10, <1>2, <1>t DEF MCommit, NodeIs, AppIs, DiskIs
  <2> QED BY <1>d, <1>e, <1>n, <1>u, <2>1
<1>11. CASE MAgain \/ MOnto
  <2>1. /\ app' = app /\ disk' = disk /\ tm' = tm /\ node'.pc = "begin"
        /\ node'.up = node.up /\ node.pc = "save"
    BY <1>11 DEF MAgain, MOnto, ToBegin, NodeIs, Elsewhere
  <2> QED BY <1>d, <1>u, <2>1
<1>12. CASE MServeAgain
  <2>1. /\ app' = app /\ disk' = disk /\ tm'.state = node.height /\ node'.pc = "ready"
        /\ node.pc = "save"
    BY <1>12 DEF MServeAgain, ToReady, NodeIs, Elsewhere
  <2> QED BY <1>d, <1>e, <2>1
<1>13. CASE MSave
  <2>1. /\ app' = app /\ disk' = disk /\ tm'.state = node.height /\ node'.pc = "ready"
        /\ node.pc = "save"
    BY <1>13 DEF MSave, ToReady, NodeIs, TmIs, Elsewhere
  <2> QED BY <1>d, <1>e, <2>1
<1>14. CASE MRestart
  <2>1. /\ disk' = disk /\ tm' = tm
        /\ \/ node'.pc = "down" /\ node'.up = FALSE
           \/ /\ app'.log = disk.log /\ node' = node
              /\ ~Splits("application")
    BY <1>0, <1>14 DEF MRestart, Loaded, Down, NodeIs, AppIs
  <2>2. ~Splits("application") => app.log = disk.log
    BY DEF Splits
  <2> QED BY <1>d, <1>n, <1>u, <2>1, <2>2
<1> QED BY <1>M, <1>3, <1>4, <1>5, <1>6, <1>7, <1>8, <1>9, <1>10, <1>11, <1>12, <1>13, <1>14
        DEF Moves, MQuiet, MDecide

\* What was reported to a client is on disk, or else in memory.
THEOREM WritesInvariance == Spec => [](Superset /\ Durable /\ Kept)
<1>1. Init => Superset
  BY DEF Init, Superset
<1>2. Base /\ TurnsLeft /\ Heights /\ Superset /\ Durable /\ Kept /\ [Next]_vars =>
          (Superset /\ Durable /\ Kept)'
  BY SupersetStep, DurableStep, KeptStep
<1> QED BY <1>1, <1>2, DurableInit, KeptInit, ControlInvariance, PTL DEF Spec

\* A client that was told its command is done sees it in every later query the
\* node answers: without a failed commit, lists included, because it was
\* durable before it was reported; without a lost call of deliverTx, reads of
\* keys, because every block that Tendermint counts is in memory whole.
THEOREM WritesAreRead == Spec => []ReadYourWrites
<1>1. ASSUME Base, Meant, Responded, Superset, Durable, Kept
      PROVE  ReadYourWrites
  <2> SUFFICES ASSUME NEW r \in Requests, client[r].state = "done", Serving,
                      hurt \cap {"application", "info"} = {}, ~({"deliver", "commit"} \subseteq hurt)
               PROVE  r \in Query /\ ("commit" \notin hurt => r \in Listed)
    BY DEF ReadYourWrites
  <2> DEFINE a == client[r].answer
  <2>1. Reported(r, a)
    BY <1>1 DEF Responded, Reported
  <2> HIDE DEF a
  <2>c. "commit" \notin hurt => Ran(disk.log, r)
    BY <1>1, <2>1 DEF Durable
  <2>2. Ran(app.log, r)
    <3>1. CASE "commit" \notin hurt
      BY <1>1, <2>c, <3>1 DEF Superset
    <3>2. CASE "deliver" \notin hurt
      <4>1. hurt \cap {"info", "application", "deliver"} = {}
        BY <3>2
      <4>2. PICK h \in 1 .. tm.state : r \notin Garbled /\ InBlock(chain[h], r)
        BY <1>1, <2>1 DEF Meant, Settled
      <4>3. Holds(chain, app.log, h, Len(chain[h]))
        BY <1>1, <4>1 DEF Kept
      <4> QED BY <4>2, <4>3 DEF Holds, InBlock
    <3> QED BY <3>1, <3>2
  <2>3. app.log \in Seq(EntryType) /\ disk.log \in Seq(EntryType)
    BY <1>1, BaseTypes DEF Base
  <2> QED BY <2>c, <2>2, <2>3, RanFacts DEF Query, Listed
<1> QED BY <1>1, ControlInvariance, AnswersInvariance, WritesInvariance, PTL
==============================================================================
