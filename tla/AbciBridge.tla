----------------------------- MODULE AbciBridge -----------------------------
(***************************************************************************)
(* One node of a deployment: Tendermint, the bridge many-abci between it   *)
(* and the MANY world, the application behind the bridge (many-ledger or   *)
(* many-kvstore in blockchain mode), and the clients that talk to the      *)
(* node's front end.  Calls of the bridge to the application may fail, and *)
(* the parts of the node may restart together or apart.                    *)
(*                                                                         *)
(* The rest of the network is assumed to be correct: it decides blocks,    *)
(* and the header of a block carries the hash and the results of the block *)
(* before it as a node without faults computes them.  Tendermint is        *)
(* modelled from what the bridge answers to it.                            *)
(*                                                                         *)
(* The application is its log: every command that is executed leaves an    *)
(* event with the time of its block, so the Merk hash tells two logs       *)
(* apart.  What its commands do is modelled in the other modules.          *)
(***************************************************************************)
EXTENDS Integers, Sequences, FiniteSets

CONSTANTS Requests,      \* commands, each sent once
          Unsupported,   \* those whose method abci.init does not list
          Denied,        \* those whose sender the allow list does not hold
          Garbled,       \* bytes given to Tendermint that are no envelope
          Stamped,       \* <<r, time>>: r, executed at that time, answers with it
          BlockSize,     \* bound on the requests of a block
          MaxHeight,     \* bound on the chain
          MaxPolls,      \* 60 in wait_response
          MaxFaults,     \* bound on the calls that fail
          MaxCrashes

ASSUME BridgeAssumption ==
    /\ Unsupported \cup Denied \cup Garbled \subseteq Requests
    /\ Stamped \subseteq Requests \X (0 .. MaxHeight)
    /\ {BlockSize, MaxHeight, MaxPolls, MaxFaults, MaxCrashes} \subseteq Nat
    /\ MaxPolls > 0

VARIABLES
    chain,     \* the decided blocks, each a sequence of requests
    pool,      \* transactions the network may still decide
    node,      \* where the node is: see NodeType
    tm,        \* what Tendermint has on disk: see TendermintType
    pending,   \* results Tendermint has not indexed yet, <<request, result>>
    index,     \* results its transaction index answers
    app,       \* the application in memory
    disk,      \* what it has committed
    client,    \* client[r]: what the sender of r knows
    hurt,      \* the failures this node has met
    faults, crashes

vars == <<chain, pool, node, tm, pending, index, app, disk, client, hurt,
          faults, crashes>>

Phases == {"down", "info", "begin", "deliver", "commit", "save", "ready",
           "halted"}

ClockTime == 0   \* the machine's clock: not the time of any block

NoTime == -1

\* code and data of ResponseDeliverTx, and a time in the data; 0 is empty data,
\* which decodes to nothing.
Result(code, data, time) == [code |-> code, data |-> data, time |-> time]

ResultType == [code : -1 .. 2, data : Nat, time : -1 .. MaxHeight]

NoResult == Result(-1, 0, NoTime)

\* No envelope: refused by the bridge itself, on every node.
Undecodable == Result(2, 0, NoTime)

TransportError == Result(1, 0, NoTime)

(***************************************************************************)
(* The response to the last command of log.  It depends on the state the   *)
(* command ran in, how many ran before, and for some commands on the time  *)
(* the application had: one that executes a multisig transaction has it in *)
(* the data, and one that comes after the timeout is refused without it.   *)
(* The bridge overwrites from, version and timestamp of the response       *)
(* itself with the same values everywhere, but not what the data holds.    *)
(***************************************************************************)
Response(log) ==
    LET e == log[Len(log)]
    IN  Result(0, Len(log), IF <<e.req, e.time>> \in Stamped THEN e.time ELSE NoTime)

\* Faulty variant: the event log is kept out of the tree that is hashed.
HashWithoutTime(log, height) ==
    [log |-> [i \in DOMAIN log |-> log[i].req], height |-> height, error |-> FALSE]

Hash(log, height) == [log |-> log, height |-> height, error |-> FALSE]

\* The text of an error where a hash is expected, or nothing at all.
NotAHash == [log |-> <<>>, height |-> 0, error |-> TRUE]

Entry(r, time) == [req |-> r, time |-> time]

EntryType == [req : Requests, time : 0 .. MaxHeight]

(***************************************************************************)
(* What a node without faults holds after block h, and what it answered.   *)
(* The time of a block is its height.                                      *)
(***************************************************************************)
Decodable(r) == r \notin Garbled

\* The log before block, then after each of its transactions.
LogsOf(log, block, time) ==
    LET logs[i \in 0 .. Len(block)] ==
            IF i = 0 THEN log
            ELSE IF Decodable(block[i]) THEN Append(logs[i - 1], Entry(block[i], time))
            ELSE logs[i - 1]
    IN  logs

CanonLogs(blocks) ==
    LET logs[h \in 0 .. Len(blocks)] ==
            IF h = 0 THEN <<>>
            ELSE LogsOf(logs[h - 1], blocks[h], h)[Len(blocks[h])]
    IN  logs

CanonLog(h) == CanonLogs(chain)[h]

CanonHash(h) == Hash(CanonLog(h), h)

CanonResults(h) ==
    IF h = 0 THEN <<>>
    ELSE [i \in 1 .. Len(chain[h]) |->
             IF chain[h][i] \in Garbled THEN Undecodable
             ELSE Response(LogsOf(CanonLog(h - 1), chain[h], h)[i])]

Decided == UNION {{chain[h][i] : i \in DOMAIN chain[h]} : h \in DOMAIN chain}

Executed(log) == {log[i].req : i \in DOMAIN log}

-----------------------------------------------------------------------------
Init ==
    /\ chain = <<>>
    /\ pool = {}
    /\ node = [pc |-> "down", up |-> FALSE, height |-> 0, results |-> <<>>,
               data |-> NotAHash]
    /\ tm = [store |-> 0, state |-> 0, hash |-> Hash(<<>>, 0), last |-> <<>>,
             saved |-> [height |-> 0, results |-> <<>>]]
    /\ pending = {}
    /\ index = [r \in Requests |-> NoResult]
    /\ app = [height |-> 0, log |-> <<>>, time |-> ClockTime, hash |-> NotAHash]
    /\ disk = [height |-> 0, log |-> <<>>]
    /\ client = [r \in Requests |-> [state |-> "idle", polls |-> 0, answer |-> NoResult]]
    /\ hurt = {}
    /\ faults = 0
    /\ crashes = 0

(***************************************************************************)
(* A call of the bridge to the application: it succeeds, fails before it   *)
(* reaches it ("request"), or fails with its answer lost ("reply").        *)
(***************************************************************************)
Fates == {"ok", "request", "reply"}

Call(fate, name) ==
    IF fate = "ok"
    THEN UNCHANGED <<hurt, faults>>
    ELSE /\ faults < MaxFaults
         /\ faults' = faults + 1
         /\ hurt' = hurt \cup {name}

\* The front end answers: Tendermint's port is open, which it is once the
\* handshake is over, and Tendermint has not stopped.
Serving == node.up /\ node.pc # "halted"

-----------------------------------------------------------------------------
(* Clients. *)

Tell(r, state, answer) ==
    client' = [client EXCEPT ![r].state = state, ![r].answer = answer]

\* A command reaches the front end: an unlisted method and an unlisted sender
\* are refused, anything else is broadcast and answered with an async token.
Submit(r) ==
    /\ Serving
    /\ r \notin Garbled
    /\ client[r].state = "idle"
    /\ IF r \in Unsupported \cup Denied
       THEN Tell(r, "refused", NoResult) /\ UNCHANGED pool
       ELSE Tell(r, "waiting", NoResult) /\ pool' = pool \cup {r}
    /\ UNCHANGED <<chain, node, tm, pending, index, app, disk, hurt, faults, crashes>>

\* The broadcast itself fails, before or after Tendermint took the transaction.
SubmitFails(r) ==
    /\ Serving
    /\ r \notin Garbled \cup Unsupported \cup Denied
    /\ client[r].state = "idle"
    /\ faults < MaxFaults
    /\ faults' = faults + 1
    /\ Tell(r, "failed", NoResult)
    /\ pool' \in {pool, pool \cup {r}}
    /\ UNCHANGED <<chain, node, tm, pending, index, app, disk, hurt, crashes>>

\* A transaction that did not come through a front end.
Inject(r) ==
    /\ r \in Garbled \ (pool \cup Decided)
    /\ pool' = pool \cup {r}
    /\ UNCHANGED <<chain, node, tm, pending, index, app, disk, client, hurt,
                   faults, crashes>>

TurnsUsed(polls) == polls = MaxPolls

\* async.status: what the transaction index holds, an error when that is no response.
Status(r) ==
    CASE index[r] = NoResult -> "unknown"
      [] index[r].data = 0   -> "error"
      [] OTHER               -> "done"

(***************************************************************************)
(* One turn of wait_response: async.status fails when the front end does,  *)
(* and when the indexed result holds no response; an unknown transaction   *)
(* is asked for again until the turns are used up.                         *)
(***************************************************************************)
Poll(r) ==
    /\ client[r].state = "waiting"
    /\ IF ~Serving \/ Status(r) = "error"
       THEN Tell(r, "failed", NoResult)
       ELSE IF Status(r) = "done"
       THEN Tell(r, "done", index[r])
       ELSE client' = [client EXCEPT
                          ![r].polls = @ + 1,
                          ![r].state = IF TurnsUsed(client[r].polls + 1)
                                       THEN "timedout" ELSE @]
    /\ UNCHANGED <<chain, pool, node, tm, pending, index, app, disk, hurt,
                   faults, crashes>>

\* What a query through the front end can see.  Reads of a key see the tree in
\* memory.
Query == IF Serving THEN Executed(app.log) ELSE {}

\* Queries that list keys, events.list among them, iterate over what is committed.
Listed == IF Serving THEN Executed(disk.log) ELSE {}

-----------------------------------------------------------------------------
(* The network and Tendermint's part of the node. *)

Blocks == UNION {[1 .. n -> pool] : n \in 0 .. BlockSize}

Decide ==
    /\ Len(chain) < MaxHeight
    /\ \E block \in Blocks :
          /\ \A i, j \in DOMAIN block : i # j => block[i] # block[j]
          /\ chain' = Append(chain, block)
          /\ pool' = pool \ {block[i] : i \in DOMAIN block}
    /\ UNCHANGED <<node, tm, pending, index, app, disk, client, hurt, faults, crashes>>

\* Tendermint checks a block against what it saved after the block before.
Accepts(h) == tm.hash = CanonHash(h - 1) /\ tm.last = CanonResults(h - 1)

Begins(h) ==
    node' = [node EXCEPT !.pc = "begin", !.height = h, !.results = <<>>]

Halts == node' = [node EXCEPT !.pc = "halted"]

Serves == node' = [node EXCEPT !.pc = "ready", !.up = TRUE]

\* A new block: stored, then run if it fits; otherwise Tendermint stops.
NextBlock ==
    LET h == tm.store + 1
    IN  /\ node.pc = "ready"
        /\ tm.store < Len(chain)
        /\ tm' = [tm EXCEPT !.store = h]
        /\ IF Accepts(h) THEN Begins(h) ELSE Halts
        /\ UNCHANGED <<chain, pool, pending, index, app, disk, client, hurt,
                       faults, crashes>>

Start ==
    /\ node.pc = "down"
    /\ node' = [node EXCEPT !.pc = "info"]
    /\ UNCHANGED <<chain, pool, tm, pending, index, app, disk, client, hurt,
                   faults, crashes>>

\* LedgerStorage::hash: that of the last commit, or of the tree after a load.
AppHash == IF app.hash = NotAHash THEN Hash(app.log, app.height) ELSE app.hash

IndexedBy(h, results) == {<<chain[h][i], results[i]>> : i \in DOMAIN chain[h]}

\* The block tm.store, which Tendermint stored but has no state for, is replayed.
Reapply == IF Accepts(tm.store) THEN Begins(tm.store) ELSE Halts

(***************************************************************************)
(* The handshake: the blocks the application lacks by its own account are  *)
(* replayed.  When abci.info fails the bridge answers height 0 and no hash.*)
(***************************************************************************)
Info(fate) ==
    LET reported == IF fate = "ok" THEN app.height ELSE 0
        hash == IF fate = "ok" THEN AppHash ELSE NotAHash
    IN  /\ node.pc = "info"
        /\ fate # "reply"
        /\ Call(fate, "info")
        /\ CASE reported > tm.store ->
                    Halts /\ UNCHANGED <<tm, pending>>
             [] reported = tm.store /\ tm.state = tm.store ->
                    /\ IF tm.store = 0 \/ hash = tm.hash THEN Serves ELSE Halts
                    /\ UNCHANGED <<tm, pending>>
             [] reported = tm.store /\ tm.state < tm.store ->
                    IF tm.saved.height = tm.store
                    THEN /\ Serves
                         /\ tm' = [tm EXCEPT !.state = tm.store, !.hash = hash,
                                             !.last = tm.saved.results]
                         /\ pending' = pending \cup IndexedBy(tm.store, tm.saved.results)
                    ELSE Halts /\ UNCHANGED <<tm, pending>>
             [] reported < tm.store ->
                    /\ IF reported < tm.state THEN Begins(reported + 1) ELSE Reapply
                    /\ UNCHANGED <<tm, pending>>
        /\ UNCHANGED <<chain, pool, index, app, disk, client, crashes>>

-----------------------------------------------------------------------------
(* The blocks, as the bridge passes them on to the application. *)

\* The time of the block; an error is dropped.
BeginBlock(fate) ==
    /\ node.pc = "begin"
    /\ fate # "reply"
    /\ Call(fate, "begin")
    /\ app' = IF fate = "ok" THEN [app EXCEPT !.time = node.height] ELSE app
    /\ node' = [node EXCEPT !.pc = "deliver"]
    /\ UNCHANGED <<chain, pool, tm, pending, index, disk, client, crashes>>

\* Faulty variant: a failed call is answered with a default response.
DefaultAnswer(r, fate, log) == IF r \in Garbled THEN Undecodable ELSE Response(log)

\* Faulty variant: the response keeps the time of the node's own clock.
OwnAnswer(r, fate, log) ==
    CASE r \in Garbled -> Undecodable
      [] fate # "ok"   -> TransportError
      [] OTHER         -> Result(0, Len(log), ClockTime)

\* What Tendermint is answered for r, log being the log with r.  The server the
\* application runs in is assumed to answer with responses: what the bridge
\* does with a payload that is none, or that it cannot encode again (code 3),
\* is left out.
Answered(r, fate, log) ==
    CASE r \in Garbled -> Undecodable
      [] fate # "ok"   -> TransportError
      [] OTHER         -> Response(log)

DeliverTx(fate) ==
    LET i == Len(node.results) + 1
        r == chain[node.height][i]
        log == Append(app.log, Entry(r, app.time))
    IN  /\ node.pc = "deliver"
        /\ i \in DOMAIN chain[node.height]
        /\ r \in Garbled => fate = "ok"
        /\ Call(fate, "deliver")
        /\ app' = IF r \in Garbled \/ fate = "request" THEN app
                  ELSE [app EXCEPT !.log = log]
        /\ node' = [node EXCEPT !.results = Append(@, Answered(r, fate, log))]
        /\ UNCHANGED <<chain, pool, tm, pending, index, disk, client, crashes>>

\* Tendermint saves the results of a block it runs for the first time.
EndBlock ==
    /\ node.pc = "deliver"
    /\ Len(node.results) = Len(chain[node.height])
    /\ node' = [node EXCEPT !.pc = "commit"]
    /\ tm' = IF node.height > tm.state
             THEN [tm EXCEPT !.saved = [height |-> node.height, results |-> node.results]]
             ELSE tm
    /\ UNCHANGED <<chain, pool, pending, index, app, disk, client, hurt, faults, crashes>>

\* Faulty variant: the block is made durable without its height.
CommitKeepsHeight(fate) ==
    LET height == app.height + 1
        hash == Hash(app.log, height)
    IN  /\ node.pc = "commit"
        /\ Call(fate, "commit")
        /\ IF fate = "request"
           THEN UNCHANGED <<app, disk>>
           ELSE /\ app' = [app EXCEPT !.height = height, !.hash = hash]
                /\ disk' = [disk EXCEPT !.log = app.log]
        /\ node' = [node EXCEPT !.pc = "save",
                                !.data = IF fate = "ok" THEN hash ELSE NotAHash]
        /\ UNCHANGED <<chain, pool, tm, pending, index, client, crashes>>

\* Everything up to the new height becomes durable; an error is given to
\* Tendermint as if its text were the hash.
Commit(fate) ==
    LET height == app.height + 1
        hash == Hash(app.log, height)
    IN  /\ node.pc = "commit"
        /\ Call(fate, "commit")
        /\ IF fate = "request"
           THEN UNCHANGED <<app, disk>>
           ELSE /\ app' = [app EXCEPT !.height = height, !.hash = hash]
                /\ disk' = [height |-> height, log |-> app.log]
        /\ node' = [node EXCEPT !.pc = "save",
                                !.data = IF fate = "ok" THEN hash ELSE NotAHash]
        /\ UNCHANGED <<chain, pool, tm, pending, index, client, crashes>>

\* The end of a block Tendermint has a state for already: replayed to bring
\* the application up, and compared with the next header or that state.
SaveReplayed ==
    LET h == node.height
    IN  /\ node.pc = "save"
        /\ h <= tm.state
        /\ CASE h < tm.state ->
                    IF node.data = CanonHash(h) THEN Begins(h + 1) ELSE Halts
             [] h = tm.state /\ h < tm.store -> Reapply
             [] h = tm.store ->
                    IF node.data = tm.hash THEN Serves ELSE Halts
        /\ UNCHANGED <<chain, pool, tm, pending, index, app, disk, client, hurt,
                       faults, crashes>>

\* The end of a new block: Tendermint saves what it was answered.
SaveNew ==
    /\ node.pc = "save"
    /\ node.height > tm.state
    /\ tm' = [tm EXCEPT !.state = node.height, !.hash = node.data, !.last = node.results]
    /\ pending' = pending \cup IndexedBy(node.height, node.results)
    /\ Serves
    /\ UNCHANGED <<chain, pool, index, app, disk, client, hurt, faults, crashes>>

Index ==
    /\ pending # {}
    /\ index' = [r \in Requests |->
                    IF \E p \in pending : p[1] = r
                    THEN (CHOOSE p \in pending : p[1] = r)[2] ELSE index[r]]
    /\ pending' = {}
    /\ UNCHANGED <<chain, pool, node, tm, app, disk, client, hurt, faults, crashes>>

-----------------------------------------------------------------------------
(* Restarts: of the whole node, of Tendermint and the bridge, of the application. *)

LoadApp ==
    [height |-> disk.height, log |-> disk.log, time |-> ClockTime, hash |-> NotAHash]

\* A part that restarts alone leaves the other one with half of a block: the
\* application loses what Tendermint counts as delivered, or keeps what
\* Tendermint will deliver again.
Splits(part) ==
    \/ part # "node" /\ app.log # disk.log
    \/ part = "application" /\ node.pc \in {"deliver", "commit"}

Restart(part) ==
    /\ crashes < MaxCrashes
    /\ crashes' = crashes + 1
    /\ node.pc # "down"
    /\ hurt' = IF Splits(part) THEN hurt \cup {part} ELSE hurt
    /\ app' = IF part = "bridge" THEN app ELSE LoadApp
    /\ IF part = "application"
       THEN UNCHANGED <<node, pending, pool>>
       ELSE /\ node' = [node EXCEPT !.pc = "down", !.up = FALSE, !.height = 0,
                                    !.results = <<>>, !.data = NotAHash]
            /\ pending' = {}
            /\ pool' \in SUBSET pool
    /\ UNCHANGED <<chain, tm, index, disk, client, faults>>

-----------------------------------------------------------------------------
\* A step of the node itself.
NodeStep ==
    \/ Start
    \/ NextBlock
    \/ EndBlock
    \/ SaveReplayed
    \/ SaveNew
    \/ \E fate \in Fates :
          Info(fate) \/ BeginBlock(fate) \/ DeliverTx(fate) \/ Commit(fate)

Next ==
    \/ NodeStep
    \/ Index
    \/ Decide
    \/ \E r \in Requests : Submit(r) \/ SubmitFails(r) \/ Inject(r) \/ Poll(r)
    \/ \E part \in {"node", "bridge", "application"} : Restart(part)

Spec == Init /\ [][Next]_vars

(***************************************************************************)
(* The processes of a node are restarted and keep running, the indexer is  *)
(* one of Tendermint's services, and a client sleeps a second between two  *)
(* turns.  Nothing is assumed of the network, of clients that have not     *)
(* sent anything, or of failures.                                          *)
(***************************************************************************)
FairSpec ==
    /\ Spec
    /\ WF_vars(NodeStep)
    /\ WF_vars(Index)
    /\ \A r \in Requests : WF_vars(Poll(r))

-----------------------------------------------------------------------------
NodeType ==
    [pc : Phases,
     up : BOOLEAN,                \* the handshake is over
     height : 0 .. MaxHeight,     \* the block being run
     results : Seq(ResultType),   \* what its transactions were answered
     data : [log : Seq(EntryType), height : Nat, error : BOOLEAN]]  \* ResponseCommit

TendermintType ==
    [store : 0 .. MaxHeight,      \* blocks stored
     state : 0 .. MaxHeight,      \* blocks stored and run
     hash : [log : Seq(EntryType), height : Nat, error : BOOLEAN],
     last : Seq(ResultType),      \* results of block state
     saved : [height : 0 .. MaxHeight, results : Seq(ResultType)]]
                                  \* results of the last block delivered

\* Type invariant: polls and blocks stay within their bounds, and Tendermint has
\* at most one block stored that it has no state for.
TypeOK ==
    /\ chain \in Seq(Seq(Requests)) /\ Len(chain) <= MaxHeight
    /\ pool \subseteq Requests
    /\ node \in NodeType
    /\ tm \in TendermintType /\ tm.store \in {tm.state, tm.state + 1}
    /\ pending \subseteq Requests \X ResultType
    /\ index \in [Requests -> ResultType]
    /\ app.log \in Seq(EntryType) /\ app.time \in 0 .. MaxHeight
    /\ disk.log \in Seq(EntryType)
    /\ client \in [Requests -> [state : {"idle", "waiting", "done", "failed",
                                         "timedout", "refused"},
                                polls : 0 .. MaxPolls, answer : ResultType]]

(***************************************************************************)
(* A decided command is executed once, whatever calls fail and whenever    *)
(* the node restarts: what the application says of its height is what it   *)
(* holds.  Two failures break this and are excluded: abci.info answering   *)
(* height 0 after an error, and Tendermint restarting without an           *)
(* application that is in the middle of a block.                           *)
(***************************************************************************)
NoDoubleExecution ==
    hurt \cap {"info", "bridge"} = {} =>
        \A i, j \in DOMAIN app.log : i # j => app.log[i].req # app.log[j].req

(***************************************************************************)
(* The bridge drops the errors of beginBlock and passes those of deliverTx *)
(* and commit on as answers.  However the state of the application came to *)
(* differ from that of the network, the node begins no block on it once    *)
(* its handshake is over: the hash, or the error in its place, makes       *)
(* Tendermint stop first.  (The blocks that the handshake itself replays   *)
(* may run on such a state; it is found when the replay is over.)  Only    *)
(* two failures together pass unnoticed: abci.info fails, and Tendermint   *)
(* restarts alone in the replay from height 0 that follows; abci.info then *)
(* answers the hash of the last commit, not that of the tree in memory.    *)
(***************************************************************************)
DivergenceContained ==
    node.pc = "begin" /\ node.up /\ ~({"info", "bridge"} \subseteq hurt) =>
        app.log = CanonLog(node.height - 1)

(***************************************************************************)
(* A node none of whose calls failed, and whose parts did not restart in   *)
(* the middle of a block without each other, is never stopped by           *)
(* Tendermint: what it hashes and answers does not depend on the node.     *)
(***************************************************************************)
HealthyNeverHalts == node.pc = "halted" => hurt # {}

(***************************************************************************)
(* What a client is told.  A refused command never takes effect.  A        *)
(* command reported as done is decided, and its answer is the one every    *)
(* other node gives, unless this one had lost part of a block by then or   *)
(* had been restarted in one: the time of a block is a part, which a lost  *)
(* beginBlock leaves to the block before.                                  *)
(***************************************************************************)
AnswersAreTrue ==
    \A r \in Requests :
        /\ client[r].state = "refused" => r \notin Decided \cup pool
        /\ client[r].state = "done" =>
              /\ r \in Decided
              /\ hurt \subseteq {"commit"} =>
                    \E h \in DOMAIN chain : \E i \in DOMAIN chain[h] :
                        chain[h][i] = r /\ client[r].answer = CanonResults(h)[i]

(***************************************************************************)
(* A client that was told its command is done sees it in every later read  *)
(* of a key the node answers, also across restarts and after a commit that *)
(* failed; and in every list, unless a commit failed: Tendermint reports   *)
(* the block all the same, and lists leave out what is not committed.      *)
(* An application that restarts alone after such a commit has lost it, and *)
(* after an error of abci.info Tendermint takes blocks for executed that   *)
(* are not.  A block whose commit failed is delivered again after a        *)
(* restart: a command of it whose call fails this time is lost if the      *)
(* commit then fails again with the same text, which Tendermint has for a  *)
(* hash; so a node with failures of both kinds is excluded too.            *)
(***************************************************************************)
ReadYourWrites ==
    \A r \in Requests :
        (/\ client[r].state = "done"
         /\ Serving
         /\ hurt \cap {"application", "info"} = {}
         /\ ~({"deliver", "commit"} \subseteq hurt))
        => /\ r \in Query
           /\ "commit" \notin hurt => r \in Listed

(***************************************************************************)
(* A node that only crashes catches up with the chain and stays there.     *)
(***************************************************************************)
Recovers ==
    <>[](\/ hurt # {}
         \/ /\ node.pc = "ready"
            /\ tm.state = Len(chain)
            /\ app.log = CanonLog(Len(chain)))
=============================================================================
