------------------------------- MODULE IdStore -------------------------------
(***************************************************************************)
(* The identity store of many-ledger: a client stores a credential for an  *)
(* address and is given a recall phrase made from a seed that grows with   *)
(* every try.  Either brings the credential back later.                    *)
(*                                                                         *)
(* Requests are served one at a time.  Outside blockchain mode every       *)
(* change is committed at once, so a stop can fall between the commit of   *)
(* the seed and that of the credential, and between the latter and the     *)
(* answer; in blockchain mode only a block's commit makes anything         *)
(* durable, and only then are its answers given out.                       *)
(***************************************************************************)
EXTENDS Integers, Sequences, FiniteSets

CONSTANTS Clients,        \* each stores one credential, known by its client
          AddressOf,      \* AddressOf[c]: the address c names
          Invalid,        \* clients whose arguments fail a check
          Bounds,         \* last seed of each phrase length: 2^16-1, 2^24-1, ...
          MaxTries,       \* 8
          GenesisSeeds,   \* values of id_store_seed in the initial state
          GenesisKeys,    \* seeds whose phrases id_store_keys already holds
          Holder,         \* owner of the credentials of id_store_keys
          None,
          MaxCrashes,
          Modes           \* values of the setting blockchain

LastSeed == Bounds[Len(Bounds)]

ASSUME IdStoreAssumption ==
    /\ Bounds \in Seq(Nat) /\ Bounds # <<>>
    /\ \A i, j \in DOMAIN Bounds : i < j => Bounds[i] < Bounds[j]
    /\ AddressOf \in [Clients \cup {Holder} -> Nat]
    /\ Invalid \subseteq Clients
    /\ MaxTries \in Nat \ {0}
    /\ GenesisSeeds \subseteq 0 .. LastSeed
    /\ GenesisKeys \subseteq 0 .. LastSeed
    /\ Holder \notin Clients
    /\ None \notin Clients \cup {Holder} \cup Nat
    /\ Modes \subseteq BOOLEAN

Addresses == {AddressOf[c] : c \in Clients \cup {Holder}}

Credentials == Clients \cup {Holder}

\* The words of a phrase are as many as the range of its seed asks for, and
\* hold the bytes of the seed: all of them, so two seeds give two phrases.
generate_recall_phrase(seed) ==
    [words |-> 2 + Cardinality({i \in DOMAIN Bounds : Bounds[i] < seed}),
     entropy |-> seed]

Phrases == {generate_recall_phrase(seed) : seed \in 0 .. LastSeed}

StoreType ==
    [seed    : Nat,                                            \* /config/idstore_seed
     phrase  : [Phrases -> Credentials \cup {None}],           \* /idstore/00{phrase}
     address : [Addresses -> Credentials \cup {None}]]         \* /idstore/01{address}

VARIABLES store,        \* the tree in memory
          disk,         \* what is committed
          blockchain,   \* the setting
          request,      \* the request being served, or None
          alive,        \* no handler has panicked
          answers,      \* answers given in the current block, <<client, phrase>>
          told,         \* answers clients have, in the order they got them
          client,       \* "idle", "asking", "failed", "refused" or "told"
          crashes

vars == <<store, disk, blockchain, request, alive, answers, told, client, crashes>>

-----------------------------------------------------------------------------
\* What with_idstore builds, and build commits.
Genesis(seed0) ==
    [seed |-> seed0,
     phrase |-> [p \in Phrases |->
                    IF \E seed \in GenesisKeys : p = generate_recall_phrase(seed)
                    THEN Holder ELSE None],
     address |-> [a \in Addresses |->
                    IF GenesisKeys # {} /\ a = AddressOf[Holder] THEN Holder ELSE None]]

Init ==
    /\ \E seed0 \in GenesisSeeds : store = Genesis(seed0)
    /\ disk = store
    /\ blockchain \in Modes
    /\ request = None
    /\ alive = TRUE
    /\ answers = <<>>
    /\ told = <<>>
    /\ client = [c \in Clients |-> "idle"]
    /\ crashes = 0

\* LedgerStorage::maybe_commit, after the tree became s.
Applied(s) ==
    /\ store' = s
    /\ disk' = IF blockchain THEN disk ELSE s

\* A request: refused if the sender is anonymous, the address is not that of
\* a public key, or the credential or its key are malformed.
Ask(c) ==
    /\ alive
    /\ request = None
    /\ client[c] \in {"idle", "failed"}
    /\ IF c \in Invalid
       THEN client' = [client EXCEPT ![c] = "refused"] /\ UNCHANGED request
       ELSE /\ client' = [client EXCEPT ![c] = "asking"]
            /\ request' = [client |-> c, try |-> 1, phrase |-> None, stored |-> FALSE]
    /\ UNCHANGED <<store, disk, blockchain, alive, answers, told, crashes>>

TriesLeft(try) == try <= MaxTries

Fails ==
    /\ request' = None
    /\ client' = [client EXCEPT ![request.client] = "failed"]

\* Faulty variant: nothing is found under a phrase.
NeverTaken(p) == FALSE

\* LedgerStorage::get_from_recall_phrase finds a credential.
Taken(p) == store.phrase[p] # None

\* Faulty variant: the seed grows only when its phrase is used.
SeedAfterTaken(s, seed) ==
    IF seed <= LastSeed /\ Taken(generate_recall_phrase(seed)) THEN s
    ELSE [s EXCEPT !.seed = seed + 1]

inc_idstore_seed(s, seed) == [s EXCEPT !.seed = seed + 1]

\* One turn of the loop: the seed grows whether its phrase can be used or not.
Try ==
    LET seed == store.seed
    IN  /\ request # None
        /\ request.phrase = None
        /\ TriesLeft(request.try)
        /\ seed <= LastSeed
        /\ Applied(inc_idstore_seed(store, seed))
        /\ request' = IF Taken(generate_recall_phrase(seed))
                      THEN [request EXCEPT !.try = @ + 1]
                      ELSE [request EXCEPT !.phrase = generate_recall_phrase(seed)]
        /\ UNCHANGED <<blockchain, alive, answers, told, client, crashes>>

\* unimplemented!() beyond the last range: the handler panics, the lock on the
\* module is poisoned and every later request fails.
Panic ==
    /\ request # None
    /\ request.phrase = None
    /\ TriesLeft(request.try)
    /\ store.seed > LastSeed
    /\ Applied(inc_idstore_seed(store, store.seed))
    /\ alive' = FALSE
    /\ Fails
    /\ UNCHANGED <<blockchain, answers, told, crashes>>

GiveUp ==
    /\ request # None
    /\ request.phrase = None
    /\ ~TriesLeft(request.try)
    /\ Fails
    /\ UNCHANGED <<store, disk, blockchain, alive, answers, told, crashes>>

\* Faulty variant: a credential the address already has is kept.
KeepAddress(s, c, p) ==
    [s EXCEPT !.phrase[p] = c,
              !.address[AddressOf[c]] = IF @ = None THEN c ELSE @]

\* One batch for both keys.
Credential(s, c, p) == [s EXCEPT !.phrase[p] = c, !.address[AddressOf[c]] = c]

\* LedgerStorage::store.  Its own check looks for the phrase without the
\* prefix it is stored under and never finds one.
Store ==
    /\ request # None
    /\ request.phrase # None
    /\ ~request.stored
    /\ Applied(Credential(store, request.client, request.phrase))
    /\ request' = [request EXCEPT !.stored = TRUE]
    /\ UNCHANGED <<blockchain, alive, answers, told, client, crashes>>

Answer ==
    LET answer == <<request.client, request.phrase>>
    IN  /\ request # None
        /\ request.phrase # None
        /\ request.stored
        /\ request' = None
        /\ IF blockchain
           THEN answers' = Append(answers, answer) /\ UNCHANGED <<told, client>>
           ELSE /\ told' = Append(told, answer)
                /\ client' = [client EXCEPT ![request.client] = "told"]
                /\ UNCHANGED answers
        /\ UNCHANGED <<store, disk, blockchain, alive, crashes>>

\* The end of a block.
Commit ==
    /\ alive
    /\ blockchain
    /\ request = None
    /\ disk # store \/ answers # <<>>
    /\ disk' = store
    /\ told' = told \o answers
    /\ client' = [c \in Clients |->
                    IF \E i \in DOMAIN answers : answers[i][1] = c THEN "told"
                    ELSE client[c]]
    /\ answers' = <<>>
    /\ UNCHANGED <<store, blockchain, request, alive, crashes>>

\* Requests whose answer was not given out may be made again.
Restarted(s) ==
    /\ crashes < MaxCrashes
    /\ crashes' = crashes + 1
    /\ store' = s
    /\ disk' = s
    /\ request' = None
    /\ alive' = TRUE
    /\ answers' = <<>>
    /\ client' = [c \in Clients |-> IF client[c] = "asking" THEN "idle" ELSE client[c]]
    /\ UNCHANGED <<blockchain, told>>

Crash == Restarted(disk)

\* Faulty variant: only the credentials found by address are exported.
ExportedAddresses == [disk EXCEPT !.phrase = [p \in Phrases |-> None]]

\* What the tool writes of a stopped ledger's store: every key under
\* /idstore/ and the seed.
Exported == disk

\* Another ledger is built, with_idstore, from what was exported.
Transplant ==
    /\ request = None
    /\ Restarted(Exported)

Next ==
    \/ \E c \in Clients : Ask(c)
    \/ Try
    \/ Panic
    \/ GiveUp
    \/ Store
    \/ Answer
    \/ Commit
    \/ Crash
    \/ Transplant

Spec == Init /\ [][Next]_vars

(***************************************************************************)
(* A request that has begun is served, blocks are committed, and the       *)
(* clients repeat a request that failed.                                   *)
(***************************************************************************)
FairSpec ==
    /\ Spec
    /\ WF_vars(Try \/ Panic \/ GiveUp \/ Store \/ Answer)
    /\ WF_vars(Commit)
    /\ \A c \in Clients : SF_vars(Ask(c))

-----------------------------------------------------------------------------
\* Type invariant.  The seed has no bound: outside blockchain mode a try beyond
\* the last range commits it before the panic, at every restart again.  The
\* tries of one request stay within theirs.
TypeOK ==
    /\ store \in StoreType
    /\ disk \in StoreType
    /\ blockchain \in BOOLEAN
    /\ alive \in BOOLEAN
    /\ client \in [Clients -> {"idle", "asking", "failed", "refused", "told"}]
    /\ request # None => request.try \in 1 .. MaxTries + 1
    /\ \A i \in DOMAIN told : told[i] \in Clients \X Phrases

(***************************************************************************)
(* A phrase that was given out brings back its credential for ever: no     *)
(* later request, restart or export gives it to someone else.  The phrases *)
(* of the initial state count as given out.                                *)
(***************************************************************************)
PhraseIsForever ==
    /\ \A i \in DOMAIN told : \A s \in {store, disk} : s.phrase[told[i][2]] = told[i][1]
    /\ \A seed \in GenesisKeys : disk.phrase[generate_recall_phrase(seed)] = Holder

(***************************************************************************)
(* The two ways to a credential agree in every committed state: what an    *)
(* address brings back some phrase brings back too, and it is not older    *)
(* than what the last of its clients was told.                             *)
(***************************************************************************)
LookupsAgree ==
    \A a \in Addresses :
        /\ disk.address[a] # None => \E p \in Phrases : disk.phrase[p] = disk.address[a]
        /\ \A i \in DOMAIN told :
              AddressOf[told[i][1]] = a /\ disk.address[a] # told[i][1] =>
                  \/ \E j \in DOMAIN told : j > i /\ AddressOf[told[j][1]] = a
                  \/ disk.address[a] \in {c \in Clients : client[c] # "told"}

(***************************************************************************)
(* A client that repeats its request is given a phrase, also when more     *)
(* phrases in a row are taken than one request tries, unless the seeds run *)
(* out.                                                                    *)
(***************************************************************************)
RetriesSucceed ==
    \A c \in Clients \ Invalid : <>(client[c] = "told" \/ store.seed > LastSeed)
=============================================================================
