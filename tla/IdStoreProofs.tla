---------------------------- MODULE IdStoreProofs ----------------------------
(***************************************************************************)
(* Proofs about IdStore: type correctness, phrases that are for ever, and  *)
(* addresses that bring back what the last of their clients was told.      *)
(*                                                                         *)
(* The invariant says the same of two pairs: what is committed with the    *)
(* answers clients have, and the tree in memory with those answers and the *)
(* ones the current block has yet to give out.  A commit makes the second  *)
(* pair the first and a crash makes the first the second, so neither has   *)
(* to be looked into.                                                      *)
(***************************************************************************)
EXTENDS IdStore, SequenceTheorems, TLAPS

-----------------------------------------------------------------------------
(* What holds of a tree, the answers that rest on it, and the clients that *)
(* have no answer yet.                                                     *)

Pairs == Clients \X Phrases

\* The phrases of the initial state are kept, and what an address brings
\* back is a credential for that address which some phrase brings back.
Sound(s) ==
    /\ s \in StoreType
    /\ \A seed \in GenesisKeys : s.phrase[generate_recall_phrase(seed)] = Holder
    /\ \A a \in Addresses : s.address[a] # None =>
          /\ AddressOf[s.address[a]] = a
          /\ \E p \in Phrases : s.phrase[p] = s.address[a]

\* A phrase that was answered brings back its credential.
Backs(s, q) == \A i \in DOMAIN q : s.phrase[q[i][2]] = q[i][1]

\* An address brings back the credential of its last answer, or that of a
\* client with no answer yet.
Latest(s, q, waiting) ==
    \A i \in DOMAIN q :
        \/ s.address[AddressOf[q[i][1]]] = q[i][1]
        \/ \E j \in DOMAIN q : j > i /\ AddressOf[q[j][1]] = AddressOf[q[i][1]]
        \/ s.address[AddressOf[q[i][1]]] \in waiting

Holds(s, q, waiting) == Sound(s) /\ Backs(s, q) /\ Latest(s, q, waiting)

\* The clients with no answer, not even one the block has yet to give out.
Waiting(cl, given) ==
    {c \in Clients : cl[c] # "told" /\ ~ \E i \in DOMAIN given : given[i][1] = c}

LEMMA LastSeedIsNat == LastSeed \in Nat
BY IdStoreAssumption, LenProperties, EmptySeq DEF LastSeed

\* An address is one of Addresses.
LEMMA AddressTypes == \A c \in Credentials : AddressOf[c] \in Addresses
BY DEF Addresses, Credentials

\* A seed within the last range has a phrase.
LEMMA PhraseTypes ==
    ASSUME NEW seed \in Nat, seed <= LastSeed
    PROVE  generate_recall_phrase(seed) \in Phrases
BY LastSeedIsNat DEF Phrases

\* More clients without an answer do no harm.
LEMMA WaitingMore ==
    ASSUME NEW s, NEW q, NEW w, NEW v, Holds(s, q, w), \A c \in w : c \in v
    PROVE  Holds(s, q, v)
BY DEF Holds, Latest

\* The seed plays no part.
LEMMA SeedKeeps ==
    ASSUME NEW s, NEW q, NEW w, NEW n \in Nat, Holds(s, q, w),
           NEW r, r = inc_idstore_seed(s, n)
    PROVE  /\ Holds(r, q, w)
           /\ r.phrase = s.phrase /\ r.address = s.address
<1>1. s \in StoreType
  BY DEF Holds, Sound
<1>2. r \in StoreType /\ r.phrase = s.phrase /\ r.address = s.address
  BY <1>1 DEF inc_idstore_seed, StoreType
<1> QED BY <1>2 DEF Holds, Sound, Backs, Latest

\* A credential stored under a phrase nobody has, for a client without an
\* answer.
LEMMA CredentialKeeps ==
    ASSUME NEW s, NEW q \in Seq(Pairs), NEW w, NEW c \in Clients, NEW p \in Phrases,
           Holds(s, q, w), c \in w, s.phrase[p] = None,
           NEW r, r = Credential(s, c, p)
    PROVE  /\ Holds(r, q, w)
           /\ r.phrase[p] = c
           /\ r.address[AddressOf[c]] = c
<1> DEFINE b == AddressOf[c]
<1>1. s \in StoreType /\ b \in Addresses
  BY AddressTypes DEF Holds, Sound, Credentials
<1>2. /\ r \in StoreType
      /\ r.phrase[p] = c /\ \A x \in Phrases \ {p} : r.phrase[x] = s.phrase[x]
      /\ r.address[b] = c /\ \A x \in Addresses \ {b} : r.address[x] = s.address[x]
  <2> DEFINE ph == [s.phrase EXCEPT ![p] = c]
             ad == [s.address EXCEPT ![b] = c]
  <2>1. s.phrase \in [Phrases -> Credentials \cup {None}] /\ s.address \in [Addresses -> Credentials \cup {None}] /\ s.seed \in Nat
    BY <1>1 DEF StoreType
  <2>2. ph \in [Phrases -> Credentials \cup {None}] /\ ad \in [Addresses -> Credentials \cup {None}]
    BY <1>1, <2>1 DEF Credentials
  <2>3. /\ ph[p] = c /\ \A x \in Phrases \ {p} : ph[x] = s.phrase[x]
        /\ ad[b] = c /\ \A x \in Addresses \ {b} : ad[x] = s.address[x]
    BY <1>1, <2>1
  <2>4. r = [s EXCEPT !.phrase = ph, !.address = ad]
    BY <1>1 DEF Credential, StoreType
  <2> HIDE DEF ph, ad, b
  <2>5. r \in StoreType /\ r.phrase = ph /\ r.address = ad
    BY <1>1, <2>2, <2>4 DEF StoreType
  <2> QED BY <2>3, <2>5
<1>3. c # None /\ c # Holder /\ Holder # None
  BY IdStoreAssumption
<1>4. Sound(r)
  <2>1. ASSUME NEW seed \in GenesisKeys
        PROVE  r.phrase[generate_recall_phrase(seed)] = Holder
    <3>1. generate_recall_phrase(seed) \in Phrases
      BY IdStoreAssumption, LastSeedIsNat, PhraseTypes
    <3>2. s.phrase[generate_recall_phrase(seed)] = Holder
      BY DEF Holds, Sound
    <3> QED BY <1>2, <1>3, <3>1, <3>2
  <2>2. ASSUME NEW a \in Addresses, r.address[a] # None
        PROVE  /\ AddressOf[r.address[a]] = a
               /\ \E x \in Phrases : r.phrase[x] = r.address[a]
    <3>1. CASE a = b
      BY <1>2, <3>1
    <3>2. CASE a # b
      <4>1. r.address[a] = s.address[a]
        BY <1>2, <3>2
      <4>2. PICK x \in Phrases : s.phrase[x] = s.address[a]
        BY <2>2, <4>1 DEF Holds, Sound
      <4>3. x # p
        BY <2>2, <4>1, <4>2
      <4>4. AddressOf[s.address[a]] = a
        BY <2>2, <4>1 DEF Holds, Sound
      <4> QED BY <1>2, <4>1, <4>2, <4>3, <4>4
    <3> QED BY <3>1, <3>2
  <2> HIDE DEF b
  <2> QED BY <1>2, <2>1, <2>2 DEF Sound
<1>5. \A i \in DOMAIN q : q[i] \in Pairs /\ q[i][1] \in Clients /\ q[i][2] \in Phrases
  BY DEF Pairs
<1>6. Backs(r, q)
  <2>1. ASSUME NEW i \in DOMAIN q PROVE r.phrase[q[i][2]] = q[i][1]
    <3>1. s.phrase[q[i][2]] = q[i][1]
      BY DEF Holds, Backs
    <3>2. q[i][1] # None
      BY <1>5, IdStoreAssumption
    <3> QED BY <1>2, <1>5, <3>1, <3>2
  <2> QED BY <2>1 DEF Backs
<1>7. Latest(r, q, w)
  <2>1. ASSUME NEW i \in DOMAIN q
        PROVE  \/ r.address[AddressOf[q[i][1]]] = q[i][1]
               \/ \E j \in DOMAIN q : j > i /\ AddressOf[q[j][1]] = AddressOf[q[i][1]]
               \/ r.address[AddressOf[q[i][1]]] \in w
    <3>1. CASE AddressOf[q[i][1]] = b
      BY <1>2, <3>1
    <3>2. CASE AddressOf[q[i][1]] # b
      <4>1. AddressOf[q[i][1]] \in Addresses
        BY <1>5, AddressTypes DEF Credentials
      <4>2. r.address[AddressOf[q[i][1]]] = s.address[AddressOf[q[i][1]]]
        BY <1>2, <3>2, <4>1
      <4> QED BY <4>2 DEF Holds, Latest
    <3> QED BY <3>1, <3>2
  <2> QED BY <2>1 DEF Latest
<1> QED BY <1>2, <1>4, <1>6, <1>7 DEF Holds

\* An answer for what is stored, after all the others.
LEMMA AnswerKeeps ==
    ASSUME NEW s, NEW q \in Seq(Pairs), NEW w, NEW c \in Clients, NEW p \in Phrases,
           Holds(s, q, w), s.phrase[p] = c, s.address[AddressOf[c]] = c,
           NEW v, \A x \in w : x # c => x \in v
    PROVE  Holds(s, Append(q, <<c, p>>), v)
<1> DEFINE e == <<c, p>>
           long == Append(q, e)
<1>1. e \in Pairs /\ e[1] = c /\ e[2] = p
  BY DEF Pairs
<1>2. /\ long \in Seq(Pairs) /\ Len(long) = Len(q) + 1 /\ Len(q) \in Nat
      /\ DOMAIN long = 1 .. Len(q) + 1 /\ DOMAIN q = 1 .. Len(q)
      /\ long[Len(q) + 1] = e /\ \A i \in DOMAIN q : long[i] = q[i]
  <2> HIDE DEF e
  <2> QED BY <1>1, AppendProperties, LenProperties
<1> HIDE DEF e, long
<1>3. Sound(s)
  BY DEF Holds
<1>4. \A i \in DOMAIN long : i \in DOMAIN q \/ i = Len(q) + 1
  BY <1>2
<1>5. Backs(s, long)
  <2>1. ASSUME NEW i \in DOMAIN long PROVE s.phrase[long[i][2]] = long[i][1]
    <3>1. CASE i \in DOMAIN q
      BY <1>2, <3>1 DEF Holds, Backs
    <3>2. CASE i = Len(q) + 1
      BY <1>1, <1>2, <3>2
    <3> QED BY <1>4, <3>1, <3>2
  <2> QED BY <2>1 DEF Backs
<1>6. Latest(s, long, v)
  <2>1. ASSUME NEW i \in DOMAIN long
        PROVE  \/ s.address[AddressOf[long[i][1]]] = long[i][1]
               \/ \E j \in DOMAIN long : j > i /\ AddressOf[long[j][1]] = AddressOf[long[i][1]]
               \/ s.address[AddressOf[long[i][1]]] \in v
    <3>1. CASE i = Len(q) + 1
      BY <1>1, <1>2, <3>1
    <3>2. CASE i \in DOMAIN q
      <4> DEFINE a == AddressOf[q[i][1]]
      <4>1. long[i] = q[i] /\ i < Len(q) + 1 /\ Len(q) + 1 \in DOMAIN long
        BY <1>2, <3>2
      <4>2. CASE a = AddressOf[c]
        BY <1>1, <1>2, <4>1, <4>2
      <4>3. CASE a # AddressOf[c] /\ s.address[a] = q[i][1]
        BY <4>1, <4>3
      <4>4. CASE \E j \in DOMAIN q : j > i /\ AddressOf[q[j][1]] = a
        <5>1. PICK j \in DOMAIN q : j > i /\ AddressOf[q[j][1]] = a
          BY <4>4
        <5>2. j \in DOMAIN long /\ long[j] = q[j]
          BY <1>2
        <5> QED BY <4>1, <5>1, <5>2
      <4>5. CASE a # AddressOf[c] /\ s.address[a] \in w
        <5>1. q[i][1] \in Clients
          BY <3>2 DEF Pairs
        <5>2. a \in Addresses
          BY <5>1, AddressTypes DEF Credentials
        <5>3. s.address[a] = c => AddressOf[c] = a
          BY <1>3, <5>2, IdStoreAssumption DEF Sound
        <5> QED BY <4>1, <4>5, <5>3
      <4>6. s.address[a] = q[i][1] \/ (\E j \in DOMAIN q : j > i /\ AddressOf[q[j][1]] = a) \/ s.address[a] \in w
        BY <3>2 DEF Holds, Latest
      <4> QED BY <4>2, <4>3, <4>4, <4>5, <4>6
    <3> QED BY <1>4, <3>1, <3>2
  <2> QED BY <2>1 DEF Latest
<1> QED BY <1>3, <1>5, <1>6 DEF Holds, long, e

-----------------------------------------------------------------------------
(* The inductive invariant.                                                *)

States == {"idle", "asking", "failed", "refused", "told"}

\* The request being served: its client waits, its phrase is free until the
\* credential is stored and brings it back afterwards.
RequestOK ==
    request # None =>
        /\ request.client \in Clients
        /\ request.try \in 1 .. MaxTries + 1
        /\ request = [client |-> request.client, try |-> request.try,
                      phrase |-> request.phrase, stored |-> request.stored]
        /\ client[request.client] = "asking"
        /\ \A i \in DOMAIN answers : answers[i][1] # request.client
        /\ request.phrase = None => ~request.stored
        /\ request.phrase # None =>
              /\ request.phrase \in Phrases
              /\ IF request.stored
                 THEN /\ store.phrase[request.phrase] = request.client
                      /\ store.address[AddressOf[request.client]] = request.client
                 ELSE store.phrase[request.phrase] = None

IInv ==
    /\ blockchain \in BOOLEAN /\ alive \in BOOLEAN
    /\ client \in [Clients -> States]
    /\ told \in Seq(Pairs) /\ answers \in Seq(Pairs)
    /\ ~blockchain => disk = store /\ answers = <<>>
    /\ \A i \in DOMAIN answers : client[answers[i][1]] = "asking"
    /\ RequestOK
    /\ Holds(store, told \o answers, Waiting(client, answers))
    /\ Holds(disk, told, Waiting(client, <<>>))

LEMMA InitHolds == Init => IInv
<1>1. SUFFICES ASSUME Init PROVE IInv
  OBVIOUS
<1>2. PICK seed0 \in GenesisSeeds : store = Genesis(seed0)
  BY <1>1 DEF Init
<1>3. seed0 \in Nat
  BY IdStoreAssumption, LastSeedIsNat
<1>4. /\ store \in StoreType
      /\ \A p \in Phrases : store.phrase[p] =
            IF \E seed \in GenesisKeys : p = generate_recall_phrase(seed) THEN Holder ELSE None
      /\ \A a \in Addresses : store.address[a] =
            IF GenesisKeys # {} /\ a = AddressOf[Holder] THEN Holder ELSE None
  <2> DEFINE ph == [p \in Phrases |->
                        IF \E seed \in GenesisKeys : p = generate_recall_phrase(seed) THEN Holder ELSE None]
             ad == [a \in Addresses |->
                        IF GenesisKeys # {} /\ a = AddressOf[Holder] THEN Holder ELSE None]
  <2>1. ph \in [Phrases -> Credentials \cup {None}] /\ ad \in [Addresses -> Credentials \cup {None}]
    BY DEF Credentials
  <2>2. store = [seed |-> seed0, phrase |-> ph, address |-> ad]
    BY <1>2 DEF Genesis
  <2>3. /\ \A p \in Phrases : ph[p] =
             IF \E seed \in GenesisKeys : p = generate_recall_phrase(seed) THEN Holder ELSE None
        /\ \A a \in Addresses : ad[a] =
             IF GenesisKeys # {} /\ a = AddressOf[Holder] THEN Holder ELSE None
    OBVIOUS
  <2> HIDE DEF ph, ad
  <2>4. store \in StoreType /\ store.phrase = ph /\ store.address = ad
    BY <1>3, <2>1, <2>2 DEF StoreType
  <2> QED BY <2>3, <2>4
<1>5. ASSUME NEW seed \in GenesisKeys
      PROVE  generate_recall_phrase(seed) \in Phrases
  <2>1. seed \in Nat /\ seed <= LastSeed
    BY IdStoreAssumption, LastSeedIsNat
  <2> QED BY <2>1, PhraseTypes
<1>6. \A seed \in GenesisKeys : store.phrase[generate_recall_phrase(seed)] = Holder
  BY <1>4, <1>5
<1>7. ASSUME NEW a \in Addresses, store.address[a] # None
      PROVE  AddressOf[store.address[a]] = a /\ \E p \in Phrases : store.phrase[p] = store.address[a]
  <2>1. GenesisKeys # {} /\ a = AddressOf[Holder] /\ store.address[a] = Holder
    BY <1>4, <1>7
  <2> QED BY <1>5, <1>6, <2>1
<1>8. Sound(store)
  BY <1>4, <1>6, <1>7 DEF Sound
<1>9. told = <<>> /\ answers = <<>> /\ told \in Seq(Pairs) /\ told \o answers = <<>>
  BY <1>1, EmptySeq, ConcatEmptySeq DEF Init
<1>10. Holds(store, <<>>, Waiting(client, <<>>))
  BY <1>8, EmptySeq DEF Holds, Backs, Latest
<1>11. client \in [Clients -> States]
  BY <1>1 DEF Init, States
<1>12. RequestOK
  BY <1>1 DEF Init, RequestOK
<1>13. blockchain \in BOOLEAN /\ alive \in BOOLEAN /\ disk = store
  BY <1>1, IdStoreAssumption DEF Init
<1>14. \A i \in DOMAIN answers : client[answers[i][1]] = "asking"
  BY <1>9, EmptySeq
<1> QED BY <1>9, <1>10, <1>11, <1>12, <1>13, <1>14 DEF IInv

\* The clients without an answer are the same when no client's answer came.
LEMMA SameWaiting ==
    ASSUME NEW cl, NEW dl, NEW given,
           \A c \in Clients : cl[c] = "told" <=> dl[c] = "told"
    PROVE  Waiting(cl, given) = Waiting(dl, given)
BY DEF Waiting

LEMMA AskKeeps ==
    ASSUME IInv, NEW c \in Clients, Ask(c)
    PROVE  IInv'
<1>1. /\ client[c] \in {"idle", "failed"} /\ request = None
      /\ UNCHANGED <<store, disk, blockchain, alive, answers, told, crashes>>
  BY DEF Ask
<1>2. /\ client' \in [Clients -> States]
      /\ \A x \in Clients \ {c} : client'[x] = client[x]
      /\ client'[c] \in {"asking", "refused"}
      /\ c \notin Invalid => client'[c] = "asking"
  BY DEF Ask, IInv, States
<1>3. \A x \in Clients : client'[x] = "told" <=> client[x] = "told"
  BY <1>1, <1>2
<1>4. Waiting(client', answers) = Waiting(client, answers) /\ Waiting(client', <<>>) = Waiting(client, <<>>)
  BY <1>3, SameWaiting
<1>5. \A i \in DOMAIN answers : answers[i] \in Pairs /\ answers[i][1] \in Clients /\ client[answers[i][1]] = "asking"
  BY DEF IInv, Pairs
<1>6. \A i \in DOMAIN answers : answers[i][1] # c /\ client'[answers[i][1]] = "asking"
  BY <1>1, <1>2, <1>5
<1>7. RequestOK'
  <2>1. CASE c \in Invalid
    BY <1>1, <2>1 DEF Ask, RequestOK
  <2>2. CASE c \notin Invalid
    <3>1. request' = [client |-> c, try |-> 1, phrase |-> None, stored |-> FALSE]
      BY <2>2 DEF Ask
    <3>2. /\ request'.client = c /\ request'.try = 1 /\ request'.phrase = None
          /\ request'.stored = FALSE
      BY <3>1
    <3>3. request'.try \in 1 .. MaxTries + 1
      BY <3>2, IdStoreAssumption
    <3> QED BY <1>1, <1>2, <1>6, <2>2, <3>1, <3>2, <3>3 DEF RequestOK
  <2> QED BY <2>1, <2>2
<1> QED BY <1>1, <1>2, <1>4, <1>6, <1>7 DEF IInv

\* What a change of the tree keeps, where it is committed at once.
LEMMA AppliedKeeps ==
    ASSUME IInv, NEW r, Applied(r),
           Holds(r, told \o answers, Waiting(client, answers))
    PROVE  /\ store' = r
           /\ ~blockchain => disk' = store'
           /\ Holds(store', told \o answers, Waiting(client, answers))
           /\ Holds(disk', told, Waiting(client, <<>>))
<1>1. CASE blockchain
  BY <1>1 DEF Applied, IInv
<1>2. CASE ~blockchain
  <2>1. answers = <<>> /\ told \in Seq(Pairs) /\ disk' = r
    BY <1>2 DEF Applied, IInv
  <2>2. told \o answers = told
    BY <2>1, ConcatEmptySeq
  <2> QED BY <2>1, <2>2 DEF Applied
<1> QED BY <1>1, <1>2

LEMMA TryKeeps ==
    ASSUME IInv, Try
    PROVE  IInv'
<1> DEFINE seed == store.seed
           r == inc_idstore_seed(store, seed)
           p == generate_recall_phrase(seed)
<1>1. store \in StoreType /\ seed \in Nat
  BY DEF IInv, Holds, Sound, StoreType
<1>2. /\ request # None /\ request.phrase = None /\ request.try <= MaxTries
      /\ seed <= LastSeed /\ Applied(r)
      /\ request' = IF store.phrase[p] # None THEN [request EXCEPT !.try = @ + 1]
                    ELSE [request EXCEPT !.phrase = p]
      /\ UNCHANGED <<blockchain, alive, answers, told, client, crashes>>
  BY DEF Try, Taken, TriesLeft
<1>3. p \in Phrases
  BY <1>1, <1>2, PhraseTypes
<1>4. r = inc_idstore_seed(store, seed)
  OBVIOUS
<1> HIDE DEF r, p, seed
<1>5. /\ Holds(r, told \o answers, Waiting(client, answers))
      /\ r.phrase = store.phrase /\ r.address = store.address
  BY <1>1, <1>4, SeedKeeps DEF IInv
<1>6. /\ store' = r
      /\ ~blockchain => disk' = store'
      /\ Holds(store', told \o answers, Waiting(client, answers))
      /\ Holds(disk', told, Waiting(client, <<>>))
  BY <1>2, <1>5, AppliedKeeps
<1>7. /\ request.client \in Clients /\ request.try \in 1 .. MaxTries + 1
      /\ ~request.stored
      /\ request = [client |-> request.client, try |-> request.try,
                      phrase |-> request.phrase, stored |-> request.stored]
      /\ client[request.client] = "asking"
      /\ \A i \in DOMAIN answers : answers[i][1] # request.client
  BY <1>2 DEF IInv, RequestOK
<1>8. /\ request'.client = request.client
      /\ request'.stored = request.stored
      /\ request' = [client |-> request'.client, try |-> request'.try,
                      phrase |-> request'.phrase, stored |-> request'.stored]
      /\ \/ request'.phrase = None /\ request'.try = request.try + 1
         \/ request'.phrase = p /\ request'.try = request.try /\ store.phrase[p] = None
  <2>1. CASE store.phrase[p] # None
    <3>1. request' = [client |-> request.client, try |-> request.try + 1,
                      phrase |-> request.phrase, stored |-> request.stored]
      BY <1>2, <1>7, <2>1
    <3> QED BY <1>2, <3>1
  <2>2. CASE store.phrase[p] = None
    <3>1. request' = [client |-> request.client, try |-> request.try,
                      phrase |-> p, stored |-> request.stored]
      BY <1>2, <1>7, <2>2
    <3> QED BY <2>2, <3>1
  <2> QED BY <2>1, <2>2
<1>9. request'.try \in 1 .. MaxTries + 1
  BY <1>2, <1>7, <1>8, IdStoreAssumption
<1>10. RequestOK'
  <2>1. request'.phrase # None => request'.phrase \in Phrases /\ store'.phrase[request'.phrase] = None
    BY <1>3, <1>5, <1>6, <1>8
  <2> QED BY <1>2, <1>7, <1>8, <1>9, <2>1 DEF RequestOK
<1> QED BY <1>2, <1>6, <1>10 DEF IInv

\* A request that failed: its client may ask again.
LEMMA FailsKeeps ==
    ASSUME IInv, request # None, Fails
    PROVE  /\ client' \in [Clients -> States]
           /\ RequestOK'
           /\ \A i \in DOMAIN answers : client'[answers[i][1]] = "asking"
           /\ Waiting(client', answers) = Waiting(client, answers)
           /\ Waiting(client', <<>>) = Waiting(client, <<>>)
<1> DEFINE c == request.client
<1>1. /\ c \in Clients /\ client[c] = "asking"
      /\ \A i \in DOMAIN answers : answers[i][1] # c
  BY DEF IInv, RequestOK
<1>2. request' = None /\ client' = [client EXCEPT ![c] = "failed"]
  BY DEF Fails
<1> HIDE DEF c
<1>3. /\ client' \in [Clients -> States] /\ client'[c] = "failed"
      /\ \A x \in Clients \ {c} : client'[x] = client[x]
  BY <1>1, <1>2 DEF IInv, States
<1>4. \A x \in Clients : client'[x] = "told" <=> client[x] = "told"
  BY <1>1, <1>3
<1>5. \A i \in DOMAIN answers : answers[i] \in Pairs /\ answers[i][1] \in Clients /\ client[answers[i][1]] = "asking"
  BY DEF IInv, Pairs
<1>6. \A i \in DOMAIN answers : client'[answers[i][1]] = "asking"
  BY <1>1, <1>3, <1>5
<1>7. RequestOK'
  BY <1>2 DEF RequestOK
<1> QED BY <1>3, <1>4, <1>6, <1>7, SameWaiting

LEMMA PanicKeeps ==
    ASSUME IInv, Panic
    PROVE  IInv'
<1> DEFINE r == inc_idstore_seed(store, store.seed)
<1>1. store.seed \in Nat
  BY DEF IInv, Holds, Sound, StoreType
<1>2. /\ request # None /\ Applied(r) /\ alive' = FALSE /\ Fails
      /\ UNCHANGED <<blockchain, answers, told, crashes>>
  BY DEF Panic
<1>3. r = inc_idstore_seed(store, store.seed)
  OBVIOUS
<1> HIDE DEF r
<1>4. Holds(r, told \o answers, Waiting(client, answers))
  BY <1>1, <1>3, SeedKeeps DEF IInv
<1>5. /\ ~blockchain => disk' = store'
      /\ Holds(store', told \o answers, Waiting(client, answers))
      /\ Holds(disk', told, Waiting(client, <<>>))
  BY <1>2, <1>4, AppliedKeeps
<1>6. /\ client' \in [Clients -> States]
      /\ RequestOK'
      /\ \A i \in DOMAIN answers : client'[answers[i][1]] = "asking"
      /\ Waiting(client', answers) = Waiting(client, answers)
      /\ Waiting(client', <<>>) = Waiting(client, <<>>)
  BY <1>2, FailsKeeps
<1> QED BY <1>2, <1>5, <1>6 DEF IInv

LEMMA GiveUpKeeps ==
    ASSUME IInv, GiveUp
    PROVE  IInv'
<1>1. /\ request # None /\ Fails
      /\ UNCHANGED <<store, disk, blockchain, alive, answers, told, crashes>>
  BY DEF GiveUp
<1>2. /\ client' \in [Clients -> States]
      /\ RequestOK'
      /\ \A i \in DOMAIN answers : client'[answers[i][1]] = "asking"
      /\ Waiting(client', answers) = Waiting(client, answers)
      /\ Waiting(client', <<>>) = Waiting(client, <<>>)
  BY <1>1, FailsKeeps
<1> QED BY <1>1, <1>2 DEF IInv

LEMMA StoreKeeps ==
    ASSUME IInv, Store
    PROVE  IInv'
<1> DEFINE c == request.client
           p == request.phrase
           r == Credential(store, c, p)
<1>1. /\ request # None /\ p # None /\ ~request.stored /\ Applied(r)
      /\ request' = [request EXCEPT !.stored = TRUE]
      /\ UNCHANGED <<blockchain, alive, answers, told, client, crashes>>
  BY DEF Store
<1>2. /\ c \in Clients /\ p \in Phrases /\ store.phrase[p] = None
      /\ request.try \in 1 .. MaxTries + 1
      /\ request = [client |-> c, try |-> request.try, phrase |-> p, stored |-> request.stored]
      /\ client[c] = "asking"
      /\ \A i \in DOMAIN answers : answers[i][1] # c
  BY <1>1 DEF IInv, RequestOK
<1>3. r = Credential(store, c, p)
  OBVIOUS
<1>4. request' = [client |-> c, try |-> request.try, phrase |-> p, stored |-> TRUE]
  BY <1>1, <1>2
<1> HIDE DEF r, c, p
<1>5. told \o answers \in Seq(Pairs)
  BY ConcatProperties DEF IInv
<1>6. c \in Waiting(client, answers)
  BY <1>2 DEF Waiting
<1>7. /\ Holds(r, told \o answers, Waiting(client, answers))
      /\ r.phrase[p] = c /\ r.address[AddressOf[c]] = c
  <2> DEFINE q == told \o answers
             w == Waiting(client, answers)
  <2>1. q \in Seq(Pairs) /\ c \in w /\ Holds(store, q, w)
    BY <1>5, <1>6 DEF IInv
  <2> HIDE DEF q, w
  <2>2. Holds(r, q, w) /\ r.phrase[p] = c /\ r.address[AddressOf[c]] = c
    BY <1>2, <1>3, <2>1, CredentialKeeps
  <2> QED BY <2>2 DEF q, w
<1>8. /\ store' = r
      /\ ~blockchain => disk' = store'
      /\ Holds(store', told \o answers, Waiting(client, answers))
      /\ Holds(disk', told, Waiting(client, <<>>))
  BY <1>1, <1>7, AppliedKeeps
<1>9. /\ request'.client = c /\ request'.try = request.try
      /\ request'.phrase = p /\ request'.stored = TRUE
  BY <1>4
<1>10. RequestOK'
  BY <1>1, <1>2, <1>4, <1>7, <1>8, <1>9 DEF RequestOK
<1> QED BY <1>1, <1>8, <1>10 DEF IInv

LEMMA AnswerStepKeeps ==
    ASSUME IInv, Answer
    PROVE  IInv'
<1> DEFINE c == request.client
           p == request.phrase
           e == <<c, p>>
<1>1. /\ request # None /\ p # None /\ request.stored /\ request' = None
      /\ UNCHANGED <<store, disk, blockchain, alive, crashes>>
  BY DEF Answer
<1>2. /\ blockchain => answers' = Append(answers, e) /\ UNCHANGED <<told, client>>
      /\ ~blockchain => /\ told' = Append(told, e)
                        /\ client' = [client EXCEPT ![c] = "told"]
                        /\ UNCHANGED answers
  BY DEF Answer
<1>3. /\ c \in Clients /\ p \in Phrases /\ client[c] = "asking"
      /\ store.phrase[p] = c /\ store.address[AddressOf[c]] = c
  BY <1>1 DEF IInv, RequestOK
<1>4. RequestOK'
  BY <1>1 DEF RequestOK
<1>5. e = <<c, p>> /\ e \in Pairs /\ e[1] = c
  BY <1>3 DEF Pairs
<1> HIDE DEF c, p, e
<1>6. told \in Seq(Pairs) /\ answers \in Seq(Pairs) /\ told \o answers \in Seq(Pairs)
  BY ConcatProperties DEF IInv
<1>7. CASE blockchain
  <2>1. answers' = Append(answers, e) /\ told' = told /\ client' = client
    BY <1>2, <1>7
  <2>2. /\ answers' \in Seq(Pairs) /\ Len(answers) \in Nat
        /\ DOMAIN answers' = 1 .. Len(answers) + 1 /\ DOMAIN answers = 1 .. Len(answers)
        /\ answers'[Len(answers) + 1] = e /\ \A i \in DOMAIN answers : answers'[i] = answers[i]
    BY <1>5, <1>6, <2>1, AppendProperties, LenProperties
  <2>3. \A i \in DOMAIN answers' : i \in DOMAIN answers \/ i = Len(answers) + 1
    BY <2>2
  <2>4. \A i \in DOMAIN answers' : client'[answers'[i][1]] = "asking"
    BY <1>3, <1>5, <2>1, <2>2, <2>3 DEF IInv
  <2>5. told' \o answers' = Append(told \o answers, e)
    <3>1. Append(answers, e) = answers \o <<e>> /\ Append(told \o answers, e) = (told \o answers) \o <<e>>
      BY <1>5, <1>6, AppendIsConcat
    <3>2. <<e>> \in Seq(Pairs)
      BY <1>5
    <3>3. (told \o answers) \o <<e>> = told \o (answers \o <<e>>)
      BY <1>6, <3>2, ConcatAssociative
    <3> QED BY <2>1, <3>1, <3>3
  <2>6. \A x \in Waiting(client, answers) : x # c => x \in Waiting(client', answers')
    BY <1>5, <2>1, <2>2, <2>3 DEF Waiting
  <2>7. Holds(store, Append(told \o answers, <<c, p>>), Waiting(client', answers'))
    BY <1>3, <1>6, <2>6, AnswerKeeps DEF IInv
  <2>8. Holds(store', told' \o answers', Waiting(client', answers'))
    BY <1>1, <1>5, <2>5, <2>7
  <2>9. Holds(disk', told', Waiting(client', <<>>))
    BY <1>1, <2>1 DEF IInv
  <2> QED BY <1>1, <1>4, <1>6, <1>7, <2>1, <2>2, <2>4, <2>8, <2>9 DEF IInv
<1>8. CASE ~blockchain
  <2>1. /\ answers' = <<>> /\ answers = <<>> /\ told' = Append(told, e) /\ disk = store
        /\ client' = [client EXCEPT ![c] = "told"]
    BY <1>2, <1>8 DEF IInv
  <2>2. /\ client' \in [Clients -> States] /\ \A x \in Clients \ {c} : client'[x] = client[x]
    BY <1>3, <2>1 DEF IInv, States
  <2>3. told' \in Seq(Pairs) /\ told' \o answers' = told' /\ told \o answers = told
    BY <1>5, <1>6, <2>1, AppendProperties, ConcatEmptySeq
  <2>4. \A x \in Waiting(client, <<>>) : x # c => x \in Waiting(client', <<>>)
    BY <2>2 DEF Waiting
  <2>5. Holds(store, Append(told, <<c, p>>), Waiting(client', <<>>))
    <3>1. Holds(store, told, Waiting(client, <<>>))
      BY <2>1, <2>3 DEF IInv
    <3> QED BY <1>3, <1>6, <2>4, <3>1, AnswerKeeps
  <2>6. Holds(store', told', Waiting(client', <<>>))
    BY <1>1, <1>5, <2>1, <2>5
  <2>7. \A i \in DOMAIN answers' : client'[answers'[i][1]] = "asking"
    BY <2>1, EmptySeq
  <2>8. blockchain' \in BOOLEAN /\ alive' \in BOOLEAN /\ ~blockchain' /\ disk' = store'
    BY <1>1, <1>8, <2>1 DEF IInv
  <2> QED BY <1>4, <1>6, <2>1, <2>2, <2>3, <2>6, <2>7, <2>8 DEF IInv
<1> QED BY <1>7, <1>8

LEMMA CommitKeeps ==
    ASSUME IInv, Commit
    PROVE  IInv'
<1>1. /\ request = None /\ disk' = store /\ told' = told \o answers /\ answers' = <<>> /\ blockchain
      /\ client' = [c \in Clients |->
                    IF \E i \in DOMAIN answers : answers[i][1] = c THEN "told"
                    ELSE client[c]]
      /\ UNCHANGED <<store, blockchain, request, alive, crashes>>
  BY DEF Commit
<1>2. told' \in Seq(Pairs) /\ answers' \in Seq(Pairs) /\ told' \o answers' = told'
  <2>1. told' \in Seq(Pairs)
    BY <1>1, ConcatProperties DEF IInv
  <2> QED BY <1>1, <2>1, EmptySeq, ConcatEmptySeq
<1>3. client' \in [Clients -> States]
  BY <1>1 DEF IInv, States
<1>4. Waiting(client', <<>>) = Waiting(client, answers)
  BY <1>1, EmptySeq DEF Waiting
<1>5. RequestOK'
  BY <1>1 DEF RequestOK
<1>6. \A i \in DOMAIN answers' : client'[answers'[i][1]] = "asking"
  BY <1>1, EmptySeq
<1>7. Holds(store, told \o answers, Waiting(client, answers))
  BY DEF IInv
<1>8. Holds(store', told' \o answers', Waiting(client', answers')) /\ Holds(disk', told', Waiting(client', <<>>))
  BY <1>1, <1>2, <1>4, <1>7
<1> QED BY <1>1, <1>2, <1>3, <1>5, <1>6, <1>8 DEF IInv

\* A restart from what is committed, by the same program or another.
LEMMA RestartKeeps ==
    ASSUME IInv, Restarted(disk)
    PROVE  IInv'
<1>1. /\ store' = disk /\ disk' = disk /\ request' = None /\ alive' = TRUE /\ answers' = <<>>
      /\ client' = [c \in Clients |-> IF client[c] = "asking" THEN "idle" ELSE client[c]]
      /\ UNCHANGED <<blockchain, told>>
  BY DEF Restarted
<1>2. told' \in Seq(Pairs) /\ answers' \in Seq(Pairs) /\ told' \o answers' = told
  BY <1>1, EmptySeq, ConcatEmptySeq DEF IInv
<1>3. client' \in [Clients -> States]
  BY <1>1 DEF IInv, States
<1>4. Waiting(client', <<>>) = Waiting(client, <<>>)
  <2>1. \A c \in Clients : client'[c] = "told" <=> client[c] = "told"
    BY <1>1
  <2> QED BY <2>1, SameWaiting
<1>5. RequestOK'
  BY <1>1 DEF RequestOK
<1>6. \A i \in DOMAIN answers' : client'[answers'[i][1]] = "asking"
  BY <1>1, EmptySeq
<1>7. Holds(store', told' \o answers', Waiting(client', answers')) /\ Holds(disk', told', Waiting(client', <<>>))
  BY <1>1, <1>2, <1>4 DEF IInv
<1> QED BY <1>1, <1>2, <1>3, <1>5, <1>6, <1>7 DEF IInv

LEMMA StepKeeps == IInv /\ [Next]_vars => IInv'
<1> SUFFICES ASSUME IInv, [Next]_vars PROVE IInv'
  OBVIOUS
<1>1. CASE \E c \in Clients : Ask(c)
  BY <1>1, AskKeeps
<1>2. CASE Try
  BY <1>2, TryKeeps
<1>3. CASE Panic
  BY <1>3, PanicKeeps
<1>4. CASE GiveUp
  BY <1>4, GiveUpKeeps
<1>5. CASE Store
  BY <1>5, StoreKeeps
<1>6. CASE Answer
  BY <1>6, AnswerStepKeeps
<1>7. CASE Commit
  BY <1>7, CommitKeeps
<1>8. CASE Crash
  BY <1>8, RestartKeeps DEF Crash
<1>9. CASE Transplant
  BY <1>9, RestartKeeps DEF Transplant, Exported
<1>10. CASE UNCHANGED vars
  BY <1>10 DEF vars, IInv, RequestOK
<1> QED BY <1>1, <1>2, <1>3, <1>4, <1>5, <1>6, <1>7, <1>8, <1>9, <1>10 DEF Next

LEMMA Invariant == Spec => []IInv
BY InitHolds, StepKeeps, PTL DEF Spec

-----------------------------------------------------------------------------
\* Type correctness: the state of the identity store, its requests and the
\* answers given out keep their types, whatever the order of tries, panics,
\* commits, crashes and exports.
THEOREM TypeCorrect == Spec => []TypeOK
<1>1. IInv => TypeOK
  BY LenProperties DEF IInv, TypeOK, RequestOK, Holds, Sound, States, Pairs
<1> QED BY <1>1, Invariant, PTL

\* A phrase given out by IdStoreModuleBackend::store brings back its
\* credential for ever: no later request, crash before or after a commit,
\* panic or export hands it to someone else.
THEOREM PhrasesAreForever == Spec => []PhraseIsForever
<1>1. IInv => PhraseIsForever
  <2> SUFFICES ASSUME IInv PROVE PhraseIsForever
    OBVIOUS
  <2>1. ASSUME NEW i \in DOMAIN told
        PROVE  store.phrase[told[i][2]] = told[i][1] /\ disk.phrase[told[i][2]] = told[i][1]
    <3>1. i \in DOMAIN (told \o answers) /\ (told \o answers)[i] = told[i]
      BY ConcatProperties, LenProperties DEF IInv
    <3> QED BY <3>1 DEF IInv, Holds, Backs
  <2>2. \A seed \in GenesisKeys : disk.phrase[generate_recall_phrase(seed)] = Holder
    BY DEF IInv, Holds, Sound
  <2> QED BY <2>1, <2>2 DEF PhraseIsForever
<1> QED BY <1>1, Invariant, PTL

\* The entries by phrase and by address of the store agree in every committed
\* state, and an address brings back nothing older than what the last of its
\* clients was told.
THEOREM LookupsAlwaysAgree == Spec => []LookupsAgree
<1>1. IInv => LookupsAgree
  <2> SUFFICES ASSUME IInv, NEW a \in Addresses
               PROVE  /\ disk.address[a] # None => \E p \in Phrases : disk.phrase[p] = disk.address[a]
                      /\ \A i \in DOMAIN told :
                            AddressOf[told[i][1]] = a /\ disk.address[a] # told[i][1] =>
                                \/ \E j \in DOMAIN told : j > i /\ AddressOf[told[j][1]] = a
                                \/ disk.address[a] \in {c \in Clients : client[c] # "told"}
    BY DEF LookupsAgree
  <2>1. disk.address[a] # None => \E p \in Phrases : disk.phrase[p] = disk.address[a]
    BY DEF IInv, Holds, Sound
  <2>2. \A c \in Waiting(client, <<>>) : c \in {d \in Clients : client[d] # "told"}
    BY DEF Waiting
  <2>3. Latest(disk, told, Waiting(client, <<>>))
    BY DEF IInv, Holds
  <2> QED BY <2>1, <2>2, <2>3 DEF Latest
<1> QED BY <1>1, Invariant, PTL
==============================================================================
