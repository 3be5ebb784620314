---------------------------- MODULE KvStoreProofs ----------------------------
(***************************************************************************)
(* Proofs about KvStore: type correctness, accounts that stay, and a log   *)
(* that tells the owners, the disabled keys and the roles.                 *)
(***************************************************************************)
EXTENDS KvStore, Induction, FiniteSetTheorems

-----------------------------------------------------------------------------
(* Reading the log.                                                        *)

\* All the ids of the events of the given kinds about x.
AllAbout(s, x, kinds) == About(s, x, kinds, MaxEvents + 1)

\* Every event has an id of at most n.
LoggedUpTo(s, n) == \A id \in Logged(s) : id <= n

\* The latest of some ids is one of them, and no other is later.
LEMMA LatestFacts ==
    ASSUME NEW ids \in SUBSET EventIds, ids # {}
    PROVE  Latest(ids) \in ids /\ \A id \in ids : id <= Latest(ids)
<1>1. ids \in SUBSET Nat /\ \A id \in ids : id <= MaxEvents
  BY KvAssumption DEF EventIds
<1>2. \E n \in ids : \A id \in ids : id <= n
  BY <1>1, GreatestOf, KvAssumption
<1> QED BY <1>2 DEF Latest

\* An id after all others is the latest.
LEMMA LatestIsNew ==
    ASSUME NEW ids \in SUBSET EventIds, NEW n \in EventIds, \A id \in ids : id < n
    PROVE  Latest(ids \cup {n}) = n
<1> DEFINE all == ids \cup {n}
<1>1. all \in SUBSET EventIds /\ all # {} /\ n \in all
  OBVIOUS
<1>2. Latest(all) \in all /\ n <= Latest(all)
  <2> HIDE DEF all
  <2> QED BY <1>1, LatestFacts
<1>3. Latest(all) \in ids => Latest(all) < n
  OBVIOUS
<1> HIDE DEF all
<1>4. Latest(all) \in ids \/ Latest(all) = n
  BY <1>2 DEF all
<1>5. Latest(all) \notin ids
  <2>1. n \in Nat /\ Latest(all) \in Nat
    <3>1. Latest(all) \in EventIds
      BY <1>1, <1>2
    <3> QED BY <3>1, KvAssumption DEF EventIds
  <2> QED BY <1>2, <1>3, <2>1
<1> QED BY <1>4, <1>5 DEF all

\* What is read of the log depends on the events only.
LEMMA SameEvents ==
    ASSUME NEW s, NEW r, r.events = s.events
    PROVE  /\ Logged(r) = Logged(s)
           /\ \A x, kinds, before : About(r, x, kinds, before) = About(s, x, kinds, before)
           /\ \A k, before : OwnerBefore(r, k, before) = OwnerBefore(s, k, before)
<1>1. Logged(r) = Logged(s)
  BY DEF Logged
<1>2. \A x, kinds, before : About(r, x, kinds, before) = About(s, x, kinds, before)
  BY <1>1 DEF About
<1> QED BY <1>1, <1>2 DEF OwnerBefore

\* r has the events of s, and e with the id n after them.
Appended(s, r, n, e) ==
    /\ n \in EventIds
    /\ LoggedUpTo(s, n - 1)
    /\ e # None
    /\ r.events[n] = e
    /\ \A id \in EventIds \ {n} : r.events[id] = s.events[id]

\* Nothing before a new event changes, and the event is the last of its kind.
LEMMA AppendedFacts ==
    ASSUME NEW s, NEW r, NEW n, NEW e, Appended(s, r, n, e)
    PROVE  /\ Logged(r) = Logged(s) \cup {n} /\ n \notin Logged(s)
           /\ Logged(s) \subseteq EventIds
           /\ LoggedUpTo(r, n)
           /\ \A x, kinds :
                 /\ e.on = x /\ e.kind \in kinds =>
                       AllAbout(r, x, kinds) = AllAbout(s, x, kinds) \cup {n}
                 /\ ~(e.on = x /\ e.kind \in kinds) =>
                       AllAbout(r, x, kinds) = AllAbout(s, x, kinds)
                 /\ AllAbout(s, x, kinds) = About(s, x, kinds, n)
           /\ \A x, kinds : \A before \in EventIds : before <= n =>
                 About(r, x, kinds, before) = About(s, x, kinds, before)
<1>1. n \in Nat /\ n <= MaxEvents
  BY KvAssumption DEF Appended, EventIds
<1>2. Logged(s) \subseteq EventIds /\ \A id \in Logged(s) : id < n
  BY <1>1, KvAssumption DEF Appended, LoggedUpTo, Logged, EventIds
<1>3. \A id \in Logged(s) : id < MaxEvents + 1 /\ id # n
  BY <1>1, <1>2, KvAssumption DEF EventIds
<1>4. Logged(r) = Logged(s) \cup {n}
  BY <1>3 DEF Logged, Appended
<1>5. \A id \in Logged(s) : r.events[id] = s.events[id]
  BY <1>2, <1>3 DEF Appended
<1>6. LoggedUpTo(r, n)
  BY <1>1, <1>2, <1>4, KvAssumption DEF LoggedUpTo, EventIds
<1>7. ASSUME NEW x, NEW kinds
      PROVE  /\ e.on = x /\ e.kind \in kinds =>
                   AllAbout(r, x, kinds) = AllAbout(s, x, kinds) \cup {n}
             /\ ~(e.on = x /\ e.kind \in kinds) =>
                   AllAbout(r, x, kinds) = AllAbout(s, x, kinds)
             /\ AllAbout(s, x, kinds) = About(s, x, kinds, n)
  <2>1. n < MaxEvents + 1 /\ r.events[n] = e
    BY <1>1, KvAssumption DEF Appended
  <2>2. AllAbout(s, x, kinds) = About(s, x, kinds, n)
    BY <1>2, <1>3 DEF AllAbout, About
  <2> QED BY <1>3, <1>4, <1>5, <2>1, <2>2 DEF AllAbout, About
<1>8. ASSUME NEW x, NEW kinds, NEW before \in EventIds, before <= n
      PROVE  About(r, x, kinds, before) = About(s, x, kinds, before)
  <2>1. ~(n < before)
    BY <1>1, <1>8, KvAssumption DEF EventIds
  <2> QED BY <1>4, <1>5, <2>1 DEF About
<1> QED BY <1>2, <1>3, <1>4, <1>6, <1>7, <1>8

\* The events of s are in r, each under its id.
LEMMA EventsKept ==
    ASSUME NEW s, NEW r, NEW n, NEW e, Appended(s, r, n, e)
    PROVE  \A id \in Logged(s) : r.events[id] = s.events[id] /\ id # n
<1>1. \A id \in Logged(s) : id \in EventIds /\ id # n
  BY AppendedFacts DEF Logged
<1> QED BY <1>1 DEF Appended

Owner(s, k) == IF s.meta[k] = None THEN None ELSE s.meta[k].owner

ChainOf(s, k) ==
    /\ \A id \in AllAbout(s, k, {"transfer"}) : s.events[id].from = OwnerBefore(s, k, id)
    /\ \A id \in AllAbout(s, k, {"put"}) : OwnerBefore(s, k, id) \in {None, s.events[id].who}
    /\ OwnerBefore(s, k, MaxEvents + 1) = Owner(s, k)

\* The owners told by what was logged before n stay as they are.
LEMMA OwnersBefore ==
    ASSUME NEW s, NEW r, NEW n, NEW e, Appended(s, r, n, e), NEW k \in Keys
    PROVE  /\ \A id \in EventIds : id <= n => OwnerBefore(r, k, id) = OwnerBefore(s, k, id)
           /\ OwnerBefore(s, k, n) = OwnerBefore(s, k, MaxEvents + 1)
           /\ OwnerBefore(r, k, MaxEvents + 1) =
                 IF e.on = k /\ e.kind \in {"put", "transfer"} THEN e.who
                 ELSE OwnerBefore(s, k, MaxEvents + 1)
<1> DEFINE kinds == {"put", "transfer"}
<1>1. \A id \in Logged(s) : r.events[id] = s.events[id] /\ id # n
  BY EventsKept
<1>2. \A before : About(s, k, kinds, before) \subseteq Logged(s)
  BY DEF About
<1>3. Logged(s) \subseteq EventIds
  BY DEF Logged
<1>4. ASSUME NEW ids \in SUBSET Logged(s), ids # {}
      PROVE  r.events[Latest(ids)] = s.events[Latest(ids)]
  <2>1. Latest(ids) \in ids
    BY <1>3, <1>4, LatestFacts
  <2> QED BY <1>1, <2>1
<1>5. ASSUME NEW id \in EventIds, id <= n
      PROVE  OwnerBefore(r, k, id) = OwnerBefore(s, k, id)
  <2>1. About(r, k, kinds, id) = About(s, k, kinds, id)
    BY <1>5, AppendedFacts
  <2>2. CASE About(s, k, kinds, id) = {}
    BY <2>1, <2>2 DEF OwnerBefore
  <2>3. CASE About(s, k, kinds, id) # {}
    <3>1. r.events[Latest(About(s, k, kinds, id))] = s.events[Latest(About(s, k, kinds, id))]
      BY <1>2, <1>4, <2>3
    <3> QED BY <2>1, <2>3, <3>1 DEF OwnerBefore
  <2> QED BY <2>2, <2>3
<1>6. OwnerBefore(s, k, n) = OwnerBefore(s, k, MaxEvents + 1)
  <2>1. About(s, k, kinds, n) = About(s, k, kinds, MaxEvents + 1)
    BY AppendedFacts DEF AllAbout
  <2> QED BY <2>1 DEF OwnerBefore
<1> DEFINE ids == About(s, k, kinds, MaxEvents + 1)
<1>7. CASE e.on = k /\ e.kind \in kinds
  <2>1. About(r, k, kinds, MaxEvents + 1) = ids \cup {n}
    BY <1>7, AppendedFacts DEF AllAbout
  <2>2. ids \in SUBSET EventIds /\ n \in EventIds /\ \A id \in ids : id < n
    <3>1. \A id \in Logged(s) : id <= n - 1 /\ id \in Nat
      BY KvAssumption DEF Appended, LoggedUpTo, Logged, EventIds
    <3>2. n \in EventIds /\ n \in Nat
      BY KvAssumption DEF Appended, EventIds
    <3> HIDE DEF kinds
    <3>3. ids \subseteq Logged(s)
      BY <1>2
    <3> HIDE DEF ids
    <3> QED BY <1>3, <3>1, <3>2, <3>3
  <2>3. Latest(ids \cup {n}) = n
    <3> HIDE DEF ids
    <3> QED BY <2>2, LatestIsNew
  <2>4. r.events[n] = e
    BY DEF Appended
  <2>5. OwnerBefore(r, k, MaxEvents + 1) = e.who
    BY <2>1, <2>3, <2>4 DEF OwnerBefore
  <2> QED BY <1>5, <1>6, <1>7, <2>5
<1>8. CASE ~(e.on = k /\ e.kind \in kinds)
  <2>1. About(r, k, kinds, MaxEvents + 1) = ids
    BY <1>8, AppendedFacts DEF AllAbout
  <2>2. ids # {} => r.events[Latest(ids)] = s.events[Latest(ids)]
    BY <1>2, <1>4
  <2>3. OwnerBefore(r, k, MaxEvents + 1) = OwnerBefore(s, k, MaxEvents + 1)
    BY <2>1, <2>2 DEF OwnerBefore
  <2> QED BY <1>5, <1>6, <1>8, <2>3
<1> QED BY <1>7, <1>8

\* An event that fits the owner it finds continues the chain of a key.
LEMMA ChainContinues ==
    ASSUME NEW s, NEW r, NEW n, NEW e, Appended(s, r, n, e), NEW k \in Keys,
           ChainOf(s, k),
           e.on = k /\ e.kind = "transfer" => e.from = Owner(s, k),
           e.on = k /\ e.kind = "put" => Owner(s, k) \in {None, e.who},
           Owner(r, k) = IF e.on = k /\ e.kind \in {"put", "transfer"} THEN e.who
                         ELSE Owner(s, k)
    PROVE  ChainOf(r, k)
<1>1. /\ \A id \in EventIds : id <= n => OwnerBefore(r, k, id) = OwnerBefore(s, k, id)
      /\ OwnerBefore(r, k, n) = Owner(s, k)
      /\ OwnerBefore(r, k, MaxEvents + 1) = Owner(r, k)
  <2>1. n \in EventIds /\ n <= n
    BY KvAssumption DEF Appended, EventIds
  <2> QED BY <2>1, OwnersBefore DEF ChainOf
<1>2. \A id \in Logged(s) : /\ id \in EventIds /\ id <= n
                            /\ r.events[id] = s.events[id]
  <2>1. \A id \in Logged(s) : id \in EventIds /\ id <= n
    BY KvAssumption DEF Appended, LoggedUpTo, Logged, EventIds
  <2> QED BY <2>1, EventsKept
<1>3. ASSUME NEW id \in AllAbout(r, k, {"transfer"})
      PROVE  r.events[id].from = OwnerBefore(r, k, id)
  <2>1. CASE id = n
    <3>1. e.on = k /\ e.kind = "transfer" /\ r.events[n] = e
      BY <1>3, <2>1 DEF AllAbout, About, Appended
    <3> QED BY <1>1, <2>1, <3>1
  <2>2. CASE id # n
    <3>1. id \in AllAbout(s, k, {"transfer"})
      BY <1>3, <2>2, AppendedFacts
    <3>2. id \in Logged(s)
      BY <3>1 DEF AllAbout, About
    <3> QED BY <1>1, <1>2, <3>1, <3>2 DEF ChainOf
  <2> QED BY <2>1, <2>2
<1>4. ASSUME NEW id \in AllAbout(r, k, {"put"})
      PROVE  OwnerBefore(r, k, id) \in {None, r.events[id].who}
  <2>1. CASE id = n
    <3>1. e.on = k /\ e.kind = "put" /\ r.events[n] = e
      BY <1>4, <2>1 DEF AllAbout, About, Appended
    <3> QED BY <1>1, <2>1, <3>1
  <2>2. CASE id # n
    <3>1. id \in AllAbout(s, k, {"put"})
      BY <1>4, <2>2, AppendedFacts
    <3>2. id \in Logged(s)
      BY <3>1 DEF AllAbout, About
    <3> QED BY <1>1, <1>2, <3>1, <3>2 DEF ChainOf
  <2> QED BY <2>1, <2>2
<1> QED BY <1>1, <1>3, <1>4 DEF ChainOf

DisabledTold(s, k) ==
    LET ids == AllAbout(s, k, {"put", "disable"})
    IN  Disabled(s, k) <=> ids # {} /\ s.events[Latest(ids)].kind = "disable"

RoleIds(s, a, g) ==
    {id \in AllAbout(s, a, {"addRoles", "removeRoles"}) :
        <<s.events[id].who, s.events[id].role>> = g}

RoleTold(s, a, g) ==
    RoleIds(s, a, g) # {} =>
        ((s.events[Latest(RoleIds(s, a, g))].kind = "addRoles") <=>
            g[2] \in s.accounts[a].roles[g[1]])

AreLogged(s, ids) == ids \subseteq Logged(s)

\* Of ids of s and perhaps n, the latest is n if it is there.
LEMMA LatestAppended ==
    ASSUME NEW s, NEW r, NEW n, NEW e, Appended(s, r, n, e),
           NEW ids, AreLogged(s, ids)
    PROVE  /\ Latest(ids \cup {n}) = n
           /\ ids # {} => /\ Latest(ids) \in ids
                          /\ r.events[Latest(ids)] = s.events[Latest(ids)]
<1>1. ids \in SUBSET EventIds /\ n \in EventIds
  BY DEF Logged, Appended, AreLogged
<1>2. \A id \in ids : id < n
  <2>1. ASSUME NEW id \in ids PROVE id < n
    <3>1. id <= n - 1 /\ id \in EventIds
      BY <1>1 DEF Appended, LoggedUpTo, AreLogged
    <3> QED BY <1>1, <3>1, KvAssumption DEF EventIds
  <2> QED BY <2>1
<1>3. Latest(ids \cup {n}) = n
  BY <1>1, <1>2, LatestIsNew
<1>4. ids # {} => Latest(ids) \in ids
  BY <1>1, LatestFacts
<1> QED BY <1>3, <1>4, EventsKept DEF AreLogged

\* The log tells that a key is disabled if the new event says what happened.
LEMMA DisabledContinues ==
    ASSUME NEW s, NEW r, NEW n, NEW e, Appended(s, r, n, e), NEW k \in Keys,
           DisabledTold(s, k),
           Disabled(r, k) <=> IF e.on = k /\ e.kind \in {"put", "disable"}
                              THEN e.kind = "disable" ELSE Disabled(s, k)
    PROVE  DisabledTold(r, k)
<1> DEFINE kinds == {"put", "disable"}
           ids == AllAbout(s, k, kinds)
<1>1. AreLogged(s, ids)
  BY DEF AllAbout, About, AreLogged
<1>2. CASE e.on = k /\ e.kind \in kinds
  <2>1. AllAbout(r, k, kinds) = ids \cup {n}
    BY <1>2, AppendedFacts
  <2>2. Latest(ids \cup {n}) = n /\ r.events[n] = e
    <3> HIDE DEF ids
    <3>1. Latest(ids \cup {n}) = n
      BY <1>1, LatestAppended
    <3> QED BY <3>1 DEF Appended
  <2>3. Disabled(r, k) <=> e.kind = "disable"
    BY <1>2
  <2> HIDE DEF ids
  <2> QED BY <2>1, <2>2, <2>3 DEF DisabledTold
<1>3. CASE ~(e.on = k /\ e.kind \in kinds)
  <2>1. AllAbout(r, k, kinds) = ids
    BY <1>3, AppendedFacts
  <2>2. ids # {} => r.events[Latest(ids)] = s.events[Latest(ids)]
    <3> HIDE DEF ids
    <3>1. ASSUME ids # {} PROVE r.events[Latest(ids)] = s.events[Latest(ids)]
      <4>1. Latest(ids) \in ids
        BY <1>1, <3>1, LatestAppended
      <4>2. Latest(ids) \in Logged(s)
        BY <1>1, <4>1 DEF AreLogged
      <4> QED BY <4>2, EventsKept
    <3> QED BY <3>1
  <2>3. Disabled(r, k) <=> Disabled(s, k)
    BY <1>3
  <2>4. Disabled(s, k) <=> ids # {} /\ s.events[Latest(ids)].kind = "disable"
    BY DEF DisabledTold
  <2>5. Disabled(r, k) <=> ids # {} /\ r.events[Latest(ids)].kind = "disable"
    <3> HIDE DEF ids
    <3> QED BY <2>2, <2>3, <2>4
  <2> QED BY <2>1, <2>5 DEF DisabledTold
<1> QED BY <1>2, <1>3

\* The log tells the roles if the new event says what happened to them.
LEMMA RoleContinues ==
    ASSUME NEW s, NEW r, NEW n, NEW e, Appended(s, r, n, e), NEW a, NEW g,
           RoleTold(s, a, g),
           IF e.on = a /\ e.kind \in {"addRoles", "removeRoles"} /\ <<e.who, e.role>> = g
           THEN (e.kind = "addRoles") <=> g[2] \in r.accounts[a].roles[g[1]]
           ELSE RoleIds(s, a, g) # {} =>
                  (g[2] \in r.accounts[a].roles[g[1]] <=> g[2] \in s.accounts[a].roles[g[1]])
    PROVE  RoleTold(r, a, g)
<1> DEFINE kinds == {"addRoles", "removeRoles"}
           ids == RoleIds(s, a, g)
           named == e.on = a /\ e.kind \in kinds /\ <<e.who, e.role>> = g
<1>1. AreLogged(s, ids)
  BY DEF RoleIds, AllAbout, About, AreLogged
<1>2. RoleIds(r, a, g) = ids \cup (IF named THEN {n} ELSE {})
  <2>1. AllAbout(r, a, kinds) =
           AllAbout(s, a, kinds) \cup (IF e.on = a /\ e.kind \in kinds THEN {n} ELSE {})
    <3> HIDE DEF kinds
    <3> QED BY AppendedFacts
  <2>2. AllAbout(s, a, kinds) \subseteq Logged(s)
    BY DEF AllAbout, About
  <2>3. \A id \in Logged(s) : r.events[id] = s.events[id] /\ id # n
    BY EventsKept
  <2>4. r.events[n] = e
    BY DEF Appended
  <2>5. \A id \in AllAbout(s, a, kinds) : r.events[id] = s.events[id]
    BY <2>2, <2>3
  <2> HIDE DEF kinds
  <2> QED BY <2>1, <2>4, <2>5 DEF RoleIds, kinds
<1>3. CASE named
  <2>1. Latest(ids \cup {n}) = n /\ r.events[n] = e
    <3> HIDE DEF ids
    <3>1. Latest(ids \cup {n}) = n
      BY <1>1, LatestAppended
    <3> QED BY <3>1 DEF Appended
  <2>2. RoleIds(r, a, g) = ids \cup {n}
    BY <1>2, <1>3
  <2>3. (e.kind = "addRoles") <=> g[2] \in r.accounts[a].roles[g[1]]
    BY <1>3
  <2> QED BY <2>1, <2>2, <2>3 DEF RoleTold
<1>4. CASE ~named
  <2>1. RoleIds(r, a, g) = ids
    BY <1>2, <1>4
  <2>2. ids # {} => r.events[Latest(ids)] = s.events[Latest(ids)]
    <3> HIDE DEF ids
    <3>1. ASSUME ids # {} PROVE r.events[Latest(ids)] = s.events[Latest(ids)]
      <4>1. Latest(ids) \in ids
        BY <1>1, <3>1, LatestAppended
      <4>2. Latest(ids) \in Logged(s)
        BY <1>1, <4>1 DEF AreLogged
      <4> QED BY <4>2, EventsKept
    <3> QED BY <3>1
  <2>3. ids # {} =>
           (g[2] \in r.accounts[a].roles[g[1]] <=> g[2] \in s.accounts[a].roles[g[1]])
    BY <1>4
  <2> QED BY <2>1, <2>2, <2>3 DEF RoleTold
<1> QED BY <1>3, <1>4

-----------------------------------------------------------------------------
(* What every store satisfies, and what its log tells.                     *)

StoreOK(s) ==
    /\ s \in StoreType
    /\ \A k \in Keys : s.value[k] # None => s.meta[k] # None
    /\ \A a \in Accounts : s.accounts[a] # None =>
          a <= s.next /\ "owner" \in s.accounts[a].roles[a]

\* The accounts of s are those of r, the disabled ones still disabled.
AccountsKept(s, r) ==
    \A a \in Accounts : s.accounts[a] # None =>
        /\ r.accounts[a] # None
        /\ s.accounts[a].disabled => r.accounts[a].disabled

LogOK(s) ==
    /\ \A k \in Keys : ChainOf(s, k) /\ DisabledTold(s, k)
    /\ \A a \in Accounts, g \in Grants : RoleTold(s, a, g)
    /\ s.count = Cardinality(Logged(s))
    /\ \A id \in Logged(s) : s.events[id].on \in Accounts => s.events[id].on <= s.next

\* LogOK depends on the events, the keys and the accounts.
LEMMA SameLog ==
    ASSUME NEW s, NEW r, r.events = s.events, r.meta = s.meta, r.accounts = s.accounts,
           r.next = s.next, r.count = s.count, LogOK(s)
    PROVE  LogOK(r)
<1>1. /\ Logged(r) = Logged(s)
      /\ \A x, kinds : AllAbout(r, x, kinds) = AllAbout(s, x, kinds)
      /\ \A k, before : OwnerBefore(r, k, before) = OwnerBefore(s, k, before)
  BY SameEvents DEF AllAbout
<1>2. ASSUME NEW k \in Keys PROVE ChainOf(r, k)
  BY <1>1 DEF LogOK, ChainOf, Owner
<1>3. ASSUME NEW k \in Keys PROVE DisabledTold(r, k)
  BY <1>1 DEF LogOK, DisabledTold, Disabled
<1>4. ASSUME NEW a \in Accounts, NEW g \in Grants PROVE RoleTold(r, a, g)
  <2>1. RoleIds(r, a, g) = RoleIds(s, a, g)
    BY <1>1 DEF RoleIds
  <2> QED BY <2>1 DEF LogOK, RoleTold
<1> QED BY <1>1, <1>2, <1>3, <1>4 DEF LogOK

\* log_event writes one event under the next id.
LEMMA LogEventFacts ==
    ASSUME NEW s \in StoreType, NEW e \in EventType, latest_event_id \in 0 .. MaxEvents, Room,
           NEW r, r = log_event(s, e)
    PROVE  /\ r \in StoreType
           /\ r.meta = s.meta /\ r.value = s.value /\ r.accounts = s.accounts
           /\ r.next = s.next /\ r.last = s.last
           /\ r.count = s.count + 1
           /\ LoggedUpTo(s, latest_event_id) => Appended(s, r, latest_event_id + 1, e)
<1> DEFINE n == latest_event_id + 1
           events == [s.events EXCEPT ![n] = e]
           count == s.count + 1
<1>1. n \in EventIds /\ n - 1 = latest_event_id
  BY KvAssumption DEF Room, EventIds
<1>2. s.events \in [EventIds -> EventType \cup {None}] /\ count \in Nat
  BY DEF StoreType
<1>3. /\ events \in [EventIds -> EventType \cup {None}]
      /\ events[n] = e /\ \A id \in EventIds \ {n} : events[id] = s.events[id]
  BY <1>1, <1>2
<1>4. r = [s EXCEPT !.events = events, !.count = count]
  BY DEF log_event
<1> HIDE DEF n, events, count
<1>5. /\ r \in StoreType
      /\ r.meta = s.meta /\ r.value = s.value /\ r.accounts = s.accounts
      /\ r.next = s.next /\ r.last = s.last
      /\ r.count = count /\ r.events = events
  BY <1>2, <1>3, <1>4 DEF StoreType
<1>6. e # None
  BY KvAssumption
<1>7. LoggedUpTo(s, latest_event_id) => Appended(s, r, n, e)
  BY <1>1, <1>3, <1>5, <1>6 DEF Appended
<1> QED BY <1>5, <1>7 DEF n, count

\* A log with one more event that fits.
LEMMA LogContinues ==
    ASSUME NEW s, NEW r, NEW n, NEW e, Appended(s, r, n, e), LogOK(s), s.count \in Nat,
           r.count = s.count + 1, s.next \in Int, r.next \in Int, s.next <= r.next,
           e.on \in Accounts => e.on <= r.next,
           \A k \in Keys :
              /\ e.on = k /\ e.kind = "transfer" => e.from = Owner(s, k)
              /\ e.on = k /\ e.kind = "put" => Owner(s, k) \in {None, e.who}
              /\ Owner(r, k) = IF e.on = k /\ e.kind \in {"put", "transfer"} THEN e.who
                               ELSE Owner(s, k)
              /\ Disabled(r, k) <=> IF e.on = k /\ e.kind \in {"put", "disable"}
                                    THEN e.kind = "disable" ELSE Disabled(s, k),
           \A a \in Accounts, g \in Grants :
              IF e.on = a /\ e.kind \in {"addRoles", "removeRoles"} /\ <<e.who, e.role>> = g
              THEN (e.kind = "addRoles") <=> g[2] \in r.accounts[a].roles[g[1]]
              ELSE RoleIds(s, a, g) # {} =>
                     (g[2] \in r.accounts[a].roles[g[1]] <=> g[2] \in s.accounts[a].roles[g[1]])
    PROVE  LogOK(r)
<1>1. ASSUME NEW k \in Keys PROVE ChainOf(r, k) /\ DisabledTold(r, k)
  BY ChainContinues, DisabledContinues DEF LogOK
<1>2. ASSUME NEW a \in Accounts, NEW g \in Grants PROVE RoleTold(r, a, g)
  BY RoleContinues DEF LogOK
<1>3. /\ Logged(r) = Logged(s) \cup {n} /\ n \notin Logged(s)
      /\ Logged(s) \subseteq EventIds
  BY AppendedFacts
<1>4. r.count = Cardinality(Logged(r))
  <2>1. IsFiniteSet(EventIds)
    BY FS_Interval, KvAssumption DEF EventIds
  <2>2. IsFiniteSet(Logged(s))
    BY <1>3, <2>1, FS_Subset
  <2>3. Cardinality(Logged(s) \cup {n}) = Cardinality(Logged(s)) + 1
    BY <1>3, <2>2, FS_AddElement
  <2> QED BY <1>3, <2>3 DEF LogOK
<1>5. ASSUME NEW id \in Logged(r), r.events[id].on \in Accounts
      PROVE  r.events[id].on <= r.next
  <2>1. CASE id = n
    BY <1>5, <2>1 DEF Appended
  <2>2. CASE id # n
    <3>1. id \in Logged(s) /\ r.events[id] = s.events[id]
      BY <1>3, <1>5, <2>2, EventsKept
    <3>2. s.events[id].on <= s.next /\ s.events[id].on \in Int
      BY <1>5, <3>1, KvAssumption DEF LogOK, Accounts
    <3> QED BY <3>1, <3>2
  <2> QED BY <2>1, <2>2
<1> QED BY <1>1, <1>2, <1>4, <1>5 DEF LogOK

-----------------------------------------------------------------------------
(* The commands.                                                           *)

\* r is what a command may make of s.
Follows(s, r) == StoreOK(r) /\ AccountsKept(s, r) /\ r.last = s.last

\* The log still tells everything.
Tells(s, r) ==
    LogOK(s) /\ LoggedUpTo(s, latest_event_id) =>
        LogOK(r) /\ LoggedUpTo(r, latest_event_id + 1) /\ Logged(s) \subseteq Logged(r)

\* Commands come when the log has room.
Ready(s) == StoreOK(s) /\ latest_event_id \in 0 .. MaxEvents /\ Room

\* A command on a key: what it logs is what it does to the key.
LEMMA KeyCommand ==
    ASSUME NEW s, Ready(s), NEW k \in Keys, NEW q \in StoreType, NEW e \in EventType,
           q.accounts = s.accounts, q.next = s.next, q.last = s.last,
           q.events = s.events, q.count = s.count,
           \A o \in Keys \ {k} : q.meta[o] = s.meta[o] /\ q.value[o] = s.value[o],
           q.meta[k] # None,
           e.on = k, e.kind \in {"put", "disable", "transfer"},
           e.kind = "transfer" => e.from = Owner(s, k),
           e.kind = "put" => Owner(s, k) \in {None, e.who},
           Owner(q, k) = IF e.kind \in {"put", "transfer"} THEN e.who ELSE Owner(s, k),
           Disabled(q, k) <=> IF e.kind \in {"put", "disable"} THEN e.kind = "disable"
                              ELSE Disabled(s, k),
           NEW r, r = log_event(q, e)
    PROVE  Follows(s, r) /\ Tells(s, r)
<1>1. /\ r \in StoreType
      /\ r.meta = q.meta /\ r.value = q.value /\ r.accounts = q.accounts
      /\ r.next = q.next /\ r.last = q.last
      /\ r.count = q.count + 1
      /\ LoggedUpTo(q, latest_event_id) => Appended(q, r, latest_event_id + 1, e)
  BY LogEventFacts DEF Ready
<1>2. Follows(s, r)
  BY <1>1 DEF Follows, StoreOK, AccountsKept, Ready
<1>3. ASSUME LogOK(s), LoggedUpTo(s, latest_event_id)
      PROVE  LogOK(r) /\ LoggedUpTo(r, latest_event_id + 1) /\ Logged(s) \subseteq Logged(r)
  <2> DEFINE n == latest_event_id + 1
  <2>1. Logged(q) = Logged(s)
    BY SameEvents
  <2>2. Appended(s, r, n, e)
    BY <1>1, <1>3, <2>1 DEF LoggedUpTo, Appended
  <2>3. s.count \in Nat /\ s.next \in Int /\ r.next = s.next
    BY <1>1, KvAssumption DEF Ready, StoreOK, StoreType
  <2>4. e.on \notin Accounts
    BY KvAssumption
  <2>5. ASSUME NEW o \in Keys
        PROVE  /\ e.on = o /\ e.kind = "transfer" => e.from = Owner(s, o)
               /\ e.on = o /\ e.kind = "put" => Owner(s, o) \in {None, e.who}
               /\ Owner(r, o) = IF e.on = o /\ e.kind \in {"put", "transfer"} THEN e.who
                                ELSE Owner(s, o)
               /\ Disabled(r, o) <=> IF e.on = o /\ e.kind \in {"put", "disable"}
                                     THEN e.kind = "disable" ELSE Disabled(s, o)
    <3>1. Owner(r, o) = Owner(q, o) /\ (Disabled(r, o) <=> Disabled(q, o))
      BY <1>1 DEF Owner, Disabled
    <3>2. CASE o = k
      BY <3>1, <3>2
    <3>3. CASE o # k
      <4>1. Owner(q, o) = Owner(s, o) /\ (Disabled(q, o) <=> Disabled(s, o))
        BY <3>3 DEF Owner, Disabled
      <4> QED BY <3>1, <3>3, <4>1
    <3> QED BY <3>2, <3>3
  <2>6. ASSUME NEW a \in Accounts, NEW g \in Grants
        PROVE  IF e.on = a /\ e.kind \in {"addRoles", "removeRoles"} /\ <<e.who, e.role>> = g
               THEN (e.kind = "addRoles") <=> g[2] \in r.accounts[a].roles[g[1]]
               ELSE RoleIds(s, a, g) # {} =>
                      (g[2] \in r.accounts[a].roles[g[1]] <=> g[2] \in s.accounts[a].roles[g[1]])
    <3>1. e.on # a /\ r.accounts = s.accounts
      BY <1>1, <2>4
    <3> QED BY <3>1
  <2> HIDE DEF n
  <2>7. LogOK(r)
    BY <1>1, <1>3, <2>2, <2>3, <2>4, <2>5, <2>6, LogContinues
  <2>8. LoggedUpTo(r, n) /\ Logged(s) \subseteq Logged(r)
    BY <2>2, AppendedFacts
  <2> QED BY <2>7, <2>8 DEF n
<1> QED BY <1>2, <1>3 DEF Tells

SetKey(s, k, meta, v) == [s EXCEPT !.value[k] = v, !.meta[k] = meta]

\* The metadata and the value of one key are written.
LEMMA SetKeyFacts ==
    ASSUME NEW s \in StoreType, NEW k \in Keys, NEW meta \in MetaType,
           NEW v \in Values \cup {None},
           NEW q, q = SetKey(s, k, meta, v)
    PROVE  /\ q \in StoreType
           /\ q.accounts = s.accounts /\ q.next = s.next /\ q.last = s.last
           /\ q.events = s.events /\ q.count = s.count
           /\ \A o \in Keys \ {k} : q.meta[o] = s.meta[o] /\ q.value[o] = s.value[o]
           /\ q.meta[k] = meta /\ q.value[k] = v
           /\ q.meta[k] # None
<1>1. /\ s.meta \in [Keys -> MetaType \cup {None}]
      /\ s.value \in [Keys -> Values \cup {None}]
  BY DEF StoreType
<1> DEFINE metas == [s.meta EXCEPT ![k] = meta]
           values == [s.value EXCEPT ![k] = v]
<1>2. /\ metas \in [Keys -> MetaType \cup {None}]
      /\ values \in [Keys -> Values \cup {None}]
      /\ metas[k] = meta /\ values[k] = v
      /\ \A o \in Keys \ {k} : metas[o] = s.meta[o] /\ values[o] = s.value[o]
  BY <1>1
<1>3. q = [s EXCEPT !.value = values, !.meta = metas]
  BY DEF SetKey
<1> HIDE DEF metas, values
<1>4. /\ q \in StoreType
      /\ q.accounts = s.accounts /\ q.next = s.next /\ q.last = s.last
      /\ q.events = s.events /\ q.count = s.count
      /\ q.meta = metas /\ q.value = values
  BY <1>2, <1>3 DEF StoreType
<1>5. meta # None
  BY KvAssumption
<1> QED BY <1>2, <1>4, <1>5

\* A put is logged under the owner it leaves.
LEMMA PutFollows ==
    ASSUME NEW s, Ready(s), NEW k \in Keys, NEW owner \in Principals, NEW v \in Values,
           verify_acl(s, owner, k),
           NEW r, r = Put(s, k, owner, v)
    PROVE  Follows(s, r) /\ Tells(s, r)
<1> DEFINE meta == [owner |-> owner, disabled |-> "no"]
           q == SetKey(s, k, meta, v)
           e == Event("put", k, owner, None, None)
<1>1. meta \in MetaType /\ meta.owner = owner /\ meta.disabled = "no"
  BY DEF MetaType, DisabledStates
<1>2. e \in EventType /\ e.on = k /\ e.kind = "put" /\ e.who = owner
  BY DEF Event, EventType, EventKinds
<1>3. r = log_event(q, e)
  BY DEF Put, SetKey
<1> HIDE DEF meta, e
<1>4. /\ q \in StoreType
      /\ q.accounts = s.accounts /\ q.next = s.next /\ q.last = s.last
      /\ q.events = s.events /\ q.count = s.count
      /\ \A o \in Keys \ {k} : q.meta[o] = s.meta[o] /\ q.value[o] = s.value[o]
      /\ q.meta[k] = meta /\ q.meta[k] # None
  BY <1>1, SetKeyFacts DEF Ready, StoreOK
<1> HIDE DEF q
<1>5. Owner(s, k) \in {None, owner}
  BY DEF Owner, verify_acl
<1>6. Owner(q, k) = owner /\ ~Disabled(q, k)
  BY <1>1, <1>4 DEF Owner, Disabled
<1> QED BY <1>2, <1>3, <1>4, <1>5, <1>6, KeyCommand

\* A disable is logged, and leaves the owner.
LEMMA DisableFollows ==
    ASSUME NEW s, Ready(s), NEW k \in Keys, NEW owner \in Principals,
           NEW how \in {"yes", "reason"}, Readable(s, k), verify_acl(s, owner, k),
           NEW r, r = Disable(s, k, owner, how)
    PROVE  Follows(s, r) /\ Tells(s, r)
<1> DEFINE meta == [owner |-> owner, disabled |-> how]
           q == SetKey(s, k, meta, s.value[k])
           e == Event("disable", k, None, None, None)
<1>1. meta \in MetaType /\ meta.owner = owner /\ meta.disabled # "no"
  BY DEF MetaType, DisabledStates
<1>2. e \in EventType /\ e.on = k /\ e.kind = "disable"
  BY DEF Event, EventType, EventKinds
<1>3. s \in StoreType /\ s.value[k] \in Values \cup {None}
  BY DEF Ready, StoreOK, StoreType
<1>4. r = log_event(q, e)
  <2>1. q = [s EXCEPT !.meta[k] = meta]
    BY <1>3 DEF SetKey, StoreType
  <2> QED BY <2>1 DEF Disable
<1> HIDE DEF meta, e
<1>5. /\ q \in StoreType
      /\ q.accounts = s.accounts /\ q.next = s.next /\ q.last = s.last
      /\ q.events = s.events /\ q.count = s.count
      /\ \A o \in Keys \ {k} : q.meta[o] = s.meta[o] /\ q.value[o] = s.value[o]
      /\ q.meta[k] = meta /\ q.meta[k] # None
  BY <1>1, <1>3, SetKeyFacts
<1> HIDE DEF q
<1>6. s.meta[k] # None /\ Owner(s, k) = owner
  BY DEF Readable, Ready, StoreOK, Owner, verify_acl
<1>7. Owner(q, k) = Owner(s, k) /\ Disabled(q, k)
  BY <1>1, <1>5, <1>6 DEF Owner, Disabled
<1> QED BY <1>2, <1>4, <1>5, <1>7, KeyCommand

\* A transfer is logged from the owner it finds.
LEMMA TransferFollows ==
    ASSUME NEW s, Ready(s), NEW k \in Keys, NEW owner \in Principals,
           NEW new \in Principals, s.meta[k] # None, verify_acl(s, owner, k),
           NEW r, r = Transfer(s, k, owner, new)
    PROVE  Follows(s, r) /\ Tells(s, r)
<1> DEFINE old == s.meta[k]
           meta == [old EXCEPT !.owner = new]
           q == SetKey(s, k, meta, s.value[k])
           e == Event("transfer", k, new, owner, None)
<1>1. s \in StoreType /\ s.value[k] \in Values \cup {None} /\ old \in MetaType
  BY DEF Ready, StoreOK, StoreType
<1>2. meta \in MetaType /\ meta.owner = new /\ meta.disabled = old.disabled
  BY <1>1 DEF MetaType
<1>3. /\ e \in EventType /\ e.on = k /\ e.kind = "transfer"
      /\ e.who = new /\ e.from = owner
  BY DEF Event, EventType, EventKinds
<1>4. r = log_event(q, e)
  <2>1. q = [s EXCEPT !.meta[k].owner = new]
    BY <1>1 DEF SetKey, StoreType
  <2> QED BY <2>1 DEF Transfer
<1> HIDE DEF meta, e
<1>5. /\ q \in StoreType
      /\ q.accounts = s.accounts /\ q.next = s.next /\ q.last = s.last
      /\ q.events = s.events /\ q.count = s.count
      /\ \A o \in Keys \ {k} : q.meta[o] = s.meta[o] /\ q.value[o] = s.value[o]
      /\ q.meta[k] = meta /\ q.meta[k] # None
  BY <1>1, <1>2, SetKeyFacts
<1> HIDE DEF q
<1>6. Owner(s, k) = owner
  BY DEF Owner, verify_acl
<1>7. Owner(q, k) = new /\ (Disabled(q, k) <=> Disabled(s, k))
  BY <1>2, <1>5 DEF Owner, Disabled
<1> QED BY <1>3, <1>4, <1>5, <1>6, <1>7, KeyCommand

\* The entry of one account is written.
LEMMA SetAccountFacts ==
    ASSUME NEW s \in StoreType, NEW a \in Accounts, NEW account \in AccountType,
           NEW r, r = SetAccount(s, a, account)
    PROVE  /\ r \in StoreType
           /\ r.meta = s.meta /\ r.value = s.value /\ r.next = s.next /\ r.last = s.last
           /\ r.events = s.events /\ r.count = s.count
           /\ \A b \in Accounts \ {a} : r.accounts[b] = s.accounts[b]
           /\ r.accounts[a] = account /\ r.accounts[a] # None
<1> DEFINE accounts == [s.accounts EXCEPT ![a] = account]
<1>1. s.accounts \in [Accounts -> AccountType \cup {None}]
  BY DEF StoreType
<1>2. /\ accounts \in [Accounts -> AccountType \cup {None}]
      /\ accounts[a] = account /\ \A b \in Accounts \ {a} : accounts[b] = s.accounts[b]
  BY <1>1
<1>3. r = [s EXCEPT !.accounts = accounts]
  BY DEF SetAccount
<1> HIDE DEF accounts
<1>4. /\ r \in StoreType
      /\ r.meta = s.meta /\ r.value = s.value /\ r.next = s.next /\ r.last = s.last
      /\ r.events = s.events /\ r.count = s.count
      /\ r.accounts = accounts
  BY <1>2, <1>3 DEF StoreType
<1> QED BY <1>2, <1>4, KvAssumption

\* A command on an account that logs what it does to the roles.
LEMMA AccountTells ==
    ASSUME NEW s, NEW r, NEW e, Ready(s), r.meta = s.meta, r.count = s.count + 1,
           s.next <= r.next, r.next \in Int,
           LoggedUpTo(s, latest_event_id) => Appended(s, r, latest_event_id + 1, e),
           e.on \in Accounts, e.on <= r.next,
           \A a \in Accounts, g \in Grants :
              IF e.on = a /\ e.kind \in {"addRoles", "removeRoles"} /\ <<e.who, e.role>> = g
              THEN (e.kind = "addRoles") <=> g[2] \in r.accounts[a].roles[g[1]]
              ELSE LogOK(s) /\ RoleIds(s, a, g) # {} =>
                     (g[2] \in r.accounts[a].roles[g[1]] <=> g[2] \in s.accounts[a].roles[g[1]])
    PROVE  Tells(s, r)
<1> DEFINE n == latest_event_id + 1
<1>1. SUFFICES ASSUME LogOK(s), LoggedUpTo(s, latest_event_id)
               PROVE  LogOK(r) /\ LoggedUpTo(r, n) /\ Logged(s) \subseteq Logged(r)
  BY DEF Tells
<1>2. Appended(s, r, n, e)
  BY <1>1
<1>3. s.count \in Nat /\ s.next \in Int
  BY KvAssumption DEF Ready, StoreOK, StoreType
<1>4. ASSUME NEW k \in Keys
      PROVE  /\ e.on # k
             /\ Owner(r, k) = Owner(s, k)
             /\ Disabled(r, k) <=> Disabled(s, k)
  BY KvAssumption DEF Owner, Disabled
<1> HIDE DEF n
<1>5. LogOK(r)
  BY <1>1, <1>2, <1>3, <1>4, LogContinues
<1>6. LoggedUpTo(r, n) /\ Logged(s) \subseteq Logged(r)
  BY <1>2, AppendedFacts
<1> QED BY <1>5, <1>6

\* A creation takes an address nobody has and that no event names.
LEMMA CreateFollows ==
    ASSUME NEW s, Ready(s), NEW p \in Users, NEW a, a = s.next + 1, a \in Accounts,
           NEW first, first = Created(s, a, p),
           NEW r, r = SetAccount(first, a, NewAccount(a, p))
    PROVE  Follows(s, first) /\ Follows(s, r) /\ Tells(s, r)
<1> DEFINE q == TakeId(s)
           e == Event("create", a, p, None, None)
<1>1. s \in StoreType /\ s.next \in 0 .. MaxAccounts /\ a <= MaxAccounts /\ a \in Nat
  BY KvAssumption DEF Ready, StoreOK, StoreType, Accounts
<1>2. /\ q \in StoreType /\ q.next = a
      /\ q.meta = s.meta /\ q.value = s.value /\ q.accounts = s.accounts
      /\ q.last = s.last /\ q.events = s.events /\ q.count = s.count
  <2>1. q = [s EXCEPT !.next = a]
    BY <1>1 DEF TakeId, StoreType
  <2>2. a \in 0 .. MaxAccounts
    BY <1>1
  <2> HIDE DEF q
  <2> QED BY <1>1, <2>1, <2>2 DEF StoreType
<1>3. e \in EventType /\ e.on = a /\ e.kind = "create"
  BY DEF Event, EventType, EventKinds, Principals
<1>4. first = log_event(q, e)
  BY DEF Created
<1> HIDE DEF q, e
<1>5. /\ first \in StoreType
      /\ first.meta = s.meta /\ first.value = s.value /\ first.accounts = s.accounts
      /\ first.next = a /\ first.last = s.last
      /\ first.count = s.count + 1
      /\ LoggedUpTo(q, latest_event_id) => Appended(q, first, latest_event_id + 1, e)
  BY <1>2, <1>3, <1>4, LogEventFacts DEF Ready
<1>6. \A b \in Accounts : s.accounts[b] # None => b < a
  BY <1>1, KvAssumption DEF Ready, StoreOK, Accounts
<1>7. \A b \in Accounts : b < a => b <= a
  BY <1>1, KvAssumption DEF Accounts
<1>8. Follows(s, first)
  BY <1>5, <1>6, <1>7 DEF Follows, StoreOK, AccountsKept, Ready
<1>9. /\ NewAccount(a, p) \in AccountType
      /\ "owner" \in NewAccount(a, p).roles[a]
  BY DEF NewAccount, AccountType, Principals, Roles
<1>10. /\ r \in StoreType
       /\ r.meta = first.meta /\ r.value = first.value /\ r.next = first.next
       /\ r.last = first.last /\ r.events = first.events /\ r.count = first.count
       /\ \A b \in Accounts \ {a} : r.accounts[b] = first.accounts[b]
       /\ r.accounts[a] = NewAccount(a, p) /\ r.accounts[a] # None
  BY <1>5, <1>9, SetAccountFacts
<1>11. ~(a < a) /\ a <= a
  BY <1>1
<1>12. s.accounts[a] = None
  BY <1>6, <1>11
<1>13. Follows(s, r)
  <2>1. StoreOK(r)
    BY <1>5, <1>6, <1>7, <1>9, <1>10, <1>11, SMTT(60) DEF StoreOK, Ready
  <2>2. AccountsKept(s, r)
    BY <1>5, <1>10, <1>12 DEF AccountsKept
  <2> QED BY <1>5, <1>10, <2>1, <2>2 DEF Follows
<1>14. ASSUME LogOK(s), NEW g \in Grants PROVE RoleIds(s, a, g) = {}
  <2>1. SUFFICES ASSUME NEW id \in RoleIds(s, a, g) PROVE FALSE
    OBVIOUS
  <2>2. id \in Logged(s) /\ s.events[id].on = a
    BY <2>1 DEF RoleIds, AllAbout, About
  <2>3. a <= s.next
    BY <1>14, <2>2 DEF LogOK
  <2> QED BY <1>1, <2>3
<1>15. Tells(s, r)
  <2>1. LoggedUpTo(s, latest_event_id) => Appended(s, r, latest_event_id + 1, e)
    <3>1. Logged(q) = Logged(s)
      BY <1>2, SameEvents
    <3> QED BY <1>2, <1>5, <1>10, <3>1 DEF LoggedUpTo, Appended
  <2>2. s.next <= r.next /\ r.next \in Int /\ e.on <= r.next
    BY <1>1, <1>3, <1>5, <1>10
  <2>3. ASSUME NEW b \in Accounts, NEW g \in Grants
        PROVE  IF e.on = b /\ e.kind \in {"addRoles", "removeRoles"} /\ <<e.who, e.role>> = g
               THEN (e.kind = "addRoles") <=> g[2] \in r.accounts[b].roles[g[1]]
               ELSE LogOK(s) /\ RoleIds(s, b, g) # {} =>
                      (g[2] \in r.accounts[b].roles[g[1]] <=> g[2] \in s.accounts[b].roles[g[1]])
    <3>1. CASE b = a
      BY <1>3, <1>14, <3>1
    <3>2. CASE b # a
      BY <1>3, <1>5, <1>10, <3>2
    <3> QED BY <3>1, <3>2
  <2>4. e.on \in Accounts /\ r.meta = s.meta /\ r.count = s.count + 1
    BY <1>3, <1>5, <1>10
  <2> QED BY <2>1, <2>2, <2>3, <2>4, AccountTells, SMTT(60)
<1> QED BY <1>8, <1>13, <1>15

\* A change of roles is logged for the one it names, and nobody else's change.
LEMMA RolesFollow ==
    ASSUME NEW s, Ready(s), NEW a \in Accounts, s.accounts[a] # None,
           NEW who \in Principals, NEW role \in Roles,
           NEW kind \in {"addRoles", "removeRoles"}, NEW roles,
           kind = "addRoles" => roles = s.accounts[a].roles[who] \cup {role},
           kind = "removeRoles" => /\ roles = s.accounts[a].roles[who] \ {role}
                                   /\ ~(who = a /\ role = "owner"),
           NEW first, first = log_event(s, Event(kind, a, who, None, role)),
           NEW r, r = ChangeRoles(first, a, who, roles)
    PROVE  Follows(s, first) /\ Follows(s, r) /\ Tells(s, r)
<1> DEFINE e == Event(kind, a, who, None, role)
           old == s.accounts[a]
           new == [old EXCEPT !.roles[who] = roles]
<1>1. /\ s \in StoreType /\ old \in AccountType /\ old.roles \in [Principals -> SUBSET Roles]
      /\ a \in Principals /\ "owner" \in old.roles[a] /\ a <= s.next
  BY DEF Ready, StoreOK, StoreType, AccountType, Principals
<1>2. /\ e \in EventType /\ e.on = a /\ e.kind = kind /\ e.who = who /\ e.role = role
  BY DEF Event, EventType, EventKinds
<1>3. first = log_event(s, e)
  OBVIOUS
<1> HIDE DEF e
<1>4. /\ first \in StoreType
      /\ first.meta = s.meta /\ first.value = s.value /\ first.accounts = s.accounts
      /\ first.next = s.next /\ first.last = s.last
      /\ first.count = s.count + 1
      /\ LoggedUpTo(s, latest_event_id) => Appended(s, first, latest_event_id + 1, e)
  BY <1>1, <1>2, <1>3, LogEventFacts DEF Ready
<1>5. Follows(s, first)
  BY <1>4 DEF Follows, StoreOK, AccountsKept, Ready
<1>6. roles \in SUBSET Roles /\ (who = a => "owner" \in roles)
  BY <1>1
<1>7. /\ new \in AccountType /\ new.disabled = old.disabled
      /\ \A w \in Principals : new.roles[w] = IF w = who THEN roles ELSE old.roles[w]
  BY <1>1, <1>6 DEF AccountType
<1>8. r = SetAccount(first, a, new)
  BY <1>1, <1>4 DEF ChangeRoles, SetAccount, StoreType
<1> HIDE DEF new
<1>9. /\ r \in StoreType
      /\ r.meta = s.meta /\ r.value = s.value /\ r.next = s.next
      /\ r.last = s.last /\ r.events = first.events /\ r.count = s.count + 1
      /\ \A b \in Accounts \ {a} : r.accounts[b] = s.accounts[b]
      /\ r.accounts[a] = new /\ r.accounts[a] # None
  BY <1>4, <1>7, <1>8, SetAccountFacts
<1>10. "owner" \in new.roles[a]
  BY <1>1, <1>6, <1>7
<1>11. Follows(s, r)
  <2>1. StoreOK(r)
    BY <1>1, <1>9, <1>10 DEF StoreOK, Ready
  <2>2. AccountsKept(s, r)
    BY <1>7, <1>9 DEF AccountsKept
  <2> QED BY <1>9, <2>1, <2>2 DEF Follows
<1>12. Tells(s, r)
  <2>1. LoggedUpTo(s, latest_event_id) => Appended(s, r, latest_event_id + 1, e)
    BY <1>4, <1>9 DEF Appended
  <2>2. s.next <= r.next /\ r.next \in Int /\ e.on <= r.next
    BY <1>1, <1>2, <1>9, KvAssumption DEF StoreType
  <2>3. ASSUME NEW b \in Accounts, NEW g \in Grants
        PROVE  IF e.on = b /\ e.kind \in {"addRoles", "removeRoles"} /\ <<e.who, e.role>> = g
               THEN (e.kind = "addRoles") <=> g[2] \in r.accounts[b].roles[g[1]]
               ELSE LogOK(s) /\ RoleIds(s, b, g) # {} =>
                      (g[2] \in r.accounts[b].roles[g[1]] <=> g[2] \in s.accounts[b].roles[g[1]])
    <3>1. g = <<g[1], g[2]>> /\ g[1] \in Principals
      BY KvAssumption
    <3>2. CASE b = a /\ <<e.who, e.role>> = g
      <4>1. g[1] = who /\ g[2] = role
        BY <1>2, <3>2
      <4>2. r.accounts[b].roles[g[1]] = roles
        BY <1>7, <1>9, <3>2, <4>1
      <4> QED BY <1>2, <3>2, <4>1, <4>2
    <3>3. CASE b = a /\ <<e.who, e.role>> # g
      <4>1. g[1] # who \/ g[2] # role
        BY <1>2, <3>1, <3>3
      <4>2. g[2] \in new.roles[g[1]] <=> g[2] \in old.roles[g[1]]
        BY <1>7, <3>1, <4>1
      <4> QED BY <1>9, <3>3, <4>2
    <3>4. CASE b # a
      BY <1>2, <1>9, <3>4
    <3> QED BY <3>2, <3>3, <3>4
  <2>4. e.on \in Accounts /\ r.meta = s.meta /\ r.count = s.count + 1
    BY <1>2, <1>9
  <2> QED BY <2>1, <2>2, <2>3, <2>4, AccountTells
<1> QED BY <1>5, <1>11, <1>12

Off(s, a) == [s EXCEPT !.accounts[a].disabled = TRUE]

\* An account that is disabled keeps its roles.
LEMMA DisableAccountFollows ==
    ASSUME NEW s, Ready(s), NEW a \in Accounts, s.accounts[a] # None,
           NEW off, off = Off(s, a),
           NEW r, r = log_event(off, Event("disableAccount", a, None, None, None))
    PROVE  Follows(s, off) /\ Follows(s, r) /\ Tells(s, r)
<1> DEFINE e == Event("disableAccount", a, None, None, None)
           old == s.accounts[a]
           new == [old EXCEPT !.disabled = TRUE]
<1>1. /\ s \in StoreType /\ old \in AccountType
      /\ "owner" \in old.roles[a] /\ a <= s.next
  BY DEF Ready, StoreOK, StoreType
<1>2. e \in EventType /\ e.on = a /\ e.kind = "disableAccount"
  BY DEF Event, EventType, EventKinds
<1>3. new \in AccountType /\ new.disabled = TRUE /\ new.roles = old.roles
  BY <1>1 DEF AccountType
<1>4. off = SetAccount(s, a, new) /\ r = log_event(off, e)
  BY <1>1 DEF Off, SetAccount, StoreType
<1> HIDE DEF e, new
<1>5. /\ off \in StoreType
      /\ off.meta = s.meta /\ off.value = s.value /\ off.next = s.next
      /\ off.last = s.last /\ off.events = s.events /\ off.count = s.count
      /\ \A b \in Accounts \ {a} : off.accounts[b] = s.accounts[b]
      /\ off.accounts[a] = new /\ off.accounts[a] # None
  BY <1>1, <1>3, <1>4, SetAccountFacts
<1>6. Follows(s, off)
  <2>1. StoreOK(off)
    BY <1>1, <1>3, <1>5 DEF StoreOK, Ready
  <2>2. AccountsKept(s, off)
    BY <1>3, <1>5 DEF AccountsKept
  <2> QED BY <1>5, <2>1, <2>2 DEF Follows
<1>7. /\ r \in StoreType
      /\ r.meta = off.meta /\ r.value = off.value /\ r.accounts = off.accounts
      /\ r.next = off.next /\ r.last = off.last
      /\ r.count = off.count + 1
      /\ LoggedUpTo(off, latest_event_id) => Appended(off, r, latest_event_id + 1, e)
  BY <1>2, <1>4, <1>5, LogEventFacts DEF Ready
<1>8. Follows(s, r)
  BY <1>6, <1>7 DEF Follows, StoreOK, AccountsKept
<1>9. Tells(s, r)
  <2>1. LoggedUpTo(s, latest_event_id) => Appended(s, r, latest_event_id + 1, e)
    <3>1. Logged(off) = Logged(s)
      BY <1>5, SameEvents
    <3> QED BY <1>5, <1>7, <3>1 DEF LoggedUpTo, Appended
  <2>2. s.next <= r.next /\ r.next \in Int /\ e.on <= r.next
    BY <1>1, <1>2, <1>5, <1>7, KvAssumption DEF StoreType
  <2>3. ASSUME NEW b \in Accounts, NEW g \in Grants
        PROVE  IF e.on = b /\ e.kind \in {"addRoles", "removeRoles"} /\ <<e.who, e.role>> = g
               THEN (e.kind = "addRoles") <=> g[2] \in r.accounts[b].roles[g[1]]
               ELSE LogOK(s) /\ RoleIds(s, b, g) # {} =>
                      (g[2] \in r.accounts[b].roles[g[1]] <=> g[2] \in s.accounts[b].roles[g[1]])
    <3>1. r.accounts[b].roles = s.accounts[b].roles
      <4>1. CASE b = a
        BY <1>3, <1>5, <1>7, <4>1
      <4>2. CASE b # a
        BY <1>5, <1>7, <4>2
      <4> QED BY <4>1, <4>2
    <3> QED BY <1>2, <3>1
  <2>4. e.on \in Accounts /\ r.meta = s.meta /\ r.count = s.count + 1
    BY <1>2, <1>5, <1>7
  <2> QED BY <2>1, <2>2, <2>3, <2>4, AccountTells
<1> QED BY <1>6, <1>8, <1>9

-----------------------------------------------------------------------------
(* The specification.                                                      *)

IInv ==
    /\ StoreOK(store) /\ StoreOK(disk) /\ AccountsKept(disk, store)
    /\ latest_event_id \in 0 .. MaxEvents
    /\ blockchain \in Modes
    /\ crashes \in 0 .. MaxCrashes
    /\ ~blockchain => disk = store
    /\ blockchain => LoggedUpTo(disk, disk.last)
    /\ IdsAreUnique => /\ LogOK(store) /\ LoggedUpTo(store, latest_event_id)
                       /\ LogOK(disk) /\ Logged(disk) \subseteq Logged(store)

\* The empty store is sound, and its log tells so.
LEMMA InitInv == Init => IInv
<1>1. SUFFICES ASSUME Init PROVE IInv
  OBVIOUS
<1> DEFINE s == EmptyStore
<1>2. s \in StoreType
  <2>1. s.meta \in [Keys -> MetaType \cup {None}]
    <3>1. ASSUME NEW k \in Keys, GenesisAcl[k] # None
          PROVE  [owner |-> GenesisAcl[k], disabled |-> "no"] \in MetaType
      BY <3>1, KvAssumption DEF MetaType, DisabledStates, Principals
    <3> QED BY <3>1 DEF EmptyStore
  <2> QED BY <2>1, KvAssumption DEF EmptyStore, StoreType
<1>3. Logged(s) = {}
  BY DEF Logged, EmptyStore
<1>4. StoreOK(s) /\ AccountsKept(s, s)
  BY <1>2 DEF StoreOK, AccountsKept, EmptyStore
<1>5. \A x, kinds : AllAbout(s, x, kinds) = {}
  BY <1>3 DEF AllAbout, About
<1>6. ASSUME NEW k \in Keys
      PROVE  /\ OwnerBefore(s, k, MaxEvents + 1) = Owner(s, k)
             /\ ~Disabled(s, k)
  <2>1. s.meta[k] = IF GenesisAcl[k] = None THEN None
                    ELSE [owner |-> GenesisAcl[k], disabled |-> "no"]
    BY DEF EmptyStore
  <2>2. About(s, k, {"put", "transfer"}, MaxEvents + 1) = {}
    BY <1>5 DEF AllAbout
  <2>3. OwnerBefore(s, k, MaxEvents + 1) = GenesisAcl[k]
    BY <2>2 DEF OwnerBefore
  <2>4. GenesisAcl[k] # None => s.meta[k] # None
    <3>1. GenesisAcl[k] # None => s.meta[k] \in MetaType
      BY <2>1, KvAssumption DEF MetaType, DisabledStates, Principals
    <3> QED BY <3>1, KvAssumption
  <2> QED BY <2>1, <2>3, <2>4 DEF Owner, Disabled
<1>7. LogOK(s)
  <2>1. \A k \in Keys : ChainOf(s, k)
    BY <1>5, <1>6 DEF ChainOf
  <2>2. \A k \in Keys : DisabledTold(s, k)
    BY <1>5, <1>6 DEF DisabledTold
  <2>3. \A a \in Accounts, g \in Grants : RoleTold(s, a, g)
    BY <1>5 DEF RoleTold, RoleIds
  <2>4. s.count = Cardinality(Logged(s))
    BY <1>3, FS_EmptySet DEF EmptyStore
  <2> QED BY <1>3, <2>1, <2>2, <2>3, <2>4 DEF LogOK
<1>8. \A n : LoggedUpTo(s, n)
  BY <1>3 DEF LoggedUpTo
<1>9. store = s /\ disk = s
  BY <1>1 DEF Init
<1> HIDE DEF s
<1> QED BY <1>1, <1>4, <1>7, <1>8, <1>9, KvAssumption DEF IInv, Init

\* A step keeps the invariant, and the accounts on disk.
StepKeeps == IInv' /\ AccountsKept(disk, disk')

\* The end of a command that follows the store it found.
LEMMA WriteKeeps ==
    ASSUME IInv, Room, NEW r, Follows(store, r), Tells(store, r), Write(r)
    PROVE  StepKeeps
<1>1. store' = r /\ latest_event_id' = latest_event_id + 1
  BY DEF Write
<1>2. blockchain' = blockchain /\ crashes' = crashes
  BY DEF Write
<1>3. (IdsAreUnique)' <=> IdsAreUnique
  BY <1>2 DEF IdsAreUnique
<1>4. IdsAreUnique => /\ LogOK(r) /\ LoggedUpTo(r, latest_event_id + 1)
                      /\ Logged(disk) \subseteq Logged(r)
  BY DEF Tells, IInv
<1>5. latest_event_id + 1 \in 0 .. MaxEvents
  BY KvAssumption DEF IInv, Room
<1>6. StoreOK(r) /\ AccountsKept(store, r) /\ AccountsKept(r, r)
  BY DEF Follows, AccountsKept
<1>7. AccountsKept(disk, r)
  BY <1>6 DEF IInv, AccountsKept
<1>8. CASE blockchain
  <2>1. disk' = disk
    BY <1>8 DEF Write
  <2>2. StoreOK(store') /\ StoreOK(disk') /\ AccountsKept(disk', store')
    BY <1>1, <1>6, <1>7, <2>1 DEF IInv
  <2>3. LoggedUpTo(disk', disk'.last)
    BY <1>8, <2>1 DEF IInv
  <2>4. IdsAreUnique =>
           /\ LogOK(store') /\ LoggedUpTo(store', latest_event_id') /\ LogOK(disk')
           /\ Logged(disk') \subseteq Logged(store')
    BY <1>1, <1>4, <2>1 DEF IInv
  <2>5. AccountsKept(disk, disk')
    BY <2>1 DEF AccountsKept
  <2> QED BY <1>1, <1>2, <1>3, <1>5, <1>8, <2>2, <2>3, <2>4, <2>5 DEF IInv, StepKeeps
<1>9. CASE ~blockchain
  <2>1. disk' = r
    BY <1>9 DEF Write
  <2>2. StoreOK(store') /\ StoreOK(disk') /\ AccountsKept(disk', store')
    BY <1>1, <1>6, <2>1
  <2>3. IdsAreUnique =>
           /\ LogOK(store') /\ LoggedUpTo(store', latest_event_id') /\ LogOK(disk')
           /\ Logged(disk') \subseteq Logged(store')
    BY <1>1, <1>4, <2>1
  <2> QED BY <1>1, <1>2, <1>3, <1>5, <1>7, <1>9, <2>1, <2>2, <2>3 DEF IInv, StepKeeps
<1> QED BY <1>8, <1>9

\* A command on an account, complete or stopped between its two commits.
LEMMA AccountCommandKeeps ==
    ASSUME IInv, Room, NEW first, NEW last, Follows(store, first),
           Follows(store, last), Tells(store, last), AccountCommand(first, last)
    PROVE  StepKeeps
<1>1. CASE Write(last)
  BY <1>1, WriteKeeps
<1>2. CASE /\ ~blockchain /\ crashes < MaxCrashes
           /\ store' = first /\ disk' = first /\ latest_event_id' = first.last
           /\ crashes' = crashes + 1 /\ blockchain' = blockchain
  <2>1. StoreOK(first) /\ AccountsKept(first, first)
    BY DEF Follows, AccountsKept
  <2>2. first.last \in 0 .. MaxEvents
    BY <2>1 DEF StoreOK, StoreType
  <2>3. crashes + 1 \in 0 .. MaxCrashes /\ crashes + 1 # 0
    BY <1>2, KvAssumption DEF IInv
  <2>4. ~(IdsAreUnique)'
    BY <1>2, <2>3 DEF IdsAreUnique
  <2>5. blockchain' \in Modes
    BY <1>2 DEF IInv
  <2>6. AccountsKept(disk, first)
    BY DEF IInv, AccountsKept, Follows
  <2> QED BY <1>2, <2>1, <2>2, <2>3, <2>4, <2>5, <2>6 DEF IInv, StepKeeps
<1> QED BY <1>1, <1>2 DEF AccountCommand

\* Each request keeps the invariant.
LEMMA RequestsKeep ==
    ASSUME IInv, NEW p \in Users
    PROVE  /\ \A alt \in Accounts \cup {None}, k \in Keys :
                 /\ \A v \in Values : PutRequest(p, alt, k, v) => StepKeeps
                 /\ \A how \in {"yes", "reason"} : DisableRequest(p, alt, k, how) => StepKeeps
                 /\ \A new \in Principals : TransferRequest(p, alt, k, new) => StepKeeps
           /\ CreateRequest(p) => StepKeeps
           /\ \A a \in Accounts :
                 /\ \A g \in Grants : AddRolesRequest(p, a, g[1], g[2]) => StepKeeps
                 /\ \A g \in Grants : RemoveRolesRequest(p, a, g[1], g[2]) => StepKeeps
                 /\ DisableAccountRequest(p, a) => StepKeeps
<1>1. Room => Ready(store)
  BY DEF Ready, IInv
<1>2. \A alt \in Accounts \cup {None} : OwnerFor(p, alt) \in Principals
  BY DEF OwnerFor, Principals
<1>3. ASSUME NEW alt \in Accounts \cup {None}, NEW k \in Keys, NEW v \in Values,
             PutRequest(p, alt, k, v)
      PROVE  StepKeeps
  <2> DEFINE owner == OwnerFor(p, alt)
             r == Put(store, k, owner, v)
  <2>1. Room /\ verify_acl(store, owner, k) /\ Write(r)
    BY <1>3 DEF PutRequest
  <2>2. owner \in Principals
    BY <1>2
  <2> HIDE DEF owner
  <2>3. Follows(store, r) /\ Tells(store, r)
    BY <1>1, <2>1, <2>2, PutFollows
  <2> HIDE DEF r
  <2> QED BY <2>1, <2>3, WriteKeeps
<1>4. ASSUME NEW alt \in Accounts \cup {None}, NEW k \in Keys, NEW how \in {"yes", "reason"},
             DisableRequest(p, alt, k, how)
      PROVE  StepKeeps
  <2> DEFINE owner == OwnerFor(p, alt)
             r == Disable(store, k, owner, how)
  <2>1. Room /\ Readable(store, k) /\ verify_acl(store, owner, k) /\ Write(r)
    BY <1>4 DEF DisableRequest
  <2>2. owner \in Principals
    BY <1>2
  <2> HIDE DEF owner
  <2>3. Follows(store, r) /\ Tells(store, r)
    BY <1>1, <2>1, <2>2, DisableFollows
  <2> HIDE DEF r
  <2> QED BY <2>1, <2>3, WriteKeeps
<1>5. ASSUME NEW alt \in Accounts \cup {None}, NEW k \in Keys, NEW new \in Principals,
             TransferRequest(p, alt, k, new)
      PROVE  StepKeeps
  <2> DEFINE owner == OwnerFor(p, alt)
             r == Transfer(store, k, owner, new)
  <2>1. Room /\ store.meta[k] # None /\ verify_acl(store, owner, k) /\ Write(r)
    BY <1>5 DEF TransferRequest, CanTransfer
  <2>2. owner \in Principals
    BY <1>2
  <2> HIDE DEF owner
  <2>3. Follows(store, r) /\ Tells(store, r)
    BY <1>1, <2>1, <2>2, TransferFollows
  <2> HIDE DEF r
  <2> QED BY <2>1, <2>3, WriteKeeps
<1>6. ASSUME CreateRequest(p) PROVE StepKeeps
  <2> DEFINE a == store.next + 1
             first == Created(store, a, p)
             last == SetAccount(first, a, NewAccount(a, p))
  <2>1. Room /\ a \in Accounts /\ AccountCommand(first, last)
    BY <1>6 DEF CreateRequest
  <2>2. a = store.next + 1
    OBVIOUS
  <2> HIDE DEF a
  <2>3. Follows(store, first) /\ Follows(store, last) /\ Tells(store, last)
    BY <1>1, <2>1, <2>2, CreateFollows
  <2> HIDE DEF first, last
  <2> QED BY <2>1, <2>3, AccountCommandKeeps
<1>7. \A a \in Accounts : CanOwn(store, a, p) => store.accounts[a] # None
  BY DEF CanOwn, Known
<1>8. \A g \in Grants : g[1] \in Principals /\ g[2] \in Roles
  BY KvAssumption
<1>9. ASSUME NEW a \in Accounts, NEW who \in Principals, NEW role \in Roles,
             AddRolesRequest(p, a, who, role)
      PROVE  StepKeeps
  <2> DEFINE roles == store.accounts[a].roles[who] \cup {role}
             first == log_event(store, Event("addRoles", a, who, None, role))
             last == ChangeRoles(first, a, who, roles)
  <2>1. Room /\ CanOwn(store, a, p) /\ AccountCommand(first, last)
    BY <1>9 DEF AddRolesRequest
  <2>2. Follows(store, first) /\ Follows(store, last) /\ Tells(store, last)
    BY <1>1, <1>7, <2>1, RolesFollow
  <2> HIDE DEF first, last
  <2> QED BY <2>1, <2>2, AccountCommandKeeps
<1>10. ASSUME NEW a \in Accounts, NEW who \in Principals, NEW role \in Roles,
              RemoveRolesRequest(p, a, who, role)
       PROVE  StepKeeps
  <2> DEFINE roles == store.accounts[a].roles[who] \ {role}
             first == log_event(store, Event("removeRoles", a, who, None, role))
             last == ChangeRoles(first, a, who, roles)
  <2>1. /\ Room /\ CanOwn(store, a, p) /\ AccountCommand(first, last)
        /\ ~(who = a /\ role = "owner")
    BY <1>10 DEF RemoveRolesRequest
  <2>2. Follows(store, first) /\ Follows(store, last) /\ Tells(store, last)
    BY <1>1, <1>7, <2>1, RolesFollow
  <2> HIDE DEF first, last
  <2> QED BY <2>1, <2>2, AccountCommandKeeps
<1>11. ASSUME NEW a \in Accounts, DisableAccountRequest(p, a)
       PROVE  StepKeeps
  <2> DEFINE off == Off(store, a)
             last == log_event(off, Event("disableAccount", a, None, None, None))
  <2>1. Room /\ CanOwn(store, a, p) /\ AccountCommand(off, last)
    BY <1>11 DEF DisableAccountRequest, Off
  <2>2. Follows(store, off) /\ Follows(store, last) /\ Tells(store, last)
    BY <1>1, <1>7, <2>1, DisableAccountFollows
  <2> HIDE DEF off, last
  <2> QED BY <2>1, <2>2, AccountCommandKeeps
<1> QED BY <1>3, <1>4, <1>5, <1>6, <1>8, <1>9, <1>10, <1>11

\* Every step keeps the invariant.
LEMMA NextInv == IInv /\ [Next]_vars => StepKeeps
<1> SUFFICES ASSUME IInv, [Next]_vars PROVE StepKeeps
  OBVIOUS
<1>1. CASE Commit
  <2> DEFINE r == Committed(store)
  <2>1. /\ blockchain /\ store' = r /\ disk' = r
        /\ latest_event_id' = latest_event_id /\ blockchain' = blockchain
        /\ crashes' = crashes
    BY <1>1 DEF Commit
  <2>2. store \in StoreType /\ latest_event_id \in 0 .. MaxEvents
    BY DEF IInv, StoreOK
  <2>3. /\ r \in StoreType
        /\ r.meta = store.meta /\ r.value = store.value /\ r.accounts = store.accounts
        /\ r.next = store.next /\ r.events = store.events /\ r.count = store.count
        /\ r.last = latest_event_id
    BY <2>2 DEF Committed, StoreType
  <2> HIDE DEF r
  <2>4. StoreOK(r) /\ AccountsKept(r, r)
    BY <2>3 DEF IInv, StoreOK, AccountsKept
  <2>5. LogOK(store) /\ LoggedUpTo(store, latest_event_id)
    BY <2>1 DEF IInv, IdsAreUnique
  <2>6. LogOK(r)
    BY <2>3, <2>5, SameLog
  <2>7. LoggedUpTo(r, latest_event_id)
    BY <2>3, <2>5, SameEvents DEF LoggedUpTo
  <2>8. AccountsKept(disk, r)
    BY <2>3 DEF IInv, AccountsKept
  <2> QED BY <2>1, <2>3, <2>4, <2>6, <2>7, <2>8 DEF IInv, StepKeeps
<1>2. CASE Restart
  <2>1. /\ store' = disk /\ disk' = disk /\ latest_event_id' = disk.last
        /\ crashes < MaxCrashes /\ crashes' = crashes + 1 /\ blockchain' = blockchain
    BY <1>2 DEF Restart
  <2>2. StoreOK(disk) /\ AccountsKept(disk, disk)
    BY DEF IInv, AccountsKept
  <2>3. disk.last \in 0 .. MaxEvents
    BY <2>2 DEF StoreOK, StoreType
  <2>4. crashes + 1 \in 0 .. MaxCrashes /\ crashes + 1 # 0
    BY <2>1, KvAssumption DEF IInv
  <2>5. (IdsAreUnique)' => blockchain
    BY <2>1, <2>4 DEF IdsAreUnique
  <2>6. blockchain => LogOK(disk) /\ LoggedUpTo(disk, disk.last)
    BY DEF IInv, IdsAreUnique
  <2>7. blockchain \in Modes
    BY DEF IInv
  <2> QED BY <2>1, <2>2, <2>3, <2>4, <2>5, <2>6, <2>7 DEF IInv, StepKeeps
<1>3. CASE UNCHANGED vars
  <2>1. /\ store' = store /\ disk' = disk /\ latest_event_id' = latest_event_id
        /\ blockchain' = blockchain /\ crashes' = crashes
    BY <1>3 DEF vars
  <2> QED BY <2>1 DEF IInv, IdsAreUnique, StepKeeps, AccountsKept
<1> QED BY <1>1, <1>2, <1>3, RequestsKeep DEF Next

\* The invariant holds of every state of the server.
LEMMA AlwaysIInv == Spec => []IInv
<1>1. IInv /\ [Next]_vars => IInv'
  BY NextInv DEF StepKeeps
<1> QED BY InitInv, <1>1, PTL DEF Spec

\* The store, the disk and the counters of the server always have their types.
THEOREM TypeCorrect == Spec => []TypeOK
<1>1. IInv => TypeOK
  BY DEF IInv, TypeOK, StoreOK
<1> QED BY AlwaysIInv, <1>1, PTL

\* In the store and on disk every put and every transfer continues the chain
\* of owners that the log before it tells, and the chain ends in the owner
\* that kvstore.query reports: verify_acl and the order of writes in put,
\* disable and transfer leave no gap, for any number of keys and crashes.
THEOREM ChainsOfOwners == Spec => []ChainOfOwners
<1>1. IInv => ChainOfOwners
  <2>1. SUFFICES ASSUME IInv, IdsAreUnique, NEW s \in {store, disk}, NEW k \in Keys
                 PROVE  /\ \A id \in About(s, k, {"transfer"}, MaxEvents + 1) :
                              s.events[id].from = OwnerBefore(s, k, id)
                        /\ \A id \in About(s, k, {"put"}, MaxEvents + 1) :
                              OwnerBefore(s, k, id) \in {None, s.events[id].who}
                        /\ OwnerBefore(s, k, MaxEvents + 1) =
                              IF s.meta[k] = None THEN None ELSE s.meta[k].owner
    BY DEF ChainOfOwners
  <2>2. LogOK(s)
    BY <2>1 DEF IInv
  <2>3. ChainOf(s, k)
    BY <2>2 DEF LogOK
  <2> QED BY <2>3 DEF ChainOf, AllAbout, Owner
<1> QED BY AlwaysIInv, <1>1, PTL

\* Whoever follows the log knows which keys are disabled and who has which
\* role on which account, in the store and on disk.
THEOREM LogTells == Spec => []LogTellsStore
<1>1. IInv => LogTellsStore
  <2>1. SUFFICES ASSUME IInv, IdsAreUnique, NEW s \in {store, disk}
                 PROVE  /\ \A k \in Keys : DisabledTold(s, k)
                        /\ \A a \in Accounts, g \in Grants : RoleTold(s, a, g)
    BY DEF LogTellsStore, DisabledTold, RoleTold, RoleIds, AllAbout
  <2>2. LogOK(s)
    BY <2>1 DEF IInv
  <2> QED BY <2>2 DEF LogOK
<1> QED BY AlwaysIInv, <1>1, PTL

\* The count of events that log_event keeps is the number of events that
\* events.list finds committed plus those of commands not committed yet, and a
\* server that has committed or restarted counts exactly what it lists.
THEOREM CountIsListed == Spec => []CountMatchesList
<1>1. IInv => CountMatchesList
  <2>1. SUFFICES ASSUME IInv, IdsAreUnique
                 PROVE  /\ store.count = Cardinality(Listed) + Cardinality(Logged(store) \ Listed)
                        /\ disk.count = Cardinality(Listed)
    BY DEF CountMatchesList
  <2>2. /\ store.count = Cardinality(Logged(store)) /\ disk.count = Cardinality(Listed)
        /\ Listed \subseteq Logged(store)
    BY <2>1 DEF IInv, LogOK, Listed
  <2>3. IsFiniteSet(Logged(store))
    <3>1. Logged(store) \subseteq EventIds /\ IsFiniteSet(EventIds)
      BY KvAssumption, FS_Interval DEF Logged, EventIds
    <3> QED BY <3>1, FS_Subset
  <2>4. Logged(store) \cap Listed = Listed
    BY <2>2
  <2>5. Cardinality(Logged(store) \ Listed) = Cardinality(Logged(store)) - Cardinality(Listed)
    BY <2>3, <2>4, FS_Difference
  <2>6. Cardinality(Logged(store)) \in Nat /\ Cardinality(Listed) \in Nat
    BY <2>2, <2>3, FS_Subset, FS_CardinalityType
  <2> QED BY <2>2, <2>5, <2>6
<1> QED BY AlwaysIInv, <1>1, PTL

\* An account that is on disk stays there, disabled if it was, and with the
\* role of owner on itself: new_subresource_id never hands out its address
\* again, and no order of commits, restarts and crashes between the two
\* commits of a command undoes it.
THEOREM AccountsNeverLeave == Spec => AccountsStay
<1> DEFINE Stay == \A a \in Accounts :
              disk.accounts[a] # None =>
                 /\ disk'.accounts[a] # None
                 /\ disk.accounts[a].disabled => disk'.accounts[a].disabled
                 /\ "owner" \in disk'.accounts[a].roles[a]
<1>1. IInv /\ [Next]_vars => Stay
  BY NextInv DEF StepKeeps, AccountsKept, IInv, StoreOK
<1>2. IInv /\ [Next]_vars => [Stay]_vars
  BY <1>1
<1> HIDE DEF Stay
<1>3. Spec => [][Stay]_vars
  BY AlwaysIInv, <1>2, PTL DEF Spec
<1> QED BY <1>3 DEF AccountsStay, Stay
==============================================================================
