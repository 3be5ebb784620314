------------------------- MODULE LedgerTokensProofs -------------------------
(***************************************************************************)
(* Proofs about LedgerTokens: type correctness, the supply of every token  *)
(* is what its holders have, tickers are unique, what is immutable stays   *)
(* so, nothing is minted above the maximum, and sends keep the counters.   *)
(***************************************************************************)
EXTENDS LedgerTokens, Induction, FiniteSetTheorems

-----------------------------------------------------------------------------
(* The sum of a distribution.                                              *)

\* What a distribution gives to an address.
At(g, a) == IF a \in DOMAIN g THEN g[a] ELSE 0

\* u holds the partial sums of g.
PartialSums(g, u, n) ==
    u = [a \in 0 .. n |-> IF a = 0 THEN 0
                          ELSE u[a - 1] + (IF a \in DOMAIN g THEN g[a] ELSE 0)]

\* The recursive function in Total exists, for any number of addresses.
LEMMA PartialSumsExist ==
    ASSUME NEW g
    PROVE  \A n \in Nat : \E u : PartialSums(g, u, n)
<1> DEFINE S == {n \in Nat : \E u : PartialSums(g, u, n)}
           gives(a) == IF a \in DOMAIN g THEN g[a] ELSE 0
<1>1. 0 \in S
  <2>1. PartialSums(g, [a \in 0 .. 0 |-> 0], 0)
    BY DEF PartialSums
  <2> QED BY <2>1
<1>2. ASSUME NEW n \in S PROVE n + 1 \in S
  <2>1. PICK u : PartialSums(g, u, n)
    OBVIOUS
  <2> DEFINE w == [a \in 0 .. n + 1 |-> IF a = n + 1 THEN u[n] + gives(n + 1) ELSE u[a]]
  <2>2. \A a \in 0 .. n : u[a] = IF a = 0 THEN 0 ELSE u[a - 1] + gives(a)
    BY <2>1 DEF PartialSums
  <2>3. \A a \in 0 .. n + 1 : w[a] = IF a = 0 THEN 0 ELSE w[a - 1] + gives(a)
    BY <2>2
  <2>4. PartialSums(g, w, n + 1)
    BY <2>3 DEF PartialSums
  <2> QED BY <2>4
<1>3. S = Nat
  BY <1>1, <1>2, InductionOverNat
<1> QED BY <1>3

\* The sums a distribution of integers adds up to.
Adds(g, u) ==
    /\ u \in [0 .. NumAddrs -> Int]
    /\ u[0] = 0
    /\ \A a \in 0 .. NumAddrs : a < NumAddrs => u[a + 1] = u[a] + At(g, a + 1)
    /\ Total(g) = u[NumAddrs]

\* Total is the last of the sums.
LEMMA TotalAdds ==
    ASSUME NEW g, \A a \in Addrs : At(g, a) \in Int
    PROVE  \E u : Adds(g, u)
<1> DEFINE u == CHOOSE u : PartialSums(g, u, NumAddrs)
<1>1. PartialSums(g, u, NumAddrs)
  BY PartialSumsExist, TokensAssumption
<1>2. Total(g) = u[NumAddrs]
  BY DEF Total, PartialSums
<1> HIDE DEF u
<1>3. /\ u[0] = 0
      /\ \A a \in 0 .. NumAddrs : a < NumAddrs => u[a + 1] = u[a] + At(g, a + 1)
      /\ u = [a \in 0 .. NumAddrs |-> u[a]]
  <2>1. \A a \in 0 .. NumAddrs :
            u[a] = IF a = 0 THEN 0 ELSE u[a - 1] + At(g, a)
    BY <1>1 DEF PartialSums, At
  <2>2. u = [a \in 0 .. NumAddrs |-> u[a]]
    BY <1>1 DEF PartialSums
  <2>3. ASSUME NEW a \in 0 .. NumAddrs, a < NumAddrs
        PROVE  u[a + 1] = u[a] + At(g, a + 1)
    <3>1. a + 1 \in 0 .. NumAddrs /\ a + 1 # 0 /\ (a + 1) - 1 = a
      BY <2>3, TokensAssumption
    <3> QED BY <2>1, <3>1
  <2>4. u[0] = 0
    BY <2>1, TokensAssumption
  <2> QED BY <2>2, <2>3, <2>4
<1> DEFINE S == {a \in 0 .. NumAddrs : u[a] \in Int}
<1>4. S = 0 .. NumAddrs
  <2>1. 0 \in S
    BY <1>3, TokensAssumption
  <2>2. ASSUME NEW a \in S, a < NumAddrs PROVE a + 1 \in S
    <3>1. At(g, a + 1) \in Int
      BY <2>2, TokensAssumption DEF Addrs
    <3>2. u[a] \in Int /\ u[a + 1] = u[a] + At(g, a + 1)
      BY <2>2, <1>3
    <3>3. u[a + 1] \in Int /\ a + 1 \in 0 .. NumAddrs
      BY <2>2, <3>1, <3>2, TokensAssumption
    <3> QED BY <3>3
  <2> QED BY <2>1, <2>2, InductionUpTo, TokensAssumption
<1>5. u \in [0 .. NumAddrs -> Int]
  BY <1>3, <1>4
<1> QED BY <1>2, <1>3, <1>5 DEF Adds

\* Distributions add up address by address.
LEMMA TotalSum ==
    ASSUME NEW g, NEW h, NEW k,
           \A a \in Addrs : At(h, a) \in Int /\ At(k, a) \in Int
                            /\ At(g, a) = At(h, a) + At(k, a)
    PROVE  Total(g) = Total(h) + Total(k)
<1>1. PICK u : Adds(g, u)
  BY TotalAdds
<1>2. PICK v : Adds(h, v)
  BY TotalAdds
<1>3. PICK w : Adds(k, w)
  BY TotalAdds
<1> DEFINE S == {a \in 0 .. NumAddrs : u[a] = v[a] + w[a]}
<1>4. 0 \in S
  BY <1>1, <1>2, <1>3, TokensAssumption DEF Adds
<1>5. ASSUME NEW a \in S, a < NumAddrs PROVE a + 1 \in S
  <2>1. a + 1 \in Addrs
    BY <1>5, TokensAssumption DEF Addrs
  <2>2. /\ u[a + 1] = u[a] + At(g, a + 1)
        /\ v[a + 1] = v[a] + At(h, a + 1)
        /\ w[a + 1] = w[a] + At(k, a + 1)
        /\ v[a] \in Int /\ w[a] \in Int /\ u[a] = v[a] + w[a]
    BY <1>1, <1>2, <1>3, <1>5 DEF Adds
  <2>3. At(h, a + 1) \in Int /\ At(k, a + 1) \in Int /\ a + 1 \in 0 .. NumAddrs
    BY <2>1, TokensAssumption DEF Addrs
  <2>4. At(g, a + 1) = At(h, a + 1) + At(k, a + 1)
    BY <2>1
  <2>5. u[a + 1] = v[a + 1] + w[a + 1]
    BY <2>2, <2>3, <2>4
  <2> QED BY <2>3, <2>5
<1>6. S = 0 .. NumAddrs
  BY <1>4, <1>5, InductionUpTo, TokensAssumption
<1>7. NumAddrs \in S
  BY <1>6, TokensAssumption
<1> QED BY <1>1, <1>2, <1>3, <1>7 DEF Adds

\* A distribution with no negative share has no negative sum, and a share of
\* more than zero makes the sum more than zero.
LEMMA TotalSign ==
    ASSUME NEW g, \A a \in Addrs : At(g, a) \in Nat
    PROVE  /\ Total(g) \in Nat
           /\ \A b \in Addrs : At(g, b) > 0 => Total(g) > 0
<1>1. PICK u : Adds(g, u)
  BY TotalAdds
<1> DEFINE S == {a \in 0 .. NumAddrs : u[a] \in Nat /\ \A b \in 1 .. a : At(g, b) > 0 => u[a] > 0}
<1>2. 0 \in S
  BY <1>1, TokensAssumption DEF Adds
<1>3. ASSUME NEW a \in S, a < NumAddrs PROVE a + 1 \in S
  <2>1. /\ u[a + 1] = u[a] + At(g, a + 1)
        /\ At(g, a + 1) \in Nat
    BY <1>1, <1>3, TokensAssumption DEF Adds, Addrs
  <2> QED BY <1>3, <2>1, TokensAssumption
<1>4. S = 0 .. NumAddrs
  BY <1>2, <1>3, InductionUpTo, TokensAssumption
<1>5. NumAddrs \in S
  BY <1>4, TokensAssumption
<1> QED BY <1>1, <1>5 DEF Adds, Addrs

\* An amount for one address and nothing for the others sums up to it.
LEMMA TotalPoint ==
    ASSUME NEW g, NEW b \in Addrs, NEW n \in Int,
           \A a \in Addrs : At(g, a) = IF a = b THEN n ELSE 0
    PROVE  Total(g) = n
<1>1. PICK u : Adds(g, u)
  BY TotalAdds
<1> DEFINE S == {a \in 0 .. NumAddrs : u[a] = IF b <= a THEN n ELSE 0}
<1>2. 0 \in S
  BY <1>1, TokensAssumption DEF Adds, Addrs
<1>3. ASSUME NEW a \in S, a < NumAddrs PROVE a + 1 \in S
  <2>1. /\ u[a + 1] = u[a] + At(g, a + 1)
        /\ u[a] = IF b <= a THEN n ELSE 0
    BY <1>1, <1>3 DEF Adds
  <2>2. At(g, a + 1) = (IF a + 1 = b THEN n ELSE 0) /\ a + 1 \in 0 .. NumAddrs
    BY <1>3, TokensAssumption DEF Addrs
  <2>3. u[a + 1] = IF b <= a + 1 THEN n ELSE 0
    BY <2>1, <2>2, TokensAssumption DEF Addrs
  <2> QED BY <2>2, <2>3
<1>4. S = 0 .. NumAddrs
  BY <1>2, <1>3, InductionUpTo, TokensAssumption
<1>5. NumAddrs \in S
  BY <1>4, TokensAssumption
<1> QED BY <1>1, <1>5, TokensAssumption DEF Adds, Addrs

-----------------------------------------------------------------------------
(* What a store of tokens always satisfies.                                *)

\* A symbol without a token has no balances; of one with a token the addresses
\* hold no more than the supply.
Backed(s, sym) ==
    IF s.tokens[sym] = NoToken
    THEN \A a \in Addrs : s.balances[sym][a] = Absent
    ELSE /\ s.tokens[sym].total = s.tokens[sym].circulating
         /\ Total(Held(s, sym)) <= s.tokens[sym].circulating

StoreOK(s) == s \in StoreType /\ \A sym \in Symbols : Backed(s, sym)

\* The holders have all of the supply.
Exact(s, sym) ==
    s.tokens[sym] # NoToken => s.tokens[sym].circulating = Total(Held(s, sym))

\* Tokens are created past the committed ones and below the counter.
Fresh(s, d) ==
    \A sym \in Symbols :
        s.tokens[sym] # NoToken /\ s.next <= sym => sym \in get_symbols(d)

\* What token information t says that is already settled by u.
SettledToken(t, u) ==
    /\ t # NoToken
    /\ t.maximum = u.maximum
    /\ u.owner = None => t.owner = None /\ t.ticker = u.ticker /\ t.ext = u.ext

Settled(s, d) ==
    \A sym \in get_symbols(d) : SettledToken(s.tokens[sym], d.tokens[sym])

\* TickersAgree, of any store.
OneTicker(s) ==
    /\ \A sym \in Symbols :
          s.tickers[sym] = IF s.tokens[sym] = NoToken THEN NoTicker
                           ELSE s.tokens[sym].ticker
    /\ \A s1, s2 \in Symbols :
          s1 # s2 /\ s.tickers[s1] # NoTicker => s.tickers[s1] # s.tickers[s2]

\* r is s but for the token sym.
OnlyAt(s, r, sym) ==
    \A o \in Symbols \ {sym} :
        /\ r.tokens[o] = s.tokens[o]
        /\ r.tickers[o] = s.tickers[o]
        /\ r.balances[o] = s.balances[o]

-----------------------------------------------------------------------------
(* What the operations on a store do.                                      *)

\* What is held of a token is a natural for each address.
LEMMA HeldType ==
    ASSUME NEW s \in StoreType, NEW sym \in Symbols
    PROVE  /\ Held(s, sym) \in [Addrs -> Nat]
           /\ \A a \in Addrs :
                 At(Held(s, sym), a) =
                    IF s.balances[sym][a] = Absent THEN 0 ELSE s.balances[sym][a]
<1>1. s.balances[sym] \in [Addrs -> Nat \cup {Absent}]
  BY DEF StoreType
<1> QED BY <1>1 DEF Held, At

\* Tokens are left alone by a store that keeps their row of balances.
LEMMA BackedElsewhere ==
    ASSUME NEW s, NEW r, NEW sym \in Symbols, OnlyAt(s, r, sym),
           NEW o \in Symbols \ {sym}
    PROVE  /\ Backed(s, o) => Backed(r, o)
           /\ Exact(s, o) => Exact(r, o)
<1>1. /\ r.tokens[o] = s.tokens[o]
      /\ r.balances[o] = s.balances[o]
  BY DEF OnlyAt
<1>2. Held(r, o) = Held(s, o)
  BY <1>1 DEF Held
<1> QED BY <1>1, <1>2 DEF Backed, Exact

\* PutBalances writes the entries it is given and nothing else.
LEMMA PutBalancesFacts ==
    ASSUME NEW s \in StoreType, NEW sym \in Symbols, NEW new,
           DOMAIN new \subseteq Addrs, \A a \in DOMAIN new : new[a] \in Nat,
           NEW r, r = PutBalances(s, sym, new)
    PROVE  /\ r \in StoreType
           /\ r.next = s.next /\ r.tokens = s.tokens /\ r.tickers = s.tickers
           /\ r.accounts = s.accounts /\ r.nonzero = s.nonzero
           /\ \A o \in Symbols \ {sym} : r.balances[o] = s.balances[o]
           /\ \A a \in Addrs : r.balances[sym][a] =
                 IF a \in DOMAIN new THEN new[a] ELSE s.balances[sym][a]
<1> DEFINE row == [a \in Addrs |-> IF a \in DOMAIN new THEN new[a]
                                  ELSE s.balances[sym][a]]
<1>1. row \in [Addrs -> Nat \cup {Absent}]
  BY DEF StoreType
<1>2. r = [s EXCEPT !.balances = [@ EXCEPT ![sym] = row]]
  BY DEF PutBalances
<1> HIDE DEF row
<1>3. /\ r \in StoreType
      /\ r.next = s.next /\ r.tokens = s.tokens /\ r.tickers = s.tickers
      /\ r.accounts = s.accounts /\ r.nonzero = s.nonzero
      /\ \A o \in Symbols \ {sym} : r.balances[o] = s.balances[o]
      /\ r.balances[sym] = row
  <2>1. s.balances \in [Symbols -> [Addrs -> Nat \cup {Absent}]]
    BY DEF StoreType
  <2> DEFINE all == [s.balances EXCEPT ![sym] = row]
  <2>2. all \in [Symbols -> [Addrs -> Nat \cup {Absent}]]
    BY <1>1, <2>1
  <2>3. all[sym] = row /\ \A o \in Symbols \ {sym} : all[o] = s.balances[o]
    BY <2>1
  <2>4. r = [s EXCEPT !.balances = all]
    BY <1>2
  <2> HIDE DEF all
  <2>5. /\ r.next = s.next /\ r.tokens = s.tokens /\ r.tickers = s.tickers
        /\ r.accounts = s.accounts /\ r.nonzero = s.nonzero
        /\ r.balances = all
        /\ r \in StoreType
    BY <2>2, <2>4 DEF StoreType
  <2> QED BY <2>3, <2>5
<1> QED BY <1>3 DEF row

\* ChangeSupply moves both supplies of a token.
LEMMA ChangeSupplyFacts ==
    ASSUME NEW s \in StoreType, NEW sym \in Symbols, NEW by \in Int,
           s.tokens[sym] # NoToken,
           s.tokens[sym].circulating + by \in Nat, s.tokens[sym].total + by \in Nat,
           NEW r, r = ChangeSupply(s, sym, by)
    PROVE  /\ r \in StoreType
           /\ r.next = s.next /\ r.tickers = s.tickers /\ r.balances = s.balances
           /\ \A o \in Symbols \ {sym} : r.tokens[o] = s.tokens[o]
           /\ r.tokens[sym] # NoToken
           /\ r.tokens[sym].circulating = s.tokens[sym].circulating + by
           /\ r.tokens[sym].total = s.tokens[sym].total + by
           /\ r.tokens[sym].ticker = s.tokens[sym].ticker
           /\ r.tokens[sym].owner = s.tokens[sym].owner
           /\ r.tokens[sym].maximum = s.tokens[sym].maximum
           /\ r.tokens[sym].ext = s.tokens[sym].ext
<1> DEFINE old == s.tokens[sym]
           new == [old EXCEPT !.circulating = @ + by, !.total = @ + by]
<1>1. old \in TokenType
  BY DEF StoreType
<1>2. /\ new \in TokenType
      /\ new.circulating = old.circulating + by /\ new.total = old.total + by
      /\ new.ticker = old.ticker /\ new.owner = old.owner
      /\ new.maximum = old.maximum /\ new.ext = old.ext
  BY <1>1 DEF TokenType
<1>3. r = [s EXCEPT !.tokens = [@ EXCEPT ![sym] = new]]
  BY <1>1 DEF ChangeSupply, StoreType
<1> HIDE DEF new, old
<1>4. /\ r \in StoreType
      /\ r.next = s.next /\ r.tickers = s.tickers /\ r.balances = s.balances
      /\ \A o \in Symbols \ {sym} : r.tokens[o] = s.tokens[o]
      /\ r.tokens[sym] = new
  <2>1. s.tokens \in [Symbols -> TokenType \cup {NoToken}]
    BY DEF StoreType
  <2> DEFINE all == [s.tokens EXCEPT ![sym] = new]
  <2>2. all \in [Symbols -> TokenType \cup {NoToken}]
    BY <1>2, <2>1
  <2>3. all[sym] = new /\ \A o \in Symbols \ {sym} : all[o] = s.tokens[o]
    BY <2>1
  <2>4. r = [s EXCEPT !.tokens = all]
    BY <1>3
  <2> HIDE DEF all
  <2>5. /\ r.next = s.next /\ r.tickers = s.tickers /\ r.balances = s.balances
        /\ r.tokens = all
        /\ r \in StoreType
    BY <2>2, <2>4 DEF StoreType
  <2> QED BY <2>3, <2>5
<1> QED BY <1>2, <1>4, TokensAssumption DEF old

PutToken(s, next, sym, new, ticker) ==
    [s EXCEPT !.next = next, !.tokens[sym] = new, !.tickers[sym] = ticker]

\* Information of a token, its ticker and the counter are stored.
LEMMA PutTokenFacts ==
    ASSUME NEW s \in StoreType, NEW sym \in Symbols, NEW new \in TokenType,
           NEW ticker \in Tickers \cup {NoTicker}, NEW next \in 0 .. MaxSymbol + 1,
           NEW r, r = PutToken(s, next, sym, new, ticker)
    PROVE  /\ r \in StoreType
           /\ r.next = next /\ r.balances = s.balances
           /\ \A o \in Symbols \ {sym} : r.tokens[o] = s.tokens[o]
           /\ \A o \in Symbols \ {sym} : r.tickers[o] = s.tickers[o]
           /\ r.tokens[sym] = new
           /\ r.tickers[sym] = ticker
<1>1. /\ s.tokens \in [Symbols -> TokenType \cup {NoToken}]
      /\ s.tickers \in [Symbols -> Tickers \cup {NoTicker}]
  BY DEF StoreType
<1> DEFINE tokens == [s.tokens EXCEPT ![sym] = new]
           tickers == [s.tickers EXCEPT ![sym] = ticker]
<1>2. /\ tokens \in [Symbols -> TokenType \cup {NoToken}]
      /\ tickers \in [Symbols -> Tickers \cup {NoTicker}]
  BY <1>1
<1>3. /\ tokens[sym] = new /\ \A o \in Symbols \ {sym} : tokens[o] = s.tokens[o]
      /\ tickers[sym] = ticker /\ \A o \in Symbols \ {sym} : tickers[o] = s.tickers[o]
  BY <1>1
<1>4. r = [s EXCEPT !.next = next, !.tokens = tokens, !.tickers = tickers]
  BY DEF PutToken
<1> HIDE DEF tokens, tickers
<1>5. /\ r.next = next /\ r.balances = s.balances
      /\ r.tokens = tokens /\ r.tickers = tickers
      /\ r \in StoreType
  BY <1>2, <1>4 DEF StoreType
<1> QED BY <1>3, <1>5

-----------------------------------------------------------------------------
(* What a request preserves.                                               *)

Sound(s, d) == StoreOK(s) /\ Fresh(s, d) /\ Settled(s, d)

\* Nothing is minted to the anonymous address.
NoAnonymousShare == \A dist \in Distributions : Anonymous \notin DOMAIN dist

ExactStore(s) == \A sym \in Symbols : Exact(s, sym)

\* Between s and r a token did not grow above its maximum.
StaysWithin(s, r, sym) ==
    (/\ s.tokens[sym] # NoToken
     /\ r.tokens[sym] # NoToken
     /\ r.tokens[sym].circulating > s.tokens[sym].circulating
     /\ s.tokens[sym].maximum # None)
    => r.tokens[sym].circulating <= r.tokens[sym].maximum

Keeps(s, d, r) ==
    /\ Sound(r, d)
    /\ OneTicker(s) => OneTicker(r)
    /\ NoAnonymousShare /\ ExactStore(s) => ExactStore(r)
    /\ \A sym \in Symbols : StaysWithin(s, r, sym)

\* A request that changes one token keeps what it should if it does so there.
LEMMA RowSuffices ==
    ASSUME NEW s, NEW d, NEW r \in StoreType, NEW sym \in Symbols,
           Sound(s, d), OnlyAt(s, r, sym), Backed(r, sym), s.next <= r.next,
           r.tokens[sym] # NoToken,
           sym < r.next \/ s.tokens[sym] # NoToken,
           s.tokens[sym] # NoToken => SettledToken(r.tokens[sym], s.tokens[sym]),
           NoAnonymousShare /\ Exact(s, sym) => Exact(r, sym),
           OneTicker(s) => /\ r.tickers[sym] = r.tokens[sym].ticker
                           /\ \A o \in Symbols \ {sym} : s.tickers[o] # r.tickers[sym],
           StaysWithin(s, r, sym)
    PROVE  Keeps(s, d, r)
<1>1. \A o \in Symbols \ {sym} : Backed(r, o) /\ (Exact(s, o) => Exact(r, o))
  BY BackedElsewhere DEF Sound, StoreOK
<1>2. StoreOK(r)
  BY <1>1 DEF StoreOK
<1>3. Fresh(r, d)
  <2>1. SUFFICES ASSUME NEW o \in Symbols, r.tokens[o] # NoToken, r.next <= o
                 PROVE  o \in get_symbols(d)
    BY DEF Fresh
  <2>2. s.tokens[o] # NoToken
    BY <2>1 DEF OnlyAt, StoreType, Symbols
  <2>3. s.next <= o
    BY <2>1 DEF StoreType, Symbols, Sound, StoreOK
  <2> QED BY <2>2, <2>3 DEF Sound, Fresh
<1>4. Settled(r, d)
  <2>1. SUFFICES ASSUME NEW o \in get_symbols(d)
                 PROVE  SettledToken(r.tokens[o], d.tokens[o])
    BY DEF Settled
  <2>2. SettledToken(s.tokens[o], d.tokens[o]) /\ o \in Symbols
    BY DEF Sound, Settled, get_symbols
  <2>3. CASE o = sym
    BY <2>2, <2>3 DEF SettledToken
  <2>4. CASE o # sym
    BY <2>2, <2>4 DEF OnlyAt
  <2> QED BY <2>3, <2>4
<1>5. ASSUME OneTicker(s) PROVE OneTicker(r)
  <2>1. \A o \in Symbols \ {sym} :
            r.tokens[o] = s.tokens[o] /\ r.tickers[o] = s.tickers[o]
    BY DEF OnlyAt
  <2>2. /\ r.tickers[sym] = r.tokens[sym].ticker
        /\ \A o \in Symbols \ {sym} : s.tickers[o] # r.tickers[sym]
    BY <1>5
  <2>3. \A o \in Symbols \ {sym} :
           s.tickers[o] = IF s.tokens[o] = NoToken THEN NoTicker ELSE s.tokens[o].ticker
    BY <1>5 DEF OneTicker
  <2>4. \A o \in Symbols :
           r.tickers[o] = IF r.tokens[o] = NoToken THEN NoTicker ELSE r.tokens[o].ticker
    BY <2>1, <2>2, <2>3
  <2>5. ASSUME NEW s1 \in Symbols, NEW s2 \in Symbols, s1 # s2, r.tickers[s1] # NoTicker
        PROVE  r.tickers[s1] # r.tickers[s2]
    BY <1>5, <2>1, <2>2, <2>5 DEF OneTicker
  <2> QED BY <2>4, <2>5 DEF OneTicker
<1>6. ASSUME NoAnonymousShare, ExactStore(s) PROVE ExactStore(r)
  BY <1>1, <1>6 DEF ExactStore
<1>7. \A o \in Symbols : StaysWithin(s, r, o)
  <2>1. ASSUME NEW o \in Symbols \ {sym} PROVE StaysWithin(s, r, o)
    <3>1. r.tokens[o] = s.tokens[o]
      BY DEF OnlyAt
    <3>2. r.tokens[o] # NoToken => r.tokens[o].circulating \in Nat
      BY DEF StoreType, TokenType
    <3> QED BY <3>1, <3>2 DEF StaysWithin
  <2> QED BY <2>1
<1> QED BY <1>2, <1>3, <1>4, <1>5, <1>6, <1>7 DEF Keeps, Sound

-----------------------------------------------------------------------------
(* The requests, one by one.                                               *)

\* Counters stay within their width.
LEMMA WrappedType ==
    ASSUME NEW n \in Int
    PROVE  Wrapped(n) \in 0 .. CounterRange - 1
BY TokensAssumption DEF Wrapped

\* A token's supply is a natural.
LEMMA TokenFields ==
    ASSUME NEW s \in StoreType, NEW sym \in Symbols, s.tokens[sym] # NoToken
    PROVE  /\ s.tokens[sym] \in TokenType
           /\ s.tokens[sym].circulating \in Nat /\ s.tokens[sym].total \in Nat
           /\ s.tokens[sym].maximum \in Nat \cup {None}
BY DEF StoreType, TokenType

\* A token that keeps its ticker keeps it for itself.
LEMMA TickerKept ==
    ASSUME NEW s \in StoreType, NEW r, NEW sym \in Symbols, s.tokens[sym] # NoToken,
           r.tickers[sym] = s.tickers[sym], r.tokens[sym].ticker = s.tokens[sym].ticker,
           OneTicker(s)
    PROVE  /\ r.tickers[sym] = r.tokens[sym].ticker
           /\ \A o \in Symbols \ {sym} : s.tickers[o] # r.tickers[sym]
<1>1. s.tickers[sym] = s.tokens[sym].ticker /\ s.tickers[sym] # NoTicker
  BY TokenFields, TokensAssumption DEF OneTicker, TokenType
<1> QED BY <1>1 DEF OneTicker

\* get_balance is a natural, and a balance an address can spend is an entry.
LEMMA BalanceFacts ==
    ASSUME NEW s \in StoreType, NEW a \in Addrs, NEW sym \in Symbols
    PROVE  /\ get_balance(s, a, sym) \in Nat
           /\ s.balances[sym][a] \in Nat \cup {Absent}
           /\ get_balance(s, a, sym) > 0 =>
                 s.balances[sym][a] = get_balance(s, a, sym) /\ a # Anonymous
           /\ a # Anonymous => get_balance(s, a, sym) = At(Held(s, sym), a)
<1>1. s.balances[sym][a] \in Nat \cup {Absent}
  BY DEF StoreType
<1> QED BY <1>1, HeldType, TokensAssumption DEF get_balance

\* The counters of accounts are all that update_account_count changes.
LEMMA CountFacts ==
    ASSUME NEW s \in StoreType, NEW from \in Addrs, NEW to \in Addrs,
           NEW amount \in Nat, NEW sym \in Symbols,
           NEW r, r = update_account_count(s, from, to, amount, sym)
    PROVE  /\ r \in StoreType
           /\ r.next = s.next /\ r.tokens = s.tokens /\ r.tickers = s.tickers
           /\ r.balances = s.balances
           /\ r.accounts = Wrapped(s.accounts + (IF s.balances[sym][to] = Absent THEN 1 ELSE 0))
           /\ r.nonzero = Wrapped(s.nonzero + (IF get_balance(s, to, sym) = 0 THEN 1 ELSE 0)
                               - (IF get_balance(s, from, sym) = amount THEN 1 ELSE 0))
<1> DEFINE accounts == Wrapped(s.accounts + (IF s.balances[sym][to] = Absent THEN 1 ELSE 0))
           nonzero == Wrapped(s.nonzero + (IF get_balance(s, to, sym) = 0 THEN 1 ELSE 0)
                               - (IF get_balance(s, from, sym) = amount THEN 1 ELSE 0))
<1>1. s.accounts \in Int /\ s.nonzero \in Int
  BY TokensAssumption DEF StoreType
<1>2. accounts \in 0 .. CounterRange - 1 /\ nonzero \in 0 .. CounterRange - 1
  BY <1>1, WrappedType
<1>3. r = [s EXCEPT !.accounts = accounts, !.nonzero = nonzero]
  BY DEF update_account_count
<1> HIDE DEF accounts, nonzero
<1>4. /\ r \in StoreType
      /\ r.next = s.next /\ r.tokens = s.tokens /\ r.tickers = s.tickers
      /\ r.balances = s.balances
      /\ r.accounts = accounts /\ r.nonzero = nonzero
  BY <1>2, <1>3 DEF StoreType
<1> QED BY <1>4 DEF accounts, nonzero

\* What a send that is accepted does to the entries.
Sent(s, r, from, to, sym, amount) ==
    /\ OnlyAt(s, r, sym)
    /\ r.next = s.next /\ r.tokens = s.tokens /\ r.tickers = s.tickers
    /\ \A a \in Addrs :
          r.balances[sym][a] = IF a = to THEN get_balance(s, to, sym) + amount
                               ELSE IF a = from THEN get_balance(s, from, sym) - amount
                               ELSE s.balances[sym][a]

SentStore(s, from, to, sym, amount) ==
    PutBalances(update_account_count(s, from, to, amount, sym), sym,
                [a \in {from, to} |->
                    IF a = to THEN get_balance(s, to, sym) + amount
                              ELSE get_balance(s, from, sym) - amount])

\* A send keeps the sum of the balances.
LEMMA SendKeeps ==
    ASSUME NEW s, NEW d, Sound(s, d),
           NEW from \in Addrs, NEW to \in Addrs, NEW sym \in Symbols, NEW amount \in Nat,
           from # to, amount > 0, Anonymous \notin {from, to},
           amount <= get_balance(s, from, sym),
           NEW r, r = SentStore(s, from, to, sym, amount)
    PROVE  /\ Keeps(s, d, r)
           /\ Sent(s, r, from, to, sym, amount)
           /\ r.accounts = update_account_count(s, from, to, amount, sym).accounts
           /\ r.nonzero = update_account_count(s, from, to, amount, sym).nonzero
<1> DEFINE c == update_account_count(s, from, to, amount, sym)
           new == [a \in {from, to} |->
                    IF a = to THEN get_balance(s, to, sym) + amount
                              ELSE get_balance(s, from, sym) - amount]
<1>1. s \in StoreType
  BY DEF Sound, StoreOK
<1>2. /\ c \in StoreType
      /\ c.next = s.next /\ c.tokens = s.tokens /\ c.tickers = s.tickers
      /\ c.balances = s.balances
  BY <1>1, CountFacts
<1>3. /\ get_balance(s, from, sym) \in Nat /\ get_balance(s, to, sym) \in Nat
      /\ s.balances[sym][from] = get_balance(s, from, sym)
  BY <1>1, BalanceFacts
<1>4. DOMAIN new \subseteq Addrs /\ \A a \in DOMAIN new : new[a] \in Nat
  BY <1>3
<1>5. r = PutBalances(c, sym, new)
  BY DEF SentStore
<1>6. /\ r \in StoreType
      /\ r.next = c.next /\ r.tokens = c.tokens /\ r.tickers = c.tickers
      /\ r.accounts = c.accounts /\ r.nonzero = c.nonzero
      /\ \A o \in Symbols \ {sym} : r.balances[o] = c.balances[o]
      /\ \A a \in Addrs : r.balances[sym][a] =
                 IF a \in DOMAIN new THEN new[a] ELSE c.balances[sym][a]
  <2> HIDE DEF c, new
  <2> QED BY <1>2, <1>4, <1>5, PutBalancesFacts
<1>7. Sent(s, r, from, to, sym, amount)
  <2>1. OnlyAt(s, r, sym)
    BY <1>2, <1>6 DEF OnlyAt
  <2> HIDE DEF c
  <2> QED BY <1>2, <1>6, <2>1 DEF Sent
<1>8. s.tokens[sym] # NoToken
  BY <1>3, TokensAssumption DEF Sound, StoreOK, Backed
<1>9. Total(Held(r, sym)) = Total(Held(s, sym))
  <2> DEFINE both == [a \in Addrs |-> At(Held(s, sym), a) + (IF a = to THEN amount ELSE 0)]
             given == [a \in {to} |-> amount]
             taken == [a \in {from} |-> amount]
  <2>1. \A a \in Addrs : /\ At(Held(s, sym), a) \in Nat
                         /\ At(given, a) = (IF a = to THEN amount ELSE 0)
                         /\ At(taken, a) = (IF a = from THEN amount ELSE 0)
    BY <1>1, HeldType DEF At
  <2>2. \A a \in Addrs : At(Held(r, sym), a) =
            At(Held(s, sym), a) + (IF a = to THEN amount ELSE IF a = from THEN - amount ELSE 0)
    <3>1. SUFFICES ASSUME NEW a \in Addrs
                   PROVE  At(Held(r, sym), a) = At(Held(s, sym), a)
                            + (IF a = to THEN amount ELSE IF a = from THEN - amount ELSE 0)
      OBVIOUS
    <3>2. /\ At(Held(r, sym), a) =
                IF r.balances[sym][a] = Absent THEN 0 ELSE r.balances[sym][a]
          /\ At(Held(s, sym), a) =
                IF s.balances[sym][a] = Absent THEN 0 ELSE s.balances[sym][a]
          /\ At(Held(s, sym), a) \in Nat
      BY <1>1, <1>6, HeldType, <2>1
    <3>3. a \in {from, to} => get_balance(s, a, sym) = At(Held(s, sym), a)
      BY <1>1, BalanceFacts
    <3> QED BY <1>3, <1>7, <3>2, <3>3, TokensAssumption DEF Sent
  <2> HIDE DEF given, taken
  <2>3. \A a \in Addrs : /\ At(both, a) = At(Held(s, sym), a) + At(given, a)
                         /\ At(both, a) = At(Held(r, sym), a) + At(taken, a)
                         /\ At(Held(r, sym), a) \in Int
                         /\ At(given, a) \in Int /\ At(taken, a) \in Int
    <3>1. \A a \in Addrs : At(both, a) = At(Held(s, sym), a) + (IF a = to THEN amount ELSE 0)
      BY DEF At
    <3> HIDE DEF both
    <3> QED BY <2>1, <2>2, <3>1
  <2> HIDE DEF both
  <2>4. Total(both) = Total(Held(s, sym)) + Total(given)
    BY <2>1, <2>3, TotalSum
  <2>5. Total(both) = Total(Held(r, sym)) + Total(taken)
    BY <2>1, <2>3, TotalSum
  <2>6. Total(given) = amount /\ Total(taken) = amount
    BY <2>1, TotalPoint
  <2>7. Total(Held(s, sym)) \in Nat /\ Total(Held(r, sym)) \in Int
    <3>1. \A a \in Addrs : At(Held(r, sym), a) \in Nat
      BY <1>6, HeldType DEF At
    <3> QED BY <2>1, <3>1, TotalSign
  <2> QED BY <2>4, <2>5, <2>6, <2>7
<1>10. Keeps(s, d, r)
  <2>1. r.tokens[sym] = s.tokens[sym] /\ r.tickers[sym] = s.tickers[sym]
    BY <1>7 DEF Sent
  <2>2. Backed(r, sym) /\ (Exact(s, sym) => Exact(r, sym))
    BY <1>8, <1>9, <2>1 DEF Sound, StoreOK, Backed, Exact
  <2>3. SettledToken(r.tokens[sym], s.tokens[sym])
    BY <1>8, <2>1 DEF SettledToken
  <2>4. OneTicker(s) => /\ r.tickers[sym] = r.tokens[sym].ticker
                        /\ \A o \in Symbols \ {sym} : s.tickers[o] # r.tickers[sym]
    BY <1>1, <1>8, <2>1, TickerKept
  <2>5. StaysWithin(s, r, sym)
    BY <1>1, <1>8, <2>1, TokenFields DEF StaysWithin
  <2>6. s.next <= r.next
    BY <1>1, <1>7 DEF Sent, StoreType
  <2>7. OnlyAt(s, r, sym)
    BY <1>7 DEF Sent
  <2> QED BY <1>6, <1>8, <2>1, <2>2, <2>3, <2>4, <2>5, <2>6, <2>7, RowSuffices
<1> QED BY <1>6, <1>7, <1>10

\* A distribution gives naturals to the addresses.
LEMMA DistributionType ==
    ASSUME NEW dist, IsDistribution(dist)
    PROVE  /\ \A a \in Addrs : At(dist, a) \in Nat
           /\ Total(dist) \in Nat
           /\ \A a \in DOMAIN dist : a \in Addrs /\ dist[a] \in Nat
<1>1. \A a \in Addrs : At(dist, a) \in Nat
  BY DEF IsDistribution, At
<1> QED BY <1>1, TotalSign DEF IsDistribution

\* A committed token is one of the block, and its entries are read.
LEMMA CommittedFacts ==
    ASSUME NEW s, NEW d, Sound(s, d), NEW sym \in Symbols, sym \in get_symbols(d)
    PROVE  /\ s.tokens[sym] # NoToken
           /\ \A a \in Addrs : get_multiple_balances(s, d, a, sym) =
                                  IF a = Anonymous THEN Absent ELSE s.balances[sym][a]
BY DEF Sound, Settled, SettledToken, get_multiple_balances

MintedStore(s, d, sym, dist) ==
    ChangeSupply(PutBalances(s, sym,
                     [a \in DOMAIN dist |->
                         IF get_multiple_balances(s, d, a, sym) = Absent THEN dist[a]
                         ELSE get_multiple_balances(s, d, a, sym) + dist[a]]),
                 sym, Total(dist))

\* A mint adds to the supply what it adds to the balances, or more if it
\* overwrites the balance of the anonymous address.
LEMMA MintKeeps ==
    ASSUME NEW s, NEW d, Sound(s, d), NEW sym \in Symbols, NEW dist \in Distributions,
           CanMint(s, d, sym, dist),
           NEW r, r = MintedStore(s, d, sym, dist)
    PROVE  /\ Keeps(s, d, r)
           /\ r.balances # s.balances => r.tokens # s.tokens
<1> DEFINE balance(a) == get_multiple_balances(s, d, a, sym)
           new == [a \in DOMAIN dist |-> IF balance(a) = Absent THEN dist[a]
                                         ELSE balance(a) + dist[a]]
           p == PutBalances(s, sym, new)
<1>1. s \in StoreType
  BY DEF Sound, StoreOK
<1>2. /\ \A a \in Addrs : At(dist, a) \in Nat
      /\ Total(dist) \in Nat
      /\ \A a \in DOMAIN dist : a \in Addrs /\ dist[a] \in Nat
  BY DistributionType, TokensAssumption
<1>3. /\ s.tokens[sym] # NoToken
      /\ \A a \in Addrs : balance(a) = IF a = Anonymous THEN Absent ELSE s.balances[sym][a]
  BY CommittedFacts DEF CanMint
<1>4. \A a \in Addrs : s.balances[sym][a] \in Nat \cup {Absent}
  BY <1>1, BalanceFacts
<1>5. /\ DOMAIN new = DOMAIN dist
      /\ DOMAIN new \subseteq Addrs
      /\ \A a \in DOMAIN new : /\ new[a] \in Nat
                                /\ new[a] = dist[a] + (IF a = Anonymous \/ s.balances[sym][a] = Absent
                                                       THEN 0 ELSE s.balances[sym][a])
  <2> HIDE DEF balance
  <2> QED BY <1>2, <1>3, <1>4, TokensAssumption
<1>6. r = ChangeSupply(p, sym, Total(dist))
  BY DEF MintedStore
<1> HIDE DEF new
<1>7. /\ p \in StoreType
      /\ p.next = s.next /\ p.tokens = s.tokens /\ p.tickers = s.tickers
      /\ \A o \in Symbols \ {sym} : p.balances[o] = s.balances[o]
      /\ \A a \in Addrs : p.balances[sym][a] =
            IF a \in DOMAIN new THEN new[a] ELSE s.balances[sym][a]
  BY <1>1, <1>5, PutBalancesFacts
<1> HIDE DEF p
<1>8. /\ s.tokens[sym].circulating \in Nat /\ s.tokens[sym].total \in Nat
      /\ s.tokens[sym].maximum \in Nat \cup {None}
  BY <1>1, <1>3, TokenFields
<1>9. /\ r \in StoreType
      /\ r.next = s.next /\ r.tickers = s.tickers /\ r.balances = p.balances
      /\ \A o \in Symbols \ {sym} : r.tokens[o] = s.tokens[o]
      /\ r.tokens[sym] # NoToken
      /\ r.tokens[sym].circulating = s.tokens[sym].circulating + Total(dist)
      /\ r.tokens[sym].total = s.tokens[sym].total + Total(dist)
      /\ r.tokens[sym].ticker = s.tokens[sym].ticker
      /\ r.tokens[sym].owner = s.tokens[sym].owner
      /\ r.tokens[sym].maximum = s.tokens[sym].maximum
      /\ r.tokens[sym].ext = s.tokens[sym].ext
  BY <1>2, <1>3, <1>6, <1>7, <1>8, ChangeSupplyFacts, SMTT(60)
<1>10. ASSUME NEW a \in Addrs
       PROVE  /\ At(Held(s, sym), a) \in Nat
              /\ At(Held(r, sym), a) \in Nat
              /\ At(Held(r, sym), a) <= At(Held(s, sym), a) + At(dist, a)
              /\ Anonymous \notin DOMAIN dist =>
                    At(Held(r, sym), a) = At(Held(s, sym), a) + At(dist, a)
  <2>1. /\ At(Held(r, sym), a) = IF r.balances[sym][a] = Absent THEN 0 ELSE r.balances[sym][a]
        /\ At(Held(s, sym), a) = IF s.balances[sym][a] = Absent THEN 0 ELSE s.balances[sym][a]
    BY <1>1, <1>9, HeldType
  <2>2. r.balances[sym][a] = IF a \in DOMAIN dist THEN new[a] ELSE s.balances[sym][a]
    BY <1>5, <1>7, <1>9
  <2> QED BY <1>2, <1>4, <1>5, <2>1, <2>2, TokensAssumption DEF At
<1>11. /\ Total(Held(s, sym)) \in Nat /\ Total(Held(r, sym)) \in Nat
       /\ Total(Held(r, sym)) <= Total(Held(s, sym)) + Total(dist)
       /\ Anonymous \notin DOMAIN dist =>
             Total(Held(r, sym)) = Total(Held(s, sym)) + Total(dist)
  <2> DEFINE sum == [a \in Addrs |-> At(Held(s, sym), a) + At(dist, a)]
             rest == [a \in Addrs |-> At(Held(s, sym), a) + At(dist, a) - At(Held(r, sym), a)]
  <2>1. \A a \in Addrs : /\ At(sum, a) = At(Held(s, sym), a) + At(dist, a)
                         /\ At(rest, a) = At(Held(s, sym), a) + At(dist, a) - At(Held(r, sym), a)
    BY DEF At
  <2> HIDE DEF sum, rest
  <2>2. \A a \in Addrs : /\ At(rest, a) \in Nat
                         /\ At(sum, a) = At(Held(r, sym), a) + At(rest, a)
    BY <1>2, <1>10, <2>1
  <2>3. Total(sum) = Total(Held(s, sym)) + Total(dist)
    BY <1>2, <1>10, <2>1, TotalSum
  <2>4. Total(sum) = Total(Held(r, sym)) + Total(rest)
    BY <1>10, <2>2, TotalSum
  <2>5. Total(rest) \in Nat /\ Total(Held(s, sym)) \in Nat /\ Total(Held(r, sym)) \in Nat
    BY <1>10, <2>2, TotalSign
  <2>6. ASSUME Anonymous \notin DOMAIN dist
        PROVE  Total(Held(r, sym)) = Total(Held(s, sym)) + Total(dist)
    BY <1>2, <1>10, <2>6, TotalSum
  <2> QED BY <1>2, <2>3, <2>4, <2>5, <2>6
<1>12. OnlyAt(s, r, sym)
  BY <1>7, <1>9 DEF OnlyAt
<1>13. Backed(r, sym)
  BY <1>2, <1>3, <1>8, <1>9, <1>11 DEF Backed, Sound, StoreOK
<1>14. NoAnonymousShare /\ Exact(s, sym) => Exact(r, sym)
  BY <1>3, <1>9, <1>11 DEF Exact, NoAnonymousShare
<1>15. SettledToken(r.tokens[sym], s.tokens[sym])
  BY <1>9 DEF SettledToken
<1>16. StaysWithin(s, r, sym)
  BY <1>9 DEF StaysWithin, CanMint
<1>17. OneTicker(s) => /\ r.tickers[sym] = r.tokens[sym].ticker
                       /\ \A o \in Symbols \ {sym} : s.tickers[o] # r.tickers[sym]
  BY <1>1, <1>3, <1>9, TickerKept
<1>18. Keeps(s, d, r)
  <2>1. s.next <= r.next
    BY <1>1, <1>9 DEF StoreType
  <2> QED BY <1>3, <1>9, <1>12, <1>13, <1>14, <1>15, <1>16, <1>17, <2>1, RowSuffices
<1>19. ASSUME r.tokens = s.tokens PROVE r.balances = s.balances
  <2>1. Total(dist) = 0
    BY <1>2, <1>8, <1>9, <1>19
  <2>2. DOMAIN dist = {}
    <3>1. SUFFICES ASSUME NEW a \in DOMAIN dist PROVE FALSE
      OBVIOUS
    <3>2. a \in Addrs /\ At(dist, a) > 0
      BY <1>2 DEF At, CanMint
    <3> QED BY <1>2, <2>1, <3>2, TotalSign
  <2>3. \A o \in Symbols : r.balances[o] = s.balances[o]
    <3>1. /\ r.balances[sym] \in [Addrs -> Nat \cup {Absent}]
          /\ s.balances[sym] \in [Addrs -> Nat \cup {Absent}]
      BY <1>1, <1>9 DEF StoreType
    <3>2. \A a \in Addrs : r.balances[sym][a] = s.balances[sym][a]
      BY <1>5, <1>7, <1>9, <2>2
    <3>3. r.balances[sym] = s.balances[sym]
      BY <3>1, <3>2
    <3> QED BY <1>7, <1>9, <3>3
  <2> QED BY <1>1, <1>9, <2>3 DEF StoreType
<1> QED BY <1>18, <1>19

BurnedStore(s, d, sym, dist) ==
    ChangeSupply(PutBalances(s, sym,
                     [a \in DOMAIN dist |->
                         get_multiple_balances(s, d, a, sym) - dist[a]]),
                 sym, - Total(dist))

\* A burn takes the same from the supply and from the balances, which have it.
LEMMA BurnKeeps ==
    ASSUME NEW s, NEW d, Sound(s, d), NEW sym \in Symbols, NEW dist \in Distributions,
           CanBurn(s, d, sym, dist),
           NEW r, r = BurnedStore(s, d, sym, dist)
    PROVE  /\ Keeps(s, d, r)
           /\ r.balances # s.balances => r.tokens # s.tokens
<1> DEFINE balance(a) == get_multiple_balances(s, d, a, sym)
           new == [a \in DOMAIN dist |-> balance(a) - dist[a]]
           p == PutBalances(s, sym, new)
<1>1. s \in StoreType
  BY DEF Sound, StoreOK
<1>2. /\ \A a \in Addrs : At(dist, a) \in Nat
      /\ Total(dist) \in Nat
      /\ \A a \in DOMAIN dist : a \in Addrs /\ dist[a] \in Nat
  BY DistributionType, TokensAssumption
<1>3. /\ s.tokens[sym] # NoToken
      /\ \A a \in Addrs : balance(a) = IF a = Anonymous THEN Absent ELSE s.balances[sym][a]
  BY CommittedFacts DEF CanBurn
<1>4. \A a \in Addrs : s.balances[sym][a] \in Nat \cup {Absent}
  BY <1>1, BalanceFacts
<1>5. /\ DOMAIN new = DOMAIN dist
      /\ DOMAIN new \subseteq Addrs
      /\ \A a \in DOMAIN new : /\ new[a] \in Nat
                                /\ s.balances[sym][a] \in Nat
                                /\ new[a] = s.balances[sym][a] - dist[a]
  <2>1. \A a \in DOMAIN dist : balance(a) # Absent /\ dist[a] <= balance(a)
    BY DEF CanBurn
  <2> HIDE DEF balance
  <2> QED BY <1>2, <1>3, <1>4, <2>1
<1>6. r = ChangeSupply(p, sym, - Total(dist))
  BY DEF BurnedStore
<1> HIDE DEF new
<1>7. /\ p \in StoreType
      /\ p.next = s.next /\ p.tokens = s.tokens /\ p.tickers = s.tickers
      /\ \A o \in Symbols \ {sym} : p.balances[o] = s.balances[o]
      /\ \A a \in Addrs : p.balances[sym][a] =
            IF a \in DOMAIN new THEN new[a] ELSE s.balances[sym][a]
  BY <1>1, <1>5, PutBalancesFacts
<1> HIDE DEF p
<1>8. /\ s.tokens[sym].circulating \in Nat /\ s.tokens[sym].total \in Nat
      /\ s.tokens[sym].total = s.tokens[sym].circulating
      /\ Total(Held(s, sym)) <= s.tokens[sym].circulating
  BY <1>1, <1>3, TokenFields DEF Sound, StoreOK, Backed
<1>9. ASSUME NEW a \in Addrs
      PROVE  /\ At(Held(s, sym), a) \in Nat
             /\ At(Held(p, sym), a) \in Nat
             /\ At(Held(s, sym), a) = At(Held(p, sym), a) + At(dist, a)
  <2>1. /\ At(Held(p, sym), a) = IF p.balances[sym][a] = Absent THEN 0 ELSE p.balances[sym][a]
        /\ At(Held(s, sym), a) = IF s.balances[sym][a] = Absent THEN 0 ELSE s.balances[sym][a]
    BY <1>1, <1>7, HeldType
  <2>2. p.balances[sym][a] = IF a \in DOMAIN dist THEN new[a] ELSE s.balances[sym][a]
    BY <1>5, <1>7
  <2> QED BY <1>2, <1>4, <1>5, <2>1, <2>2, TokensAssumption DEF At
<1>10. /\ Total(Held(s, sym)) \in Nat /\ Total(Held(p, sym)) \in Nat
       /\ Total(Held(s, sym)) = Total(Held(p, sym)) + Total(dist)
  <2>1. Total(Held(s, sym)) \in Nat /\ Total(Held(p, sym)) \in Nat
    BY <1>9, TotalSign
  <2>2. Total(Held(s, sym)) = Total(Held(p, sym)) + Total(dist)
    BY <1>2, <1>9, TotalSum
  <2> QED BY <2>1, <2>2
<1> DEFINE by == - Total(dist)
<1>11. /\ by \in Int
       /\ s.tokens[sym].circulating + by \in Nat
       /\ s.tokens[sym].total + by \in Nat
       /\ s.tokens[sym].circulating + by = s.tokens[sym].circulating - Total(dist)
  BY <1>2, <1>8, <1>10
<1> HIDE DEF by
<1>12. /\ r \in StoreType
       /\ r.next = s.next /\ r.tickers = s.tickers /\ r.balances = p.balances
       /\ \A o \in Symbols \ {sym} : r.tokens[o] = s.tokens[o]
       /\ r.tokens[sym] # NoToken
       /\ r.tokens[sym].circulating = s.tokens[sym].circulating + by
       /\ r.tokens[sym].total = s.tokens[sym].total + by
       /\ r.tokens[sym].ticker = s.tokens[sym].ticker
       /\ r.tokens[sym].owner = s.tokens[sym].owner
       /\ r.tokens[sym].maximum = s.tokens[sym].maximum
       /\ r.tokens[sym].ext = s.tokens[sym].ext
  BY <1>3, <1>6, <1>7, <1>11, ChangeSupplyFacts DEF by
<1>13. Held(r, sym) = Held(p, sym)
  BY <1>12 DEF Held
<1>14. OnlyAt(s, r, sym)
  BY <1>7, <1>12 DEF OnlyAt
<1>15. Backed(r, sym) /\ (Exact(s, sym) => Exact(r, sym))
  BY <1>2, <1>3, <1>8, <1>10, <1>11, <1>12, <1>13 DEF Backed, Exact
<1>16. SettledToken(r.tokens[sym], s.tokens[sym])
  BY <1>12 DEF SettledToken
<1>17. StaysWithin(s, r, sym)
  BY <1>2, <1>8, <1>11, <1>12 DEF StaysWithin
<1>18. OneTicker(s) => /\ r.tickers[sym] = r.tokens[sym].ticker
                       /\ \A o \in Symbols \ {sym} : s.tickers[o] # r.tickers[sym]
  BY <1>1, <1>3, <1>12, TickerKept
<1>19. Keeps(s, d, r)
  <2>1. s.next <= r.next
    BY <1>1, <1>12 DEF StoreType
  <2> QED BY <1>3, <1>12, <1>14, <1>15, <1>16, <1>17, <1>18, <2>1, RowSuffices
<1>20. ASSUME r.tokens = s.tokens PROVE r.balances = s.balances
  <2>1. Total(dist) = 0
    BY <1>2, <1>8, <1>11, <1>12, <1>20
  <2>2. DOMAIN dist = {}
    <3>1. SUFFICES ASSUME NEW a \in DOMAIN dist PROVE FALSE
      OBVIOUS
    <3>2. a \in Addrs /\ At(dist, a) > 0
      BY <1>2 DEF At, CanBurn
    <3> QED BY <1>2, <2>1, <3>2, TotalSign
  <2>3. \A o \in Symbols : r.balances[o] = s.balances[o]
    <3>1. /\ r.balances[sym] \in [Addrs -> Nat \cup {Absent}]
          /\ s.balances[sym] \in [Addrs -> Nat \cup {Absent}]
      BY <1>1, <1>12 DEF StoreType
    <3>2. \A a \in Addrs : r.balances[sym][a] = s.balances[sym][a]
      BY <1>5, <1>7, <1>12, <2>2
    <3>3. r.balances[sym] = s.balances[sym]
      BY <3>1, <3>2
    <3> QED BY <1>7, <1>12, <3>3
  <2> QED BY <1>1, <1>12, <2>3 DEF StoreType
<1> QED BY <1>19, <1>20

\* get_next_subresource ends: the first symbol from the counter on that is not
\* committed, or one past the last.
LEMMA NextSubresource ==
    ASSUME NEW s \in StoreType, NEW d,
           NEW k, k = get_next_subresource(s, d)
    PROVE  k \in s.next .. MaxSymbol + 1 /\ k \notin get_symbols(d)
<1> DEFINE S == {j \in s.next .. MaxSymbol + 1 : j \notin get_symbols(d)}
<1>1. s.next \in 0 .. MaxSymbol + 1
  BY DEF StoreType
<1>2. S \in SUBSET Nat /\ MaxSymbol + 1 \in S
  BY <1>1, TokensAssumption DEF get_symbols, Symbols
<1>3. PICK n \in S : \A m \in S : n <= m
  BY <1>2, LeastOf
<1>4. /\ n \in s.next .. MaxSymbol + 1
      /\ n \notin get_symbols(d)
      /\ \A j \in s.next .. n - 1 : j \in get_symbols(d)
  BY <1>1, <1>3, TokensAssumption
<1> QED BY <1>4 DEF get_next_subresource

CreatedStore(s, d, c) ==
    LET sym == get_next_subresource(s, d)
    IN  PutBalances([s EXCEPT !.next = sym + 1,
                              !.tokens[sym] = NewToken(c),
                              !.tickers[sym] = c.ticker],
                    sym, c.dist)

\* A creation takes a symbol that has neither a token nor balances.
LEMMA CreateKeeps ==
    ASSUME NEW s, NEW d, Sound(s, d), NEW c \in Creations,
           ~TickerTaken(s, c.ticker), get_next_subresource(s, d) \in Symbols,
           NEW r, r = CreatedStore(s, d, c)
    PROVE  Keeps(s, d, r) /\ r.tokens # s.tokens
<1> DEFINE sym == get_next_subresource(s, d)
           q == [s EXCEPT !.next = sym + 1, !.tokens[sym] = NewToken(c),
                          !.tickers[sym] = c.ticker]
<1>1. s \in StoreType
  BY DEF Sound, StoreOK
<1>2. /\ sym \in s.next .. MaxSymbol + 1 /\ sym \notin get_symbols(d)
      /\ sym \in Symbols /\ s.next \in Nat
      /\ sym + 1 \in 0 .. MaxSymbol + 1 /\ s.next <= sym
  <2>1. sym \in s.next .. MaxSymbol + 1 /\ sym \notin get_symbols(d)
    BY <1>1, NextSubresource
  <2>2. sym \in Symbols /\ s.next \in 0 .. MaxSymbol + 1
    BY <1>1 DEF StoreType
  <2> HIDE DEF sym
  <2> QED BY <2>1, <2>2, TokensAssumption DEF Symbols
<1>3. s.tokens[sym] = NoToken
  BY <1>2 DEF Sound, Fresh
<1>4. \A a \in Addrs : s.balances[sym][a] = Absent
  BY <1>2, <1>3 DEF Sound, StoreOK, Backed
<1>5. CreationType(c)
  BY TokensAssumption
<1>6. /\ \A a \in Addrs : At(c.dist, a) \in Nat
      /\ Total(c.dist) \in Nat
      /\ \A a \in DOMAIN c.dist : a \in Addrs /\ c.dist[a] \in Nat
  BY <1>5, DistributionType DEF CreationType
<1>7. NewToken(c) \in TokenType /\ NewToken(c) # NoToken
  BY <1>5, <1>6, TokensAssumption DEF CreationType, NewToken, TokenType
<1>8. /\ NewToken(c).circulating = Total(c.dist) /\ NewToken(c).total = Total(c.dist)
      /\ NewToken(c).ticker = c.ticker /\ c.ticker \in Tickers
  BY <1>5 DEF NewToken, CreationType
<1>9. r = PutBalances(q, sym, c.dist)
  BY DEF CreatedStore
<1> HIDE DEF sym
<1>10. /\ q \in StoreType
       /\ q.next = sym + 1 /\ q.balances = s.balances
       /\ \A o \in Symbols \ {sym} : q.tokens[o] = s.tokens[o]
       /\ \A o \in Symbols \ {sym} : q.tickers[o] = s.tickers[o]
       /\ q.tokens[sym] = NewToken(c)
       /\ q.tickers[sym] = c.ticker
  <2>1. q = PutToken(s, sym + 1, sym, NewToken(c), c.ticker)
    BY DEF PutToken
  <2> HIDE DEF q
  <2> QED BY <1>1, <1>2, <1>7, <1>8, <2>1, PutTokenFacts
<1> HIDE DEF q
<1>11. /\ r \in StoreType
       /\ r.next = q.next /\ r.tokens = q.tokens /\ r.tickers = q.tickers
       /\ \A o \in Symbols \ {sym} : r.balances[o] = q.balances[o]
       /\ \A a \in Addrs : r.balances[sym][a] =
             IF a \in DOMAIN c.dist THEN c.dist[a] ELSE q.balances[sym][a]
  <2>1. DOMAIN c.dist \subseteq Addrs /\ \A a \in DOMAIN c.dist : c.dist[a] \in Nat
    BY <1>6
  <2> QED BY <1>2, <1>9, <1>10, <2>1, PutBalancesFacts
<1>12. OnlyAt(s, r, sym)
  BY <1>10, <1>11 DEF OnlyAt
<1>13. Total(Held(r, sym)) = Total(c.dist)
  <2> DEFINE none == [a \in Addrs |-> 0]
  <2>1. \A a \in Addrs : At(none, a) = 0
    BY DEF At
  <2> HIDE DEF none
  <2>2. ASSUME NEW a \in Addrs
        PROVE  At(Held(r, sym), a) = At(c.dist, a)
    <3>1. At(Held(r, sym), a) = IF r.balances[sym][a] = Absent THEN 0 ELSE r.balances[sym][a]
      BY <1>2, <1>11, HeldType
    <3> QED BY <1>4, <1>6, <1>10, <1>11, <3>1, TokensAssumption DEF At
  <2>3. Total(c.dist) = Total(c.dist) + Total(none)
    BY <1>6, <2>1, TotalSum
  <2>4. Total(Held(r, sym)) = Total(c.dist) + Total(none)
    BY <1>6, <2>1, <2>2, TotalSum
  <2> QED BY <2>3, <2>4
<1>14. r.tokens[sym] = NewToken(c)
  BY <1>10, <1>11
<1>15. Backed(r, sym) /\ Exact(r, sym)
  BY <1>6, <1>7, <1>8, <1>13, <1>14 DEF Backed, Exact
<1>16. /\ r.tickers[sym] = r.tokens[sym].ticker
       /\ \A o \in Symbols \ {sym} : s.tickers[o] # r.tickers[sym]
  BY <1>8, <1>10, <1>11, <1>14 DEF TickerTaken
<1>17. StaysWithin(s, r, sym)
  BY <1>3 DEF StaysWithin
<1>18. s.next <= r.next /\ sym < r.next
  BY <1>2, <1>10, <1>11 DEF Symbols
<1>19. Keeps(s, d, r)
  BY <1>2, <1>3, <1>7, <1>11, <1>12, <1>14, <1>15, <1>16, <1>17, <1>18, RowSuffices
<1> QED BY <1>3, <1>7, <1>14, <1>19

\* Information of a token with an owner may change, but not its supply.
LEMMA InfoKeeps ==
    ASSUME NEW s, NEW d, Sound(s, d), NEW sym \in Symbols, Owned(s, sym),
           NEW new \in TokenType,
           new.circulating = s.tokens[sym].circulating, new.total = s.tokens[sym].total,
           new.maximum = s.tokens[sym].maximum,
           NEW ticker \in Tickers \cup {NoTicker},
           \/ ticker = s.tickers[sym] /\ new.ticker = s.tokens[sym].ticker
           \/ ticker = new.ticker /\ ~TickerTaken(s, ticker),
           NEW r, r = PutToken(s, s.next, sym, new, ticker)
    PROVE  Keeps(s, d, r) /\ r.balances = s.balances
<1>1. s \in StoreType /\ s.next \in 0 .. MaxSymbol + 1 /\ s.tokens[sym] # NoToken
  BY DEF Sound, StoreOK, Owned, StoreType
<1>2. /\ r \in StoreType
      /\ r.next = s.next /\ r.balances = s.balances
      /\ \A o \in Symbols \ {sym} : r.tokens[o] = s.tokens[o]
      /\ \A o \in Symbols \ {sym} : r.tickers[o] = s.tickers[o]
      /\ r.tokens[sym] = new
      /\ r.tickers[sym] = ticker
  <2> DEFINE next == s.next
  <2>1. next \in 0 .. MaxSymbol + 1 /\ r = PutToken(s, next, sym, new, ticker)
    BY <1>1
  <2> HIDE DEF next
  <2>2. /\ r \in StoreType
        /\ r.next = next /\ r.balances = s.balances
        /\ \A o \in Symbols \ {sym} : r.tokens[o] = s.tokens[o]
        /\ \A o \in Symbols \ {sym} : r.tickers[o] = s.tickers[o]
        /\ r.tokens[sym] = new
        /\ r.tickers[sym] = ticker
    BY <1>1, <2>1, PutTokenFacts
  <2> QED BY <2>2 DEF next
<1>3. new # NoToken /\ s.tokens[sym].circulating \in Nat
  BY <1>1, TokenFields, TokensAssumption
<1>4. OnlyAt(s, r, sym)
  BY <1>2 DEF OnlyAt
<1>5. Held(r, sym) = Held(s, sym)
  BY <1>2 DEF Held
<1>6. Backed(r, sym) /\ (Exact(s, sym) => Exact(r, sym))
  BY <1>1, <1>2, <1>3, <1>5 DEF Backed, Exact, Sound, StoreOK
<1>7. SettledToken(r.tokens[sym], s.tokens[sym])
  BY <1>2, <1>3 DEF SettledToken, Owned
<1>8. StaysWithin(s, r, sym)
  BY <1>2, <1>3 DEF StaysWithin
<1>9. ASSUME OneTicker(s)
      PROVE  /\ r.tickers[sym] = r.tokens[sym].ticker
             /\ \A o \in Symbols \ {sym} : s.tickers[o] # r.tickers[sym]
  <2>1. CASE ticker = s.tickers[sym] /\ new.ticker = s.tokens[sym].ticker
    BY <1>1, <1>2, <1>9, <2>1, TickerKept
  <2>2. CASE ticker = new.ticker /\ ~TickerTaken(s, ticker)
    BY <1>2, <2>2 DEF TickerTaken
  <2> QED BY <2>1, <2>2
<1>10. s.next <= r.next
  BY <1>1, <1>2
<1> QED BY <1>1, <1>2, <1>3, <1>4, <1>6, <1>7, <1>8, <1>9, <1>10, RowSuffices

\* An update names a ticker nobody has, in the map and in the information.
LEMMA UpdateKeeps ==
    ASSUME NEW s, NEW d, Sound(s, d), NEW sym \in Symbols, NEW u \in Updates,
           CanUpdate(s, d, sym), u.ticker # Keep => ~TickerTaken(s, u.ticker),
           NEW r, r = Update(s, sym, u)
    PROVE  Keeps(s, d, r) /\ r.balances = s.balances
<1> DEFINE old == s.tokens[sym]
           new == [old EXCEPT !.ticker = Given(u.ticker, @), !.owner = Given(u.owner, @)]
           ticker == Given(u.ticker, s.tickers[sym])
<1>1. /\ s \in StoreType /\ Owned(s, sym)
      /\ old \in TokenType /\ s.tickers[sym] \in Tickers \cup {NoTicker}
  BY TokenFields DEF Sound, StoreOK, CanUpdate, Owned, StoreType
<1>2. u.ticker \in Tickers \cup {Keep} /\ u.owner \in Addrs \cup {None, Keep}
  BY TokensAssumption DEF UpdateType
<1>3. /\ new \in TokenType
      /\ new.circulating = old.circulating /\ new.total = old.total
      /\ new.maximum = old.maximum /\ new.ticker = Given(u.ticker, old.ticker)
      /\ ticker \in Tickers \cup {NoTicker}
  BY <1>1, <1>2 DEF TokenType, Given
<1>4. \/ ticker = s.tickers[sym] /\ new.ticker = old.ticker
      \/ ticker = new.ticker /\ ~TickerTaken(s, ticker)
  BY <1>3 DEF Given
<1>5. r = PutToken(s, s.next, sym, new, ticker)
  BY <1>1, ZenonT(60) DEF Update, PutToken, StoreType
<1> HIDE DEF new, ticker
<1> QED BY <1>1, <1>3, <1>4, <1>5, InfoKeeps

WithExt(s, sym, ext) == [s EXCEPT !.tokens[sym].ext = ext]

\* Extended information is that of a token with an owner.
LEMMA ExtKeeps ==
    ASSUME NEW s, NEW d, Sound(s, d), NEW sym \in Symbols, Owned(s, sym),
           NEW ext \in SUBSET ExtKeys,
           NEW r, r = WithExt(s, sym, ext)
    PROVE  Keeps(s, d, r) /\ r.balances = s.balances
<1> DEFINE old == s.tokens[sym]
           new == [old EXCEPT !.ext = ext]
<1>1. /\ s \in StoreType
      /\ old \in TokenType /\ s.tickers[sym] \in Tickers \cup {NoTicker}
  BY TokenFields DEF Sound, StoreOK, Owned, StoreType
<1>2. /\ new \in TokenType
      /\ new.circulating = old.circulating /\ new.total = old.total
      /\ new.maximum = old.maximum /\ new.ticker = old.ticker
  BY <1>1 DEF TokenType
<1>3. r = PutToken(s, s.next, sym, new, s.tickers[sym])
  BY <1>1 DEF WithExt, PutToken, StoreType
<1> HIDE DEF new
<1> QED BY <1>1, <1>2, <1>3, InfoKeeps

-----------------------------------------------------------------------------
(* The counters of accounts.                                               *)

\* A number is its remainder and a multiple of the divisor.
LEMMA DivisionFacts ==
    ASSUME NEW C \in Nat \ {0}, NEW m \in Int
    PROVE  /\ m % C \in 0 .. C - 1
           /\ \E q \in Int : m = q * C + (m % C)
<1>1. m % C \in 0 .. C - 1
  OBVIOUS
<1>2. m \div C \in Int
  OBVIOUS
<1>3. m = (m \div C) * C + (m % C)
  OBVIOUS
<1> QED BY <1>1, <1>2, <1>3

\* The remainder is the only one.
LEMMA RemainderIsUnique ==
    ASSUME NEW C \in Nat \ {0}, NEW q \in Int, NEW m \in Int, NEW left \in 0 .. C - 1,
           m = q * C + left
    PROVE  m % C = left
OBVIOUS

\* A number and what is left of it after wrapping differ by whole ranges.
LEMMA WrapDifference ==
    ASSUME NEW n \in Int, NEW k \in Int
    PROVE  Wrapped(Wrapped(n + k) - n) = Wrapped(k)
<1> DEFINE C == CounterRange
           sum == n + k
<1>1. C \in Nat \ {0} /\ sum \in Int
  BY TokensAssumption
<1> HIDE DEF C
<1>2. PICK q1 \in Int : sum = q1 * C + (sum % C)
  <2> HIDE DEF sum
  <2> QED BY <1>1, DivisionFacts
<1>3. PICK q2 \in Int : k = q2 * C + (k % C)
  BY <1>1, DivisionFacts
<1>4. k % C \in 0 .. C - 1 /\ sum % C \in 0 .. C - 1
  <2> HIDE DEF sum
  <2> QED BY <1>1, DivisionFacts
<1> DEFINE left == k % C
           over == sum % C
           m == over - n
<1>5. over \in Int /\ left \in Int /\ q1 * C \in Int /\ q2 * C \in Int
  <2> HIDE DEF sum
  <2> QED BY <1>1, <1>4
<1>6. /\ n + k = q1 * C + over
      /\ k = q2 * C + left
  BY <1>2, <1>3
<1> HIDE DEF left, over
<1>7. m \in Int /\ m = q2 * C - q1 * C + left
  BY <1>5, <1>6
<1>8. q2 * C - q1 * C = (q2 - q1) * C
  BY <1>1
<1>9. m % C = left
  <2> DEFINE q == q2 - q1
  <2>1. q \in Int /\ m = q * C + left /\ left \in 0 .. C - 1
    BY <1>4, <1>7, <1>8 DEF left
  <2> HIDE DEF q, m
  <2> QED BY <1>1, <1>7, <2>1, RemainderIsUnique
<1> QED BY <1>9 DEF Wrapped, C, left, over

\* There are finitely many entries.
LEMMA EntriesFinite ==
    ASSUME NEW S \in SUBSET (Symbols \X Addrs)
    PROVE  IsFiniteSet(S) /\ Cardinality(S) \in Nat
<1>1. IsFiniteSet(Symbols) /\ IsFiniteSet(Addrs)
  BY FS_Interval, TokensAssumption DEF Symbols, Addrs
<1>2. IsFiniteSet(Symbols \X Addrs)
  BY <1>1, FS_Product
<1> QED BY <1>2, FS_Subset, FS_CardinalityType

\* The counters moved as the entries did.
Counted(s, r) ==
    /\ Wrapped(r.accounts - s.accounts) =
          Wrapped(Cardinality(Entries(r)) - Cardinality(Entries(s)))
    /\ Wrapped(r.nonzero - s.nonzero) =
          Wrapped(Cardinality(NonZero(r)) - Cardinality(NonZero(s)))

\* A send counts the entry it makes and the balances it fills and empties.
LEMMA SendCounts ==
    ASSUME NEW s \in StoreType, NEW r \in StoreType,
           NEW from \in Addrs, NEW to \in Addrs, NEW sym \in Symbols, NEW amount \in Nat,
           from # to, amount > 0, Anonymous \notin {from, to},
           amount <= get_balance(s, from, sym),
           Sent(s, r, from, to, sym, amount),
           r.accounts = update_account_count(s, from, to, amount, sym).accounts,
           r.nonzero = update_account_count(s, from, to, amount, sym).nonzero
    PROVE  Counted(s, r)
<1> DEFINE at == <<sym, to>>
           of == <<sym, from>>
           isNew == s.balances[sym][to] = Absent
           fills == get_balance(s, to, sym) = 0
           empties == get_balance(s, from, sym) = amount
<1>1. /\ get_balance(s, from, sym) \in Nat /\ get_balance(s, to, sym) \in Nat
      /\ s.balances[sym][from] = get_balance(s, from, sym)
      /\ \A a \in Addrs : s.balances[sym][a] \in Nat \cup {Absent}
  BY BalanceFacts
<1>2. s.accounts \in Int /\ s.nonzero \in Int
  BY TokensAssumption DEF StoreType
<1>3. /\ r.accounts = Wrapped(s.accounts + (IF isNew THEN 1 ELSE 0))
      /\ r.nonzero = Wrapped(s.nonzero + (IF fills THEN 1 ELSE 0) - (IF empties THEN 1 ELSE 0))
  BY CountFacts
<1>4. ASSUME NEW o \in Symbols, NEW a \in Addrs
      PROVE  r.balances[o][a] = IF o = sym /\ a = to THEN get_balance(s, to, sym) + amount
                                ELSE IF o = sym /\ a = from THEN get_balance(s, from, sym) - amount
                                ELSE s.balances[o][a]
  BY DEF Sent, OnlyAt
<1>5. \A e \in Symbols \X Addrs :
          /\ e = <<e[1], e[2]>> /\ e[1] \in Symbols /\ e[2] \in Addrs
          /\ e = at <=> e[1] = sym /\ e[2] = to
          /\ e = of <=> e[1] = sym /\ e[2] = from
  OBVIOUS
<1>6. at \in Symbols \X Addrs /\ of \in Symbols \X Addrs /\ at # of
  OBVIOUS
<1>7. Entries(r) = Entries(s) \cup {at}
  <2>1. ASSUME NEW e \in Symbols \X Addrs
        PROVE  e \in Entries(r) <=> e \in Entries(s) \/ e = at
    <3>1. r.balances[e[1]][e[2]] # Absent <=> s.balances[e[1]][e[2]] # Absent \/ e = at
      BY <1>1, <1>4, <1>5, TokensAssumption
    <3> QED BY <3>1 DEF Entries
  <2> QED BY <1>6, <2>1 DEF Entries
<1>8. at \in Entries(s) <=> ~isNew
  BY <1>6 DEF Entries
<1>9. Cardinality(Entries(r)) - Cardinality(Entries(s)) = IF isNew THEN 1 ELSE 0
  <2>1. IsFiniteSet(Entries(s)) /\ Cardinality(Entries(s)) \in Nat
    BY EntriesFinite DEF Entries
  <2> HIDE DEF at, isNew
  <2>2. Cardinality(Entries(s) \cup {at}) =
           Cardinality(Entries(s)) + (IF isNew THEN 1 ELSE 0)
    <3>1. Cardinality(Entries(s) \cup {at}) =
             IF at \in Entries(s) THEN Cardinality(Entries(s)) ELSE Cardinality(Entries(s)) + 1
      BY <2>1, FS_AddElement
    <3> QED BY <1>8, <2>1, <3>1
  <2> QED BY <1>7, <2>1, <2>2
<1>10. NonZero(r) = (NonZero(s) \cup {at}) \ (IF empties THEN {of} ELSE {})
  <2>1. ASSUME NEW e \in Symbols \X Addrs
        PROVE  e \in NonZero(r) <=> (e \in NonZero(s) \/ e = at) /\ (empties => e # of)
    <3>1. get_balance(r, e[2], e[1]) =
             IF e = at THEN get_balance(s, to, sym) + amount
             ELSE IF e = of THEN get_balance(s, from, sym) - amount
             ELSE get_balance(s, e[2], e[1])
      <4>1. r.balances[e[1]][e[2]] =
                IF e = at THEN get_balance(s, to, sym) + amount
                ELSE IF e = of THEN get_balance(s, from, sym) - amount
                ELSE s.balances[e[1]][e[2]]
        BY <1>4, <1>5
      <4>2. /\ get_balance(s, to, sym) + amount # Absent
            /\ get_balance(s, from, sym) - amount # Absent
        BY <1>1, TokensAssumption
      <4> QED BY <1>5, <4>1, <4>2 DEF get_balance
    <3>2. get_balance(r, e[2], e[1]) > 0 <=>
              (get_balance(s, e[2], e[1]) > 0 \/ e = at) /\ (empties => e # of)
      <4>1. CASE e = at
        BY <1>1, <1>6, <3>1, <4>1
      <4>2. CASE e = of
        <5>1. get_balance(s, e[2], e[1]) = get_balance(s, from, sym) /\ e # at
          BY <1>5, <1>6, <4>2
        <5> QED BY <1>1, <3>1, <4>2, <5>1
      <4>3. CASE e # at /\ e # of
        BY <3>1, <4>3
      <4> QED BY <4>1, <4>2, <4>3
    <3> QED BY <3>2 DEF NonZero
  <2>2. NonZero(r) \subseteq Symbols \X Addrs /\ NonZero(s) \subseteq Symbols \X Addrs
    BY DEF NonZero
  <2> HIDE DEF at, of, empties
  <2> QED BY <1>6, <2>1, <2>2
<1>11. /\ at \in NonZero(s) <=> ~fills
       /\ of \in NonZero(s)
  BY <1>1, <1>5, <1>6 DEF NonZero
<1>12. Cardinality(NonZero(r)) - Cardinality(NonZero(s)) =
          (IF fills THEN 1 ELSE 0) - (IF empties THEN 1 ELSE 0)
  <2>1. IsFiniteSet(NonZero(s)) /\ Cardinality(NonZero(s)) \in Nat
    BY EntriesFinite DEF NonZero
  <2> HIDE DEF at, of, fills, empties
  <2>2. /\ IsFiniteSet(NonZero(s) \cup {at})
        /\ Cardinality(NonZero(s) \cup {at}) =
              Cardinality(NonZero(s)) + (IF fills THEN 1 ELSE 0)
    BY <1>11, <2>1, FS_AddElement
  <2>3. CASE empties
    <3>1. NonZero(r) = (NonZero(s) \cup {at}) \ {of}
      BY <1>10, <2>3
    <3>2. Cardinality(NonZero(r)) = Cardinality(NonZero(s) \cup {at}) - 1
      BY <1>11, <2>2, <3>1, FS_RemoveElement
    <3> QED BY <2>1, <2>2, <2>3, <3>2
  <2>4. CASE ~empties
    <3>1. NonZero(r) = NonZero(s) \cup {at}
      BY <1>10, <2>4
    <3> QED BY <2>1, <2>2, <2>4, <3>1
  <2> QED BY <2>3, <2>4
<1> DEFINE made == IF isNew THEN 1 ELSE 0
           moved == (IF fills THEN 1 ELSE 0) - (IF empties THEN 1 ELSE 0)
<1>13. /\ made \in Int /\ moved \in Int
       /\ s.nonzero + (IF fills THEN 1 ELSE 0) - (IF empties THEN 1 ELSE 0) = s.nonzero + moved
  BY <1>2
<1>14. /\ r.accounts = Wrapped(s.accounts + made)
       /\ r.nonzero = Wrapped(s.nonzero + moved)
  BY <1>3, <1>13
<1>15. /\ Cardinality(Entries(r)) - Cardinality(Entries(s)) = made
       /\ Cardinality(NonZero(r)) - Cardinality(NonZero(s)) = moved
  BY <1>9, <1>12
<1> HIDE DEF made, moved
<1> QED BY <1>2, <1>13, <1>14, <1>15, WrapDifference, ZenonT(60) DEF Counted

-----------------------------------------------------------------------------
(* The specification.                                                      *)

IInv ==
    /\ Sound(store, disk)
    /\ StoreOK(disk)
    /\ crashes \in 0 .. MaxCrashes

\* A committed store is settled by itself.
LEMMA SettledBySelf ==
    ASSUME NEW s, StoreOK(s)
    PROVE  Sound(s, s)
BY DEF Sound, Fresh, Settled, SettledToken, get_symbols

\* The initial state has what with_balances and with_tokens made.
LEMMA InitInv ==
    ASSUME Init
    PROVE  /\ IInv
           /\ ExactStore(store) /\ ExactStore(disk)
<1>1. store \in StoreType
  <2> DEFINE entries == {e \in Symbols \X Addrs : GenesisBalances[e[1]][e[2]] # Absent}
             filled == {e \in entries : GenesisBalances[e[1]][e[2]] # 0}
             data == get_data_from_db(GenesisBalances)
  <2>1. /\ IsFiniteSet(entries) /\ Cardinality(entries) \in Nat
        /\ Cardinality(filled) \in Nat
        /\ filled \in SUBSET entries
    BY EntriesFinite
  <2>2. data.accounts = Cardinality(entries) /\ data.nonzero = Cardinality(filled)
    BY DEF get_data_from_db
  <2> HIDE DEF entries, filled, data
  <2>3. Cardinality(filled) <= Cardinality(entries)
    BY <2>1, FS_Subset
  <2>4. Cardinality(entries) < CounterRange
    BY <2>2, GenesisAssumption DEF data
  <2>5. data.accounts \in 0 .. CounterRange - 1 /\ data.nonzero \in 0 .. CounterRange - 1
    BY <2>1, <2>2, <2>3, <2>4, TokensAssumption
  <2>6. store.tickers \in [Symbols -> Tickers \cup {NoTicker}]
    BY TokensAssumption DEF Init, TokenType
  <2>7. 0 \in 0 .. MaxSymbol + 1
    BY TokensAssumption
  <2> QED BY <2>5, <2>6, <2>7, TokensAssumption DEF Init, StoreType, data
<1>2. store.tokens = GenesisTokens /\ store.balances = GenesisBalances
  BY DEF Init
<1>3. ASSUME NEW sym \in Symbols
      PROVE  Backed(store, sym) /\ Exact(store, sym)
  <2>1. Held(store, sym) = Held([balances |-> GenesisBalances], sym)
    BY <1>2 DEF Held
  <2>2. store.tokens[sym] # NoToken => store.tokens[sym].circulating \in Nat
    BY <1>1, TokenFields
  <2> QED BY <1>2, <2>1, <2>2, GenesisAssumption DEF Backed, Exact
<1>4. StoreOK(store)
  BY <1>1, <1>3 DEF StoreOK
<1>5. store = disk /\ crashes \in 0 .. MaxCrashes
  BY TokensAssumption DEF Init
<1> QED BY <1>3, <1>4, <1>5, SettledBySelf DEF IInv, ExactStore

\* The balances change only with the supply, or with the counters.
BalancesAccounted(s, r) ==
    r.balances # s.balances => r.tokens # s.tokens \/ Counted(s, r)

\* Every request keeps what it should.
LEMMA RequestKeeps ==
    ASSUME IInv, Next
    PROVE  \/ /\ Keeps(store, disk, store')
              /\ BalancesAccounted(store, store')
              /\ UNCHANGED <<disk, crashes>>
           \/ Commit
           \/ Restart
<1>0. Sound(store, disk) /\ store \in StoreType
  BY DEF IInv, Sound, StoreOK
<1>1. ASSUME NEW from \in Addrs, NEW to \in Addrs, NEW sym \in Symbols,
             NEW amount \in Amounts, SendRequest(from, to, sym, amount)
      PROVE  /\ Keeps(store, disk, store') /\ BalancesAccounted(store, store')
             /\ UNCHANGED <<disk, crashes>>
  <2>1. /\ from # to /\ amount > 0 /\ Anonymous \notin {from, to}
        /\ amount <= get_balance(store, from, sym) /\ amount \in Nat
        /\ store' = SentStore(store, from, to, sym, amount)
        /\ UNCHANGED <<disk, crashes>>
    BY <1>1, TokensAssumption DEF SendRequest, Write, SentStore
  <2>2. /\ Keeps(store, disk, store')
        /\ Sent(store, store', from, to, sym, amount)
        /\ store'.accounts = update_account_count(store, from, to, amount, sym).accounts
        /\ store'.nonzero = update_account_count(store, from, to, amount, sym).nonzero
    BY <1>0, <2>1, SendKeeps
  <2>3. store' \in StoreType
    BY <2>2 DEF Keeps, Sound, StoreOK
  <2>4. Counted(store, store')
    BY <1>0, <2>1, <2>2, <2>3, SendCounts
  <2> QED BY <2>1, <2>2, <2>4 DEF BalancesAccounted
<1>2. ASSUME NEW sym \in Symbols, NEW dist \in Distributions,
             MintRequest(sym, dist)
      PROVE  /\ Keeps(store, disk, store') /\ BalancesAccounted(store, store')
             /\ UNCHANGED <<disk, crashes>>
  <2>1. /\ CanMint(store, disk, sym, dist)
        /\ store' = MintedStore(store, disk, sym, dist)
        /\ UNCHANGED <<disk, crashes>>
    BY <1>2 DEF MintRequest, Write, MintedStore
  <2> QED BY <1>0, <2>1, MintKeeps DEF BalancesAccounted
<1>3. ASSUME NEW sym \in Symbols, NEW dist \in Distributions,
             BurnRequest(sym, dist)
      PROVE  /\ Keeps(store, disk, store') /\ BalancesAccounted(store, store')
             /\ UNCHANGED <<disk, crashes>>
  <2>1. /\ CanBurn(store, disk, sym, dist)
        /\ store' = BurnedStore(store, disk, sym, dist)
        /\ UNCHANGED <<disk, crashes>>
    BY <1>3 DEF BurnRequest, Write, BurnedStore
  <2> QED BY <1>0, <2>1, BurnKeeps DEF BalancesAccounted
<1>4. ASSUME NEW c \in Creations, CreateRequest(c)
      PROVE  /\ Keeps(store, disk, store') /\ BalancesAccounted(store, store')
             /\ UNCHANGED <<disk, crashes>>
  <2>1. /\ ~TickerTaken(store, c.ticker) /\ get_next_subresource(store, disk) \in Symbols
        /\ store' = CreatedStore(store, disk, c)
        /\ UNCHANGED <<disk, crashes>>
    BY <1>4 DEF CreateRequest, Write, CreatedStore
  <2> QED BY <1>0, <2>1, CreateKeeps DEF BalancesAccounted
<1>5. ASSUME NEW sym \in Symbols, NEW u \in Updates, UpdateRequest(sym, u)
      PROVE  /\ Keeps(store, disk, store') /\ BalancesAccounted(store, store')
             /\ UNCHANGED <<disk, crashes>>
  BY <1>0, <1>5, UpdateKeeps DEF UpdateRequest, Write, BalancesAccounted
<1>6. ASSUME NEW sym \in Symbols, NEW keys \in SUBSET ExtKeys \ {{}},
             AddExtendedInfoRequest(sym, keys) \/ RemoveExtendedInfoRequest(sym, keys)
      PROVE  /\ Keeps(store, disk, store') /\ BalancesAccounted(store, store')
             /\ UNCHANGED <<disk, crashes>>
  <2>1. Owned(store, sym) /\ UNCHANGED <<disk, crashes>>
    BY <1>6 DEF AddExtendedInfoRequest, RemoveExtendedInfoRequest, Write
  <2>2. store.tokens[sym].ext \in SUBSET ExtKeys
    BY <1>0, <2>1, TokenFields DEF Owned, TokenType
  <2>3. \/ store' = WithExt(store, sym, store.tokens[sym].ext \cup keys)
        \/ store' = WithExt(store, sym, store.tokens[sym].ext \ keys)
    BY <1>0, <1>6 DEF AddExtendedInfoRequest, RemoveExtendedInfoRequest, Write, WithExt, StoreType
  <2>4. PICK ext \in SUBSET ExtKeys : store' = WithExt(store, sym, ext)
    BY <2>2, <2>3
  <2> QED BY <1>0, <2>1, <2>4, ExtKeeps DEF BalancesAccounted
<1> QED BY <1>1, <1>2, <1>3, <1>4, <1>5, <1>6 DEF Next

\* The invariant is inductive.
LEMMA NextInv ==
    ASSUME IInv, [Next]_vars
    PROVE  IInv'
<1>1. CASE Keeps(store, disk, store') /\ UNCHANGED <<disk, crashes>>
  BY <1>1 DEF IInv, Keeps
<1>2. CASE Commit
  <2>1. StoreOK(store) /\ store' = store /\ disk' = store /\ crashes' = crashes
    BY <1>2 DEF IInv, Sound, Commit
  <2> QED BY <2>1, SettledBySelf DEF IInv
<1>3. CASE Restart
  <2>1. StoreOK(disk) /\ store' = disk /\ disk' = disk
    BY <1>3 DEF IInv, Restart
  <2>2. crashes' \in 0 .. MaxCrashes
    BY <1>3, TokensAssumption DEF IInv, Restart
  <2> QED BY <2>1, <2>2, SettledBySelf DEF IInv
<1>4. CASE UNCHANGED vars
  BY <1>4 DEF IInv, vars
<1> QED BY <1>1, <1>2, <1>3, <1>4, RequestKeeps

\* The invariant holds throughout.
LEMMA AlwaysIInv == Spec => []IInv
<1>1. Init => IInv
  BY InitInv
<1>2. IInv /\ [Next]_vars => IInv'
  BY NextInv
<1> QED BY <1>1, <1>2, PTL DEF Spec

(***************************************************************************)
(* Type correctness, for any number of addresses, symbols and crashes: no  *)
(* request makes a supply negative, takes a symbol beyond the last one or  *)
(* leaves the counters outside of their width.                             *)
(***************************************************************************)
THEOREM TypeCorrect == Spec => []TypeOK
<1>1. IInv => TypeOK
  BY DEF IInv, Sound, StoreOK, TypeOK
<1> QED BY <1>1, AlwaysIInv, PTL

(***************************************************************************)
(* In every block and in the database the circulating and the total supply *)
(* of each token are the sum of its balances, whatever is sent, minted,    *)
(* burned and created in whatever order, as long as no mint names the      *)
(* anonymous address, whose balance a mint overwrites.                     *)
(***************************************************************************)
THEOREM SupplyIsHeld ==
    ASSUME NoAnonymousShare
    PROVE  Spec => []SupplyMatchesBalances
<1> DEFINE Inv == IInv /\ ExactStore(store) /\ ExactStore(disk)
<1>1. Init => Inv
  BY InitInv
<1>2. ASSUME Inv, [Next]_vars PROVE Inv'
  <2>1. IInv'
    BY <1>2, NextInv
  <2>2. CASE Keeps(store, disk, store') /\ UNCHANGED <<disk, crashes>>
    BY <1>2, <2>1, <2>2 DEF Keeps
  <2>3. CASE Commit
    BY <1>2, <2>1, <2>3 DEF Commit
  <2>4. CASE Restart
    BY <1>2, <2>1, <2>4 DEF Restart
  <2>5. CASE UNCHANGED vars
    BY <1>2, <2>1, <2>5 DEF vars
  <2> QED BY <1>2, <2>2, <2>3, <2>4, <2>5, RequestKeeps
<1>3. ASSUME Inv PROVE SupplyMatchesBalances
  <2>1. ASSUME NEW s, StoreOK(s), ExactStore(s), NEW sym \in Symbols
        PROVE  IF s.tokens[sym] = NoToken
               THEN Total(Held(s, sym)) = 0
               ELSE /\ s.tokens[sym].circulating = Total(Held(s, sym))
                    /\ s.tokens[sym].total = s.tokens[sym].circulating
    <3>1. CASE s.tokens[sym] = NoToken
      <4>1. \A a \in Addrs : At(Held(s, sym), a) = 0
        BY <2>1, <3>1 DEF StoreOK, Backed, Held, At
      <4>2. Total(Held(s, sym)) + Total(Held(s, sym)) = Total(Held(s, sym))
        BY <4>1, TotalSum
      <4>3. PICK n \in Nat : n = Total(Held(s, sym))
        BY <4>1, TotalSign
      <4>4. n + n = n
        BY <4>2, <4>3
      <4>5. n = 0
        BY <4>4
      <4> QED BY <3>1, <4>3, <4>5
    <3>2. CASE s.tokens[sym] # NoToken
      BY <2>1, <3>2 DEF StoreOK, Backed, ExactStore, Exact
    <3> QED BY <3>1, <3>2
  <2>2. StoreOK(store) /\ StoreOK(disk)
    BY <1>3 DEF IInv, Sound
  <2> QED BY <1>3, <2>1, <2>2 DEF SupplyMatchesBalances
<1> QED BY <1>1, <1>2, <1>3, PTL DEF Spec

\* The tickers in the configuration file differ; nothing checks that they do.
GenesisTickersDiffer ==
    \A s1, s2 \in Symbols :
        s1 # s2 /\ GenesisTokens[s1] # NoToken /\ GenesisTokens[s2] # NoToken
        => GenesisTokens[s1].ticker # GenesisTokens[s2].ticker

(***************************************************************************)
(* The map of tickers and the information of the tokens never part, and no *)
(* creation or update gives a ticker to a second token, if the genesis     *)
(* does not.                                                               *)
(***************************************************************************)
THEOREM TickersStayUnique ==
    ASSUME GenesisTickersDiffer
    PROVE  Spec => []TickersAgree
<1> DEFINE Inv == IInv /\ OneTicker(store) /\ OneTicker(disk)
<1>1. ASSUME Init PROVE Inv
  <2>1. /\ store.tokens = GenesisTokens
        /\ \A sym \in Symbols : store.tickers[sym] =
              IF GenesisTokens[sym] = NoToken THEN NoTicker ELSE GenesisTokens[sym].ticker
    BY <1>1 DEF Init
  <2>2. OneTicker(store)
    BY <2>1 DEF OneTicker, GenesisTickersDiffer
  <2> QED BY <1>1, <2>2, InitInv DEF Init
<1>2. ASSUME Inv, [Next]_vars PROVE Inv'
  <2>1. IInv'
    BY <1>2, NextInv
  <2>2. CASE Keeps(store, disk, store') /\ UNCHANGED <<disk, crashes>>
    BY <1>2, <2>1, <2>2 DEF Keeps
  <2>3. CASE Commit
    BY <1>2, <2>1, <2>3 DEF Commit
  <2>4. CASE Restart
    BY <1>2, <2>1, <2>4 DEF Restart
  <2>5. CASE UNCHANGED vars
    BY <1>2, <2>1, <2>5 DEF vars
  <2> QED BY <1>2, <2>2, <2>3, <2>4, <2>5, RequestKeeps
<1>3. Inv => TickersAgree
  BY DEF OneTicker, TickersAgree
<1> QED BY <1>1, <1>2, <1>3, PTL DEF Spec

(***************************************************************************)
(* A committed token is never replaced or dropped by a later block or a    *)
(* crash, and one without an owner never changes but in its supply.        *)
(***************************************************************************)
THEOREM ImmutableTokens == Spec => ImmutableForever
<1> DEFINE P == \A sym \in get_symbols(disk) :
                  /\ disk'.tokens[sym] # NoToken
                  /\ disk'.tokens[sym].maximum = disk.tokens[sym].maximum
                  /\ disk.tokens[sym].owner = None =>
                        /\ disk'.tokens[sym].owner = None
                        /\ disk'.tokens[sym].ticker = disk.tokens[sym].ticker
                        /\ disk'.tokens[sym].ext = disk.tokens[sym].ext
<1>1. ASSUME IInv, [Next]_vars PROVE P
  <2>1. disk' \in {store, disk}
    BY <1>1, RequestKeeps DEF Commit, Restart, vars
  <2>2. Settled(store, disk) /\ Settled(disk, disk)
    BY <1>1, SettledBySelf DEF IInv, Sound
  <2> QED BY <2>1, <2>2 DEF Settled, SettledToken
<1>2. IInv /\ [Next]_vars => [P]_vars
  BY <1>1
<1> QED BY <1>2, AlwaysIInv, PTL DEF Spec, ImmutableForever

(***************************************************************************)
(* No request takes the supply of a token above its maximum, also when     *)
(* several mint in one block.                                              *)
(***************************************************************************)
THEOREM NeverAboveMaximum == Spec => MintWithinMaximum
<1> DEFINE P == \A sym \in Symbols :
                  (/\ store.tokens[sym] # NoToken
                   /\ store'.tokens[sym] # NoToken
                   /\ store'.tokens[sym].circulating > store.tokens[sym].circulating
                   /\ store.tokens[sym].maximum # None
                   /\ UNCHANGED crashes)
                  => store'.tokens[sym].circulating <= store'.tokens[sym].maximum
<1>1. ASSUME IInv, Next PROVE P
  <2>1. CASE Keeps(store, disk, store')
    BY <2>1 DEF Keeps, StaysWithin
  <2>2. CASE Commit
    <3>1. store' = store /\ store \in StoreType
      BY <1>1, <2>2 DEF Commit, IInv, Sound, StoreOK
    <3> QED BY <3>1, TokenFields
  <2>3. CASE Restart
    BY <1>1, <2>3 DEF Restart, IInv
  <2> QED BY <1>1, <2>1, <2>2, <2>3, RequestKeeps
<1>2. IInv /\ [Next]_vars => [P]_vars
  BY <1>1
<1> QED BY <1>2, AlwaysIInv, PTL DEF Spec, MintWithinMaximum

(***************************************************************************)
(* Whatever is sent, the two counters of accounts move with the entries    *)
(* and with the balances above zero, also when they wrap around.           *)
(***************************************************************************)
THEOREM SendsKeepCounters == Spec => SendsAreCounted
<1> DEFINE P == (/\ store'.balances # store.balances
                 /\ store'.tokens = store.tokens
                 /\ UNCHANGED crashes)
                => /\ Wrapped(store'.accounts - store.accounts) =
                         Wrapped(Cardinality(Entries(store')) - Cardinality(Entries(store)))
                   /\ Wrapped(store'.nonzero - store.nonzero) =
                         Wrapped(Cardinality(NonZero(store')) - Cardinality(NonZero(store)))
<1>1. ASSUME IInv, Next PROVE P
  <2>1. CASE BalancesAccounted(store, store')
    BY <2>1 DEF BalancesAccounted, Counted
  <2>2. CASE Commit
    BY <2>2 DEF Commit
  <2>3. CASE Restart
    BY <1>1, <2>3 DEF Restart, IInv
  <2> QED BY <1>1, <2>1, <2>2, <2>3, RequestKeeps
<1>2. IInv /\ [Next]_vars => [P]_vars
  BY <1>1
<1> QED BY <1>2, AlwaysIInv, PTL DEF Spec, SendsAreCounted
=============================================================================
