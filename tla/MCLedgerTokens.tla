--------------------------- MODULE MCLedgerTokens ---------------------------
(***************************************************************************)
(* Small instances of LedgerTokens: token 1 exists at the start and the    *)
(* subresource counter is still below it, as after with_tokens.            *)
(***************************************************************************)
EXTENDS LedgerTokens

CONSTANTS mfx, abc, memo

OneToken ==
    [sym \in Symbols |->
        IF sym = 1
        THEN [ticker |-> mfx, circulating |-> 0, total |-> 0,
              maximum |-> 1, owner |-> 1, ext |-> {}]
        ELSE NoToken]

FirstBalances ==
    [sym \in Symbols |-> [a \in Addrs |-> IF sym = 1 /\ a = 1 THEN 0 ELSE Absent]]

\* Units are minted for, and burned of, the second address or all of them.
Shares == {[x \in {2} |-> 1], [a \in Addrs |-> 1]}

Creation(ticker, dist, maximum) ==
    [ticker |-> ticker, dist |-> dist, maximum |-> maximum, owner |-> 1, ext |-> {}]

\* A token created above its maximum and one below it.
AroundMaximum ==
    {Creation(abc, [a \in Addrs |-> 1], 1), Creation(mfx, [x \in {2} |-> 1], 2)}

\* A token takes the other ticker and loses its owner.
Final == {[ticker |-> abc, owner |-> None]}
=============================================================================
