-------------------------- MODULE MCLedgerAccounts --------------------------
(***************************************************************************)
(* Small instances of LedgerAccounts: the migration from the start, at the *)
(* first block or never, with the tokens under an identity of their own or *)
(* under that of the server.                                               *)
(***************************************************************************)
EXTENDS LedgerAccounts

CONSTANTS alice, bob, server, other

Config(migrate, token, account, next, symbols, symbol, blockchain) ==
    [migrate |-> migrate, token |-> token, account |-> account, next |-> next,
     symbols |-> symbols, symbol |-> symbol, accounts |-> 1,
     blockchain |-> blockchain]

\* From the start, with the identities given or not.
FromGenesis ==
    {Config(0, token, account, 2, {<<server, 1>>}, None, TRUE) :
        token \in {None, server, other}, account \in {None, other}}
    \cup {Config(0, token, None, 0, {<<server, 1>>}, None, FALSE) :
        token \in {server, other}}

\* A ledger that migrates after its first block: also with the server's
\* identity and a small counter, and with a second symbol.
Later ==
    {Config(1, token, None, next, symbols, <<server, 2>>, TRUE) :
        token \in {server, other}, next \in {0, 3},
        symbols \in {{<<server, 2>>}, {<<server, 2>>, <<server, 3>>}}}

Never == {Config(None, None, None, 0, {<<server, 1>>}, None, b) : b \in BOOLEAN}

AllConfigs == {c \in FromGenesis : Readable(c)} \cup Later \cup Never

Roles0 == [u \in Users |-> {}]

RolesOf(u, role) == [Roles0 EXCEPT ![u] = {role}]

Args(roles, features, threshold) ==
    [roles |-> roles, features |-> features, threshold |-> threshold]

SomeAccounts == {Args(RolesOf(bob, "submit"), {"multisig"}, None),
                 Args(Roles0, {"ledger"}, None)}

\* Both are for an account with the ledger feature; the other has no role
\* for the first and has the second already.
SomeFeatures == {Args(RolesOf(bob, "transact"), {"tokens"}, None),
                 Args(Roles0, {"multisig"}, None)}

SomeRoles == {<<bob, "submit">>}
=============================================================================
