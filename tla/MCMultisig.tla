----------------------------- MODULE MCMultisig -----------------------------
(***************************************************************************)
(* Small instances of Multisig: one account owned by alice, on which bob   *)
(* may submit and transact.                                                *)
(***************************************************************************)
EXTENDS Multisig

CONSTANTS alice, bob, acc

Role(p) == CASE p = alice -> {"owner"}
             [] p = bob   -> {"submit", "transact"}
             [] p = acc   -> {"owner"}
             [] OTHER     -> {}

Account(threshold, auto) ==
    [roles |-> [p \in Principals |-> Role(p)], disabled |-> FALSE,
     ledger |-> TRUE, multisig |-> TRUE, threshold |-> threshold, timeout |-> 1, auto |-> auto]

TwoManual == [a \in Accounts |-> Account(2, FALSE)]

TwoAutomatic == [a \in Accounts |-> Account(2, TRUE)]

Tr(kind, who, role, token) ==
    [kind |-> kind, account |-> acc, who |-> who, role |-> role,
     token |-> token, threshold |-> 1]

Send == Tr("send", acc, "owner", 1)

Payments == {Send}

Leaves == {Send, Tr("removeRoles", bob, "submit", 1)}

\* The first transaction may name itself or lead to the second, which may name
\* the first or lead to itself.
Nested ==
    {Send} \cup {Tr(kind, acc, "owner", 1) :
                    kind \in {"approve", "execute", "revoke", "withdraw"}}
           \cup {Tr("execute", acc, "owner", 2)}

Args(threshold, timeout, auto) ==
    [threshold |-> threshold, timeout |-> timeout, auto |-> auto]

NoArgs == {Args(None, None, None)}

LowThreshold == NoArgs \cup {Args(1, None, None)}

\* An owner may ask for a timeout above the maximum.
LongLow == NoArgs \cup {Args(1, MaxTimeout + 2, None)}

BobSubmits == {<<bob, "submit">>}
=============================================================================
