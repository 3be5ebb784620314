------------------------------ MODULE MCKvStore ------------------------------
(***************************************************************************)
(* A small instance of KvStore: one key, nobody's at the start, and one    *)
(* account, on which bob may be allowed to put.                            *)
(***************************************************************************)
EXTENDS KvStore

CONSTANTS alice, bob

Unowned == [k \in Keys |-> None]

BobPuts == {<<bob, "put">>}
=============================================================================
