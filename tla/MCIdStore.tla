----------------------------- MODULE MCIdStore -----------------------------
(***************************************************************************)
(* A small instance of IdStore: two clients of one address, one of the     *)
(* address the initial state knows, one whose request is refused, and an   *)
(* initial state whose first phrases are taken; also one at its last seed. *)
(***************************************************************************)
EXTENDS IdStore

CONSTANTS alice, phone, bob, carol, holder

SharedAddresses ==
    [c \in Clients \cup {holder} |->
        CASE c \in {alice, phone}  -> 1
          [] c \in {carol, holder} -> 2
          [] c = bob               -> 3]

\* Phrases of two to five words, the seeds of each made few.
FewSeeds == <<1, 3, 6, 8>>
=============================================================================
