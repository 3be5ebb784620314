---------------------------- MODULE MCAbciBridge ----------------------------
(***************************************************************************)
(* A small instance of AbciBridge: a command that is accepted, one whose   *)
(* sender is not on the allow list, and a transaction that is no envelope. *)
(***************************************************************************)
EXTENDS AbciBridge

CONSTANTS r1, denied, raw

\* In the second block the command executes a transaction and says when.
StampedLate == {<<r1, 2>>}
=============================================================================
