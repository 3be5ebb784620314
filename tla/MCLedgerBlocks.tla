--------------------------- MODULE MCLedgerBlocks ---------------------------
(***************************************************************************)
(* Small instances of LedgerBlocks: two replicas and chains of blocks that *)
(* are empty, submit, or do so after another command has taken an id.      *)
(***************************************************************************)
EXTENDS LedgerBlocks

SmallBlocks == {<<>>, <<"submit">>, <<"log", "submit">>, <<"reject", "submit">>}

AllPhases == Phases \ {"down"}

\* A crash anywhere but between the commits that surround the migration.
OutsideMigration == {"idle", "block", "migrated"}
=============================================================================
