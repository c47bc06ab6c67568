------------------------------ MODULE MCExporter ------------------------------
(***************************************************************************)
(* ManifestVerify for TLC: a run writes resources.parquet, perhaps one     *)
(* secondary table, and the manifest.                                      *)
(***************************************************************************)
EXTENDS ManifestVerify

CONSTANT Dependencies

MCTables == {Dependencies}
MCTableLists == {<< >>, <<Dependencies>>}
=============================================================================
