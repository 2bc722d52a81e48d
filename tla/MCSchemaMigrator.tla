-------------------------- MODULE MCSchemaMigrator --------------------------
(* Instances of SchemaMigrator for TLC.                                      *)
EXTENDS SchemaMigrator, TLC

Symmetry == Permutations(Tables) \cup Permutations(Fields) \cup Permutations(Resolutions)
=============================================================================
