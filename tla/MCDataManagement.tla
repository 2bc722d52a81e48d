-------------------------- MODULE MCDataManagement --------------------------
(* Instances of DataManagement for TLC.                                     *)
EXTENDS DataManagement, TLC

TableSymmetry == Permutations(Tables)
=============================================================================
