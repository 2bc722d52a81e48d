------------------------------ MODULE MCBackup ------------------------------
(* Instances of Backup for TLC.                                              *)
EXTENDS Backup, TLC

CONSTANTS r1, r2, r3

R(id, version) == [id |-> id, version |-> version]
MCStored == {<<R(r1, 1), R(r2, 1), R(r3, 1)>>}
Symmetry == Permutations(Keys) \cup Permutations(Tasks)
=============================================================================
