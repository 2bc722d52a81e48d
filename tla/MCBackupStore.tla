---------------------------- MODULE MCBackupStore ----------------------------
(* Instances of BackupStore for TLC.                                         *)
EXTENDS BackupStore, TLC

MCDefault == [x \in Triggers |-> IF x = "schema-change" THEN Forever ELSE 1]
MCTyped == {0, 1, Forever}
=============================================================================
