--------------------------- MODULE MCJobScheduler ---------------------------
(* Instances of JobScheduler for TLC.                                        *)
EXTENDS JobScheduler, TLC

CONSTANTS i1, i2

Job(name, work, expr) == [name |-> name, work |-> work, expr |-> expr]
MCForms == {Job(Default, "full", "hourly"), Job("hourly-sync", "custom", "hourly"),
            Job("hourly-sync", "empty", "bad")}
Legacy == [name |-> "hourly-sync", work |-> "custom", expr |-> "short", active |-> TRUE]
MCStored == {[i \in Ids |-> Absent], (i1 :> Legacy @@ i2 :> Absent)}
Symmetry == Permutations(Pages)
=============================================================================
