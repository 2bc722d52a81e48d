---------------------------- MODULE MCTableSync ----------------------------
(* Instances of TableSync for TLC: keys are small integers, runs are model   *)
(* values, interchangeable in the run that checks no liveness property.      *)
(* Records has assumptions about the batches of a sync, evaluated here.      *)
EXTENDS TableSync, Records, TLC

RunSymmetry == Permutations(Runs)
=============================================================================
