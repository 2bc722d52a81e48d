----------------------------- MODULE MCPipeline -----------------------------
(* Instances of Pipeline for TLC: tables and jobs are model values,          *)
(* interchangeable in the run that checks no liveness property.              *)
EXTENDS Pipeline, TLC

TableSymmetry == Permutations(Tables) \cup Permutations(Jobs)
=============================================================================
