-------------------------- MODULE MCSchemaRegistry --------------------------
(* Instances of SchemaRegistry for TLC.                                      *)
EXTENDS SchemaRegistry, TLC

Symmetry == Permutations(Fields)
=============================================================================
