------------------------------ MODULE MCViews ------------------------------
(* Instances of Views for TLC: two columns, and a view that may be read.    *)
EXTENDS Views, TLC

CONSTANTS a, b, v, w

TwoColumns == {a, b}
TwoViews == {v, w}
ThreeQueries == {{a}, {b}, {v}}
SlotSymmetry == Permutations(Slots) \cup Permutations(Loads) \cup Permutations(TwoColumns)
=============================================================================
