------------------------------ MODULE MCPages ------------------------------
(* Pages for TLC: its processes, segments and pages are interchangeable.   *)
EXTENDS Pages, TLC

Symmetry == Permutations(Proc) \cup Permutations(Seg) \cup Permutations(Page)
=============================================================================
