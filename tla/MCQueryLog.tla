------------------------------ MODULE MCQueryLog ------------------------------
(* Instances of QueryLog for TLC.                                          *)
EXTENDS QueryLog, TLC

Symmetry == Permutations(Worker)
==============================================================================
