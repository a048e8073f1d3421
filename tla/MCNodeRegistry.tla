---------------------------- MODULE MCNodeRegistry ----------------------------
(* NodeRegistry for TLC: every constant has its value in a cfg. *)
EXTENDS NodeRegistry, TLC

Symmetry == Permutations(Keys) \cup Permutations(Requests)
===============================================================================
