------------------------------ MODULE MCRetention ------------------------------
(* Retention for TLC: every constant has its value in a cfg. *)
EXTENDS Retention, TLC

Symmetry == Permutations(Jobs)
===============================================================================
