----------------------------- MODULE MCGridClient -----------------------------
(* GridClient for TLC: every constant has its value in a cfg. *)
EXTENDS GridClient, TLC

Symmetry == Permutations(Nodes)
===============================================================================
