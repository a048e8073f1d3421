------------------------------ MODULE MCNodeAgent -----------------------------
(* Small instances of NodeAgent; the cfgs give the constants their values. *)
EXTENDS NodeAgent
===============================================================================
