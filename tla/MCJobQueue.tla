------------------------------ MODULE MCJobQueue ------------------------------
(* Small instances of JobQueue; the cfgs give the constants their values. *)
EXTENDS JobQueue, TLC

\* Requests of a node and submits are interchangeable; job ids are not.
Symmetry ==
    Permutations(Conns) \cup Permutations(Clients) \cup Permutations(Blobs)
===============================================================================
