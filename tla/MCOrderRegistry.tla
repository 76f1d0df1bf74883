-------------------------- MODULE MCOrderRegistry --------------------------
(* OrderRegistry.tla for TLC: processes and client ids are interchangeable. *)
EXTENDS OrderRegistry, TLC

Symmetry == Permutations(Procs) \cup Permutations(Clients)
=============================================================================
