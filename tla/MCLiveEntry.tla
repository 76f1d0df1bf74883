---------------------------- MODULE MCLiveEntry ----------------------------
(* Instance of LiveEntry for TLC: one instrument, a few calls.             *)
EXTENDS LiveEntry, TLC

Symmetry == Permutations(Entries) \cup Permutations(Procs) \cup Permutations(Clients)
=============================================================================
