---------------------------- MODULE MCLiveClose ----------------------------
(* Instance of LiveClose for TLC: a trade or two, a few close attempts.    *)
EXTENDS LiveClose, TLC

Symmetry == Permutations(Ops) \cup Permutations(Procs) \cup Permutations(Trades)
=============================================================================
