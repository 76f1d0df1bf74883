--------------------------- MODULE MCCloseJournal ---------------------------
(* Instance of CloseJournal for TLC: three operations contend for one      *)
(* trade, from two sessions.                                               *)
EXTENDS CloseJournal, TLC

Symmetry == Permutations(Ops) \cup Permutations(Trades) \cup Permutations(Sessions)
=============================================================================
