----------------------------- MODULE MCWatchable -----------------------------
(* Watchable for TLC.                                                      *)
EXTENDS Watchable, TLC

Symmetry == Permutations(Chan)
=============================================================================
