------------------------------ MODULE MCContext ------------------------------
(* Context for TLC.                                                        *)
EXTENDS Context, TLC

Symmetry ==
    Permutations(Pooled) \cup Permutations(Ctx \ Pooled)
    \cup Permutations(Res) \cup Permutations(Goroutine)
=============================================================================
