--------------------------- MODULE AccountSyncMC ---------------------------
(* AccountSync with the concurrent calls interchangeable. *)
EXTENDS AccountSync, TLC

Symmetry == Permutations(Callers) \cup Permutations(Linkers)
=============================================================================
