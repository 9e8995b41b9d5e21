--------------------------- MODULE LocalBuildsMC ---------------------------
(* LocalBuilds for TLC: tasks and symbols are interchangeable. *)
EXTENDS LocalBuilds, TLC

Symmetry == Permutations(Tasks) \cup Permutations(Symbols)
=============================================================================
