------------------------------ MODULE LedgerMC ------------------------------
(* Ledger for TLC: callers are interchangeable. *)
EXTENDS Ledger, TLC

Symmetry == Permutations(Clients)
=============================================================================
