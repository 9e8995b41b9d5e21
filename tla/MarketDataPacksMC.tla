------------------------- MODULE MarketDataPacksMC -------------------------
(* MarketDataPacks for TLC: the second version drops an instrument. *)
EXTENDS MarketDataPacks, TLC

CONSTANTS a, b

MCManifest == 1 :> {a, b} @@ 2 :> {b}

Symmetry == Permutations(Jobs)
=============================================================================
