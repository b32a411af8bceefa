-------------------------- MODULE MCMerchantChanges --------------------------
(* TLC instances of MerchantChanges: symmetric requests. *)
EXTENDS MerchantChanges, TLC
Symmetry == Permutations(Clicks) \cup Permutations(Turns) \cup Permutations(Changes)
=============================================================================
