------------------------------- MODULE MCCarts -------------------------------
(* TLC instances of Carts: symmetric carts and requests. *)
EXTENDS Carts, TLC
Symmetry == Permutations(CartIds) \cup Permutations(Requests)
=============================================================================
