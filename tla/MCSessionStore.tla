--------------------------- MODULE MCSessionStore ---------------------------
(* TLC instances of SessionStore: symmetric request identities. *)
EXTENDS SessionStore, TLC
Symmetry == Permutations(Turns) \cup Permutations(Routes)
=============================================================================
