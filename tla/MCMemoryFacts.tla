---------------------------- MODULE MCMemoryFacts -----------------------------
(* The facts are interchangeable values: the two of them may be swapped. *)
EXTENDS MemoryFacts, TLC

CONSTANTS red, blue

Symmetry == Permutations({red, blue})
===============================================================================
