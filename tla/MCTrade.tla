------------------------------ MODULE MCTrade -------------------------------
(* Three players, a bag and a box that may be in each other, and some coins. *)
EXTENDS Trade, TLC

CONSTANTS bag, box, coins

Symmetry == Permutations(Players)
=============================================================================
