----------------------------- MODULE MCKVStore -----------------------------
(* The key-value store on a few keys and values, which are interchangeable. *)
EXTENDS KVStore

Symmetry == Permutations(Keys) \union Permutations(Values)
=============================================================================
