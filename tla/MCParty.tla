------------------------------ MODULE MCParty -------------------------------
EXTENDS Party

Symmetry == Permutations(Players) \union Permutations(Parties)
=============================================================================
