----------------------------- MODULE MCSession -----------------------------
(* Two characters, one of them premium, on a server with one place, or one   *)
(* character and the clients that want it.                                   *)
EXTENDS Session

CONSTANTS p1, p2, o1, o2, o3

OwnedByOne == [o \in Objects |-> p1]
OwnedByTwo == [o \in Objects |-> IF o = o3 THEN p2 ELSE p1]
Symmetry == Permutations(Clients)
=============================================================================
