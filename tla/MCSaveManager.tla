--------------------------- MODULE MCSaveManager ---------------------------
(* The save manager with one player, or two players of which the first may  *)
(* be loaded into several objects.                                          *)
EXTENDS SaveManager

CONSTANTS p1, p2, o1, o2, o3

TwoSessions == {o1, o2}
TwoPlayers == {o1, o2, o3}
OwnedByOne == [o \in {o1, o2} \intersect Objects |-> p1]
OwnedByTwo == [o \in {o1, o2, o3} |-> IF o = o3 THEN p2 ELSE p1]
=============================================================================
