-------------------------------- MODULE MCBank --------------------------------
(* A seller with two items (one in the stash), and a buyer with money who is  *)
(* in the guild and owns a house with an item of its own and two of the seller. *)
EXTENDS Bank

CONSTANTS seller, buyer

MCPlayers == {seller, buyer}
MCWealth ==
  [p \in MCPlayers |-> IF p = seller THEN [money |-> 1, stash |-> 1, locker |-> 1]
                                     ELSE [money |-> 3, stash |-> 0, locker |-> 0]]
MCHouseItems == [p \in MCPlayers |-> IF p = seller THEN 2 ELSE 1]
MCMembers == {buyer}
MCScopes == {{"market"}, {"bank"}, {"house"}}
=============================================================================
