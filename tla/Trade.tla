-------------------------------- MODULE Trade --------------------------------
(***************************************************************************)
(* Trading between players (game/game.cpp, with the handlers of Player     *)
(* that close a trade when an item, a container or a player moves).        *)
(* Items lie in a tree: in a player's inventory, on a spot of the ground,  *)
(* or in a container.  Spots are numbered along a line.  What a player can *)
(* carry is not counted: whether there is a free slot, or a stack that     *)
(* takes the item, is chosen when a trade is carried out.                  *)
(* Every action runs on the dispatcher; TRADE_TRANSFER lasts within one.   *)
(***************************************************************************)
EXTENDS Integers, FiniteSets

CONSTANTS
  Players,
  Items,
  Containers,  \* the items that hold items
  Stackable,   \* the items that merge into stacks
  Spots,       \* where players stand, a set of integers
  Floor        \* the spots on which items may be put

NoPlayer == "no player"
NoItem == "no item"
Ground == {<<x>> : x \in Floor}

ASSUME TradeAssumption ==
  /\ NoPlayer \notin Players
  /\ NoItem \notin Items
  /\ Players \intersect Items = {}
  /\ Ground \intersect (Players \union Items) = {}
  /\ Containers \subseteq Items
  /\ Stackable \subseteq Items \ Containers
  /\ Spots \subseteq Int
  /\ Floor \subseteq Spots
  /\ IsFiniteSet(Containers)

VARIABLES
  online,       \* players in the game
  position,     \* their spots
  place,        \* where each item is
  used,         \* stacks that were changed (at most once each)
  tradeState,
  tradePartner,
  tradeItem,
  tradeItems    \* the keys of Game::tradeItems
trades == <<tradeState, tradePartner, tradeItem, tradeItems>>
vars == <<online, position, place, used, trades>>

\* isHoldingItem and the walks up the tree: where i is, what that is in, ...
Holders(at, i) ==
  LET up[n \in 0 .. Cardinality(Containers)] ==
        IF n = 0 THEN {at[i]}
        ELSE LET below == up[n - 1] IN below \union {at[c] : c \in below \intersect Containers}
  IN  up[Cardinality(Containers)]

\* The player or the spot of ground at the top of it.
Root(at, i) == CHOOSE h \in Holders(at, i) : h \notin Containers

\* An item p can reach: its own, or one on the ground not farther than one spot.
Near(x, y, range) == x - y \in -range .. range
ReachesFrom(p, x, i) ==
  LET root == Root(place, i)
  IN  root = p \/ (root \in Ground /\ Near(root[1], x, 1))
Reaches(p, i) == ReachesFrom(p, position[p], i)

-----------------------------------------------------------------------------
(* Closing trades.                                                         *)

\* Mutant: the partner is not told.
CloseOne(ps) ==
  /\ tradeState' = [p \in Players |-> IF p \in ps THEN "none" ELSE tradeState[p]]
  /\ tradePartner' = [p \in Players |-> IF p \in ps THEN NoPlayer ELSE tradePartner[p]]
  /\ tradeItem' = [p \in Players |-> IF p \in ps THEN NoItem ELSE tradeItem[p]]
  /\ tradeItems' = tradeItems \ {tradeItem[p] : p \in ps}

\* internalCloseTrade for each of the players: both sides are reset and their
\* items forgotten.
Close(ps) ==
  LET closed == {p \in Players : p \in ps \/ \E r \in ps : tradePartner[r] = p}
  IN  /\ tradeState' = [p \in Players |-> IF p \in closed THEN "none" ELSE tradeState[p]]
      /\ tradePartner' = [p \in Players |-> IF p \in closed THEN NoPlayer ELSE tradePartner[p]]
      /\ tradeItem' = [p \in Players |-> IF p \in closed THEN NoItem ELSE tradeItem[p]]
      /\ tradeItems' = tradeItems \ {tradeItem[p] : p \in closed}

\* Mutant: what is taken out of a traded container goes unnoticed.
TouchesAround(t, i, to) ==
  \/ t = i
  \/ i \in Holders(place, t)
  \/ t = to \/ (to \in Containers /\ t \in Holders(place, to))

\* Whether the trade of t is closed when i leaves its place for another: i is t,
\* in it, around it, or leaves a container that has t deeper inside
\* (onRemoveTileItem, onRemoveContainerItem, onRemoveInventoryItem); or i gets
\* into t (onAddContainerItem).
Touches(t, i, to) ==
  \/ t = i
  \/ t \in Holders(place, i)
  \/ i \in Holders(place, t)
  \/ place[i] \in Holders(place, t) \intersect Containers /\ place[t] # place[i]
  \/ t = to \/ (to \in Containers /\ t \in Holders(place, to))

Touched(ps, i, to) == {p \in ps : tradeItem[p] # NoItem /\ Touches(tradeItem[p], i, to)}

-----------------------------------------------------------------------------
(* The requests of a player.                                               *)

\* Mutant: an item in a traded container may be offered again.
FreeUnlessHolding(i) == \A t \in tradeItems : t # i /\ i \notin Holders(place, t)

\* Neither the item, nor one in it, nor one around it is traded already.
Free(i) == \A t \in tradeItems : t # i /\ i \notin Holders(place, t) /\ t \notin Holders(place, i)

\* playerRequestTrade and internalStartTrade, for the item at hand (a request for
\* one farther off makes the player walk there first)
PlayerRequestTrade(p, partner, i) ==
  /\ {p, partner} \subseteq online /\ p # partner
  /\ Near(position[p], position[partner], 2)
  /\ Reaches(p, i)
  /\ Free(i)
  /\ tradeState[p] = "none" \/ (tradeState[p] = "acknowledge" /\ tradePartner[p] = partner)
  /\ tradeState[partner] = "none" \/ tradePartner[partner] = p
  /\ tradeItem' = [tradeItem EXCEPT ![p] = i]
  /\ tradeItems' = tradeItems \union {i}
  /\ IF tradeState[partner] = "none"
     THEN /\ tradeState' = [tradeState EXCEPT ![p] = "initiated", ![partner] = "acknowledge"]
          /\ tradePartner' = [tradePartner EXCEPT ![p] = partner, ![partner] = p]
     ELSE /\ tradeState' = [tradeState EXCEPT ![p] = "initiated"]
          /\ tradePartner' = [tradePartner EXCEPT ![p] = partner]
  /\ UNCHANGED <<online, position, place, used>>

\* playerCloseTrade
PlayerCloseTrade(p) ==
  /\ p \in online
  /\ Close({p})
  /\ UNCHANGED <<online, position, place, used>>

\* Mutant: the room in the item that is to be given counts as well.
DestinationsAnywhere(at, p) == {p} \union {c \in Containers : Root(at, c) = p}

\* Where p may get an item: its inventory, or a container in it that is not, and
\* is not in, the item it trades (queryDestination passes by that item in a slot,
\* internalMoveItem refuses what is deeper).
Destinations(at, p) ==
  {p} \union {c \in Containers : Root(at, c) = p /\ c # tradeItem[p] /\ tradeItem[p] \notin Holders(at, c)}

\* What the exchange can do to the items: nothing, or the first move succeeds.  The
\* second one's result is ignored, so that item2 may stay: a stack that passed the
\* test by another stack finds no slot, as the moves do not stack, or item1 was
\* worn and what p can carry is less without it.
PlacesAfter(p, partner) ==
  LET item1 == tradeItem[p]
      item2 == tradeItem[partner]
  IN  {place} \union
        IF NoItem \in {item1, item2} THEN {}
        ELSE LET given == {[place EXCEPT ![item1] = d] : d \in Destinations(place, partner)}
                 swapped == UNION {{[at EXCEPT ![item2] = d] : d \in Destinations(at, p)} : at \in given}
             IN  given \union swapped

\* playerAcceptTrade.  The first acceptance waits for the other, whatever the
\* other side has offered by then.
AcceptFirst(p) ==
  /\ p \in online
  /\ tradeState[p] \in {"acknowledge", "initiated"}
  /\ tradeState[tradePartner[p]] # "accept"
  /\ tradeState' = [tradeState EXCEPT ![p] = "accept"]
  /\ UNCHANGED <<online, position, place, used, tradePartner, tradeItem, tradeItems>>

\* Mutant: an exchange that moves nothing returns before the states are reset.
AcceptAndStay(p) ==
  /\ p \in online
  /\ tradeState[p] \in {"acknowledge", "initiated"}
  /\ tradeState[tradePartner[p]] = "accept"
  /\ tradeState' = [tradeState EXCEPT ![p] = "transfer", ![tradePartner[p]] = "transfer"]
  /\ UNCHANGED <<online, position, place, used, tradePartner, tradeItem, tradeItems>>

\* The second one carries the trade out, or a script cancels it (which leaves
\* the same state as an exchange that moves nothing).  The trades of others are
\* closed by the moves, theirs is reset in the end.
AcceptSecond(p) ==
  /\ p \in online
  /\ tradeState[p] \in {"acknowledge", "initiated"}
  /\ tradeState[tradePartner[p]] = "accept"
  /\ place' \in PlacesAfter(p, tradePartner[p])
  /\ Close({p} \union
       {r \in Players \ {p, tradePartner[p]} :
          \E i \in Items : place'[i] # place[i] /\ r \in Touched({r}, i, place'[i])})
  /\ UNCHANGED <<online, position, used>>

-----------------------------------------------------------------------------
(* What happens around a trade.                                            *)

\* playerMoveItem: by p, of an item in reach, to its inventory, to the ground or
\* into a container in reach.
MoveItem(p, i, to) ==
  /\ p \in online
  /\ Reaches(p, i)
  /\ to # place[i]
  /\ to \in Containers => to # i /\ Reaches(p, to) /\ i \notin Holders(place, to)
  /\ place' = [place EXCEPT ![i] = to]
  /\ Close(Touched(Players, i, to))
  /\ UNCHANGED <<online, position, used>>

\* A part of a stack is taken away: onUpdateTileItem, onUpdateContainerItem and
\* onUpdateInventoryItem close the trade of the stack or of a container around it.
UseItem(p, i) ==
  /\ p \in online
  /\ Reaches(p, i)
  /\ i \in Stackable \ used
  /\ used' = used \union {i}
  /\ Close({r \in Players : tradeItem[r] # NoItem /\ tradeItem[r] \in {i} \union Holders(place, i)})
  /\ UNCHANGED <<online, position, place>>

\* Mutant: only the way to the item is measured.
WalkFromPartner(p, x) ==
  /\ p \in online
  /\ x # position[p]
  /\ position' = [position EXCEPT ![p] = x]
  /\ Close({r \in {p} : tradeItem[p] # NoItem /\ ~ReachesFrom(p, x, tradeItem[p])})
  /\ UNCHANGED <<online, place, used>>

\* onCreatureMove closes the trade of an item or a partner that is too far now.
Walk(p, x) ==
  /\ p \in online
  /\ x # position[p]
  /\ position' = [position EXCEPT ![p] = x]
  /\ Close({r \in {p} :
       \/ tradeItem[p] # NoItem /\ ~ReachesFrom(p, x, tradeItem[p])
       \/ tradePartner[p] # NoPlayer /\ ~Near(position[tradePartner[p]], x, 2)})
  /\ UNCHANGED <<online, place, used>>

\* onRemoveCreature, at a logout or a death
Leave(p) ==
  /\ p \in online
  /\ online' = online \ {p}
  /\ Close({r \in {p} : tradePartner[p] # NoPlayer})
  /\ UNCHANGED <<position, place, used>>

Enter(p) ==
  /\ p \notin online
  /\ online' = online \union {p}
  /\ UNCHANGED <<position, place, used, trades>>

-----------------------------------------------------------------------------

Init ==
  /\ online = Players
  /\ position \in [Players -> Spots]
  /\ place \in [Items -> Players]
  /\ used = {}
  /\ tradeState = [p \in Players |-> "none"]
  /\ tradePartner = [p \in Players |-> NoPlayer]
  /\ tradeItem = [p \in Players |-> NoItem]
  /\ tradeItems = {}

Next ==
  \E p \in Players :
    \/ \E partner \in Players, i \in Items : PlayerRequestTrade(p, partner, i)
    \/ PlayerCloseTrade(p) \/ AcceptFirst(p) \/ AcceptSecond(p)
    \/ \E i \in Items, to \in {p} \union Ground \union Containers : MoveItem(p, i, to)
    \/ \E i \in Items : UseItem(p, i)
    \/ \E x \in Spots : Walk(p, x)
    \/ Leave(p) \/ Enter(p)

Spec == Init /\ [][Next]_vars

-----------------------------------------------------------------------------
(* Properties.                                                             *)

\* Every variable has its type.
TypeOK ==
  /\ online \subseteq Players
  /\ position \in [Players -> Spots]
  /\ place \in [Items -> Players \union Ground \union Containers]
  /\ used \subseteq Stackable
  /\ tradeState \in [Players -> {"none", "acknowledge", "initiated", "accept"}]
  /\ tradePartner \in [Players -> Players \union {NoPlayer}]
  /\ tradeItem \in [Players -> Items \union {NoItem}]
  /\ tradeItems \subseteq Items

\* A trade is one between two players that are both in the game: each is the
\* other's partner, one has an item to give, and who was only asked has none.
PartnersAgree ==
  \A p \in Players :
    /\ tradeState[p] = "none" <=> tradePartner[p] = NoPlayer
    /\ tradeState[p] \in {"none", "acknowledge"} => tradeItem[p] = NoItem
    /\ tradeState[p] = "initiated" => tradeItem[p] # NoItem
    /\ tradePartner[p] # NoPlayer =>
         /\ {p, tradePartner[p]} \subseteq online
         /\ tradePartner[tradePartner[p]] = p
         /\ {tradeItem[p], tradeItem[tradePartner[p]]} # {NoItem}

\* The table of traded items is exactly what the players trade, and no item is
\* promised twice, neither itself nor within another one (and every variable
\* keeps its type).
PromisedOnce ==
  /\ TypeOK
  /\ tradeItems = {tradeItem[p] : p \in Players} \ {NoItem}
  /\ \A p, r \in Players :
       p # r /\ tradeItem[p] # NoItem /\ tradeItem[r] # NoItem =>
         tradeItem[p] # tradeItem[r] /\ tradeItem[p] \notin Holders(place, tradeItem[r])

\* Partners stay within two spots of each other, and of their items within one.
InReach ==
  \A p \in Players :
    /\ tradePartner[p] # NoPlayer => Near(position[p], position[tradePartner[p]], 2)
    /\ tradeItem[p] # NoItem => Reaches(p, tradeItem[p])

\* Whoever accepts gets what was shown: as long as an item is offered, it stays
\* where it is, with the same contents.
OfferUnchanged ==
  [][\A p \in Players, i \in Items :
       tradeItem[p] # NoItem /\ tradeItem'[p] = tradeItem[p] /\ tradeItem[p] \in {i} \union Holders(place, i)
         => place'[i] = place[i] /\ (i \in used <=> i \in used')
            /\ {c \in Items : i \in Holders(place, c)} = {c \in Items : i \in Holders(place', c)}]_vars

\* An exchange that moves anything gives the first item to the partner for good,
\* with all that is in it: it is not put where it would come back.  The second one
\* goes whole, or stays whole (nothing promises that it goes), and whatever neither
\* holds stays with whom it was.
GivenWhole ==
  [][\A p \in Players :
       LET r == tradePartner[p]
           item1 == tradeItem[p]
           item2 == tradeItem[r]
           In(t) == {i \in Items : t \in {i} \union Holders(place, i)}
       IN  AcceptSecond(p) /\ place' # place =>
             /\ \A i \in In(item1) : Root(place', i) = r
             /\ Root(place', item2) \in {p, Root(place, item2)}
             /\ \A i \in In(item2) : Root(place', i) = Root(place', item2)
             /\ \A i \in Items \ (In(item1) \union In(item2)) : Root(place', i) = Root(place, i)]_vars
=============================================================================
