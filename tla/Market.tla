------------------------------- MODULE Market --------------------------------
(***************************************************************************)
(* The market (io/iomarket.cpp and the handlers in game/game.cpp) over the *)
(* records of players that the database and the game keep.  An offer holds *)
(* what its creator paid in; it is accepted in parts by others, cancelled, *)
(* or expires.  The other side may be in the game, out of it (then a copy  *)
(* is loaded, changed and saved within the handler) or dead: a dead player *)
(* is not found in the game either, so a copy is changed while its client  *)
(* still holds the old object.                                             *)
(*                                                                         *)
(* One kind of item, of tier 0, is traded; coins of the store are not      *)
(* modelled.  Money is a player's coins and bank balance together.  An     *)
(* inbox that is full, of whatever is in it, refuses any part of what a    *)
(* handler puts there.  The market's tables change with each statement;    *)
(* players are saved within the handler (toggleSaveAsync off) and every    *)
(* statement succeeds.                                                     *)
(*                                                                         *)
(* Bank takes these actions together with the bank's, and has the          *)
(* specification of both.                                                  *)
(***************************************************************************)
EXTENDS Integers, FiniteSets, FiniteSetsExt, SequencesExt

CONSTANTS
  Players,
  Wealth,       \* Wealth[p]: p's record at the start
  Prices,       \* of one item
  Amounts,      \* that a client asks for
  Fees,         \* what the creation of an offer may cost
  MaxOffers,    \* maxMarketOffersAtATimePerPlayer
  MaxId,        \* bound: offers ever created
  MaxChecks,    \* bound: checks for expired offers on their way
  MaxCrashes,   \* bound
  MaxRefusals   \* bound: steps in which an inbox is full

\* What a player has; items in the stash, and in the depot locker and the inbox.
Record == [money : Nat, stash : Nat, locker : Nat]
Nothing == [money |-> 0, stash |-> 0, locker |-> 0]

ASSUME MarketAssumption ==
  /\ IsFiniteSet(Players)
  /\ Wealth \in [Players -> Record]
  /\ Prices \subseteq Nat \ {0}
  /\ Amounts \subseteq Nat \ {0}
  /\ Fees \subseteq Nat
  /\ {MaxOffers, MaxId, MaxChecks, MaxCrashes, MaxRefusals} \subseteq Nat

VARIABLES
  status,    \* "online", "dead" (in a client's death window) or "offline"
  memory,    \* the object's record; Nothing when there is no object
  row,       \* the database's record
  offers,    \* the table market_offers
  nextId,
  old,       \* offers up to this id are past marketOfferDuration
  results,   \* rows read by the checks, in the dispatcher's order
  crashes,
  cloned,    \* history: what expired offers returned beyond what they held, and
             \* what refused acceptances left behind
  refused    \* history: steps in which an inbox was full, and the items lost in them
vars == <<status, memory, row, offers, nextId, old, results, crashes, cloned, refused>>

Online(p) == status[p] = "online"

\* getPlayerByGUID(guid, true): the object in the game, or a copy of the row.
Found(p) == IF Online(p) THEN memory[p] ELSE row[p]

Pays(r, n) == [r EXCEPT !.money = @ - n]
Earns(r, n) == [r EXCEPT !.money = @ + n]

\* internalAddItem to the inbox, which is part of the locker.
Receives(r, n) == [r EXCEPT !.locker = @ + n]

\* An inbox has no room for all that a step puts into it: Inbox::queryAdd has its
\* own limit, in spite of FLAG_NOLIMIT.  n items are lost by it.
Refuses(n) ==
  /\ refused.times < MaxRefusals
  /\ refused' = [times |-> refused.times + 1, lost |-> refused.lost + n]

Has(r, n) == r.stash + r.locker >= n

\* removeOfferItems: from the stash first.  When there is not enough, all there
\* was is gone and the handler ends.
Gives(r, n) ==
  LET stashed == Min({n, r.stash})
  IN  IF Has(r, n)
      THEN [r EXCEPT !.stash = @ - stashed, !.locker = @ - (n - stashed)]
      ELSE [r EXCEPT !.stash = 0, !.locker = 0]

\* Mutant: the handler does not save its player.
NotSavedAs(p, r) ==
  /\ memory' = [memory EXCEPT ![p] = r]
  /\ row' = row

\* The handler's player ends with record r, saved.
SavedAs(p, r) ==
  /\ memory' = [memory EXCEPT ![p] = r]
  /\ row' = [row EXCEPT ![p] = r]

\* Mutant: the copy loaded for the other side is not saved.
CopyNotSaved(p, r, q, s) ==
  /\ memory' = [memory EXCEPT ![p] = r, ![q] = IF Online(q) THEN s ELSE @]
  /\ row' = [row EXCEPT ![p] = r]

\* The handler's player p ends with record r, saved.  The other side q ends with
\* s: a copy is saved, an object in the game is not.
BothAs(p, r, q, s) ==
  /\ memory' = [memory EXCEPT ![p] = r, ![q] = IF Online(q) THEN s ELSE @]
  /\ row' = [row EXCEPT ![p] = r, ![q] = IF Online(q) THEN @ ELSE s]

\* Mutant: the copy loaded for the other side is not saved after an error, either.
HalfUnsaved(p, r, q, s) ==
  /\ memory' = [memory EXCEPT ![p] = r, ![q] = IF Online(q) THEN s ELSE @]
  /\ row' = row

\* The handler returns because of an error, after it has changed both sides: only
\* the copy loaded for the other side was saved.
HalfAs(p, r, q, s) ==
  /\ memory' = [memory EXCEPT ![p] = r, ![q] = IF Online(q) THEN s ELSE @]
  /\ row' = [row EXCEPT ![q] = IF Online(q) THEN @ ELSE s]

\* The items could not be removed: the handler returns before any save.
RemovalFails(p, n) ==
  /\ ~Has(memory[p], n)
  /\ memory' = [memory EXCEPT ![p] = Gives(@, n)]
  /\ UNCHANGED <<row, offers, nextId>>

-----------------------------------------------------------------------------
(* Offers.                                                                 *)

Offer(p, sale, n, price) ==
  [id |-> nextId, player |-> p, sale |-> sale, amount |-> n, price |-> price]

\* checkCanInitCreateMarketOffer, with getPlayerOfferCount
CanCreate(p) ==
  /\ Online(p)
  /\ Cardinality({o \in offers : o.player = p}) < MaxOffers
  /\ nextId <= MaxId

\* createOffer
Insert(o) ==
  /\ offers' = offers \union {o}
  /\ nextId' = nextId + 1

CreateSell(p, n, price) ==
  /\ CanCreate(p)
  /\ \E fee \in Fees :
       /\ fee <= memory[p].money
       /\ \/ RemovalFails(p, n)
          \/ /\ Has(memory[p], n)
             /\ SavedAs(p, Pays(Gives(memory[p], n), fee))
             /\ Insert(Offer(p, TRUE, n, price))
  /\ UNCHANGED <<status, old, results, crashes, cloned, refused>>

CreateBuy(p, n, price) ==
  /\ CanCreate(p)
  /\ \E fee \in Fees :
       /\ n * price + fee <= memory[p].money
       /\ SavedAs(p, Pays(memory[p], n * price + fee))
  /\ Insert(Offer(p, FALSE, n, price))
  /\ UNCHANGED <<status, old, results, crashes, cloned, refused>>

\* What an offer holds: the items for sale, or the money to pay for them.
ItemsIn(o) == IF o.sale THEN o.amount ELSE 0
MoneyIn(o) == IF o.sale THEN 0 ELSE o.price * o.amount

ItemsOffered(s) == SumFunction([o \in s |-> ItemsIn(o)])
MoneyOffered(s) == SumFunction([o \in s |-> MoneyIn(o)])

\* What is left in the offers s, but for the items that are lost, goes back to their
\* creator's record r.
Refund(r, s, lost) == Earns(Receives(r, ItemsOffered(s) - lost), MoneyOffered(s))

\* playerCancelMarketOffer: the offer goes whatever the inbox takes.
Cancel(o) ==
  /\ Online(o.player)
  /\ \E lost \in 0 .. ItemsIn(o) :
       /\ IF lost = 0 THEN UNCHANGED refused ELSE Refuses(lost)
       /\ SavedAs(o.player, Refund(memory[o.player], {o}, lost))
  /\ offers' = offers \ {o}    \* moveOfferToHistory
  /\ UNCHANGED <<status, nextId, old, results, crashes, cloned>>

\* Mutant: always acceptOffer.
ReduceOnly(o, n) ==
  offers' = (offers \ {o}) \union {[o EXCEPT !.amount = @ - n]}

\* deleteOffer or acceptOffer: the offer after n of it were accepted.
Reduce(o, n) ==
  offers' = (offers \ {o}) \union
              (IF n = o.amount THEN {} ELSE {[o EXCEPT !.amount = @ - n]})

\* playerAcceptMarketOffer takes offers that are past their time, too.
Acceptable(p, o, n) ==
  /\ Online(p)
  /\ n <= o.amount
  /\ o.player # p

AcceptBuy(p, o, n) ==
  /\ Acceptable(p, o, n)
  /\ ~o.sale
  /\ \/ RemovalFails(p, n)
     \/ /\ Has(memory[p], n)
        /\ BothAs(p, Earns(Gives(memory[p], n), o.price * n),
                  o.player, Receives(Found(o.player), n))
        /\ Reduce(o, n)
        /\ UNCHANGED nextId
  /\ UNCHANGED <<status, old, results, crashes, cloned, refused>>

AcceptSell(p, o, n) ==
  /\ Acceptable(p, o, n)
  /\ o.sale
  /\ o.price * n <= memory[p].money
  /\ BothAs(p, Receives(Pays(memory[p], o.price * n), n),
            o.player, Earns(Found(o.player), o.price * n))
  /\ Reduce(o, n)
  /\ UNCHANGED <<status, nextId, old, results, crashes, cloned, refused>>

\* The buyer's inbox takes only m of the items, after the seller was paid.  The
\* offer stays as it was, and the seller is not saved.
AcceptBuyFull(p, o, n, m) ==
  /\ Acceptable(p, o, n)
  /\ ~o.sale
  /\ Has(memory[p], n)
  /\ m < n /\ Refuses(n - m)
  /\ HalfAs(p, Earns(Gives(memory[p], n), o.price * n),
             o.player, Receives(Found(o.player), m))
  /\ cloned' = [cloned EXCEPT !.money = @ + o.price * n]
  /\ UNCHANGED <<status, offers, nextId, old, results, crashes>>

\* The inbox of the buyer, who has paid, takes only m of the items; the seller gets
\* the money, and the offer stays with all its items.
AcceptSellFull(p, o, n, m) ==
  /\ Acceptable(p, o, n)
  /\ o.sale
  /\ o.price * n <= memory[p].money
  /\ m < n /\ Refuses(0)
  /\ HalfAs(p, Receives(Pays(memory[p], o.price * n), m),
             o.player, Earns(Found(o.player), o.price * n))
  /\ cloned' = [cloned EXCEPT !.items = @ + m]
  /\ UNCHANGED <<status, offers, nextId, old, results, crashes>>

-----------------------------------------------------------------------------
(* Expiry.                                                                 *)

\* The next offer, in the order of creation, gets older than it may.
Age ==
  /\ old < nextId - 1
  /\ old' = old + 1
  /\ UNCHANGED <<status, memory, row, offers, nextId, results, crashes, cloned, refused>>

\* Mutant: created < lastExpireDate.
ExpiredBefore == {o \in offers : o.id < old}

\* The rows that the query selects.
Expired == {o \in offers : o.id <= old}

\* checkExpiredOffers: a thread of the pool reads the rows, and adds an event
\* that has them as they are now.
QueryExpired ==
  /\ Len(results) < MaxChecks
  /\ Expired # {}
  /\ results' = Append(results, Expired)
  /\ UNCHANGED <<status, memory, row, offers, nextId, old, crashes, cloned, refused>>

\* processExpiredOffers, for the oldest result.  Of each row whose offer is still
\* there the offer is moved to the history and what the row says is returned: to
\* the object in the game, or to a copy or the row itself.  What an inbox refuses of
\* it is lost.
ProcessExpired ==
  LET rows == {o \in Head(results) : \E now \in offers : now.id = o.id}
      gone == {now \in offers : \E o \in rows : o.id = now.id}
      Of(p) == {o \in rows : o.player = p}
  IN  /\ results # <<>>
      /\ results' = Tail(results)
      /\ offers' = offers \ gone
      /\ \E lost \in [Players -> 0 .. ItemsOffered(rows)] :
           /\ \A p \in Players : lost[p] <= ItemsOffered(Of(p))
           /\ IF SumFunction(lost) = 0 THEN UNCHANGED refused ELSE Refuses(SumFunction(lost))
           /\ memory' = [p \in Players |->
                          IF Online(p) THEN Refund(memory[p], Of(p), lost[p]) ELSE memory[p]]
           /\ row' = [p \in Players |->
                       IF Online(p) THEN row[p] ELSE Refund(row[p], Of(p), lost[p])]
      /\ cloned' = [items |-> cloned.items + ItemsOffered(rows) - ItemsOffered(gone),
                    money |-> cloned.money + MoneyOffered(rows) - MoneyOffered(gone)]
      /\ UNCHANGED <<status, nextId, old, crashes>>

-----------------------------------------------------------------------------
(* Players.                                                                *)

Become(p, s) == status' = [status EXCEPT ![p] = s]

Login(p) ==
  /\ status[p] = "offline"
  /\ Become(p, "online")
  /\ memory' = [memory EXCEPT ![p] = row[p]]
  /\ UNCHANGED <<row, offers, nextId, old, results, crashes, cloned, refused>>

\* Player::onRemoveCreature saves, and the object goes with its client.
Logout(p) ==
  /\ Online(p)
  /\ Become(p, "offline")
  /\ row' = [row EXCEPT ![p] = memory[p]]
  /\ memory' = [memory EXCEPT ![p] = Nothing]
  /\ UNCHANGED <<offers, nextId, old, results, crashes, cloned, refused>>

\* despawn: saved as in a logout, but the client keeps the object.
Die(p) ==
  /\ Online(p)
  /\ Become(p, "dead")
  /\ SavedAs(p, memory[p])
  /\ UNCHANGED <<offers, nextId, old, results, crashes, cloned, refused>>

\* parsePacketDead: the object comes back as it was.
Respawn(p) ==
  /\ status[p] = "dead"
  /\ Become(p, "online")
  /\ UNCHANGED <<memory, row, offers, nextId, old, results, crashes, cloned, refused>>

\* The client of a dead player goes away, and the object with it.
Release(p) ==
  /\ status[p] = "dead"
  /\ Become(p, "offline")
  /\ memory' = [memory EXCEPT ![p] = Nothing]
  /\ UNCHANGED <<row, offers, nextId, old, results, crashes, cloned, refused>>

\* The server dies between two events and starts again.
Crash ==
  /\ crashes < MaxCrashes
  /\ crashes' = crashes + 1
  /\ status' = [p \in Players |-> "offline"]
  /\ memory' = [p \in Players |-> Nothing]
  /\ results' = <<>>
  /\ UNCHANGED <<row, offers, nextId, old, cloned, refused>>

-----------------------------------------------------------------------------

Init ==
  /\ status = [p \in Players |-> "offline"]
  /\ memory = [p \in Players |-> Nothing]
  /\ row = Wealth
  /\ offers = {}
  /\ nextId = 1
  /\ old = 0
  /\ results = <<>>
  /\ crashes = 0
  /\ cloned = [items |-> 0, money |-> 0]
  /\ refused = [times |-> 0, lost |-> 0]

-----------------------------------------------------------------------------
(* Properties.                                                             *)

\* Every record counts natural numbers, offers have an amount left and differ in
\* their ids, and only online and dead players have an object.
TypeOK ==
  /\ status \in [Players -> {"online", "dead", "offline"}]
  /\ memory \in [Players -> Record]
  /\ \A p \in Players : status[p] = "offline" => memory[p] = Nothing
  /\ row \in [Players -> Record]
  /\ offers \subseteq [id : 1 .. nextId - 1, player : Players, sale : BOOLEAN,
                       amount : Nat \ {0}, price : Prices]
  /\ \A o1, o2 \in offers : o1.id = o2.id => o1 = o2
  /\ nextId \in 1 .. MaxId + 1
  /\ old \in 0 .. nextId - 1
  /\ Len(results) <= MaxChecks
  /\ crashes \in 0 .. MaxCrashes
  /\ cloned \in [items : Nat, money : Nat]
  /\ refused \in [times : 0 .. MaxRefusals, lost : Nat]

ItemsOf(r) == r.stash + r.locker
AllItems == SumFunction([p \in Players |-> ItemsOf(Found(p))]) + ItemsOffered(offers)
AllMoney == SumFunction([p \in Players |-> Found(p).money]) + MoneyOffered(offers)

\* An offer that is past its time leaves the table, again after a crash.
ExpiredLeave ==
  \A i \in 1 .. MaxId :
    (i <= old /\ \E o \in offers : o.id = i) ~> ~(\E o \in offers : o.id = i)
=============================================================================
