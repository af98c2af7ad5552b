-------------------------------- MODULE Bank ---------------------------------
(***************************************************************************)
(* The bank (game/bank/bank.cpp), the treasury of a guild and the eviction *)
(* of a house, over the records of players that Market keeps, together     *)
(* with the market.  A Bank object holds a player, a copy of one, or a     *)
(* guild, and saves it when it is destroyed, if it is not online.          *)
(*                                                                         *)
(* The bank is used by scripts; the model has transfers from a player that *)
(* talks to it or from its guild.  There is one guild and one house.       *)
(***************************************************************************)
EXTENDS Market

CONSTANTS
  GuildMembers,  \* the table guild_membership
  Treasury,      \* the guild's balance at the start
  HouseOwner,
  HouseItems,    \* at the start: the items in the house, by their owner
  MaxUnsaved,    \* bound: the bank moves no more between two saves of the server
  Scopes         \* bound: which of "market", "bank", "house" one behaviour uses

ASSUME BankAssumption ==
  /\ GuildMembers \subseteq Players
  /\ Treasury \in Nat
  /\ HouseOwner \in Players
  /\ HouseItems \in [Players -> Nat]
  /\ MaxUnsaved \in Nat
  /\ Scopes \subseteq SUBSET {"market", "bank", "house"}

VARIABLES
  scope,      \* a member of Scopes, for the whole behaviour
  guild,      \* the guild in Game::guilds, and its row
  house,      \* the items in the house, and in the table tile_store
  unsaved,    \* history: what bank, house and refused acceptances have moved since the
              \* server was saved
  unmade      \* history: what they had moved when the server crashed
bankVars == <<scope, guild, house, unsaved, unmade>>
allVars == <<vars, bankVars>>

\* An object of a player that died and whose client has gone.
Forgotten == "forgotten"

\* Nobody calls Guild::setOnline, so a guild that is not in Game::guilds is not
\* known to be offline.
Unknown(balance) == [inGame |-> FALSE, membersOnline |-> {}, balance |-> 0, row |-> balance]

\* The guild plays no part without the bank.
Members == IF "bank" \in scope THEN GuildMembers ELSE {}

GuildBalance == IF guild.inGame THEN guild.balance ELSE guild.row

\* Mutant: loading a player leaves its guild alone.
LoadsNothing(ps) == guild

\* loadPlayerGuild, when players or copies of them are loaded: the guild gets
\* into Game::guilds, also for a copy, which never joins membersOnline.
Loads(ps) ==
  IF guild.inGame \/ ps \intersect Members = {} THEN guild
  ELSE [guild EXCEPT !.inGame = TRUE, !.balance = @ + guild.row]

\* addMember
AddMember(g, p) == IF p \in Members THEN [g EXCEPT !.membersOnline = @ \union {p}] ELSE g

\* Mutant: the last one to leave takes the treasury along.
LeaveUnsaved(g, p) ==
  LET left == [g EXCEPT !.membersOnline = @ \ {p}]
  IN  IF p \in g.membersOnline /\ left.membersOnline = {} THEN Unknown(g.row) ELSE left

\* removeMember, and removeGuild after the last one
RemoveMember(g, p) ==
  LET left == [g EXCEPT !.membersOnline = @ \ {p}]
  IN  IF p \in g.membersOnline /\ left.membersOnline = {} THEN Unknown(g.balance) ELSE left

-----------------------------------------------------------------------------
(* Transfers.                                                              *)

Moves(n) ==
  /\ unsaved.money + n <= MaxUnsaved
  /\ unsaved' = [unsaved EXCEPT !.money = @ + n]
  /\ UNCHANGED <<status, offers, nextId, old, results, crashes, cloned, refused, house, unmade>>

\* A player gets money: an object in the game, or a copy that is saved.
Credited(p, n) ==
  IF Online(p)
  THEN memory' = [memory EXCEPT ![p] = Earns(@, n)] /\ row' = row
  ELSE row' = [row EXCEPT ![p] = Earns(@, n)] /\ memory' = memory

\* Mutant: the copy of the other player is not saved.
TransferToCopy(p, q, n) ==
  /\ Online(p) /\ p # q
  /\ n <= memory[p].money
  /\ memory' = [memory EXCEPT ![p] = Pays(@, n), ![q] = IF Online(q) THEN Earns(@, n) ELSE @]
  /\ UNCHANGED <<row, guild>>
  /\ Moves(n)

\* transferTo between players: only a copy is saved.
Transfer(p, q, n) ==
  /\ Online(p) /\ p # q
  /\ n <= memory[p].money
  /\ IF Online(q)
     THEN /\ memory' = [memory EXCEPT ![p] = Pays(@, n), ![q] = Earns(@, n)]
          /\ UNCHANGED <<row, guild>>
     ELSE /\ memory' = [memory EXCEPT ![p] = Pays(@, n)]
          /\ row' = [row EXCEPT ![q] = Earns(@, n)]
          /\ guild' = Loads({q})
  /\ Moves(n)

\* transferTo a guild by its name: a guild that is not in the game is loaded into
\* an object that claims to be online, and is not saved.
TransferToGuild(p, n) ==
  /\ Online(p)
  /\ n <= memory[p].money
  /\ memory' = [memory EXCEPT ![p] = Pays(@, n)]
  /\ guild' = IF guild.inGame THEN [guild EXCEPT !.balance = @ + n] ELSE guild
  /\ UNCHANGED row
  /\ Moves(n)

\* withdraw by a member, or transferTo from its guild
TransferFromGuild(p, q, n) ==
  /\ Online(p) /\ p \in guild.membersOnline
  /\ n <= guild.balance
  /\ guild' = [guild EXCEPT !.balance = @ - n]
  /\ Credited(q, n)
  /\ Moves(n)

-----------------------------------------------------------------------------
(* The house.                                                              *)

\* Mutant: every item is delivered, those that stay in the house, too.
DeliveredAll(q, n) == house.items[q]

\* Of n items of q that are put into its inbox, what is there after the saves: every
\* item of somebody else than the house's owner goes to a copy of its own, if that
\* player is not in the game, and the copies are saved one after the other.
Delivered(q, n) == IF q = HouseOwner \/ Online(q) THEN n ELSE Min({1, n})

\* What stays of the items of q when its inbox is full.  The copies that are loaded
\* for the single items are all alike.
MayStay(q) ==
  IF q = HouseOwner \/ Online(q) THEN 0 .. house.items[q] ELSE {0, house.items[q]}

\* Mutant: nobody is saved.
EvictUnsaved ==
  LET got == [q \in Players |-> Delivered(q, house.items[q])]
  IN  /\ \E q \in Players : house.items[q] > 0
      /\ memory' = [q \in Players |-> IF Online(q) THEN Receives(memory[q], got[q]) ELSE memory[q]]
      /\ row' = row
      /\ house' = [house EXCEPT !.items = [q \in Players |-> 0]]
      /\ guild' = Loads({q \in Players : ~Online(q) /\ (house.items[q] > 0 \/ q = HouseOwner)})
      /\ unsaved' = [unsaved EXCEPT !.items = @ + SumFunction(got)]
      /\ UNCHANGED <<status, offers, nextId, old, results, crashes, cloned, refused, unmade>>

\* setOwner(0) with transferToDepot: the owner and the owners of the items get
\* them into their inboxes, and all of them are saved.  What an inbox refuses stays.
Evict ==
  LET receivers == {q \in Players : house.items[q] > 0} \union {HouseOwner}
  IN  /\ \E q \in Players : house.items[q] > 0
      /\ \E stays \in [Players -> UNION {0 .. house.items[q] : q \in Players}] :
           LET sent == [q \in Players |-> Delivered(q, house.items[q] - stays[q])]
               got == [q \in Players |-> Receives(Found(q), sent[q])]
           IN  /\ \A q \in Players : stays[q] \in MayStay(q)
               /\ IF \A q \in Players : stays[q] = 0 THEN UNCHANGED refused ELSE Refuses(0)
               /\ memory' = [q \in Players |-> IF Online(q) THEN got[q] ELSE memory[q]]
               /\ row' = [q \in Players |-> IF q \in receivers THEN got[q] ELSE row[q]]
               /\ house' = [house EXCEPT !.items = stays]
               /\ unsaved' = [unsaved EXCEPT !.items = @ + SumFunction(sent)]
      /\ guild' = Loads({q \in receivers : ~Online(q)})
      /\ UNCHANGED <<status, offers, nextId, old, results, crashes, cloned, unmade>>

-----------------------------------------------------------------------------
(* What the market and the players do, with the guild.                     *)

SameGuild == guild' = guild
RestSame == UNCHANGED <<scope, house, unsaved, unmade>>
LoadsCopies(ps) == guild' = Loads({p \in ps : ~Online(p)})

MarketStep ==
  \/ \E p \in Players, n \in Amounts, price \in Prices :
       (CreateSell(p, n, price) \/ CreateBuy(p, n, price)) /\ SameGuild
  \/ \E p \in Players, n \in Amounts, o \in offers :
       (AcceptSell(p, o, n) \/ AcceptBuy(p, o, n)) /\ LoadsCopies({o.player})
  \/ \E o \in offers : Cancel(o) /\ SameGuild
  \/ Age /\ SameGuild

\* An acceptance that ends with an error: a crash before the handler's player is
\* saved gives back what it paid, and leaves what the other side got.
RefusedStep ==
  /\ \E p \in Players, n \in Amounts, o \in offers, m \in {0} \union Amounts :
       /\ \/ /\ AcceptBuyFull(p, o, n, m)
             /\ unsaved' = [unsaved EXCEPT !.items = @ + m]
          \/ /\ AcceptSellFull(p, o, n, m)
             /\ unsaved' = [unsaved EXCEPT !.money = @ + o.price * n]
       /\ LoadsCopies({o.player})
  /\ UNCHANGED <<scope, house, unmade>>

\* A copy is loaded for items; money is added to the row.
CheckOffers == QueryExpired /\ SameGuild /\ RestSame
ReturnOffers ==
  /\ ProcessExpired
  /\ LoadsCopies({o.player : o \in {r \in Head(results) : r.sale /\ \E now \in offers : now.id = r.id}})
  /\ RestSame

PlayerStep ==
  \E p \in Players :
    \/ Login(p) /\ guild' = AddMember(Loads({p}), p)
    \/ Logout(p) /\ guild' = RemoveMember(guild, p)
    \/ Die(p) /\ SameGuild
    \/ Respawn(p) /\ guild' = AddMember(guild, p)
    \/ Release(p) /\ guild' = IF p \in guild.membersOnline
                              THEN [guild EXCEPT !.membersOnline = (@ \ {p}) \union {Forgotten}]
                              ELSE guild

\* Mutant: the guilds are not saved.
SaveAllPlayers ==
  /\ row' = [p \in Players |-> Found(p)]
  /\ house' = [house EXCEPT !.row = house.items]
  /\ unsaved' = [money |-> 0, items |-> 0]
  /\ UNCHANGED <<status, memory, offers, nextId, old, results, crashes, cloned, refused, scope, guild, unmade>>

\* saveAll: the players in the game, the guilds and the map.
SaveAll ==
  /\ row' = [p \in Players |-> Found(p)]
  /\ guild' = [guild EXCEPT !.row = GuildBalance]
  /\ house' = [house EXCEPT !.row = house.items]
  /\ unsaved' = [money |-> 0, items |-> 0]
  /\ UNCHANGED <<status, memory, offers, nextId, old, results, crashes, cloned, refused, scope, unmade>>

CrashAll ==
  /\ Crash
  /\ guild' = Unknown(guild.row)
  /\ house' = [house EXCEPT !.items = house.row]
  /\ unmade' = [money |-> unmade.money + unsaved.money, items |-> unmade.items + unsaved.items]
  /\ unsaved' = [money |-> 0, items |-> 0]
  /\ UNCHANGED scope

-----------------------------------------------------------------------------

BankInit ==
  /\ Init
  /\ scope \in Scopes
  /\ guild = Unknown(Treasury)
  /\ house = [items |-> HouseItems, row |-> HouseItems]
  /\ unsaved = [money |-> 0, items |-> 0]
  /\ unmade = [money |-> 0, items |-> 0]

BankNext ==
  \/ /\ "bank" \in scope
     /\ \/ \E p, q \in Players, n \in Amounts : Transfer(p, q, n) \/ TransferFromGuild(p, q, n)
        \/ \E p \in Players, n \in Amounts : TransferToGuild(p, n)
     /\ UNCHANGED scope
  \/ "house" \in scope /\ Evict /\ UNCHANGED scope
  \/ "market" \in scope /\ ((MarketStep /\ RestSame) \/ RefusedStep)
  \/ CheckOffers \/ ReturnOffers
  \/ PlayerStep /\ RestSame
  \/ SaveAll \/ CrashAll

BankSpec ==
  BankInit /\ [][BankNext]_allVars /\ WF_allVars(CheckOffers) /\ WF_allVars(ReturnOffers)

-----------------------------------------------------------------------------
(* Properties.                                                             *)

\* Every variable has its type, and a guild is in the game when a member is.
BankTypeOK ==
  /\ TypeOK
  /\ scope \in Scopes
  /\ guild \in [inGame : BOOLEAN, membersOnline : SUBSET (GuildMembers \union {Forgotten}),
                balance : Nat, row : Nat]
  /\ guild.membersOnline # {} => guild.inGame
  /\ Members \intersect {p \in Players : Online(p)} \subseteq guild.membersOnline
  /\ house \in [items : [Players -> Nat], row : [Players -> Nat]]
  /\ unsaved \in [money : Nat, items : Nat]
  /\ unmade \in [money : Nat, items : Nat]

Items == AllItems + SumFunction(house.items)
Money == AllMoney + GuildBalance

\* However the market, the bank, the eviction of a house, logouts, deaths, saves and
\* a crash follow each other, there is never more than at the start: but for an
\* offer that was accepted in part after the check read its row, which returns the
\* whole row; for an acceptance that a full inbox ends in the middle, which leaves
\* the offer as it was; and for what such an acceptance, the bank and the house had
\* moved since the last save of the server when it crashed.
NothingCloned ==
  /\ Items <= SumFunction([p \in Players |-> ItemsOf(Wealth[p]) + HouseItems[p]])
              + cloned.items + unmade.items
  /\ Money <= SumFunction([p \in Players |-> Wealth[p].money]) + Treasury
              + cloned.money + unmade.money

\* The steps that lose something: a crash; the return of a dead player whose row
\* was changed meanwhile; a refused offer of more items than the player has; an
\* eviction with several items of one player that is not in the game; and a
\* transfer to a guild that is not in the game.
Loses ==
  \/ crashes' # crashes
  \/ \E p \in Players :
       \/ status[p] = "dead" /\ Online(p)' /\ memory[p] # row[p]
       \/ /\ Online(p) /\ UNCHANGED <<status, row, offers, house>>
          /\ ItemsOf(memory'[p]) = 0 /\ Money' = Money
       \/ house.items[p] > house'.items[p] + 1 /\ p # HouseOwner /\ ~Online(p)
  \/ ~guild.inGame /\ unsaved'.money > unsaved.money /\ row' = row /\ status' = status

\* No other step loses an item, or money but for the fee of a new offer, whoever is
\* offline or dead.  The items that a full inbox loses, when an offer ends or is
\* accepted, are counted.
NothingLost ==
  [][\/ Loses
     \/ /\ Items' + refused'.lost >= Items + refused.lost
        /\ \E fee \in Fees \union {0} :
             Money' >= Money - fee /\ (nextId' = nextId => fee = 0)]_allVars
=============================================================================
