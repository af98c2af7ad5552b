----------------------------- MODULE TradeProofs -----------------------------
(***************************************************************************)
(* Proofs about Trade, for every set of players, items and spots, with     *)
(* finitely many containers: that partners agree, and, once the tree of    *)
(* items is characterised, what happens to an item between its offer and   *)
(* the exchange.                                                           *)
(***************************************************************************)
EXTENDS Trade, FiniteSetTheorems, WellFoundedInduction, TLAPS

\* What the proofs need of the types: the four variables of the trades.
TradesType ==
  /\ online \subseteq Players
  /\ tradeState \in [Players -> {"none", "acknowledge", "initiated", "accept"}]
  /\ tradePartner \in [Players -> Players \union {NoPlayer}]
  /\ tradeItem \in [Players -> Items \union {NoItem}]

\* Whom Close(ps) closes the trade of.
Closed(ps) == {p \in Players : p \in ps \/ \E r \in ps : tradePartner[r] = p}

\* The table of traded items names what the players trade, one item each.
TableExact ==
  /\ tradeItems = {tradeItem[p] : p \in Players} \ {NoItem}
  /\ \A p, r \in Players : p # r /\ tradeItem[p] = tradeItem[r] => tradeItem[p] = NoItem

IInv == TradesType /\ PartnersAgree /\ TableExact

-----------------------------------------------------------------------------

\* internalCloseTrade closes both sides, so whoever keeps a trade keeps its
\* partner: the trades of the players that go on agree as before, if no one of
\* them leaves the game.
LEMMA CloseAgrees ==
  ASSUME NEW ps \in SUBSET Players, IInv, Close(ps),
         online' \subseteq Players,
         \A p \in online \ online' : p \in ps \/ tradePartner[p] = NoPlayer
  PROVE  IInv'
  <1> USE TradeAssumption
  <1> DEFINE C == Closed(ps)
  <1>1. /\ tradeState' = [p \in Players |-> IF p \in C THEN "none" ELSE tradeState[p]]
        /\ tradePartner' = [p \in Players |-> IF p \in C THEN NoPlayer ELSE tradePartner[p]]
        /\ tradeItem' = [p \in Players |-> IF p \in C THEN NoItem ELSE tradeItem[p]]
        /\ tradeItems' = tradeItems \ {tradeItem[p] : p \in C}
    BY DEF Close, Closed
  <1>2. ASSUME NEW p \in Players, tradePartner[p] # NoPlayer
        PROVE  p \in C <=> tradePartner[p] \in C
    BY <1>2 DEF IInv, TradesType, PartnersAgree, Closed
  <1>3. C \subseteq Players /\ ps \subseteq C
    BY DEF Closed
  <1> HIDE DEF C
  <1>4. TradesType'
    BY <1>1 DEF IInv, TradesType
  <1>5. PartnersAgree'
    BY <1>1, <1>2, <1>3, SMTT(20) DEF IInv, TradesType, PartnersAgree
  <1>6. TableExact'
    <2>1. \A p, r \in Players : p # r /\ tradeItem'[p] = tradeItem'[r] => tradeItem'[p] = NoItem
      BY <1>1 DEF IInv, TradesType, TableExact
    <2>2. \A i \in Items : (\E p \in Players : tradeItem'[p] = i)
                             <=> (\E p \in Players \ C : tradeItem[p] = i)
      BY <1>1 DEF IInv, TradesType
    <2>3. ASSUME NEW i \in Items
          PROVE  i \in tradeItems' <=> \E p \in Players \ C : tradeItem[p] = i
      BY <1>1, <1>3 DEF IInv, TradesType, TableExact
    <2>4. tradeItems' \subseteq Items /\ {tradeItem'[p] : p \in Players} \ {NoItem} \subseteq Items
      BY <1>1, <1>3, <1>4 DEF IInv, TradesType, TableExact
    <2> QED
      BY <2>1, <2>2, <2>3, <2>4 DEF TableExact
  <1> QED
    BY <1>4, <1>5, <1>6 DEF IInv

\* A request: the guards leave only two situations, a player without a trade that
\* asks one without, or one that was asked and answers the same partner.
LEMMA RequestAgrees ==
  ASSUME NEW p \in Players, NEW partner \in Players, NEW i \in Items,
         IInv, PlayerRequestTrade(p, partner, i)
  PROVE  IInv'
  <1> USE TradeAssumption
  <1>1. i # NoItem /\ \A r \in Players : tradeItem[r] # i
    BY DEF PlayerRequestTrade, Free, IInv, TableExact
  <1>2. /\ tradeItem' = [tradeItem EXCEPT ![p] = i]
        /\ tradeItems' = tradeItems \union {i}
        /\ online' = online
        /\ p # partner /\ p \in online /\ partner \in online
    BY DEF PlayerRequestTrade
  <1>3. tradeItem[p] = NoItem
    BY DEF PlayerRequestTrade, IInv, PartnersAgree, TradesType
  <1>4. TableExact'
    BY <1>1, <1>2, <1>3 DEF IInv, TradesType, TableExact
  <1>5. CASE tradeState[p] = "none"
    <2>1. tradeState[partner] = "none" /\ tradePartner[partner] = NoPlayer /\ tradeItem[partner] = NoItem
      BY <1>5 DEF PlayerRequestTrade, IInv, PartnersAgree, TradesType
    <2>2. /\ tradeState' = [tradeState EXCEPT ![p] = "initiated", ![partner] = "acknowledge"]
          /\ tradePartner' = [tradePartner EXCEPT ![p] = partner, ![partner] = p]
      BY <2>1 DEF PlayerRequestTrade
    <2>3. TradesType'
      BY <1>2, <2>2 DEF IInv, TradesType
    <2>4. \A r \in Players : tradePartner[r] \notin {p, partner}
      BY <1>5, <2>1 DEF IInv, PartnersAgree, TradesType
    <2>5. PartnersAgree'
      BY <1>1, <1>2, <1>3, <2>1, <2>2, <2>4 DEF IInv, TradesType, PartnersAgree
    <2> QED
      BY <1>4, <2>3, <2>5 DEF IInv
  <1>6. CASE tradeState[p] # "none"
    <2>1. tradeState[p] = "acknowledge" /\ tradePartner[p] = partner
      BY <1>6 DEF PlayerRequestTrade
    <2>2. tradeState[partner] # "none"
      BY <2>1 DEF IInv, PartnersAgree, TradesType
    <2>3. /\ tradeState' = [tradeState EXCEPT ![p] = "initiated"]
          /\ tradePartner' = tradePartner
      BY <2>1, <2>2 DEF PlayerRequestTrade, IInv, TradesType
    <2>4. TradesType'
      BY <1>2, <2>3 DEF IInv, TradesType
    <2>5. PartnersAgree'
      BY <1>1, <1>2, <2>1, <2>3 DEF IInv, TradesType, PartnersAgree
    <2> QED
      BY <1>4, <2>4, <2>5 DEF IInv
  <1> QED
    BY <1>5, <1>6

\* The first acceptance changes one state, and nothing else.
LEMMA AcceptFirstAgrees ==
  ASSUME NEW p \in Players, IInv, AcceptFirst(p)
  PROVE  IInv'
  <1> USE TradeAssumption
  <1>1. /\ tradeState' = [tradeState EXCEPT ![p] = "accept"]
        /\ tradeState[p] # "none"
        /\ UNCHANGED <<online, tradePartner, tradeItem, tradeItems>>
    BY DEF AcceptFirst
  <1>2. TradesType' /\ TableExact'
    BY <1>1 DEF IInv, TradesType, TableExact
  <1>3. PartnersAgree'
    BY <1>1 DEF IInv, TradesType, PartnersAgree
  <1> QED
    BY <1>2, <1>3 DEF IInv

\* Every other step closes trades, or changes none.
LEMMA OthersAgree ==
  ASSUME NEW p \in Players, IInv,
         \/ PlayerCloseTrade(p) \/ AcceptSecond(p)
         \/ \E i \in Items, to \in {p} \union Ground \union Containers : MoveItem(p, i, to)
         \/ \E i \in Items : UseItem(p, i)
         \/ \E x \in Spots : Walk(p, x)
         \/ Leave(p) \/ Enter(p)
  PROVE  IInv'
  <1> USE TradeAssumption
  <1>1. online \subseteq Players
    BY DEF IInv, TradesType
  <1>2. CASE PlayerCloseTrade(p)
    <2>1. Close({p}) /\ online' = online
      BY <1>2 DEF PlayerCloseTrade
    <2> QED
      BY <1>1, <2>1, CloseAgrees
  <1>3. CASE AcceptSecond(p)
    <2>1. PICK ps \in SUBSET Players : Close(ps)
      BY <1>3 DEF AcceptSecond
    <2>2. online' = online
      BY <1>3 DEF AcceptSecond
    <2> QED
      BY <1>1, <2>1, <2>2, CloseAgrees
  <1>4. CASE \E i \in Items, to \in {p} \union Ground \union Containers : MoveItem(p, i, to)
    <2>1. PICK i, to : MoveItem(p, i, to)
      BY <1>4
    <2>2. Close(Touched(Players, i, to)) /\ online' = online
      BY <2>1 DEF MoveItem
    <2>3. Touched(Players, i, to) \in SUBSET Players
      BY DEF Touched
    <2> QED
      BY <1>1, <2>2, <2>3, CloseAgrees
  <1>5. CASE \E i \in Items : UseItem(p, i)
    <2>1. PICK ps \in SUBSET Players : Close(ps)
      BY <1>5 DEF UseItem
    <2>2. online' = online
      BY <1>5 DEF UseItem
    <2> QED
      BY <1>1, <2>1, <2>2, CloseAgrees
  <1>6. CASE \E x \in Spots : Walk(p, x)
    <2>1. PICK ps \in SUBSET Players : Close(ps)
      BY <1>6 DEF Walk
    <2>2. online' = online
      BY <1>6 DEF Walk
    <2> QED
      BY <1>1, <2>1, <2>2, CloseAgrees
  <1>7. CASE Leave(p)
    <2> DEFINE ps == {r \in {p} : tradePartner[p] # NoPlayer}
    <2>1. Close(ps) /\ online' = online \ {p}
      BY <1>7 DEF Leave
    <2>2. ps \in SUBSET Players /\ \A r \in online \ online' : r \in ps \/ tradePartner[r] = NoPlayer
      BY <2>1
    <2> HIDE DEF ps
    <2> QED
      BY <1>1, <2>1, <2>2, CloseAgrees
  <1>8. CASE Enter(p)
    BY <1>1, <1>8 DEF Enter, trades, IInv, TradesType, PartnersAgree, TableExact
  <1> QED
    BY <1>2, <1>3, <1>4, <1>5, <1>6, <1>7, <1>8

\* A trade is always between two players in the game, each the other's partner,
\* with something to give on one side: after any order of requests, acceptances,
\* moves, walks and departures of any number of players (playerRequestTrade,
\* playerAcceptTrade, internalCloseTrade and the hooks that close trades).
THEOREM PartnersAgreeHolds == Spec => []PartnersAgree
  <1>1. Init => IInv
    BY TradeAssumption DEF Init, IInv, TradesType, PartnersAgree, TableExact
  <1>2. IInv /\ [Next]_vars => IInv'
    <2> SUFFICES ASSUME IInv, [Next]_vars PROVE IInv'
      OBVIOUS
    <2>1. CASE UNCHANGED vars
      BY <2>1 DEF vars, trades, IInv, TradesType, PartnersAgree, TableExact
    <2>2. CASE Next
      <3>1. PICK p \in Players :
              \/ \E partner \in Players, i \in Items : PlayerRequestTrade(p, partner, i)
              \/ PlayerCloseTrade(p) \/ AcceptFirst(p) \/ AcceptSecond(p)
              \/ \E i \in Items, to \in {p} \union Ground \union Containers : MoveItem(p, i, to)
              \/ \E i \in Items : UseItem(p, i)
              \/ \E x \in Spots : Walk(p, x)
              \/ Leave(p) \/ Enter(p)
        BY <2>2 DEF Next
      <3> QED
        BY <3>1, RequestAgrees, AcceptFirstAgrees, OthersAgree
    <2> QED
      BY <2>1, <2>2
  <1>3. IInv => PartnersAgree
    BY DEF IInv
  <1> QED
    BY <1>1, <1>2, <1>3, PTL DEF Spec

-----------------------------------------------------------------------------
(* Induction, and iteration: what the recursion in Holders needs.          *)

\* Where an item may be.
Homes == Players \union Ground \union Containers

\* Every set of natural numbers has a least one: the order of Nat is well founded.
LEMMA Least ==
  ASSUME NEW T \in SUBSET Nat, T # {}
  PROVE  \E x \in T : \A y \in T : x <= y
  <1>1. PICK R : /\ IsWellFoundedOn(R, Nat)
                 /\ \A x, y \in Nat : x < y => <<x, y>> \in R
    BY NatLessThanWellFounded DEF OpToRel
  <1>2. IsWellFoundedOn(R, Nat) /\ T \subseteq Nat
    BY <1>1
  <1>3. PICK x \in T : \A y \in T : ~ (<<y, x>> \in R)
    BY <1>2, WFMin
  <1>4. \A y \in T : x \in Nat /\ y \in Nat /\ ~ (y < x)
    BY <1>1, <1>3
  <1> QED
    BY <1>4

\* Induction, over the set of the numbers that have the property.
LEMMA Induction ==
  ASSUME NEW S \in SUBSET Nat, 0 \in S, \A n \in S : n + 1 \in S
  PROVE  \A n \in Nat : n \in S
  <1> SUFFICES ASSUME Nat \ S # {} PROVE FALSE
    OBVIOUS
  <1>1. PICK x \in Nat \ S : \A y \in Nat \ S : x <= y
    BY Least
  <1>2. x - 1 \in Nat /\ x - 1 \notin Nat \ S
    BY <1>1
  <1> QED
    BY <1>1, <1>2

\* g iterates G from x, for n steps at least.
Iterates(g, x, G, n) == g[0] = x /\ \A m \in 1 .. n : g[m] = G[g[m - 1]]

\* A function over 0 .. K can be defined from its value at 0 and a step.
LEMMA Iterated ==
  ASSUME NEW V, NEW x \in V, NEW G \in [V -> V], NEW K \in Nat
  PROVE  \E g \in [0 .. K -> V] : Iterates(g, x, G, K)
  <1> DEFINE Good(g, n) == g[0] = x /\ \A m \in 1 .. K : m <= n => g[m] = G[g[m - 1]]
             S == {n \in Nat : \E g \in [0 .. K -> V] : Good(g, n)}
  <1>1. 0 \in S
    <2>1. Good([m \in 0 .. K |-> x], 0)
      OBVIOUS
    <2> QED
      BY <2>1
  <1>2. ASSUME NEW n \in S PROVE n + 1 \in S
    <2>1. n \in Nat /\ \E g \in [0 .. K -> V] : Good(g, n)
      OBVIOUS
    <2>2. PICK g \in [0 .. K -> V] : Good(g, n)
      BY <2>1
    <2> DEFINE h == [m \in 0 .. K |-> IF m = n + 1 THEN G[g[n]] ELSE g[m]]
    <2>3. CASE n + 1 \in 1 .. K
      <3>1. n \in 0 .. K /\ g[n] \in V
        BY <2>1, <2>3
      <3>2. h \in [0 .. K -> V]
        BY <3>1
      <3>3. h[0] = x /\ h[n + 1] = G[h[n]]
        BY <2>1, <2>2, <2>3
      <3>4. \A m \in 1 .. K : m <= n => h[m] = G[h[m - 1]]
        BY <2>1, <2>2
      <3> HIDE DEF h
      <3>5. \A m \in 1 .. K : m <= n + 1 => h[m] = G[h[m - 1]]
        BY <2>1, <3>3, <3>4
      <3>6. Good(h, n + 1)
        BY <3>3, <3>5
      <3>7. \E f \in [0 .. K -> V] : Good(f, n + 1)
        <4> HIDE DEF Good
        <4> QED
          BY <3>2, <3>6
      <3> HIDE DEF Good, h
      <3> QED
        BY <2>1, <3>7
    <2>4. CASE n + 1 \notin 1 .. K
      <3>1. \A m \in 1 .. K : m <= n
        BY <2>1, <2>4
      <3>2. Good(g, n + 1)
        BY <2>2, <3>1
      <3>3. \E f \in [0 .. K -> V] : Good(f, n + 1)
        <4> HIDE DEF Good
        <4> QED
          BY <3>2
      <3> HIDE DEF Good
      <3> QED
        BY <2>1, <3>3
    <2> QED
      BY <2>3, <2>4
  <1>3. K \in S
    <2> HIDE DEF S
    <2>1. S \in SUBSET Nat
      BY DEF S
    <2> QED
      BY <1>1, <1>2, <2>1, Induction
  <1>4. PICK g \in [0 .. K -> V] : Good(g, K)
    BY <1>3
  <1> QED
    BY <1>4 DEF Iterates

-----------------------------------------------------------------------------
(* What is above an item.                                                  *)

\* W holds what i is in, and what anything in W is in.
Encloses(at, i, W) == at[i] \in W /\ \A c \in W \intersect Containers : at[c] \in W

\* One step up.
Above(at, U) == U \union {at[c] : c \in U \intersect Containers}

\* The recursion in Holders, step by step: its function exists, and its values are
\* sets of homes.
LEMMA HoldersSteps ==
  ASSUME NEW at \in [Items -> Homes], NEW i \in Items
  PROVE  \E up \in [0 .. Cardinality(Containers) -> SUBSET Homes] :
           /\ up[0] = {at[i]}
           /\ \A n \in 1 .. Cardinality(Containers) : up[n] = Above(at, up[n - 1])
           /\ Holders(at, i) = up[Cardinality(Containers)]
  <1> DEFINE K == Cardinality(Containers)
             Body(f) == [n \in 0 .. K |-> IF n = 0 THEN {at[i]} ELSE Above(at, f[n - 1])]
             G == [U \in SUBSET Homes |-> Above(at, U)]
             up == CHOOSE f : f = Body(f)
  <1>1. K \in Nat /\ Containers \subseteq Items
    BY TradeAssumption, FS_CardinalityType
  <1>2. {at[i]} \in SUBSET Homes /\ \A U \in SUBSET Homes : Above(at, U) \in SUBSET Homes
    BY <1>1 DEF Above
  <1>3. Holders(at, i) = up[K]
    BY DEF Holders, Above
  <1> HIDE DEF K
  <1>4. G \in [SUBSET Homes -> SUBSET Homes]
    BY <1>2
  <1>5. PICK g \in [0 .. K -> SUBSET Homes] :
          g[0] = {at[i]} /\ \A n \in 1 .. K : g[n] = G[g[n - 1]]
    <2> HIDE DEF G
    <2> DEFINE V == SUBSET Homes
               x == {at[i]}
    <2>1. K \in Nat /\ x \in V /\ G \in [V -> V]
      BY <1>1, <1>2, <1>4
    <2> HIDE DEF V, x
    <2>2. \E g \in [0 .. K -> V] : Iterates(g, x, G, K)
      BY <2>1, Iterated
    <2> QED
      BY <2>2 DEF V, x, Iterates
  <1>6. g = Body(g)
    <2>1. ASSUME NEW n \in 0 .. K PROVE g[n] = IF n = 0 THEN {at[i]} ELSE Above(at, g[n - 1])
      <3>1. CASE n = 0
        BY <1>5, <3>1
      <3>2. CASE n # 0
        <4>1. n \in 1 .. K /\ n - 1 \in 0 .. K
          BY <1>1, <3>2
        <4>2. g[n] = G[g[n - 1]] /\ g[n - 1] \in SUBSET Homes
          BY <1>5, <4>1
        <4> QED
          BY <3>2, <4>2
      <3> QED
        BY <3>1, <3>2
    <2> QED
      BY <2>1
  <1>7. up = Body(up)
    BY <1>6
  <1> HIDE DEF up
  <1>8. /\ up[0] = {at[i]}
        /\ \A n \in 1 .. K : up[n] = Above(at, up[n - 1])
    <2>1. \A n \in 0 .. K : up[n] = IF n = 0 THEN {at[i]} ELSE Above(at, up[n - 1])
      BY <1>7
    <2> QED
      BY <1>1, <2>1
  <1>9. \A n \in 0 .. K : up[n] \in SUBSET Homes
    <2> DEFINE S == {n \in Nat : n <= K => up[n] \in SUBSET Homes}
    <2>1. 0 \in S
      BY <1>2, <1>8
    <2>2. ASSUME NEW n \in S PROVE n + 1 \in S
      <3>1. n \in Nat /\ (n <= K => up[n] \in SUBSET Homes)
        OBVIOUS
      <3>2. ASSUME n + 1 <= K PROVE up[n + 1] \in SUBSET Homes
        <4>1. n + 1 \in 1 .. K /\ n <= K /\ (n + 1) - 1 = n
          BY <1>1, <3>1, <3>2
        <4>2. up[n + 1] = Above(at, up[n])
          BY <1>8, <4>1
        <4> QED
          BY <1>2, <3>1, <4>1, <4>2
      <3> QED
        BY <3>1, <3>2
    <2>3. S \in SUBSET Nat
      OBVIOUS
    <2>4. \A n \in Nat : n \in S
      <3> HIDE DEF S
      <3> QED
        BY <2>1, <2>2, <2>3, Induction
    <2> QED
      BY <1>1, <2>4
  <1>10. up \in [0 .. K -> SUBSET Homes]
    BY <1>7, <1>9
  <1> QED
    BY <1>3, <1>8, <1>10 DEF K

\* Holders reaches the top in as many steps as there are containers: a step that
\* adds anything later than the first adds a container.
LEMMA HoldersEnclose ==
  ASSUME NEW at \in [Items -> Homes], NEW i \in Items
  PROVE  Holders(at, i) \in SUBSET Homes /\ Encloses(at, i, Holders(at, i))
  <1> DEFINE K == Cardinality(Containers)
  <1>1. PICK up \in [0 .. K -> SUBSET Homes] :
          /\ up[0] = {at[i]}
          /\ \A n \in 1 .. K : up[n] = Above(at, up[n - 1])
          /\ Holders(at, i) = up[K]
    BY HoldersSteps
  <1>2. K \in Nat /\ Containers \subseteq Items /\ IsFiniteSet(Containers)
    BY TradeAssumption, FS_CardinalityType
  <1>3. \A U : /\ IsFiniteSet(U \intersect Containers)
               /\ Cardinality(U \intersect Containers) \in Nat
               /\ Cardinality(U \intersect Containers) <= K
    <2> TAKE U
    <2>1. U \intersect Containers \subseteq Containers
      OBVIOUS
    <2> QED
      BY <1>2, <2>1, FS_Subset, FS_CardinalityType
  <1> HIDE DEF K
  <1> DEFINE Good(n) == /\ at[i] \in up[n]
                        /\ \/ Encloses(at, i, up[n])
                           \/ Cardinality(up[n] \intersect Containers) >= n + 1
             S == {n \in Nat : n <= K => Good(n)}
  <1>4. 0 \in S
    <2>1. ASSUME at[i] \in Containers PROVE Good(0)
      <3>1. up[0] \intersect Containers = {at[i]}
        BY <1>1, <2>1
      <3>2. Cardinality({at[i]}) = 1
        BY FS_Singleton
      <3> DEFINE C == up[0] \intersect Containers
      <3>3. Cardinality(C) = 1
        <4> HIDE DEF C
        <4> QED
          BY <3>1, <3>2 DEF C
      <3>4. at[i] \in up[0]
        BY <1>1
      <3>5. Cardinality(C) >= 0 + 1
        <4> HIDE DEF C
        <4> QED
          BY <3>3
      <3> QED
        BY <3>4, <3>5
    <2>2. ASSUME at[i] \notin Containers PROVE Good(0)
      <3>1. Encloses(at, i, up[0]) /\ at[i] \in up[0]
        BY <1>1, <2>2 DEF Encloses
      <3> QED
        BY <3>1
    <2>3. Good(0)
      BY <2>1, <2>2
    <2> HIDE DEF Good
    <2> QED
      BY <2>3
  <1>5. ASSUME NEW n \in S PROVE n + 1 \in S
    <2>1. n \in Nat /\ (n <= K => Good(n))
      OBVIOUS
    <2>2. ASSUME n + 1 <= K PROVE Good(n + 1)
      <3>1. n + 1 \in 1 .. K /\ n <= K /\ (n + 1) - 1 = n
        BY <1>2, <2>1, <2>2
      <3>2. up[n + 1] = Above(at, up[n]) /\ Good(n)
        BY <1>1, <2>1, <3>1
      <3> DEFINE C == up[n] \intersect Containers
                 D == up[n + 1] \intersect Containers
      <3>3. at[i] \in up[n + 1] /\ C \subseteq D
        BY <3>2 DEF Above
      <3>4. CASE Encloses(at, i, up[n])
        <4>1. up[n + 1] = up[n]
          BY <3>2, <3>4 DEF Above, Encloses
        <4> QED
          BY <3>3, <3>4, <4>1
      <3>5. CASE Cardinality(C) >= n + 1 /\ D = C
        BY <3>2, <3>3, <3>5 DEF Above, Encloses
      <3>6. CASE Cardinality(C) >= n + 1 /\ D # C
        <4>1. IsFiniteSet(D) /\ Cardinality(C) \in Nat /\ Cardinality(D) \in Nat
          BY <1>3
        <4>2. Cardinality(C) < Cardinality(D)
          <5> HIDE DEF C, D
          <5> QED
            BY <3>3, <3>6, <4>1, FS_Subset
        <4>3. Cardinality(D) >= (n + 1) + 1
          <5> HIDE DEF C, D
          <5> QED
            BY <2>1, <3>6, <4>1, <4>2
        <4> QED
          BY <3>3, <4>3
      <3> QED
        BY <3>2, <3>4, <3>5, <3>6
    <2> HIDE DEF Good
    <2> QED
      BY <2>1, <2>2
  <1>6. \A n \in Nat : n \in S
    <2>1. S \in SUBSET Nat
      OBVIOUS
    <2> HIDE DEF S
    <2> QED
      BY <1>4, <1>5, <2>1, Induction
  <1>7. Good(K)
    <2> HIDE DEF Good
    <2> QED
      BY <1>2, <1>6
  <1>8. Encloses(at, i, up[K])
    <2> DEFINE n == Cardinality(up[K] \intersect Containers)
    <2>1. n \in Nat /\ n <= K
      BY <1>3
    <2>2. Encloses(at, i, up[K]) \/ n >= K + 1
      BY <1>7
    <2> HIDE DEF n
    <2> QED
      BY <1>2, <2>1, <2>2
  <1>9. up[K] \in SUBSET Homes
    BY <1>1, <1>2
  <1> QED
    BY <1>1, <1>8, <1>9

\* ... and holds nothing else: whatever encloses i holds it.
LEMMA HoldersLeast ==
  ASSUME NEW at \in [Items -> Homes], NEW i \in Items, NEW W, Encloses(at, i, W)
  PROVE  Holders(at, i) \subseteq W
  <1> DEFINE K == Cardinality(Containers)
  <1>1. PICK up \in [0 .. K -> SUBSET Homes] :
          /\ up[0] = {at[i]}
          /\ \A n \in 1 .. K : up[n] = Above(at, up[n - 1])
          /\ Holders(at, i) = up[K]
    BY HoldersSteps
  <1>2. K \in Nat
    BY TradeAssumption, FS_CardinalityType
  <1> HIDE DEF K
  <1> DEFINE S == {n \in Nat : n <= K => up[n] \subseteq W}
  <1>3. 0 \in S
    BY <1>1 DEF Encloses
  <1>4. ASSUME NEW n \in S PROVE n + 1 \in S
    <2>1. n \in Nat /\ (n <= K => up[n] \subseteq W)
      OBVIOUS
    <2>2. ASSUME n + 1 <= K PROVE up[n + 1] \subseteq W
      <3>1. n + 1 \in 1 .. K /\ n <= K /\ (n + 1) - 1 = n
        BY <1>2, <2>1, <2>2
      <3>2. up[n + 1] = Above(at, up[n]) /\ up[n] \subseteq W
        BY <1>1, <2>1, <3>1
      <3> QED
        BY <3>2 DEF Above, Encloses
    <2> QED
      BY <2>1, <2>2
  <1>5. \A n \in Nat : n \in S
    <2>1. S \in SUBSET Nat
      OBVIOUS
    <2> HIDE DEF S
    <2> QED
      BY <1>3, <1>4, <2>1, Induction
  <1> QED
    BY <1>1, <1>2, <1>5

\* What holds i, one home at a time: what it is in, and what holds that.
LEMMA HoldersUp ==
  ASSUME NEW at \in [Items -> Homes], NEW i \in Items
  PROVE  Holders(at, i) = {at[i]} \union IF at[i] \in Containers THEN Holders(at, at[i]) ELSE {}
  <1> DEFINE H == IF at[i] \in Containers THEN Holders(at, at[i]) ELSE {}
  <1>1. Encloses(at, i, Holders(at, i))
    BY HoldersEnclose
  <1>2. Encloses(at, i, {at[i]} \union H)
    <2>1. CASE at[i] \in Containers
      <3>1. Encloses(at, at[i], Holders(at, at[i]))
        BY <2>1, TradeAssumption, HoldersEnclose
      <3> QED
        BY <2>1, <3>1 DEF Encloses
    <2>2. CASE at[i] \notin Containers
      BY <2>2 DEF Encloses
    <2> QED
      BY <2>1, <2>2
  <1>3. H \subseteq Holders(at, i)
    <2>1. CASE at[i] \in Containers
      <3>1. Encloses(at, at[i], Holders(at, i)) /\ at[i] \in Items
        BY <1>1, <2>1, TradeAssumption DEF Encloses
      <3> QED
        BY <2>1, <3>1, HoldersLeast
    <2> QED
      BY <2>1
  <1>4. Holders(at, i) \subseteq {at[i]} \union H
    <2> HIDE DEF H
    <2> QED
      BY <1>2, HoldersLeast
  <1> QED
    BY <1>1, <1>3, <1>4 DEF Encloses

\* What holds a container that holds i holds i too.
LEMMA HoldersInclude ==
  ASSUME NEW at \in [Items -> Homes], NEW i \in Items, NEW c \in Holders(at, i) \intersect Containers
  PROVE  c \in Items /\ Holders(at, c) \subseteq Holders(at, i)
  <1>1. c \in Items
    BY TradeAssumption
  <1>2. Encloses(at, c, Holders(at, i))
    BY HoldersEnclose DEF Encloses
  <1> QED
    BY <1>1, <1>2, HoldersLeast

\* If nothing that holds i moves, nor i, then the same things hold i.
LEMMA HoldersSame ==
  ASSUME NEW at \in [Items -> Homes], NEW new \in [Items -> Homes], NEW i \in Items,
         new[i] = at[i], \A c \in Holders(at, i) \intersect Containers : new[c] = at[c]
  PROVE  Holders(new, i) = Holders(at, i)
  <1>1. Encloses(new, i, Holders(at, i))
    BY HoldersEnclose DEF Encloses
  <1>2. Holders(new, i) \subseteq Holders(at, i)
    BY <1>1, HoldersLeast
  <1>3. Encloses(at, i, Holders(new, i))
    <2>1. Encloses(new, i, Holders(new, i))
      BY HoldersEnclose
    <2> QED
      BY <1>2, <2>1 DEF Encloses
  <1>4. Holders(at, i) \subseteq Holders(new, i)
    BY <1>3, HoldersLeast
  <1> QED
    BY <1>2, <1>4

-----------------------------------------------------------------------------
(* Roots, and moves.                                                       *)

\* No container is in itself: at the top there is a player or the ground.
Rooted(at) == \A i \in Items : Holders(at, i) \ Containers # {}

\* Whatever holds i and is no container is the root of i.
LEMMA RootIs ==
  ASSUME NEW at \in [Items -> Homes], NEW i \in Items, NEW h \in Holders(at, i) \ Containers
  PROVE  Root(at, i) = h
  <1> DEFINE W == {x \in Homes : x = h \/ (x \in Containers /\ h \in Holders(at, x))}
  <1>1. Containers \subseteq Items
    BY TradeAssumption
  <1>2. at[i] \in W
    BY HoldersUp
  <1>3. ASSUME NEW c \in W \intersect Containers PROVE at[c] \in W
    <2>1. c \in Items /\ h \in Holders(at, c)
      BY <1>1
    <2>2. Holders(at, c) = {at[c]} \union IF at[c] \in Containers THEN Holders(at, at[c]) ELSE {}
      BY <2>1, HoldersUp
    <2> QED
      BY <2>1, <2>2
  <1>4. Encloses(at, i, W)
    BY <1>2, <1>3 DEF Encloses
  <1>5. Holders(at, i) \subseteq W
    <2> HIDE DEF W
    <2> QED
      BY <1>4, HoldersLeast
  <1>6. \A x \in Holders(at, i) : x \notin Containers => x = h
    BY <1>5
  <1> QED
    BY <1>6 DEF Root

\* Every item has a root, which holds it.
LEMMA RootHolds ==
  ASSUME NEW at \in [Items -> Homes], NEW i \in Items, Rooted(at)
  PROVE  Root(at, i) \in Holders(at, i) \ Containers
  <1>1. PICK h \in Holders(at, i) : h \notin Containers
    BY DEF Rooted
  <1> QED
    BY <1>1, RootIs

\* What a container holds has the container's root.
LEMMA RootSame ==
  ASSUME NEW at \in [Items -> Homes], NEW i \in Items, Rooted(at),
         NEW c \in Holders(at, i) \intersect Containers
  PROVE  Root(at, c) = Root(at, i)
  <1>1. c \in Items /\ Holders(at, c) \subseteq Holders(at, i)
    BY HoldersInclude
  <1>2. Root(at, c) \in Holders(at, c) \ Containers
    BY <1>1, RootHolds
  <1> QED
    BY <1>1, <1>2, RootIs

\* The places once i has been put there.
Put(at, i, to) == [at EXCEPT ![i] = to]

\* i gets to another home.
MovedTo(at, new, i, to) ==
  /\ new \in [Items -> Homes]
  /\ Rooted(new)
  /\ new[i] = to /\ \A j \in Items \ {i} : new[j] = at[j]
  /\ Holders(new, i) = {to} \union IF to \in Containers THEN Holders(at, to) ELSE {}
  /\ \A j \in Items \ {i} : i \notin Holders(at, j) => Holders(new, j) = Holders(at, j)

\* A move that does not put a container into itself leaves no container in itself.
LEMMA Moved ==
  ASSUME NEW at \in [Items -> Homes], Rooted(at), NEW i \in Items, NEW to \in Homes,
         to \in Containers => to # i /\ i \notin Holders(at, to),
         NEW new, new = Put(at, i, to)
  PROVE  MovedTo(at, new, i, to)
  <1>1. new \in [Items -> Homes] /\ new[i] = to /\ \A j \in Items \ {i} : new[j] = at[j]
    BY DEF Put
  <1>2. Containers \subseteq Items /\ \A x \in Homes \intersect Items : x \in Containers
    BY TradeAssumption DEF Homes
  <1>3. ASSUME NEW j \in Items \ {i}, i \notin Holders(at, j)
        PROVE  Holders(new, j) = Holders(at, j)
    <2>1. new[j] = at[j] /\ \A c \in Holders(at, j) \intersect Containers : new[c] = at[c]
      BY <1>1, <1>2, <1>3
    <2> QED
      BY <1>1, <2>1, HoldersSame
  <1>4. Holders(new, i) = {to} \union IF to \in Containers THEN Holders(at, to) ELSE {}
    <2>1. Holders(new, i) = {to} \union IF to \in Containers THEN Holders(new, to) ELSE {}
      BY <1>1, HoldersUp
    <2>2. to \in Containers => Holders(new, to) = Holders(at, to)
      BY <1>2, <1>3
    <2> QED
      BY <2>1, <2>2
  <1>5. \E h \in Holders(new, i) : h \notin Containers
    <2>1. CASE to \in Containers
      <3>1. \E h \in Holders(at, to) : h \notin Containers
        BY <1>2, <2>1 DEF Rooted
      <3> QED
        BY <1>4, <2>1, <3>1
    <2>2. CASE to \notin Containers
      BY <1>4, <2>2
    <2> QED
      BY <2>1, <2>2
  <1>6. ASSUME NEW j \in Items PROVE \E h \in Holders(new, j) : h \notin Containers
    <2>1. CASE j = i
      BY <1>5, <2>1
    <2>2. CASE j # i /\ i \notin Holders(at, j)
      <3>1. Holders(new, j) = Holders(at, j)
        BY <1>3, <2>2
      <3> QED
        BY <3>1 DEF Rooted
    <2>3. CASE j # i /\ i \in Holders(at, j)
      <3>1. i \in Holders(new, j)
        <4> SUFFICES ASSUME i \notin Holders(new, j) PROVE FALSE
          OBVIOUS
        <4>1. Encloses(new, j, Holders(new, j))
          BY <1>1, HoldersEnclose
        <4>2. Encloses(at, j, Holders(new, j))
          BY <1>1, <1>2, <2>3, <4>1 DEF Encloses
        <4> QED
          BY <2>3, <4>2, HoldersLeast
      <3>2. Holders(new, j) \subseteq Homes
        BY <1>1, HoldersEnclose
      <3>3. Holders(new, i) \subseteq Holders(new, j)
        BY <1>1, <1>2, <3>1, <3>2, HoldersInclude
      <3> QED
        BY <1>5, <3>3
    <2> QED
      BY <2>1, <2>2, <2>3
  <1>7. Rooted(new)
    BY <1>6 DEF Rooted
  <1> QED
    BY <1>1, <1>3, <1>4, <1>7 DEF MovedTo

\* i gets to q, who did not have it: to q itself or into a container of q.
LEMMA MovedToPlayer ==
  ASSUME NEW at \in [Items -> Homes], Rooted(at), NEW i \in Items, NEW q \in Players,
         Root(at, i) # q, NEW d, d = q \/ (d \in Containers /\ Root(at, d) = q),
         NEW new, new = Put(at, i, d)
  PROVE  MovedTo(at, new, i, d) /\ Root(new, i) = q
  <1>1. Containers \subseteq Items /\ q \notin Containers /\ d \in Homes
    BY TradeAssumption DEF Homes
  <1>2. d \in Containers => d # i /\ i \notin Holders(at, d) /\ q \in Holders(at, d)
    <2> SUFFICES ASSUME d \in Containers PROVE d # i /\ i \notin Holders(at, d) /\ q \in Holders(at, d)
      OBVIOUS
    <2>1. d \in Items /\ Root(at, d) = q
      BY <1>1
    <2>2. q \in Holders(at, d) /\ Holders(at, d) \subseteq Homes
      BY <2>1, RootHolds, HoldersEnclose
    <2>3. ASSUME i \in Holders(at, d) PROVE FALSE
      <3>1. i \in Containers
        BY <2>2, <2>3, TradeAssumption DEF Homes
      <3> QED
        BY <2>1, <2>3, <3>1, RootSame
    <2> QED
      BY <2>1, <2>2, <2>3
  <1>3. MovedTo(at, new, i, d)
    BY <1>1, <1>2, Moved
  <1>4. q \in Holders(new, i) \ Containers
    BY <1>1, <1>2, <1>3 DEF MovedTo
  <1>5. Root(new, i) = q
    BY <1>3, <1>4, RootIs DEF MovedTo
  <1> QED
    BY <1>3, <1>5

\* Of two containers around an item one is in the other.
LEMMA Chain ==
  ASSUME NEW at \in [Items -> Homes], NEW i \in Items,
         NEW c \in Holders(at, i) \intersect Items, NEW x \in Holders(at, i) \intersect Items
  PROVE  x = c \/ c \in Holders(at, x) \/ x \in Holders(at, c)
  <1> DEFINE W == {h \in Homes : h = c \/ (h \in Containers /\ c \in Holders(at, h)) \/ h \in Holders(at, c)}
  <1>1. Containers \subseteq Items
    BY TradeAssumption
  <1>2. \A j \in Items : c \in Holders(at, j) =>
          at[j] = c \/ (at[j] \in Containers /\ c \in Holders(at, at[j]))
    BY HoldersUp
  <1>3. at[i] \in W
    BY <1>2
  <1>4. ASSUME NEW h \in W \intersect Containers PROVE at[h] \in W
    <2>1. Encloses(at, c, Holders(at, c)) /\ at[h] \in Homes
      BY <1>1, HoldersEnclose
    <2> QED
      BY <1>1, <1>2, <2>1 DEF Encloses
  <1>5. Encloses(at, i, W)
    BY <1>3, <1>4 DEF Encloses
  <1>6. Holders(at, i) \subseteq W
    <2> HIDE DEF W
    <2> QED
      BY <1>5, HoldersLeast
  <1> QED
    BY <1>6

\* The root of every item after i has moved: what is in i goes along, and what is
\* not in it stays.
LEMMA MovedRoots ==
  ASSUME NEW at \in [Items -> Homes], NEW new, NEW i \in Items, NEW to, MovedTo(at, new, i, to),
         NEW j \in Items
  PROVE  /\ i \in {j} \union Holders(at, j) => i \in {j} \union Holders(new, j) /\ Root(new, j) = Root(new, i)
         /\ i \notin {j} \union Holders(at, j) =>
              Holders(new, j) = Holders(at, j) /\ Root(new, j) = Root(at, j)
  <1>1. new \in [Items -> Homes] /\ Rooted(new) /\ \A k \in Items \ {i} : new[k] = at[k]
    BY DEF MovedTo
  <1>2. ASSUME j # i, i \in Holders(at, j) PROVE i \in Holders(new, j)
    <2> SUFFICES ASSUME i \notin Holders(new, j) PROVE FALSE
      OBVIOUS
    <2>1. Encloses(new, j, Holders(new, j))
      BY <1>1, HoldersEnclose
    <2>2. Encloses(at, j, Holders(new, j))
      BY <1>1, <1>2, <2>1, TradeAssumption DEF Encloses
    <2> QED
      BY <1>2, <2>2, HoldersLeast
  <1>3. ASSUME j # i, i \in Holders(at, j) PROVE Root(new, j) = Root(new, i)
    <2>1. Holders(new, j) \subseteq Homes
      BY <1>1, HoldersEnclose
    <2>2. i \in Containers
      BY <1>2, <1>3, <2>1, TradeAssumption DEF Homes
    <2> QED
      BY <1>1, <1>2, <1>3, <2>2, RootSame
  <1>4. ASSUME i \notin {j} \union Holders(at, j) PROVE Holders(new, j) = Holders(at, j)
    BY <1>4 DEF MovedTo
  <1> QED
    BY <1>2, <1>3, <1>4 DEF Root

-----------------------------------------------------------------------------
(* What is in an item.                                                     *)

\* t and everything in it, at any depth.
Inside(at, t) == {t} \union {c \in Items : t \in Holders(at, c)}

\* If nothing leaves t or gets into it, everything in t is where it was and holds
\* what it held.
LEMMA ContentsSame ==
  ASSUME NEW at \in [Items -> Homes], NEW new \in [Items -> Homes], NEW t \in Items,
         \A j \in Items : new[j] # at[j] => j \notin Inside(at, t) /\ new[j] \notin Inside(at, t),
         NEW k \in Inside(at, t)
  PROVE  /\ new[k] = at[k]
         /\ {c \in Items : k \in Holders(at, c)} = {c \in Items : k \in Holders(new, c)}
  <1> DEFINE X == Inside(at, t)
  <1>1. X \subseteq Items /\ Containers \subseteq Items
    BY TradeAssumption DEF Inside
  <1>2. ASSUME NEW c \in Items \ X PROVE at[c] \notin X
    <2>1. Holders(at, c) = {at[c]} \union IF at[c] \in Containers THEN Holders(at, at[c]) ELSE {}
      BY HoldersUp
    <2>2. at[c] \in Homes
      OBVIOUS
    <2>3. at[c] \in X => at[c] \in Containers
      BY <1>1, <2>2, TradeAssumption DEF Homes
    <2> QED
      BY <2>1, <2>3 DEF Inside
  <1>3. \A c \in X : new[c] = at[c]
    BY <1>1
  <1>4. \A c \in Items \ X : new[c] \notin X
    BY <1>2
  <1> HIDE DEF X
  <1>5. ASSUME NEW c \in Items \ X PROVE k \notin Holders(at, c) /\ k \notin Holders(new, c)
    <2>1. Encloses(at, c, Homes \ X) /\ Encloses(new, c, Homes \ X)
      BY <1>1, <1>2, <1>4 DEF Encloses
    <2>2. Holders(at, c) \subseteq Homes \ X /\ Holders(new, c) \subseteq Homes \ X
      BY <2>1, HoldersLeast
    <2> QED
      BY <2>2 DEF X
  <1>6. ASSUME NEW c \in X PROVE k \in Holders(at, c) <=> k \in Holders(new, c)
    <2> DEFINE V == (Holders(at, c) \intersect X) \union (Homes \ X)
               W == (Holders(new, c) \intersect X) \union (Homes \ X)
    <2>1. c \in Items /\ k \in X
      BY <1>1 DEF X
    <2>2. Encloses(at, c, Holders(at, c)) /\ Encloses(new, c, Holders(new, c))
      BY <2>1, HoldersEnclose
    <2>3. at[c] \in Homes /\ new[c] \in Homes /\ at[c] = new[c]
      BY <1>3, <2>1
    <2>4. Encloses(new, c, V)
      BY <1>1, <1>3, <1>4, <2>2, <2>3 DEF Encloses
    <2>5. Encloses(at, c, W)
      BY <1>1, <1>2, <1>3, <2>2, <2>3 DEF Encloses
    <2>6. Holders(new, c) \subseteq V /\ Holders(at, c) \subseteq W
      <3> HIDE DEF V, W
      <3> QED
        BY <2>1, <2>4, <2>5, HoldersLeast
    <2> QED
      BY <2>1, <2>6
  <1>7. \A c \in Items : k \in Holders(at, c) <=> k \in Holders(new, c)
    BY <1>5, <1>6
  <1> QED
    BY <1>3, <1>7 DEF X

-----------------------------------------------------------------------------
(* Reach.                                                                  *)

\* No item that is traded is in another one.
Apart ==
  \A p, r \in Players :
    p # r /\ tradeItem[p] # NoItem /\ tradeItem[r] # NoItem => tradeItem[p] \notin Holders(place, tradeItem[r])

\* A player trades with somebody else.
WithAnother == \A p \in Players : tradePartner[p] # p

Inv == IInv /\ TypeOK /\ Rooted(place) /\ Apart /\ WithAnother /\ InReach

\* Who has what after an exchange that moved anything.
Handed(p, r, item1, item2, new) ==
  /\ \A i \in Inside(place, item1) : Root(new, i) = r
  /\ Root(new, item2) \in {p, Root(place, item2)}
  /\ \A i \in Inside(place, item2) : Root(new, i) = Root(new, item2)
  /\ \A i \in Items \ (Inside(place, item1) \union Inside(place, item2)) : Root(new, i) = Root(place, i)

\* What an exchange of p with r does if it moves anything.
Exchanged(p, r, item1, item2, new) ==
  /\ item1 \in Items /\ item2 \in Items
  /\ new \in [Items -> Homes] /\ Rooted(new)
  /\ \A j \in Items \ {item1, item2} : new[j] = place[j]
  /\ Handed(p, r, item1, item2, new)

\* The item of one player is not with the other.
LEMMA OwnSide ==
  ASSUME Inv, NEW p \in Players, NEW r \in Players, p # r, tradeItem[p] # NoItem
  PROVE  tradeItem[p] \in Items /\ Root(place, tradeItem[p]) # r
  <1>1. tradeItem[p] \in Items
    BY DEF Inv, TypeOK
  <1>2. Reaches(p, tradeItem[p])
    BY DEF Inv, InReach
  <1>3. Root(place, tradeItem[p]) = p \/ Root(place, tradeItem[p]) \in Ground
    BY <1>2 DEF Reaches, ReachesFrom
  <1> QED
    BY <1>1, <1>3, TradeAssumption

\* playerAcceptTrade gives the first item to the partner and may give the second one
\* to the player that accepted last; neither gets into itself or into the other.
LEMMA ExchangeMoves ==
  ASSUME Inv, NEW p \in Players, NEW r \in Players, p # r,
         NEW new \in PlacesAfter(p, r), new # place
  PROVE  Exchanged(p, r, tradeItem[p], tradeItem[r], new)
  <1> DEFINE item1 == tradeItem[p]
             item2 == tradeItem[r]
             given == {[place EXCEPT ![item1] = d] : d \in Destinations(place, r)}
  <1>1. NoItem \notin {item1, item2}
        /\ \E at \in given :
             \/ new = at
             \/ \E d \in Destinations(at, p) : new = [at EXCEPT ![item2] = d]
    BY DEF PlacesAfter
  <1>2. place \in [Items -> Homes] /\ Rooted(place) /\ Containers \subseteq Items
    BY TradeAssumption DEF Inv, TypeOK, Homes
  <1>3. /\ item1 \in Items /\ Root(place, item1) # r
        /\ item2 \in Items /\ Root(place, item2) # p
    BY <1>1, OwnSide
  <1>4. item1 # item2 /\ item1 \notin Holders(place, item2) /\ item2 \notin Holders(place, item1)
    BY <1>1 DEF Inv, IInv, TableExact, Apart
  <1>5. PICK d1 \in Destinations(place, r) : LET at == [place EXCEPT ![item1] = d1] IN
             \/ new = at
             \/ \E d \in Destinations(at, p) : new = [at EXCEPT ![item2] = d]
    BY <1>1
  <1> DEFINE at == [place EXCEPT ![item1] = d1]
  <1>6. /\ d1 = r \/ (d1 \in Containers /\ Root(place, d1) = r)
        /\ d1 \in Containers => d1 # item2 /\ item2 \notin Holders(place, d1)
    BY TradeAssumption DEF Destinations
  <1>7. MovedTo(place, at, item1, d1) /\ Root(at, item1) = r
    <2>1. at = Put(place, item1, d1)
      BY DEF Put
    <2> HIDE DEF item1, item2, given, at
    <2> QED
      BY <2>1, <1>2, <1>3, <1>6, MovedToPlayer
  <1>8. new = at \/ \E d \in Destinations(at, p) : new = [at EXCEPT ![item2] = d]
    BY <1>5
  <1> HIDE DEF given, at
  <1>9. at \in [Items -> Homes] /\ Rooted(at)
    BY <1>7 DEF MovedTo
  <1>10. ASSUME NEW i \in Items
         PROVE  IF i \in Inside(place, item1)
                THEN Root(at, i) = r /\ i \notin Inside(at, item2)
                ELSE Root(at, i) = Root(place, i) /\ (i \in Inside(at, item2) <=> i \in Inside(place, item2))
    <2> HIDE DEF item1, item2
    <2>1. /\ i \in Inside(place, item1) => i \in Inside(at, item1) /\ Root(at, i) = r
          /\ i \notin Inside(place, item1) => Holders(at, i) = Holders(place, i) /\ Root(at, i) = Root(place, i)
      BY <1>2, <1>3, <1>7, MovedRoots DEF Inside
    <2>2. ASSUME i \in Inside(place, item1) PROVE i \notin Inside(at, item2)
      <3>1. item2 \notin Holders(at, item1) /\ item1 \notin Holders(at, item2)
        BY <1>3, <1>4, <1>6, <1>7, TradeAssumption DEF MovedTo
      <3>2. i = item1 \/ item1 \in Holders(at, i)
        BY <2>1, <2>2 DEF Inside
      <3> QED
        BY <1>3, <1>4, <1>9, <3>1, <3>2, Chain DEF Inside
    <2> QED
      BY <2>1, <2>2 DEF Inside
  <1>11. Inside(place, item1) \intersect Inside(place, item2) = {}
    <2> HIDE DEF item1, item2
    <2> QED
      BY <1>2, <1>3, <1>4, Chain DEF Inside
  <1>12. item1 \in Inside(place, item1) /\ item2 \in Inside(place, item2)
         /\ Inside(place, item1) \subseteq Items /\ Inside(place, item2) \subseteq Items
    BY <1>3 DEF Inside
  <1>13. Root(at, item2) = Root(place, item2)
    BY <1>3, <1>10, <1>11, <1>12
  <1>14. CASE new = at
    <2>1. \A j \in Items \ {item1, item2} : new[j] = place[j]
      BY <1>7, <1>14 DEF MovedTo
    <2>2. ASSUME NEW i \in Inside(place, item2) PROVE Root(new, i) = Root(new, item2)
      <3> HIDE DEF item1, item2
      <3>1. i \in Items /\ i \in Inside(at, item2)
        BY <1>10, <1>11, <1>12, <2>2
      <3>2. CASE item2 \in Holders(at, i)
        <4>1. Holders(at, i) \subseteq Homes
          BY <1>9, <3>1, HoldersEnclose
        <4>2. item2 \in Containers
          BY <1>3, <3>2, <4>1, TradeAssumption DEF Homes
        <4> QED
          BY <1>9, <1>14, <3>1, <3>2, <4>2, RootSame
      <3> QED
        BY <3>1, <3>2 DEF Inside
    <2>3. Handed(p, r, item1, item2, new)
      <3> HIDE DEF item1, item2
      <3> QED
        BY <1>10, <1>12, <1>13, <1>14, <2>2 DEF Handed
    <2> QED
      BY <1>3, <1>9, <1>14, <2>1, <2>3 DEF Exchanged
  <1>15. CASE \E d \in Destinations(at, p) : new = [at EXCEPT ![item2] = d]
    <2>1. PICK d \in Destinations(at, p) : new = [at EXCEPT ![item2] = d]
      BY <1>15
    <2>2. d = p \/ (d \in Containers /\ Root(at, d) = p)
      BY <2>1 DEF Destinations
    <2>3. Root(at, item2) # p
      BY <1>3, <1>13
    <2> HIDE DEF item1, item2
    <2>4. MovedTo(at, new, item2, d) /\ Root(new, item2) = p
      <3>1. new = Put(at, item2, d)
        BY <2>1 DEF Put
      <3> QED
        BY <1>3, <1>9, <2>2, <2>3, <3>1, MovedToPlayer
    <2>5. ASSUME NEW i \in Items
          PROVE  /\ i \in Inside(at, item2) => Root(new, i) = Root(new, item2)
                 /\ i \notin Inside(at, item2) => Root(new, i) = Root(at, i)
      BY <1>3, <1>9, <2>4, MovedRoots DEF Inside
    <2>6. Handed(p, r, item1, item2, new)
      BY <1>10, <1>11, <1>12, <2>4, <2>5 DEF Handed
    <2>7. new \in [Items -> Homes] /\ Rooted(new) /\ \A j \in Items \ {item1, item2} : new[j] = place[j]
      BY <1>7, <2>4 DEF MovedTo
    <2> QED
      BY <1>3, <2>6, <2>7 DEF Exchanged, item1, item2
  <1> QED
    BY <1>8, <1>14, <1>15

\* Close leaves the trades of the others as they are, and closes both sides.
LEMMA CloseLeaves ==
  ASSUME Inv, NEW ps \in SUBSET Players, Close(ps)
  PROVE  /\ \A p \in Players :
              /\ tradeItem'[p] # NoItem => p \notin Closed(ps) /\ tradeItem'[p] = tradeItem[p]
              /\ tradePartner'[p] # NoPlayer => /\ p \notin Closed(ps) /\ tradePartner'[p] = tradePartner[p]
                                                /\ tradePartner[p] \in Players \ Closed(ps)
         /\ ps \subseteq Closed(ps)
         /\ \A p \in ps : tradePartner[p] # NoPlayer => tradePartner[p] \in Closed(ps)
  <1>1. /\ tradePartner' = [p \in Players |-> IF p \in Closed(ps) THEN NoPlayer ELSE tradePartner[p]]
        /\ tradeItem' = [p \in Players |-> IF p \in Closed(ps) THEN NoItem ELSE tradeItem[p]]
    BY DEF Close, Closed
  <1>2. ASSUME NEW p \in Players, tradePartner[p] # NoPlayer
        PROVE  tradePartner[p] \in Players /\ (p \in Closed(ps) <=> tradePartner[p] \in Closed(ps))
    <2>1. tradePartner[p] \in Players /\ tradePartner[tradePartner[p]] = p
      BY <1>2 DEF Inv, IInv, TradesType, PartnersAgree
    <2>2. \A r \in Players : tradePartner[r] = p \/ tradePartner[r] = tradePartner[p] =>
            tradePartner[r] # NoPlayer /\ tradePartner[tradePartner[r]] = r
      BY <1>2, <2>1, TradeAssumption DEF Inv, IInv, PartnersAgree
    <2> QED
      BY <2>1, <2>2 DEF Closed
  <1>3. ps \subseteq Closed(ps)
    BY DEF Closed
  <1> QED
    BY <1>1, <1>2, <1>3

\* After a step that closes the trades of ps, the invariant holds if nothing holds
\* the items that are still traded that did not, and the others are still near.
LEMMA CloseKeeps ==
  ASSUME Inv, IInv', TypeOK', NEW ps \in SUBSET Players, Close(ps), Rooted(place'),
         \A p \in Players \ Closed(ps) : tradeItem[p] # NoItem =>
           Holders(place', tradeItem[p]) = Holders(place, tradeItem[p]),
         \/ position' = position
         \/ \A p \in Players \ Closed(ps) :
              /\ tradeItem[p] # NoItem => ReachesFrom(p, position'[p], tradeItem[p])
              /\ tradePartner[p] # NoPlayer => Near(position'[p], position'[tradePartner[p]], 2)
  PROVE  Inv'
  <1> DEFINE C == Closed(ps)
  <1>1. \A p \in Players :
          /\ tradeItem'[p] # NoItem => p \notin C /\ tradeItem'[p] = tradeItem[p]
          /\ tradePartner'[p] # NoPlayer => p \notin C /\ tradePartner'[p] = tradePartner[p]
    BY CloseLeaves
  <1> HIDE DEF C
  <1>2. WithAnother'
    BY <1>1, TradeAssumption DEF Inv, WithAnother
  <1>3. Apart'
    BY <1>1 DEF Inv, Apart, C
  <1>4. ASSUME NEW p \in Players, tradePartner'[p] # NoPlayer
        PROVE  Near(position'[p], position'[tradePartner'[p]], 2)
    BY <1>1, <1>4 DEF Inv, InReach, C
  <1>5. ASSUME NEW p \in Players, tradeItem'[p] # NoItem
        PROVE  Reaches(p, tradeItem[p])'
    <2>1. p \notin C /\ tradeItem'[p] = tradeItem[p] /\ tradeItem[p] # NoItem
      BY <1>1, <1>5
    <2>2. ReachesFrom(p, position'[p], tradeItem[p])
      BY <2>1 DEF Inv, InReach, Reaches, C
    <2>3. Holders(place', tradeItem'[p]) = Holders(place, tradeItem[p])
      BY <2>1 DEF C
    <2>4. Root(place', tradeItem'[p]) = Root(place, tradeItem[p])
      BY <2>3 DEF Root
    <2> QED
      BY <2>2, <2>4 DEF Reaches, ReachesFrom
  <1>6. InReach'
    BY <1>4, <1>5 DEF InReach
  <1> QED
    BY <1>2, <1>3, <1>6 DEF Inv

-----------------------------------------------------------------------------
(* What the steps do to offers.                                            *)

\* No item leaves t or gets into it, nor does anything move that holds t.
Untouched(t) ==
  \A j \in Items : place'[j] # place[j] =>
    j \notin Inside(place, t) /\ place'[j] \notin Inside(place, t) /\ j \notin Holders(place, t)

\* OfferUnchanged, of one step.
OfferKept ==
  \A p \in Players, i \in Items :
    tradeItem[p] # NoItem /\ tradeItem'[p] = tradeItem[p] /\ tradeItem[p] \in {i} \union Holders(place, i)
      => place'[i] = place[i] /\ (i \in used <=> i \in used')
         /\ {c \in Items : i \in Holders(place, c)} = {c \in Items : i \in Holders(place', c)}

\* Where the hooks of a move find nothing to close, the offer is not touched by it.
LEMMA NotTouched ==
  ASSUME Inv, NEW p \in Players, tradeItem[p] # NoItem,
         NEW j \in Items, NEW to \in Homes, p \notin Touched({p}, j, to)
  PROVE  /\ j \notin Inside(place, tradeItem[p]) /\ to \notin Inside(place, tradeItem[p])
         /\ j \notin Holders(place, tradeItem[p])
  <1>1. ~ Touches(tradeItem[p], j, to)
    BY DEF Touched
  <1>2. to \in Items => to \in Containers
    BY TradeAssumption DEF Homes
  <1> QED
    BY <1>1, <1>2 DEF Touches, Inside

\* A step that closes the trades of ps keeps the invariant and the offers if what
\* it moves or uses touches no item that is still traded.
LEMMA CloseStep ==
  ASSUME Inv, IInv', TypeOK', NEW ps \in SUBSET Players, Close(ps), Rooted(place'),
         \A p \in Players \ Closed(ps) : tradeItem[p] # NoItem =>
           /\ Untouched(tradeItem[p])
           /\ \A j \in Inside(place, tradeItem[p]) : j \in used <=> j \in used',
         \/ position' = position
         \/ \A p \in Players \ Closed(ps) :
              /\ tradeItem[p] # NoItem => ReachesFrom(p, position'[p], tradeItem[p])
              /\ tradePartner[p] # NoPlayer => Near(position'[p], position'[tradePartner[p]], 2)
  PROVE  Inv' /\ OfferKept
  <1>1. place \in [Items -> Homes] /\ place' \in [Items -> Homes] /\ Containers \subseteq Items
    BY TradeAssumption DEF Inv, TypeOK, Homes
  <1>2. ASSUME NEW p \in Players \ Closed(ps), tradeItem[p] # NoItem
        PROVE  Holders(place', tradeItem[p]) = Holders(place, tradeItem[p])
    <2>1. tradeItem[p] \in Items /\ Untouched(tradeItem[p])
      BY <1>2 DEF Inv, TypeOK
    <2>2. /\ place'[tradeItem[p]] = place[tradeItem[p]]
          /\ \A c \in Holders(place, tradeItem[p]) \intersect Containers : place'[c] = place[c]
      BY <1>1, <2>1 DEF Untouched, Inside
    <2> QED
      BY <1>1, <2>1, <2>2, HoldersSame
  <1>3. Inv'
    BY <1>2, CloseKeeps
  <1>4. ASSUME NEW p \in Players, NEW i \in Items,
               tradeItem[p] # NoItem, tradeItem'[p] = tradeItem[p], tradeItem[p] \in {i} \union Holders(place, i)
        PROVE  /\ place'[i] = place[i] /\ (i \in used <=> i \in used')
               /\ {c \in Items : i \in Holders(place, c)} = {c \in Items : i \in Holders(place', c)}
    <2> DEFINE t == tradeItem[p]
    <2>1. p \notin Closed(ps)
      BY <1>4, CloseLeaves
    <2>2. t \in Items /\ Untouched(t) /\ \A j \in Inside(place, t) : j \in used <=> j \in used'
      BY <1>4, <2>1 DEF Inv, TypeOK
    <2>3. i \in Inside(place, t)
      BY <1>4 DEF Inside
    <2> HIDE DEF t
    <2>4. \A j \in Items : place'[j] # place[j] => j \notin Inside(place, t) /\ place'[j] \notin Inside(place, t)
      BY <2>2 DEF Untouched
    <2>5. /\ place'[i] = place[i]
          /\ {c \in Items : i \in Holders(place, c)} = {c \in Items : i \in Holders(place', c)}
      BY <1>1, <2>2, <2>3, <2>4, ContentsSame
    <2> QED
      BY <2>2, <2>3, <2>5
  <1> QED
    BY <1>3, <1>4 DEF OfferKept

\* A request: the item offered is in reach, free, and holds nothing that is traded.
LEMMA RequestKeeps ==
  ASSUME NEW p \in Players, NEW partner \in Players, NEW i \in Items,
         Inv, PlayerRequestTrade(p, partner, i)
  PROVE  Inv' /\ OfferKept
  <1>1. IInv'
    BY RequestAgrees DEF Inv
  <1>2. /\ UNCHANGED <<position, place, used>>
        /\ tradeItem' = [tradeItem EXCEPT ![p] = i] /\ tradeItems' = tradeItems \union {i}
        /\ p # partner /\ Near(position[p], position[partner], 2) /\ Reaches(p, i) /\ Free(i)
    BY DEF PlayerRequestTrade
  <1>3. /\ i # NoItem
        /\ \A r \in Players : tradeItem[r] # NoItem =>
             i \notin Holders(place, tradeItem[r]) /\ tradeItem[r] \notin Holders(place, i)
    BY <1>2, TradeAssumption DEF Inv, IInv, TableExact, Free
  <1>4. TypeOK'
    BY <1>1, <1>2 DEF Inv, TypeOK, IInv, TradesType
  <1>5. Apart'
    BY <1>2, <1>3 DEF Inv, Apart, TypeOK
  <1>6. \A r \in Players : \/ tradePartner'[r] = tradePartner[r]
                           \/ r = p /\ tradePartner'[r] = partner
                           \/ r = partner /\ tradePartner'[r] = p
    BY DEF PlayerRequestTrade, Inv, TypeOK
  <1>7. WithAnother'
    BY <1>2, <1>6 DEF Inv, WithAnother
  <1>8. Near(position[partner], position[p], 2)
    <2>1. position[p] \in Int /\ position[partner] \in Int
      BY TradeAssumption DEF Inv, TypeOK
    <2> QED
      BY <1>2, <2>1 DEF Near
  <1>9. \A r \in Players : tradePartner'[r] # NoPlayer => Near(position'[r], position'[tradePartner'[r]], 2)
    BY <1>2, <1>6, <1>8 DEF Inv, InReach
  <1>10. \A r \in Players : tradeItem'[r] # NoItem => Reaches(r, tradeItem'[r])
    BY <1>2 DEF Inv, InReach, TypeOK
  <1>11. InReach'
    <2>1. ASSUME NEW r \in Players, tradeItem'[r] # NoItem
          PROVE  Reaches(r, tradeItem[r])'
      <3>1. ReachesFrom(r, position[r], tradeItem'[r])
        BY <1>10, <2>1 DEF Reaches
      <3>2. Root(place', tradeItem'[r]) = Root(place, tradeItem'[r]) /\ position' = position
        BY <1>2
      <3> QED
        BY <3>1, <3>2 DEF Reaches, ReachesFrom
    <2> QED
      BY <1>9, <2>1 DEF InReach
  <1>12. Rooted(place')
    BY <1>2 DEF Inv
  <1>13. OfferKept
    BY <1>2 DEF OfferKept
  <1> QED
    BY <1>1, <1>4, <1>5, <1>7, <1>11, <1>12, <1>13 DEF Inv

\* The first acceptance, and a login.
LEMMA NothingTraded ==
  ASSUME Inv, IInv', online' \subseteq Players,
         UNCHANGED <<position, place, used, tradePartner, tradeItem, tradeItems>>
  PROVE  Inv' /\ OfferKept
  <1>1. TypeOK'
    BY DEF Inv, TypeOK, IInv, TradesType
  <1>2. Rooted(place') /\ Apart' /\ WithAnother'
    BY DEF Inv, Apart, WithAnother
  <1>3. InReach'
    BY DEF Inv, InReach, Reaches, ReachesFrom
  <1>4. OfferKept
    BY DEF OfferKept
  <1> QED
    BY <1>1, <1>2, <1>3, <1>4 DEF Inv

\* Steps that close trades where nothing moves.
LEMMA NothingMoves ==
  ASSUME Inv, IInv', NEW ps \in SUBSET Players, Close(ps), UNCHANGED <<place, position>>,
         used' \subseteq Stackable,
         \A p \in Players \ Closed(ps) : tradeItem[p] # NoItem =>
           \A j \in Inside(place, tradeItem[p]) : j \in used <=> j \in used'
  PROVE  Inv' /\ OfferKept
  <1>1. TypeOK'
    BY DEF Inv, TypeOK, IInv, TradesType, Close
  <1>2. Rooted(place') /\ \A t : Untouched(t)
    BY DEF Inv, Untouched
  <1> QED
    BY <1>1, <1>2, CloseStep

\* playerMoveItem
LEMMA MoveItemKeeps ==
  ASSUME Inv, NEW p \in Players, NEW i \in Items, NEW to \in {p} \union Ground \union Containers,
         MoveItem(p, i, to), IInv'
  PROVE  Inv' /\ OfferKept
  <1> DEFINE ps == Touched(Players, i, to)
  <1>1. place' = Put(place, i, to) /\ Close(ps) /\ UNCHANGED <<online, position, used>>
    BY DEF MoveItem, Put
  <1>2. place \in [Items -> Homes] /\ to \in Homes /\ ps \in SUBSET Players
    BY DEF Inv, TypeOK, Homes, Touched
  <1>3. TypeOK'
    BY <1>1, <1>2 DEF Inv, TypeOK, IInv, TradesType, Close, Put, Homes
  <1>4. Rooted(place')
    <2>1. to \in Containers => to # i /\ i \notin Holders(place, to)
      BY DEF MoveItem
    <2> QED
      BY <1>1, <1>2, <2>1, Moved DEF Inv, MovedTo
  <1>5. ASSUME NEW r \in Players \ Closed(ps), tradeItem[r] # NoItem
        PROVE  Untouched(tradeItem[r])
    <2>1. r \notin Touched({r}, i, to)
      BY <1>5 DEF Closed, Touched
    <2>2. /\ i \notin Inside(place, tradeItem[r]) /\ to \notin Inside(place, tradeItem[r])
          /\ i \notin Holders(place, tradeItem[r])
      BY <1>2, <1>5, <2>1, NotTouched
    <2> QED
      BY <1>1, <1>2, <2>2 DEF Untouched, Put
  <1> HIDE DEF ps
  <1> QED
    BY <1>1, <1>2, <1>3, <1>4, <1>5, CloseStep

\* onCreatureMove
LEMMA WalkKeeps ==
  ASSUME Inv, NEW p \in Players, NEW x \in Spots, Walk(p, x), IInv'
  PROVE  Inv' /\ OfferKept
  <1> DEFINE ps == {r \in {p} :
                      \/ tradeItem[p] # NoItem /\ ~ReachesFrom(p, x, tradeItem[p])
                      \/ tradePartner[p] # NoPlayer /\ ~Near(position[tradePartner[p]], x, 2)}
  <1>1. /\ position' = [position EXCEPT ![p] = x] /\ Close(ps) /\ UNCHANGED <<online, place, used>>
        /\ ps \in SUBSET Players
    BY DEF Walk
  <1>2. p \notin Closed(ps) => /\ tradeItem[p] # NoItem => ReachesFrom(p, x, tradeItem[p])
                               /\ tradePartner[p] # NoPlayer => Near(position[tradePartner[p]], x, 2)
    BY DEF Closed
  <1> HIDE DEF ps
  <1>3. TypeOK'
    BY <1>1 DEF Inv, TypeOK, IInv, TradesType, Close
  <1>4. Rooted(place') /\ \A t : Untouched(t)
    BY <1>1 DEF Inv, Untouched
  <1>5. position \in [Players -> Int] /\ x \in Int
    BY TradeAssumption DEF Inv, TypeOK
  <1>6. ASSUME NEW r \in Players \ Closed(ps), tradeItem[r] # NoItem
        PROVE  ReachesFrom(r, position'[r], tradeItem[r])
    BY <1>1, <1>2, <1>5, <1>6 DEF Inv, InReach, Reaches
  <1>7. ASSUME NEW r \in Players \ Closed(ps), tradePartner[r] # NoPlayer
        PROVE  Near(position'[r], position'[tradePartner[r]], 2)
    <2> DEFINE q == tradePartner[r]
    <2>1. q \in Players /\ tradePartner[q] = r /\ q # r
      BY <1>7 DEF Inv, IInv, PartnersAgree, TradesType, WithAnother
    <2>2. q \notin Closed(ps)
      <3>1. tradePartner'[r] = tradePartner[r]
        BY <1>1, <1>7 DEF Close, Closed
      <3> QED
        BY <1>1, <1>7, <3>1, CloseLeaves
    <2>3. Near(position[r], position[q], 2)
      BY <1>7 DEF Inv, InReach
    <2> HIDE DEF q
    <2>4. CASE r = p
      BY <1>1, <1>2, <1>5, <1>7, <2>1, <2>4 DEF Near, q
    <2>5. CASE q = p
      <3>1. Near(position[r], x, 2)
        BY <1>2, <2>1, <2>2, <2>5, TradeAssumption
      <3> QED
        BY <1>1, <1>5, <2>1, <2>5, <3>1 DEF q
    <2>6. CASE r # p /\ q # p
      BY <1>1, <1>5, <2>1, <2>3, <2>6 DEF q
    <2> QED
      BY <2>4, <2>5, <2>6
  <1> QED
    BY <1>1, <1>3, <1>4, <1>6, <1>7, CloseStep

\* The second acceptance.
LEMMA AcceptSecondKeeps ==
  ASSUME Inv, NEW p \in Players, AcceptSecond(p), IInv'
  PROVE  /\ Inv' /\ OfferKept
         /\ place' # place => /\ tradePartner[p] \in Players
                              /\ Exchanged(p, tradePartner[p], tradeItem[p], tradeItem[tradePartner[p]], place')
  <1> DEFINE r == tradePartner[p]
             ps == {p} \union
                     {q \in Players \ {p, r} :
                        \E i \in Items : place'[i] # place[i] /\ q \in Touched({q}, i, place'[i])}
  <1>1. place' \in PlacesAfter(p, r) /\ Close(ps) /\ UNCHANGED <<online, position, used>>
    BY DEF AcceptSecond
  <1>2. r \in Players /\ r # p
    <2>1. tradeState[p] # "none"
      BY DEF AcceptSecond
    <2>2. r # NoPlayer
      BY <2>1 DEF Inv, IInv, PartnersAgree
    <2> QED
      BY <2>2 DEF Inv, TypeOK, WithAnother
  <1>3. ps \in SUBSET Players /\ {p, r} \subseteq Closed(ps)
    BY <1>2 DEF Closed
  <1>4. \A q \in Players \ Closed(ps) : \A i \in Items :
          place'[i] # place[i] => q \notin Touched({q}, i, place'[i])
    BY <1>3 DEF Closed
  <1> HIDE DEF ps, r
  <1>5. place' # place => Exchanged(p, r, tradeItem[p], tradeItem[r], place')
    BY <1>1, <1>2, ExchangeMoves
  <1>6. place \in [Items -> Homes] /\ place' \in [Items -> Homes] /\ Rooted(place')
    BY <1>5 DEF Inv, TypeOK, Homes, Exchanged
  <1>7. TypeOK'
    BY <1>1, <1>6 DEF Inv, TypeOK, IInv, TradesType, Close, Homes
  <1>8. ASSUME NEW q \in Players \ Closed(ps), tradeItem[q] # NoItem
        PROVE  Untouched(tradeItem[q])
    <2>1. ASSUME NEW j \in Items, place'[j] # place[j]
          PROVE  /\ j \notin Inside(place, tradeItem[q]) /\ place'[j] \notin Inside(place, tradeItem[q])
                 /\ j \notin Holders(place, tradeItem[q])
      <3>1. q \notin Touched({q}, j, place'[j]) /\ place'[j] \in Homes
        BY <1>4, <1>6, <2>1
      <3> QED
        BY <1>8, <3>1, NotTouched
    <2> QED
      BY <2>1 DEF Untouched
  <1>9. Inv' /\ OfferKept
    BY <1>1, <1>3, <1>6, <1>7, <1>8, CloseStep
  <1> QED
    BY <1>2, <1>5, <1>9 DEF r

\* An exchange that moves anything gives the first item away, the second one whole
\* or not at all, and nothing else.
GivenStep ==
  \A p \in Players :
    LET r == tradePartner[p]
        item1 == tradeItem[p]
        item2 == tradeItem[r]
        In(t) == {i \in Items : t \in {i} \union Holders(place, i)}
    IN  AcceptSecond(p) /\ place' # place =>
          /\ \A i \in In(item1) : Root(place', i) = r
          /\ Root(place', item2) \in {p, Root(place, item2)}
          /\ \A i \in In(item2) : Root(place', i) = Root(place', item2)
          /\ \A i \in Items \ (In(item1) \union In(item2)) : Root(place', i) = Root(place, i)

\* At the start every player carries its items and nobody trades.
LEMMA InitInv == Init => Inv
  <1> SUFFICES ASSUME Init PROVE Inv
    OBVIOUS
  <1>1. IInv /\ TypeOK
    BY TradeAssumption DEF Init, IInv, TradesType, PartnersAgree, TableExact, TypeOK
  <1>2. ASSUME NEW i \in Items PROVE Holders(place, i) \ Containers # {}
    <2>1. place \in [Items -> Homes] /\ place[i] \notin Containers
      BY TradeAssumption DEF Init, Homes
    <2> QED
      BY <2>1, HoldersUp
  <1>3. Apart /\ WithAnother /\ InReach
    BY TradeAssumption DEF Init, Apart, WithAnother, InReach
  <1> QED
    BY <1>1, <1>2, <1>3 DEF Inv, Rooted

\* Every step of a player keeps the invariant and the offers.
LEMMA StepKeeps ==
  ASSUME Inv, NEW p \in Players,
         \/ \E partner \in Players, i \in Items : PlayerRequestTrade(p, partner, i)
         \/ PlayerCloseTrade(p) \/ AcceptFirst(p) \/ AcceptSecond(p)
         \/ \E i \in Items, to \in {p} \union Ground \union Containers : MoveItem(p, i, to)
         \/ \E i \in Items : UseItem(p, i)
         \/ \E x \in Spots : Walk(p, x)
         \/ Leave(p) \/ Enter(p)
  PROVE  IInv' /\ Inv' /\ OfferKept
  <1>1. IInv'
    BY RequestAgrees, AcceptFirstAgrees, OthersAgree DEF Inv
  <1>2. CASE \E partner \in Players, i \in Items : PlayerRequestTrade(p, partner, i)
    BY <1>1, <1>2, RequestKeeps
  <1>3. CASE PlayerCloseTrade(p)
    <2>1. Close({p}) /\ UNCHANGED <<place, position>> /\ used' = used
      BY <1>3 DEF PlayerCloseTrade
    <2>2. used' \subseteq Stackable /\ \A j : j \in used <=> j \in used'
      BY <2>1 DEF Inv, TypeOK
    <2> QED
      BY <1>1, <2>1, <2>2, NothingMoves
  <1>4. CASE AcceptFirst(p)
    <2>1. online' \subseteq Players /\ UNCHANGED <<position, place, used, tradePartner, tradeItem, tradeItems>>
      BY <1>4 DEF AcceptFirst, Inv, TypeOK
    <2> QED
      BY <1>1, <2>1, NothingTraded
  <1>5. CASE AcceptSecond(p)
    BY <1>1, <1>5, AcceptSecondKeeps
  <1>6. CASE \E i \in Items, to \in {p} \union Ground \union Containers : MoveItem(p, i, to)
    BY <1>1, <1>6, MoveItemKeeps
  <1>7. CASE \E i \in Items : UseItem(p, i)
    <2>1. PICK i \in Items : UseItem(p, i)
      BY <1>7
    <2> DEFINE ps == {r \in Players : tradeItem[r] # NoItem /\ tradeItem[r] \in {i} \union Holders(place, i)}
    <2>2. /\ Close(ps) /\ UNCHANGED <<place, position>> /\ used' = used \union {i} /\ i \in Stackable
          /\ ps \in SUBSET Players
      BY <2>1 DEF UseItem
    <2>3. used' \subseteq Stackable
      BY <2>2 DEF Inv, TypeOK
    <2>4. ASSUME NEW r \in Players \ Closed(ps), tradeItem[r] # NoItem
          PROVE  i \notin Inside(place, tradeItem[r])
      BY <2>4 DEF Closed, Inside
    <2> HIDE DEF ps
    <2>5. \A r \in Players \ Closed(ps) : tradeItem[r] # NoItem =>
            \A j \in Inside(place, tradeItem[r]) : j \in used <=> j \in used'
      BY <2>2, <2>4
    <2> QED
      BY <1>1, <2>2, <2>3, <2>5, NothingMoves
  <1>8. CASE \E x \in Spots : Walk(p, x)
    BY <1>1, <1>8, WalkKeeps
  <1>9. CASE Leave(p)
    <2> DEFINE ps == {r \in {p} : tradePartner[p] # NoPlayer}
    <2>1. Close(ps) /\ UNCHANGED <<place, position>> /\ used' = used /\ ps \in SUBSET Players
      BY <1>9 DEF Leave
    <2> HIDE DEF ps
    <2>2. used' \subseteq Stackable /\ \A j : j \in used <=> j \in used'
      BY <2>1 DEF Inv, TypeOK
    <2> QED
      BY <1>1, <2>1, <2>2, NothingMoves
  <1>10. CASE Enter(p)
    <2>1. online' \subseteq Players /\ UNCHANGED <<position, place, used, tradePartner, tradeItem, tradeItems>>
      BY <1>10 DEF Enter, trades, Inv, TypeOK
    <2> QED
      BY <1>1, <2>1, NothingTraded
  <1> QED
    BY <1>2, <1>3, <1>4, <1>5, <1>6, <1>7, <1>8, <1>9, <1>10

\* The invariant is inductive, and every step is one that the properties allow.
LEMMA NextInv ==
  ASSUME Inv, [Next]_vars
  PROVE  Inv' /\ [OfferKept]_vars /\ [GivenStep]_vars
  <1>1. CASE UNCHANGED vars
    <2>1. IInv'
      BY <1>1 DEF vars, trades, Inv, IInv, TradesType, PartnersAgree, TableExact
    <2>2. online' \subseteq Players /\ UNCHANGED <<position, place, used, tradePartner, tradeItem, tradeItems>>
      BY <1>1 DEF vars, trades, Inv, TypeOK
    <2> QED
      BY <1>1, <2>1, <2>2, NothingTraded
  <1>2. CASE Next
    <2>1. PICK p \in Players :
            \/ \E partner \in Players, i \in Items : PlayerRequestTrade(p, partner, i)
            \/ PlayerCloseTrade(p) \/ AcceptFirst(p) \/ AcceptSecond(p)
            \/ \E i \in Items, to \in {p} \union Ground \union Containers : MoveItem(p, i, to)
            \/ \E i \in Items : UseItem(p, i)
            \/ \E x \in Spots : Walk(p, x)
            \/ Leave(p) \/ Enter(p)
      BY <1>2 DEF Next
    <2>2. IInv' /\ Inv' /\ OfferKept
      BY <2>1, StepKeeps
    <2>3. GivenStep
      <3>1. ASSUME NEW q \in Players, AcceptSecond(q), place' # place
            PROVE  Handed(q, tradePartner[q], tradeItem[q], tradeItem[tradePartner[q]], place')
        BY <2>2, <3>1, AcceptSecondKeeps DEF Exchanged
      <3> QED
        BY <3>1 DEF GivenStep, Handed, Inside
    <2> QED
      BY <2>2, <2>3
  <1> QED
    BY <1>1, <1>2

\* So it holds in every state of every behaviour.
LEMMA InvAlways == Spec => []Inv
  <1>1. Inv /\ [Next]_vars => Inv'
    BY NextInv
  <1> QED
    BY InitInv, <1>1, PTL DEF Spec

\* Nothing is promised twice, neither an item nor one within another, and the
\* table of traded items is exactly what the players trade, whoever moves what
\* between the offers (playerRequestTrade, and the hooks that close trades when
\* an item or a container around it moves).
THEOREM PromisedOnceAlways == Spec => []PromisedOnce
  <1>1. Inv => PromisedOnce
    BY DEF Inv, IInv, TableExact, Apart, PromisedOnce
  <1> QED
    BY <1>1, InvAlways, PTL

\* Partners stay near each other and near their items, whoever walks
\* (onCreatureMove) and whoever moves the containers the items are in.
THEOREM InReachAlways == Spec => []InReach
  <1>1. Inv => InReach
    BY DEF Inv
  <1> QED
    BY <1>1, InvAlways, PTL

\* Whoever accepts gets what was shown: an item that stays offered stays where it
\* is, with the same contents, at every depth (onAddContainerItem,
\* onRemoveContainerItem, onUpdateContainerItem and their kin).
THEOREM OfferUnchangedAlways == Spec => OfferUnchanged
  <1>1. Inv /\ [Next]_vars => [OfferKept]_vars
    BY NextInv
  <1> QED
    BY <1>1, InvAlways, PTL DEF Spec, OfferUnchanged, OfferKept

\* What an exchange gives away is gone with all that is in it, wherever room was
\* found for it, and nothing changes hands by the way (queryDestination and
\* internalMoveItem, called at the end of playerAcceptTrade).
THEOREM GivenWholeAlways == Spec => GivenWhole
  <1>1. Inv /\ [Next]_vars => [GivenStep]_vars
    BY NextInv
  <1> QED
    BY <1>1, InvAlways, PTL DEF Spec, GivenWhole, GivenStep
=============================================================================
