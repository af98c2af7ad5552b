---------------------------- MODULE SessionProofs ----------------------------
(***************************************************************************)
(* Theorems about Session, for any number of clients, characters, objects  *)
(* and queued events.                                                      *)
(***************************************************************************)
EXTENDS Session, SequenceTheorems, FiniteSetTheorems, WellFoundedInduction, TLAPS

Events == [op : {"login", "release"}, client : Clients, name : Players \union {NoPlayer}]

\* The logins of client c in queue q.
LoginAt(q, c, i) == q[i].op = "login" /\ q[i].client = c
HasLogin(q, c) == \E i \in 1 .. Len(q) : LoginAt(q, c, i)
OneLogin(q, c) == \A i, j \in 1 .. Len(q) : LoginAt(q, c, i) /\ LoginAt(q, c, j) => i = j

Holds(c) == \E o \in Objects : client[o] = c

SessionTypes ==
  /\ connection \in [Clients -> {"none", "open", "closed", "expired"}]
  /\ queue \in Seq(Events)
  /\ eventConnect \in [Clients -> Players \union {NoPlayer}]
  /\ player = [c \in Clients |-> player[c]]
  /\ client \in [Objects -> Clients \union {NoClient}]
  /\ placed \subseteq Objects /\ dead \subseteq Objects

\* A client logs in once: its login is one event, or the connect scheduled for
\* it, and until that is done the client has no player.
LoginInv ==
  \A c \in Clients :
    /\ OneLogin(queue, c)
    /\ eventConnect[c] # NoPlayer => ~HasLogin(queue, c) /\ ~Holds(c)
    /\ HasLogin(queue, c) => ~Holds(c)
    /\ connection[c] = "none" =>
         eventConnect[c] = NoPlayer /\ ~HasLogin(queue, c) /\ ~Holds(c)

-----------------------------------------------------------------------------
(* The queue.                                                              *)

\* Nothing that happens to the queue adds a login.
NoNewLogin(q, r) ==
  /\ r \in Seq(Events)
  /\ \A c \in Clients : (HasLogin(r, c) => HasLogin(q, c)) /\ (OneLogin(q, c) => OneLogin(r, c))

LEMMA EventTypes ==
  ASSUME NEW c \in Clients
  PROVE  /\ ReleaseEvent(c) \in Events /\ ReleaseEvent(c).op = "release"
         /\ \A p \in Players : /\ LoginEvent(c, p) \in Events
                               /\ LoginEvent(c, p).op = "login" /\ LoginEvent(c, p).client = c
  BY DEF ReleaseEvent, LoginEvent, Events

LEMMA TailLogins ==
  ASSUME NEW q \in Seq(Events), q # << >>
  PROVE  /\ NoNewLogin(q, Tail(q))
         /\ \A c \in Clients : LoginAt(q, c, 1) /\ OneLogin(q, c) => ~HasLogin(Tail(q), c)
         /\ Head(q) = q[1] /\ 1 \in 1 .. Len(q)
  <1>1. /\ Len(q) \in Nat \ {0} /\ Tail(q) \in Seq(Events) /\ Len(Tail(q)) = Len(q) - 1
        /\ \A i \in 1 .. Len(Tail(q)) : Tail(q)[i] = q[i + 1]
    BY EmptySeq, HeadTailProperties
  <1>2. ASSUME NEW i \in 1 .. Len(Tail(q))
        PROVE  /\ i + 1 \in 1 .. Len(q) /\ i + 1 # 1
               /\ \A c \in Clients : LoginAt(Tail(q), c, i) => LoginAt(q, c, i + 1)
    BY <1>1, <1>2 DEF LoginAt
  <1>3. \A i, j \in 1 .. Len(Tail(q)) : i + 1 = j + 1 => i = j
    BY <1>1
  <1>4. Head(q) = q[1] /\ 1 \in 1 .. Len(q)
    BY <1>1
  <1> QED
    BY <1>1, <1>2, <1>3, <1>4 DEF NoNewLogin, HasLogin, OneLogin

\* What is appended is behind everything else.
LEMMA ConcatLogins ==
  ASSUME NEW q \in Seq(Events), NEW r \in Seq(Events),
         \A i \in 1 .. Len(r) : r[i].op = "release"
  PROVE  NoNewLogin(q, q \o r)
  <1>1. /\ q \o r \in Seq(Events) /\ Len(q \o r) = Len(q) + Len(r)
        /\ Len(q) \in Nat /\ Len(r) \in Nat
        /\ \A i \in 1 .. Len(q) + Len(r) :
             (q \o r)[i] = IF i <= Len(q) THEN q[i] ELSE r[i - Len(q)]
    BY ConcatProperties, LenProperties
  <1>2. ASSUME NEW c \in Clients, NEW i \in 1 .. Len(q \o r), LoginAt(q \o r, c, i)
        PROVE  i \in 1 .. Len(q) /\ LoginAt(q, c, i)
    <2>1. i <= Len(q)
      <3>1. CASE ~(i <= Len(q))
        <4>1. i - Len(q) \in 1 .. Len(r) /\ (q \o r)[i] = r[i - Len(q)]
          BY <1>1, <3>1
        <4> QED
          BY <1>2, <4>1 DEF LoginAt
      <3> QED
        BY <3>1
    <2> QED
      BY <1>1, <1>2, <2>1 DEF LoginAt
  <1> QED
    BY <1>1, <1>2 DEF NoNewLogin, HasLogin, OneLogin

\* The releases of some clients, in some order.
LEMMA ReleasesAre ==
  ASSUME SessionTypes, NEW cs, cs \subseteq Clients \union {NoClient}
  PROVE  /\ Releases(cs) \in Seq(Events)
         /\ \A i \in 1 .. Len(Releases(cs)) : Releases(cs)[i].op = "release"
  <1> USE SessionAssumption
  <1> DEFINE closed == {d \in cs \ {NoClient} : connection[d] = "open"}
             S == {ReleaseEvent(c) : c \in closed}
             f == [e \in S |-> e.client]
  <1>1. closed \subseteq Clients
    OBVIOUS
  <1>2. \A e \in S : e \in Events /\ e.op = "release" /\ e.client \in Clients
                       /\ e = ReleaseEvent(e.client)
    BY <1>1 DEF ReleaseEvent, Events
  <1>3. f \in Injection(S, Clients)
    BY <1>2 DEF Injection, IsInjective
  <1>4. IsFiniteSet(S)
    BY <1>3, FS_Injection
  <1>5. Cardinality(S) \in Nat /\ ExistsBijection(1 .. Cardinality(S), S)
    BY <1>4, FS_CardinalityType
  <1>6. \E g \in [1 .. Cardinality(S) -> S] : IsInjective(g)
    BY <1>5 DEF ExistsBijection, Bijection, Injection
  <1>7. SetToSeq(S) \in [1 .. Cardinality(S) -> S]
    BY <1>6 DEF SetToSeq
  <1>8. Releases(cs) = SetToSeq(S)
    BY DEF Releases
  <1> HIDE DEF S
  <1>9. SetToSeq(S) \in Seq(Events) /\ Len(SetToSeq(S)) = Cardinality(S)
    BY <1>2, <1>5, <1>7
  <1> QED
    BY <1>2, <1>7, <1>8, <1>9

LEMMA ReleasesLogins ==
  ASSUME SessionTypes, NEW q \in Seq(Events), NEW cs, cs \subseteq Clients \union {NoClient}
  PROVE  NoNewLogin(q, q \o Releases(cs))
  BY ReleasesAre, ConcatLogins

LEMMA AppendLogins ==
  ASSUME NEW q \in Seq(Events), NEW c \in Clients
  PROVE  /\ NoNewLogin(q, Append(q, ReleaseEvent(c)))
         /\ \A p \in Players : ~HasLogin(q, c) =>
              LET r == Append(q, LoginEvent(c, p))
              IN  /\ r \in Seq(Events)
                  /\ \A d \in Clients : /\ d # c => (HasLogin(r, d) => HasLogin(q, d))
                                        /\ OneLogin(q, d) => OneLogin(r, d)
  <1>1. ASSUME NEW e \in Events
        PROVE  /\ Append(q, e) \in Seq(Events) /\ Len(Append(q, e)) = Len(q) + 1
               /\ Append(q, e)[Len(q) + 1] = e
               /\ \A i \in 1 .. Len(q) : Append(q, e)[i] = q[i]
    OBVIOUS
  <1>2. Len(q) \in Nat /\ \A i \in 1 .. Len(q) + 1 : i \in 1 .. Len(q) \/ i = Len(q) + 1
    OBVIOUS
  <1>3. NoNewLogin(q, Append(q, ReleaseEvent(c)))
    BY <1>1, <1>2, EventTypes DEF NoNewLogin, HasLogin, OneLogin, LoginAt
  <1>4. ASSUME NEW p \in Players, ~HasLogin(q, c), NEW d \in Clients
        PROVE  LET r == Append(q, LoginEvent(c, p))
               IN  /\ r \in Seq(Events)
                   /\ d # c => (HasLogin(r, d) => HasLogin(q, d))
                   /\ OneLogin(q, d) => OneLogin(r, d)
    <2> DEFINE r == Append(q, LoginEvent(c, p))
    <2>1. /\ r \in Seq(Events) /\ Len(r) = Len(q) + 1 /\ r[Len(q) + 1] = LoginEvent(c, p)
          /\ \A i \in 1 .. Len(q) : r[i] = q[i]
      BY <1>1, EventTypes
    <2>2. LoginEvent(c, p).client = c
      BY EventTypes
    <2> HIDE DEF r
    <2>3. d # c => (HasLogin(r, d) => HasLogin(q, d))
      BY <1>2, <2>1, <2>2 DEF HasLogin, LoginAt
    <2>4. OneLogin(q, d) => OneLogin(r, d)
      <3>1. CASE d # c
        BY <1>2, <2>1, <2>2, <3>1 DEF OneLogin, LoginAt
      <3>2. CASE d = c
        BY <1>2, <1>4, <2>1, <3>2 DEF OneLogin, HasLogin, LoginAt
      <3> QED
        BY <3>1, <3>2
    <2> QED
      BY <2>1, <2>3, <2>4 DEF r
  <1> QED
    BY <1>3, <1>4
-----------------------------------------------------------------------------
(* What steps have in common.                                              *)

\* Closing connections makes none of them new.
LEMMA CloseKeeps ==
  ASSUME SessionTypes, NEW cs, Close(cs)
  PROVE  /\ connection' \in [Clients -> {"none", "open", "closed", "expired"}]
         /\ \A c \in Clients : connection'[c] = "none" => connection[c] = "none"
  BY DEF SessionTypes, Close

LEMMA DisconnectKeeps ==
  ASSUME SessionTypes, NEW c \in Clients \union {NoClient}, NEW q \in Seq(Events),
         Disconnect(c, q)
  PROVE  /\ connection' \in [Clients -> {"none", "open", "closed", "expired"}]
         /\ \A d \in Clients : connection'[d] = "none" => connection[d] = "none"
         /\ NoNewLogin(q, queue')
  BY CloseKeeps, ReleasesLogins DEF Disconnect

LEMMA NoNewLoginChain ==
  ASSUME NEW q, NEW r, NEW s, NoNewLogin(q, r), NoNewLogin(r, s)
  PROVE  NoNewLogin(q, s)
  BY DEF NoNewLogin

\* A step that gives no client a login or a player.
LEMMA LoginsKept ==
  ASSUME SessionTypes, LoginInv,
         connection' \in [Clients -> {"none", "open", "closed", "expired"}],
         \A c \in Clients : connection'[c] = "none" => connection[c] = "none",
         NoNewLogin(queue, queue'), eventConnect' = eventConnect,
         \A o \in Objects : client'[o] \in {client[o], NoClient}
  PROVE  LoginInv'
  <1>1. \A c \in Clients : Holds(c)' => Holds(c)
    BY SessionAssumption DEF Holds
  <1> QED
    BY <1>1 DEF LoginInv, NoNewLogin

\* A step that takes clients from objects only.
LEMMA HoldersKept ==
  ASSUME ClientHoldsPlayer, player' = player,
         \A o \in Objects : client'[o] \in {client[o], NoClient}
  PROVE  ClientHoldsPlayer'
  BY DEF ClientHoldsPlayer

\* A client without a player takes one.
LEMMA PlayerTaken ==
  ASSUME SessionTypes, ClientHoldsPlayer, NEW c \in Clients, ~Holds(c), NEW o,
         player' = [player EXCEPT ![c] = o], client' = [client EXCEPT ![o] = c]
  PROVE  /\ ClientHoldsPlayer'
         /\ player' = [d \in Clients |-> player'[d]]
         /\ client' \in [Objects -> Clients \union {NoClient}]
         /\ \A d \in Clients \ {c} : Holds(d)' => Holds(d)
  <1>1. /\ player' = [d \in Clients |-> player'[d]]
        /\ client' \in [Objects -> Clients \union {NoClient}]
        /\ player'[c] = o /\ \A d \in Clients \ {c} : player'[d] = player[d]
        /\ \A x \in Objects : client'[x] = IF x = o THEN c ELSE client[x]
    BY DEF SessionTypes
  <1>2. ASSUME NEW x \in Objects, client'[x] # NoClient
        PROVE  player'[client'[x]] = x
    <2>1. CASE x = o
      BY <1>1, <2>1
    <2>2. CASE x # o
      <3>1. client'[x] = client[x] /\ client[x] \in Clients \ {c}
        BY <1>1, <1>2, <2>2 DEF SessionTypes, Holds
      <3> QED
        BY <1>1, <1>2, <3>1 DEF ClientHoldsPlayer
    <2> QED
      BY <2>1, <2>2
  <1> QED
    BY <1>1, <1>2 DEF ClientHoldsPlayer, Holds

\* The login at the head of the queue is the only one of its client.
LEMMA LoginTaken ==
  ASSUME SessionTypes, LoginInv, NEW c \in Clients, NEW p \in Players, Logins(c, p)
  PROVE  /\ Tail(queue) \in Seq(Events)
         /\ NoNewLogin(queue, Tail(queue)) /\ ~HasLogin(Tail(queue), c)
         /\ eventConnect[c] = NoPlayer /\ ~Holds(c) /\ connection[c] # "none"
  <1>1. queue # << >> /\ queue[1] = LoginEvent(c, p) /\ queue \in Seq(Events)
    BY TailLogins DEF Logins, SessionTypes
  <1>2. LoginAt(queue, c, 1) /\ HasLogin(queue, c) /\ OneLogin(queue, c)
    BY <1>1, TailLogins, EventTypes DEF LoginAt, HasLogin, LoginInv
  <1>3. NoNewLogin(queue, Tail(queue)) /\ ~HasLogin(Tail(queue), c)
    BY <1>1, <1>2, TailLogins
  <1> QED
    BY <1>2, <1>3 DEF NoNewLogin, LoginInv

\* connect, by a client whose login has been taken.
LEMMA ConnectKeeps ==
  ASSUME SessionTypes, LoginInv, ClientHoldsPlayer, NEW c \in Clients, NEW p \in Players,
         NEW q \in Seq(Events), NoNewLogin(queue, q), ~HasLogin(q, c), ~Holds(c),
         connection[c] # "none", Connect(c, p, q),
         eventConnect' \in [Clients -> Players \union {NoPlayer}], eventConnect'[c] = NoPlayer,
         \A d \in Clients \ {c} : eventConnect'[d] = eventConnect[d],
         placed' = placed, dead' = dead
  PROVE  SessionTypes' /\ LoginInv' /\ ClientHoldsPlayer'
  <1>1. /\ connection' \in [Clients -> {"none", "open", "closed", "expired"}]
        /\ \A d \in Clients : connection'[d] = "none" => connection[d] = "none"
        /\ NoNewLogin(q, queue')
    <2>1. CASE Disconnect(c, q)
      BY <2>1, DisconnectKeeps
    <2>2. CASE connection' = connection /\ queue' = q
      BY <2>2 DEF SessionTypes, NoNewLogin
    <2> QED
      BY <2>1, <2>2 DEF Connect
  <1>2. NoNewLogin(queue, queue') /\ ~HasLogin(queue', c)
    BY <1>1, NoNewLoginChain DEF NoNewLogin
  <1>3. /\ ClientHoldsPlayer'
        /\ player' = [d \in Clients |-> player'[d]]
        /\ client' \in [Objects -> Clients \union {NoClient}]
        /\ \A d \in Clients \ {c} : Holds(d)' => Holds(d)
    <2>1. CASE player' = player /\ client' = client
      BY <2>1, HoldersKept DEF SessionTypes, Holds
    <2>2. CASE \E o \in Online(p) : player' = [player EXCEPT ![c] = o]
                                    /\ client' = [client EXCEPT ![o] = c]
      BY <2>2, PlayerTaken
    <2> QED
      BY <2>1, <2>2 DEF Connect
  <1>4. LoginInv'
    <2>1. ASSUME NEW d \in Clients
          PROVE  /\ OneLogin(queue', d)
                 /\ d # c => (HasLogin(queue', d) => HasLogin(queue, d))
      BY <1>2 DEF LoginInv, NoNewLogin
    <2>2. connection'[c] # "none" /\ ~HasLogin(queue', c) /\ eventConnect'[c] = NoPlayer
      BY <1>1, <1>2
    <2>3. ASSUME NEW d \in Clients \ {c}
          PROVE  /\ eventConnect'[d] = eventConnect[d]
                 /\ connection'[d] = "none" => connection[d] = "none"
                 /\ HasLogin(queue', d) => HasLogin(queue, d)
                 /\ Holds(d)' => Holds(d)
      BY <1>1, <1>3, <2>1
    <2> QED
      BY <2>1, <2>2, <2>3 DEF LoginInv
  <1>5. SessionTypes'
    BY <1>1, <1>2, <1>3 DEF SessionTypes, NoNewLogin
  <1> QED
    BY <1>3, <1>4, <1>5
-----------------------------------------------------------------------------
(* The steps.                                                              *)

SessionInv == SessionTypes /\ LoginInv /\ ClientHoldsPlayer

\* A step that takes no login, gives no player, and may close connections.
LEMMA OthersKept ==
  ASSUME SessionInv,
         connection' \in [Clients -> {"none", "open", "closed", "expired"}],
         \A c \in Clients : connection'[c] = "none" => connection[c] = "none",
         NoNewLogin(queue, queue'), eventConnect' = eventConnect,
         player' = player, client' = client,
         placed' \subseteq Objects, dead' \subseteq Objects
  PROVE  SessionInv'
  <1>1. \A o \in Objects : client'[o] \in {client[o], NoClient}
    OBVIOUS
  <1>2. LoginInv' /\ ClientHoldsPlayer'
    BY <1>1, LoginsKept, HoldersKept DEF SessionInv
  <1> QED
    BY <1>2 DEF SessionInv, SessionTypes, NoNewLogin

LEMMA SameQueue == SessionTypes => NoNewLogin(queue, queue)
  BY DEF SessionTypes, NoNewLogin

LEMMA DisconnectStep ==
  ASSUME SessionInv, NEW c \in Clients \union {NoClient}, NEW q, NoNewLogin(queue, q),
         Disconnect(c, q), UNCHANGED <<eventConnect, player, client>>,
         placed' \subseteq Objects, dead' \subseteq Objects
  PROVE  SessionInv'
  <1>1. /\ connection' \in [Clients -> {"none", "open", "closed", "expired"}]
        /\ \A d \in Clients : connection'[d] = "none" => connection[d] = "none"
        /\ NoNewLogin(q, queue')
    BY DisconnectKeeps DEF SessionInv, NoNewLogin
  <1> QED
    BY <1>1, NoNewLoginChain, OthersKept

LEMMA OnlineClients ==
  ASSUME SessionTypes, NEW p
  PROVE  {client[o] : o \in Online(p)} \subseteq Clients \union {NoClient}
  BY DEF Online, SessionTypes

LEMMA NetworkKeeps ==
  ASSUME SessionInv, NEW c \in Clients, Network(c)
  PROVE  SessionInv'
  <1> USE DEF protocolVars, playerVars
  <1>1. SessionTypes /\ queue \in Seq(Events)
    BY DEF SessionInv, SessionTypes
  <1>0. placed \subseteq Objects /\ dead \subseteq Objects
    BY <1>1 DEF SessionTypes
  <1>2. ASSUME NEW p \in Players, RefusedWhileDead(c, p) PROVE SessionInv'
    <2>1. connection' = [connection EXCEPT ![c] = "closed"]
      BY <1>2 DEF RefusedWhileDead
    <2>2. /\ connection' \in [Clients -> {"none", "open", "closed", "expired"}]
          /\ \A d \in Clients : connection'[d] = "none" => connection[d] = "none"
      BY <1>1, <2>1 DEF SessionTypes
    <2>3. NoNewLogin(queue, queue')
      BY <1>1, <1>2, AppendLogins DEF RefusedWhileDead
    <2> QED
      BY <1>0, <1>2, <2>2, <2>3, OthersKept DEF RefusedWhileDead
  <1>3. ASSUME NEW p \in Players, FirstMessage(c, p) PROVE SessionInv'
    <2> DEFINE cs == {client[o] : o \in Online(p)}
               q == queue \o Releases(cs)
    <2>1. NoNewLogin(queue, q)
      BY <1>1, OnlineClients, ReleasesLogins
    <2>2. /\ connection[c] = "none" /\ queue' = Append(q, LoginEvent(c, p))
          /\ eventConnect' = eventConnect /\ player' = player /\ client' = client
      BY <1>3 DEF FirstMessage
    <2>3. /\ connection' \in [Clients -> {"none", "open", "closed", "expired"}]
          /\ connection'[c] = "open"
          /\ \A d \in Clients \ {c} : connection'[d] = "none" => connection[d] = "none"
      BY <1>1, <1>3 DEF FirstMessage, SessionTypes
    <2>4. eventConnect[c] = NoPlayer /\ ~HasLogin(queue, c) /\ ~Holds(c)
      BY <2>2 DEF SessionInv, LoginInv
    <2> HIDE DEF q
    <2>5. q \in Seq(Events) /\ ~HasLogin(q, c)
      BY <2>1, <2>4 DEF NoNewLogin
    <2>6. /\ queue' \in Seq(Events)
          /\ \A d \in Clients : /\ d # c => (HasLogin(queue', d) => HasLogin(q, d))
                                /\ OneLogin(q, d) => OneLogin(queue', d)
      BY <2>2, <2>5, AppendLogins
    <2>7. \A d \in Clients : Holds(d)' <=> Holds(d)
      BY <2>2 DEF Holds
    <2>8. ASSUME NEW d \in Clients
          PROVE  /\ OneLogin(queue', d)
                 /\ d # c => (HasLogin(queue', d) => HasLogin(queue, d))
      BY <2>1, <2>6 DEF SessionInv, LoginInv, NoNewLogin
    <2>9. LoginInv'
      <3>1. ASSUME NEW d \in Clients \ {c}
            PROVE  /\ eventConnect'[d] # NoPlayer => ~HasLogin(queue', d) /\ ~Holds(d)'
                   /\ HasLogin(queue', d) => ~Holds(d)'
                   /\ connection'[d] = "none" =>
                        eventConnect'[d] = NoPlayer /\ ~HasLogin(queue', d) /\ ~Holds(d)'
        BY <2>2, <2>3, <2>7, <2>8 DEF SessionInv, LoginInv
      <3>2. ~Holds(c)' /\ eventConnect'[c] = NoPlayer /\ connection'[c] # "none"
        BY <2>2, <2>3, <2>4, <2>7
      <3> QED
        BY <2>8, <3>1, <3>2 DEF LoginInv
    <2>10. SessionTypes'
      BY <1>0, <1>3, <2>2, <2>3, <2>6 DEF SessionInv, SessionTypes, FirstMessage
    <2>11. ClientHoldsPlayer'
      BY <2>2 DEF SessionInv, ClientHoldsPlayer
    <2> QED
      BY <2>9, <2>10, <2>11 DEF SessionInv
  <1>4. ASSUME NEW p \in Players, FirstMessageFails(c, p) PROVE SessionInv'
    <2> DEFINE cs == {client[o] : o \in Online(p)}
    <2>1. NoNewLogin(queue, queue')
      BY <1>1, <1>4, OnlineClients, ReleasesLogins DEF FirstMessageFails
    <2>2. /\ connection' \in [Clients -> {"none", "open", "closed", "expired"}]
          /\ \A d \in Clients : connection'[d] = "none" => connection[d] = "none"
      BY <1>1, <1>4, CloseKeeps DEF FirstMessageFails
    <2> QED
      BY <1>0, <1>4, <2>1, <2>2, OthersKept DEF FirstMessageFails
  <1>5. CASE ConnectionLost(c)
    BY <1>0, <1>1, <1>5, SameQueue, DisconnectStep DEF ConnectionLost
  <1>6. CASE Expire(c)
    <2>1. connection' = [connection EXCEPT ![c] = "expired"]
      BY <1>6 DEF Expire
    <2>2. /\ connection' \in [Clients -> {"none", "open", "closed", "expired"}]
          /\ \A d \in Clients : connection'[d] = "none" => connection[d] = "none"
      BY <1>1, <2>1 DEF SessionTypes
    <2> QED
      BY <1>0, <1>1, <1>6, <2>2, SameQueue, OthersKept DEF Expire
  <1>7. CASE Destroy(c)
    <2>1. /\ connection' = [connection EXCEPT ![c] = "none"]
          /\ player' = [player EXCEPT ![c] = NoObject]
          /\ client' = [o \in Objects |-> IF client[o] = c THEN NoClient ELSE client[o]]
          /\ queue' = queue /\ eventConnect' = eventConnect /\ eventConnect[c] = NoPlayer
          /\ \A i \in DOMAIN queue : queue[i].client # c
      BY <1>7 DEF Destroy
    <2>2. ~HasLogin(queue, c)
      <3>1. DOMAIN queue = 1 .. Len(queue)
        BY <1>1
      <3> QED
        BY <2>1, <3>1 DEF HasLogin, LoginAt
    <2>3. ~Holds(c)' /\ \A d \in Clients : Holds(d)' => Holds(d)
      BY <2>1, SessionAssumption DEF Holds
    <2>4. SessionTypes'
      <3>1. placed' \subseteq Objects /\ dead' \subseteq Objects
        BY <1>0, <1>7 DEF Destroy, StillDead
      <3> QED
        BY <1>1, <2>1, <3>1 DEF SessionTypes
    <2>5. \A d \in Clients \ {c} : connection'[d] = connection[d] /\ player'[d] = player[d]
      BY <1>1, <2>1 DEF SessionTypes
    <2>6. LoginInv'
      BY <2>1, <2>2, <2>3, <2>5 DEF SessionInv, LoginInv
    <2>7. ASSUME NEW o \in Objects, client'[o] # NoClient
          PROVE  player'[client'[o]] = o
      <3>1. client'[o] = client[o] /\ client[o] \in Clients \ {c}
        BY <1>1, <2>1, <2>7 DEF SessionTypes
      <3> QED
        BY <2>5, <2>7, <3>1 DEF SessionInv, ClientHoldsPlayer
    <2> QED
      BY <2>4, <2>6, <2>7 DEF SessionInv, ClientHoldsPlayer
  <1> QED
    BY <1>2, <1>3, <1>4, <1>5, <1>6, <1>7 DEF Network
LEMMA LoginKeeps ==
  ASSUME SessionInv, NEW c \in Clients, LoginStep(c)
  PROVE  SessionInv'
  <1> USE DEF protocolVars, playerVars
  <1>1. placed \subseteq Objects /\ dead \subseteq Objects /\ SessionTypes /\ LoginInv
        /\ ClientHoldsPlayer
    BY DEF SessionInv, SessionTypes
  <1>2. ASSUME NEW p \in Players, RefuseLogin(c, p) \/ RefuseSecondLogin(c, p)
        PROVE  SessionInv'
    <2>1. NoNewLogin(queue, Tail(queue)) /\ Disconnect(c, Tail(queue))
      BY <1>1, <1>2, LoginTaken DEF RefuseLogin, RefuseSecondLogin
    <2> QED
      BY <1>1, <1>2, <2>1, DisconnectStep DEF RefuseLogin, RefuseSecondLogin
  <1>3. ASSUME NEW p \in Players, EnterGame(c, p)
        PROVE  SessionInv'
    <2>1. Logins(c, p)
      BY <1>3 DEF EnterGame
    <2>2. /\ Tail(queue) \in Seq(Events) /\ NoNewLogin(queue, Tail(queue))
          /\ ~HasLogin(Tail(queue), c) /\ eventConnect[c] = NoPlayer /\ ~Holds(c)
          /\ connection[c] # "none"
      BY <1>1, <2>1, LoginTaken
    <2>3. CASE Disconnect(c, Tail(queue)) /\ UNCHANGED <<protocolVars, playerVars>>
      BY <1>1, <2>2, <2>3, DisconnectStep
    <2> DEFINE o == NewObject(p)
    <2>4. CASE /\ Spare(p) # {}
               /\ player' = [player EXCEPT ![c] = o]
               /\ client' = [client EXCEPT ![o] = c]
               /\ placed' = placed \union {o}
               /\ dead' = dead
               /\ queue' = Tail(queue)
               /\ UNCHANGED <<connection, eventConnect>>
      <3>1. o \in Objects
        BY <2>4 DEF NewObject, Spare
      <3> HIDE DEF o
      <3>2. /\ ClientHoldsPlayer'
            /\ player' = [d \in Clients |-> player'[d]]
            /\ client' \in [Objects -> Clients \union {NoClient}]
            /\ \A d \in Clients \ {c} : Holds(d)' => Holds(d)
        BY <1>1, <2>2, <2>4, PlayerTaken
      <3>3. SessionTypes'
        BY <1>1, <2>2, <2>4, <3>1, <3>2 DEF SessionTypes
      <3>4. \A d \in Clients : /\ OneLogin(queue', d)
                               /\ HasLogin(queue', d) => HasLogin(queue, d)
        BY <1>1, <2>2, <2>4 DEF LoginInv, NoNewLogin
      <3>5. LoginInv'
        BY <1>1, <2>2, <2>4, <3>2, <3>4 DEF LoginInv
      <3> QED
        BY <3>2, <3>3, <3>5 DEF SessionInv
    <2> QED
      BY <1>3, <2>3, <2>4 DEF EnterGame
  <1>4. ASSUME NEW p \in Players, ReplaceLater(c, p)
        PROVE  SessionInv'
    <2>1. /\ Tail(queue) \in Seq(Events) /\ NoNewLogin(queue, Tail(queue))
          /\ ~HasLogin(Tail(queue), c) /\ ~Holds(c) /\ connection[c] # "none"
      BY <1>1, <1>4, LoginTaken DEF ReplaceLater
    <2>2. PICK o \in Online(p) : Disconnect(client[o], Tail(queue))
      BY <1>4 DEF ReplaceLater
    <2>3. client[o] \in Clients \union {NoClient}
      BY <1>1 DEF Online, SessionTypes
    <2>4. /\ connection' \in [Clients -> {"none", "open", "closed", "expired"}]
          /\ \A d \in Clients : connection'[d] = "none" => connection[d] = "none"
          /\ NoNewLogin(Tail(queue), queue')
      BY <1>1, <2>1, <2>2, <2>3, DisconnectKeeps
    <2>5. NoNewLogin(queue, queue') /\ ~HasLogin(queue', c)
      BY <2>1, <2>4, NoNewLoginChain DEF NoNewLogin
    <2>6. /\ eventConnect' = [eventConnect EXCEPT ![c] = p]
          /\ UNCHANGED <<player, client, placed, dead>>
      BY <1>4 DEF ReplaceLater
    <2>7. \A d \in Clients : Holds(d)' <=> Holds(d)
      BY <2>6 DEF Holds
    <2>8. \A d \in Clients \ {c} : eventConnect'[d] = eventConnect[d]
      BY <1>1, <2>6 DEF SessionTypes
    <2>9. \A d \in Clients : /\ OneLogin(queue', d)
                             /\ HasLogin(queue', d) => HasLogin(queue, d)
      BY <1>1, <2>5 DEF LoginInv, NoNewLogin
    <2>10. LoginInv'
      BY <1>1, <2>1, <2>4, <2>5, <2>7, <2>8, <2>9 DEF LoginInv
    <2>11. SessionTypes' /\ ClientHoldsPlayer'
      BY <1>1, <2>4, <2>5, <2>6 DEF SessionTypes, NoNewLogin, ClientHoldsPlayer
    <2> QED
      BY <2>10, <2>11 DEF SessionInv
  <1>5. ASSUME NEW p \in Players, ConnectNow(c, p)
        PROVE  SessionInv'
    <2>1. /\ Tail(queue) \in Seq(Events) /\ NoNewLogin(queue, Tail(queue))
          /\ ~HasLogin(Tail(queue), c) /\ ~Holds(c) /\ connection[c] # "none"
          /\ eventConnect[c] = NoPlayer
      BY <1>1, <1>5, LoginTaken DEF ConnectNow
    <2>2. /\ Connect(c, p, Tail(queue)) /\ eventConnect' = eventConnect
          /\ placed' = placed /\ dead' = dead
      BY <1>5 DEF ConnectNow
    <2>3. eventConnect' \in [Clients -> Players \union {NoPlayer}]
      BY <1>1, <2>2 DEF SessionTypes
    <2> QED
      BY <1>1, <2>1, <2>2, <2>3, ConnectKeeps DEF SessionInv
  <1> QED
    BY <1>2, <1>3, <1>4, <1>5 DEF LoginStep

LEMMA ConnectLaterKeeps ==
  ASSUME SessionInv, NEW c \in Clients, ConnectLater(c)
  PROVE  SessionInv'
  <1> DEFINE p == eventConnect[c]
  <1>1. SessionTypes /\ LoginInv /\ ClientHoldsPlayer /\ queue \in Seq(Events)
    BY DEF SessionInv, SessionTypes
  <1>2. p \in Players /\ ~HasLogin(queue, c) /\ ~Holds(c) /\ connection[c] # "none"
    BY <1>1 DEF ConnectLater, SessionTypes, LoginInv
  <1>3. /\ Connect(c, p, queue) /\ placed' = placed /\ dead' = dead
        /\ eventConnect' = [eventConnect EXCEPT ![c] = NoPlayer]
    BY DEF ConnectLater
  <1>4. /\ eventConnect' \in [Clients -> Players \union {NoPlayer}]
        /\ eventConnect'[c] = NoPlayer
        /\ \A d \in Clients \ {c} : eventConnect'[d] = eventConnect[d]
    BY <1>1, <1>3 DEF SessionTypes
  <1>5. NoNewLogin(queue, queue)
    BY <1>1, SameQueue
  <1> HIDE DEF p
  <1> QED
    BY <1>1, <1>2, <1>3, <1>4, <1>5, ConnectKeeps DEF SessionInv

LEMMA ReleaseKeeps ==
  ASSUME SessionInv, NEW c \in Clients, Release(c)
  PROVE  SessionInv'
  <1>1. SessionTypes /\ LoginInv /\ ClientHoldsPlayer /\ queue \in Seq(Events)
    BY DEF SessionInv, SessionTypes
  <1>2. NoNewLogin(queue, Tail(queue)) /\ queue' = Tail(queue)
    BY <1>1, TailLogins DEF Release
  <1>3. /\ connection' = connection /\ eventConnect' = eventConnect /\ placed' = placed
        /\ dead' \subseteq dead
    BY DEF Release, StillDead
  <1>4. /\ \A o \in Objects : client'[o] \in {client[o], NoClient}
        /\ client' \in [Objects -> Clients \union {NoClient}]
        /\ player' = [d \in Clients |-> player'[d]]
        /\ \A d \in Clients \ {c} : player'[d] = player[d]
        /\ \A o \in Objects : client'[o] = c => player'[c] = o
    <2>1. CASE player[c] # NoObject /\ client[player[c]] = c
      <3>1. /\ client' = [client EXCEPT ![player[c]] = NoClient]
            /\ player' = [player EXCEPT ![c] = NoObject]
        BY <2>1 DEF Release
      <3>2. \A o \in Objects : client[o] = c => player[c] = o
        BY <1>1, SessionAssumption DEF ClientHoldsPlayer
      <3>3. \A o \in Objects : client'[o] # c
        BY <1>1, <3>1, <3>2, SessionAssumption DEF SessionTypes
      <3> QED
        BY <1>1, <3>1, <3>3 DEF SessionTypes
    <2>2. CASE ~(player[c] # NoObject /\ client[player[c]] = c)
      <3>1. client' = client /\ player' = player
        BY <2>2 DEF Release
      <3> QED
        BY <1>1, <3>1, SessionAssumption DEF SessionTypes, ClientHoldsPlayer
    <2> QED
      BY <2>1, <2>2
  <1>5. ASSUME NEW o \in Objects, client'[o] # NoClient
        PROVE  player'[client'[o]] = o
    <2>1. client'[o] = client[o] /\ client[o] \in Clients
      BY <1>1, <1>4, <1>5 DEF SessionTypes
    <2>2. CASE client'[o] = c
      BY <1>4, <2>2
    <2>3. CASE client'[o] # c
      BY <1>1, <1>4, <1>5, <2>1, <2>3 DEF ClientHoldsPlayer
    <2> QED
      BY <2>2, <2>3
  <1>6. LoginInv'
    BY <1>1, <1>2, <1>3, <1>4, LoginsKept DEF SessionTypes
  <1>7. SessionTypes'
    BY <1>1, <1>2, <1>3, <1>4 DEF SessionTypes, NoNewLogin
  <1> QED
    BY <1>5, <1>6, <1>7 DEF SessionInv, ClientHoldsPlayer
LEMMA EndKeeps ==
  ASSUME SessionInv,
         \/ \E c \in Clients : Logout(c) \/ Act(c) \/ Respawn(c)
         \/ \E o \in Objects : Kick(o) \/ Think(o) \/ Die(o)
  PROVE  SessionInv'
  <1> USE DEF protocolVars
  <1>1. placed \subseteq Objects /\ dead \subseteq Objects /\ SessionTypes
    BY DEF SessionInv, SessionTypes
  <1>2. NoNewLogin(queue, queue)
    BY <1>1, SameQueue
  <1>3. ASSUME NEW c \in Clients \union {NoClient}, LogoutBy(c) PROVE SessionInv'
    <2>1. placed' \subseteq Objects /\ dead' \subseteq Objects
      BY <1>1, <1>3 DEF LogoutBy, RemoveCreature
    <2> QED
      BY <1>2, <1>3, <2>1, DisconnectStep DEF LogoutBy
  <1>4. ASSUME UNCHANGED <<connection, queue, eventConnect, player, client>>,
               placed' \subseteq Objects, dead' \subseteq Objects
        PROVE  SessionInv'
    BY <1>1, <1>2, <1>4, OthersKept DEF SessionTypes
  <1>5. ASSUME NEW c \in Clients, Logout(c) PROVE SessionInv'
    BY <1>3, <1>5 DEF Logout
  <1>6. ASSUME NEW c \in Clients, Respawn(c) PROVE SessionInv'
    <2>1. placed' \subseteq Objects /\ dead' \subseteq Objects
      BY <1>1, <1>6 DEF Respawn
    <2>2. CASE UNCHANGED <<connection, queue>>
      BY <1>4, <1>6, <2>1, <2>2 DEF Respawn
    <2>3. CASE Disconnect(c, queue)
      BY <1>2, <1>6, <2>1, <2>3, DisconnectStep DEF Respawn
    <2> QED
      BY <1>6, <2>2, <2>3 DEF Respawn
  <1>7. ASSUME NEW o \in Objects, RemovePlayer(o) PROVE SessionInv'
    <2>1. CASE client[o] # NoClient
      BY <1>1, <1>3, <1>7, <2>1 DEF RemovePlayer, SessionTypes
    <2>2. CASE client[o] = NoClient
      BY <1>1, <1>4, <1>7, <2>2 DEF RemovePlayer, RemoveCreature
    <2> QED
      BY <2>1, <2>2
  <1>8. ASSUME NEW o \in Objects, Die(o) PROVE SessionInv'
    BY <1>1, <1>4, <1>8 DEF Die, StillDead
  <1>9. ASSUME NEW o \in Objects, Kick(o) \/ Think(o) PROVE SessionInv'
    BY <1>1, <1>4, <1>7, <1>9 DEF Kick, Think
  <1>10. ASSUME NEW c \in Clients, Act(c) PROVE SessionInv'
    BY <1>1, <1>4, <1>10 DEF Act
  <1> QED
    BY <1>5, <1>6, <1>8, <1>9, <1>10

THEOREM SessionInvariant == Spec => []SessionInv
  <1>1. Init => SessionInv
    <2> SUFFICES ASSUME Init
                 PROVE  SessionInv
      OBVIOUS
    <2>1. queue \in Seq(Events) /\ Len(queue) = 0
      BY EmptySeq DEF Init
    <2>2. SessionTypes
      BY <2>1 DEF Init, SessionTypes
    <2>3. \A c \in Clients : OneLogin(queue, c) /\ ~HasLogin(queue, c)
      BY <2>1 DEF OneLogin, HasLogin
    <2>4. \A c \in Clients : ~Holds(c) /\ eventConnect[c] = NoPlayer
      BY SessionAssumption DEF Init, Holds
    <2>5. LoginInv
      BY <2>3, <2>4 DEF LoginInv
    <2>6. ClientHoldsPlayer
      BY DEF Init, ClientHoldsPlayer
    <2> QED
      BY <2>2, <2>5, <2>6 DEF SessionInv
  <1>2. SessionInv /\ [Next]_vars => SessionInv'
    <2> SUFFICES ASSUME SessionInv, [Next]_vars
                 PROVE  SessionInv'
      OBVIOUS
    <2>1. ASSUME NEW c \in Clients, Network(c) \/ LoginStep(c) \/ ConnectLater(c) \/ Release(c)
          PROVE  SessionInv'
      BY <2>1, NetworkKeeps, LoginKeeps, ConnectLaterKeeps, ReleaseKeeps
    <2>2. CASE \/ \E c \in Clients : Logout(c) \/ Act(c) \/ Respawn(c)
               \/ \E o \in Objects : Kick(o) \/ Think(o) \/ Die(o)
      BY <2>2, EndKeeps
    <2>3. CASE UNCHANGED vars
      BY <2>3, SameQueue, OthersKept
      DEF vars, protocolVars, playerVars, SessionInv, SessionTypes
    <2> QED
      BY <2>1, <2>2, <2>3 DEF Next
  <1> QED
    BY <1>1, <1>2, PTL DEF Spec

\* A player's client holds that player, for any number of logins, replacements
\* and retries.
THEOREM ClientHoldsPlayerHolds == Spec => []ClientHoldsPlayer
  <1>1. SessionInv => ClientHoldsPlayer
    BY DEF SessionInv
  <1> QED
    BY SessionInvariant, <1>1, PTL

-----------------------------------------------------------------------------
(* Induction, and functions defined by it: what CleanupList needs.         *)

\* Every set of natural numbers has a least one: the order of Nat is well founded.
LEMMA Least ==
  ASSUME NEW T \in SUBSET Nat, T # {}
  PROVE  \E x \in T : \A y \in T : x <= y
  <1>1. PICK R : /\ IsWellFoundedOn(R, Nat)
                 /\ \A x, y \in Nat : x < y => <<x, y>> \in R
    BY NatLessThanWellFounded DEF OpToRel
  <1>2. IsWellFoundedOn(R, Nat) /\ T \subseteq Nat
    BY <1>1
  <1>3. PICK x \in T : \A y \in T : ~ (<<y, x>> \in R)
    BY <1>2, WFMin
  <1>4. \A y \in T : x \in Nat /\ y \in Nat /\ ~ (y < x)
    BY <1>1, <1>3
  <1> QED
    BY <1>4

\* Induction up to K, over the set of the numbers that have the property.
LEMMA InductionTo ==
  ASSUME NEW K \in Nat, NEW S, 0 \in S, \A n \in 0 .. K : n \in S /\ n + 1 <= K => n + 1 \in S
  PROVE  \A n \in 0 .. K : n \in S
  <1> DEFINE T == {n \in 0 .. K : n \notin S}
  <1> SUFFICES ASSUME T # {} PROVE FALSE
    OBVIOUS
  <1>1. PICK x \in T : \A y \in T : x <= y
    <2>1. T \in SUBSET Nat
      OBVIOUS
    <2> HIDE DEF T
    <2> QED
      BY <2>1, Least
  <1>2. x - 1 \in 0 .. K /\ x - 1 \notin T /\ (x - 1) + 1 = x /\ x <= K
    BY <1>1
  <1> QED
    BY <1>1, <1>2

\* g follows the steps G from x, for n steps at least.
Follows(g, x, G, n) == g[0] = x /\ \A m \in 1 .. n : g[m] = G[m][g[m - 1]]

\* A function over 0 .. K can be defined from its value at 0 and its steps.
LEMMA Recursion ==
  ASSUME NEW V, NEW x \in V, NEW K \in Nat, NEW G \in [1 .. K -> [V -> V]]
  PROVE  \E g \in [0 .. K -> V] : Follows(g, x, G, K)
  <1> DEFINE Good(n) == \E g \in [0 .. K -> V] : Follows(g, x, G, n)
             S == {n \in 0 .. K : Good(n)}
  <1>1. 0 \in S
    <2>1. [m \in 0 .. K |-> x] \in [0 .. K -> V] /\ Follows([m \in 0 .. K |-> x], x, G, 0)
      BY DEF Follows
    <2> QED
      BY <2>1
  <1>2. ASSUME NEW n \in 0 .. K, n \in S, n + 1 <= K PROVE n + 1 \in S
    <2>1. PICK g \in [0 .. K -> V] : Follows(g, x, G, n)
      BY <1>2
    <2> DEFINE h == [m \in 0 .. K |-> IF m = n + 1 THEN G[n + 1][g[n]] ELSE g[m]]
    <2>2. n + 1 \in 1 .. K /\ n \in 0 .. K /\ g[n] \in V
      BY <1>2
    <2>3. h \in [0 .. K -> V]
      BY <2>2
    <2>4. h[0] = x /\ h[n + 1] = G[n + 1][h[n]] /\ \A m \in 0 .. n : h[m] = g[m]
      BY <2>1, <2>2 DEF Follows
    <2> HIDE DEF h
    <2>5. \A m \in 1 .. n + 1 : h[m] = G[m][h[m - 1]]
      <3>1. \A m \in 1 .. n : m - 1 \in 0 .. n /\ m \in 0 .. n
        BY <1>2
      <3>2. \A m \in 1 .. n + 1 : m \in 1 .. n \/ m = n + 1
        BY <1>2
      <3>3. (n + 1) - 1 = n
        BY <1>2
      <3> QED
        BY <2>1, <2>4, <3>1, <3>2, <3>3 DEF Follows
    <2>6. Follows(h, x, G, n + 1)
      BY <2>4, <2>5 DEF Follows
    <2> QED
      BY <2>2, <2>3, <2>6
  <1>3. K \in 0 .. K
    OBVIOUS
  <1>4. K \in S
    <2> HIDE DEF S
    <2> QED
      BY <1>1, <1>2, <1>3, InductionTo
  <1> QED
    BY <1>4

-----------------------------------------------------------------------------
(* The lists of the waiting list.                                          *)

\* t is what is left of the first n entries of list without those in gone, in their
\* order: its k-th entry is the h[k]-th of list.
LeftOf(list, gone, n, t, h) ==
  /\ h \in [1 .. Len(t) -> 1 .. n]
  /\ \A j, k \in 1 .. Len(t) : j < k => h[j] < h[k]
  /\ \A k \in 1 .. Len(t) : t[k] = list[h[k]] /\ list[h[k]] \notin gone
  /\ \A i \in 1 .. n : list[i] \notin gone => \E k \in 1 .. Len(t) : h[k] = i

\* What one entry adds to what is left of those before it.
Extended(t, e, gone) == IF e \in gone THEN t ELSE Append(t, e)

LEMMA ExtendedList ==
  ASSUME NEW S, NEW t \in Seq(S), NEW e \in S, NEW gone PROVE Extended(t, e, gone) \in Seq(S)
  BY DEF Extended

\* The recursive function in CleanupList exists, and has the steps it is defined by.
LEMMA CleanupListSteps ==
  ASSUME NEW S, NEW list \in Seq(S), NEW gone
  PROVE  \E kept : /\ CleanupList(list, gone) = kept[Len(list)]
                   /\ kept[0] = << >>
                   /\ \A n \in 1 .. Len(list) : kept[n] = Extended(kept[n - 1], list[n], gone)
  <1> DEFINE K == Len(list)
             Body(f) == [n \in 0 .. Len(list) |->
                           IF n = 0 THEN << >>
                           ELSE IF list[n] \in gone THEN f[n - 1] ELSE Append(f[n - 1], list[n])]
             kept == CHOOSE f : f = Body(f)
             step(n) == [t \in Seq(S) |-> Extended(t, list[n], gone)]
             G == [n \in 1 .. K |-> step(n)]
  <1>1. K \in Nat /\ << >> \in Seq(S) /\ \A n \in 1 .. K : list[n] \in S
    OBVIOUS
  <1>2. \A n \in 1 .. K : step(n) \in [Seq(S) -> Seq(S)]
    BY <1>1, ExtendedList
  <1>3. \A n \in 1 .. K, t \in Seq(S) : step(n)[t] = Extended(t, list[n], gone)
    OBVIOUS
  <1>4. \A n \in 1 .. K : G[n] = step(n)
    OBVIOUS
  <1>5. G \in [1 .. K -> [Seq(S) -> Seq(S)]]
    <2> HIDE DEF step
    <2> QED
      BY <1>2
  <1>6. \A f : Body(f) = [n \in 0 .. K |-> IF n = 0 THEN << >> ELSE Extended(f[n - 1], list[n], gone)]
    BY DEF Extended
  <1>7. CleanupList(list, gone) = kept[K]
    BY DEF CleanupList
  <1> HIDE DEF step, G, Body, K
  <1>8. PICK g \in [0 .. K -> Seq(S)] : Follows(g, << >>, G, K)
    BY <1>1, <1>5, Recursion
  <1>9. \A n \in 1 .. K : g[n] = Extended(g[n - 1], list[n], gone)
    <2>1. \A n \in 1 .. K : n - 1 \in 0 .. K /\ g[n - 1] \in Seq(S) /\ g[n] = G[n][g[n - 1]]
      BY <1>1, <1>8 DEF Follows
    <2> QED
      BY <1>3, <1>4, <2>1
  <1>10. g = Body(g)
    <2>1. g[0] = << >>
      BY <1>8 DEF Follows
    <2>2. \A n \in 0 .. K : g[n] = IF n = 0 THEN << >> ELSE Extended(g[n - 1], list[n], gone)
      BY <1>1, <1>9, <2>1
    <2>3. g = [n \in 0 .. K |-> IF n = 0 THEN << >> ELSE Extended(g[n - 1], list[n], gone)]
      BY <2>2
    <2> QED
      BY <1>6, <2>3
  <1>11. kept = Body(kept)
    BY <1>10
  <1>12. /\ kept[0] = << >>
         /\ \A n \in 1 .. K : kept[n] = Extended(kept[n - 1], list[n], gone)
    <2> HIDE DEF kept
    <2>1. kept = [n \in 0 .. K |-> IF n = 0 THEN << >> ELSE Extended(kept[n - 1], list[n], gone)]
      BY <1>6, <1>11
    <2>2. \A n \in 0 .. K : kept[n] = IF n = 0 THEN << >> ELSE Extended(kept[n - 1], list[n], gone)
      BY <2>1
    <2>3. 0 \in 0 .. K /\ \A n \in 1 .. K : n \in 0 .. K /\ n # 0
      BY <1>1
    <2> QED
      BY <2>2, <2>3
  <1> QED
    BY <1>7, <1>12 DEF K

\* One more entry, kept or not.
LEMMA LeftOfNext ==
  ASSUME NEW S, NEW list \in Seq(S), NEW gone, NEW n \in Nat, n + 1 \in 1 .. Len(list),
         NEW t \in Seq(S), NEW h, LeftOf(list, gone, n, t, h)
  PROVE  \E g : LeftOf(list, gone, n + 1, Extended(t, list[n + 1], gone), g)
  <1> DEFINE e == list[n + 1]
             m == Len(t)
             g == [k \in 1 .. m + 1 |-> IF k = m + 1 THEN n + 1 ELSE h[k]]
             new == Append(t, e)
  <1>1. /\ m \in Nat
        /\ h \in [1 .. m -> 1 .. n]
        /\ \A j, k \in 1 .. m : j < k => h[j] < h[k]
        /\ \A k \in 1 .. m : t[k] = list[h[k]] /\ list[h[k]] \notin gone
        /\ \A i \in 1 .. n : list[i] \notin gone => \E k \in 1 .. m : h[k] = i
    BY DEF LeftOf
  <1>2. \A i \in 1 .. n + 1 : i \in 1 .. n \/ i = n + 1
    OBVIOUS
  <1>3. CASE e \in gone
    <2>1. Extended(t, e, gone) = t
      BY <1>3 DEF Extended
    <2>2. h \in [1 .. m -> 1 .. n + 1]
      <3>1. 1 .. n \subseteq 1 .. n + 1
        OBVIOUS
      <3> HIDE DEF m
      <3> QED
        BY <1>1, <3>1
    <2>3. \A i \in 1 .. n + 1 : list[i] \notin gone => \E k \in 1 .. m : h[k] = i
      BY <1>1, <1>2, <1>3
    <2>4. LeftOf(list, gone, n + 1, t, h)
      <3> HIDE DEF e
      <3> QED
        BY <1>1, <2>2, <2>3 DEF LeftOf
    <2> QED
      BY <2>1, <2>4
  <1>4. CASE e \notin gone
    <2>1. Extended(t, e, gone) = new
      BY <1>4 DEF Extended
    <2>2. Len(new) = m + 1 /\ new[m + 1] = e /\ \A k \in 1 .. m : new[k] = t[k]
      OBVIOUS
    <2>3. /\ g \in [1 .. m + 1 -> 1 .. n + 1]
          /\ g[m + 1] = n + 1 /\ \A k \in 1 .. m : g[k] = h[k]
      <3> HIDE DEF m
      <3>1. \A k \in 1 .. m + 1 : k = m + 1 \/ (k \in 1 .. m /\ h[k] \in 1 .. n + 1)
        BY <1>1
      <3>2. n + 1 \in 1 .. n + 1 /\ m + 1 \in 1 .. m + 1 /\ \A k \in 1 .. m : k \in 1 .. m + 1 /\ k # m + 1
        BY <1>1
      <3> QED
        BY <3>1, <3>2
    <2> HIDE DEF new, g, m, e
    <2>4. \A k \in 1 .. m + 1 : k \in 1 .. m \/ k = m + 1
      BY <1>1
    <2>5. \A j, k \in 1 .. m + 1 : j < k => g[j] < g[k]
      <3>1. ASSUME NEW j \in 1 .. m + 1, NEW k \in 1 .. m + 1, j < k PROVE g[j] < g[k]
        <4>1. j \in 1 .. m
          BY <1>1, <3>1
        <4>2. h[j] \in 1 .. n
          BY <1>1, <4>1
        <4>3. CASE k = m + 1
          BY <2>3, <4>1, <4>2, <4>3
        <4>4. CASE k \in 1 .. m
          BY <1>1, <2>3, <3>1, <4>1, <4>4
        <4> QED
          BY <2>4, <4>3, <4>4
      <3> QED
        BY <3>1
    <2>6. \A k \in 1 .. m + 1 : new[k] = list[g[k]] /\ list[g[k]] \notin gone
      BY <1>1, <1>4, <2>2, <2>3, <2>4 DEF e
    <2>7. \A i \in 1 .. n + 1 : list[i] \notin gone => \E k \in 1 .. m + 1 : g[k] = i
      <3>1. m + 1 \in 1 .. m + 1 /\ 1 .. m \subseteq 1 .. m + 1
        BY <1>1
      <3> QED
        BY <1>1, <1>2, <2>3, <3>1
    <2>8. LeftOf(list, gone, n + 1, new, g)
      BY <2>2, <2>3, <2>5, <2>6, <2>7 DEF LeftOf
    <2> QED
      BY <2>1, <2>8 DEF e
  <1> QED
    BY <1>3, <1>4

\* cleanupList leaves the entries that have not expired, in their order.
LEMMA CleanupListLeaves ==
  ASSUME NEW S, NEW list \in Seq(S), NEW gone
  PROVE  /\ CleanupList(list, gone) \in Seq(S)
         /\ \E h : LeftOf(list, gone, Len(list), CleanupList(list, gone), h)
  <1>1. PICK kept : /\ CleanupList(list, gone) = kept[Len(list)]
                    /\ kept[0] = << >>
                    /\ \A n \in 1 .. Len(list) : kept[n] = Extended(kept[n - 1], list[n], gone)
    BY CleanupListSteps
  <1> DEFINE K == Len(list)
             Good(n) == kept[n] \in Seq(S) /\ \E h : LeftOf(list, gone, n, kept[n], h)
             Q == {n \in 0 .. K : Good(n)}
  <1>2. K \in Nat /\ K \in 0 .. K /\ 0 \in 0 .. K
    OBVIOUS
  <1>3. 0 \in Q
    <2>1. << >> \in Seq(S) /\ LeftOf(list, gone, 0, << >>, << >>)
      BY DEF LeftOf
    <2>2. Good(0)
      BY <1>1, <2>1
    <2> HIDE DEF Good, K
    <2> QED
      BY <1>2, <2>2
  <1>4. ASSUME NEW n \in 0 .. K, n \in Q, n + 1 <= K PROVE n + 1 \in Q
    <2>1. Good(n)
      BY <1>4
    <2>2. n \in Nat /\ n + 1 \in 1 .. Len(list) /\ (n + 1) - 1 = n /\ n + 1 \in 0 .. K /\ list[n + 1] \in S
      BY <1>2, <1>4
    <2>3. kept[n + 1] = Extended(kept[n], list[n + 1], gone)
      BY <1>1, <2>2
    <2>4. kept[n + 1] \in Seq(S)
      BY <2>1, <2>2, <2>3, ExtendedList
    <2>5. PICK h : LeftOf(list, gone, n, kept[n], h)
      BY <2>1
    <2>6. \E g : LeftOf(list, gone, n + 1, kept[n + 1], g)
      BY <2>1, <2>2, <2>3, <2>5, LeftOfNext
    <2> QED
      BY <2>2, <2>4, <2>6
  <1>5. K \in Q
    <2> HIDE DEF Q
    <2> QED
      BY <1>2, <1>3, <1>4, InductionTo
  <1> QED
    BY <1>1, <1>5

\* t has the entries of list that are not in gone, once each.
Once(t, list, gone) == IsInjective(t) /\ Range(t) = Range(list) \ gone

\* What is left has no entry twice if the list has none.
LEMMA LeftOnce ==
  ASSUME NEW S, NEW list \in Seq(S), IsInjective(list), NEW gone, NEW t \in Seq(S), NEW h,
         LeftOf(list, gone, Len(list), t, h)
  PROVE  Once(t, list, gone)
  <1>1. /\ h \in [1 .. Len(t) -> 1 .. Len(list)]
        /\ \A j, k \in 1 .. Len(t) : j < k => h[j] < h[k]
        /\ \A k \in 1 .. Len(t) : t[k] = list[h[k]] /\ list[h[k]] \notin gone
        /\ \A i \in 1 .. Len(list) : list[i] \notin gone => \E k \in 1 .. Len(t) : h[k] = i
        /\ Len(t) \in Nat /\ DOMAIN t = 1 .. Len(t) /\ Len(list) \in Nat /\ DOMAIN list = 1 .. Len(list)
    BY DEF LeftOf
  <1>2. ASSUME NEW j \in 1 .. Len(t), NEW k \in 1 .. Len(t), t[j] = t[k] PROVE j = k
    <2>1. h[j] = h[k] /\ h[j] \in Int /\ h[k] \in Int
      BY <1>1, <1>2 DEF IsInjective
    <2>2. ~ (j < k) /\ ~ (k < j)
      BY <1>1, <2>1
    <2> QED
      BY <1>1, <2>2
  <1>3. IsInjective(t)
    BY <1>1, <1>2 DEF IsInjective
  <1>4. ASSUME NEW x \in Range(t) PROVE x \in Range(list) /\ x \notin gone
    <2>1. PICK k \in 1 .. Len(t) : t[k] = x
      BY <1>1 DEF Range
    <2>2. h[k] \in 1 .. Len(list) /\ list[h[k]] = x /\ x \notin gone
      BY <1>1, <2>1
    <2> QED
      BY <1>1, <2>2 DEF Range
  <1>5. ASSUME NEW x \in Range(list), x \notin gone PROVE x \in Range(t)
    <2>1. PICK i \in 1 .. Len(list) : list[i] = x
      BY <1>1 DEF Range
    <2>2. PICK k \in 1 .. Len(t) : h[k] = i
      BY <1>1, <1>5, <2>1
    <2>3. t[k] = x
      BY <1>1, <2>1, <2>2
    <2> QED
      BY <1>1, <2>3 DEF Range
  <1> QED
    BY <1>3, <1>4, <1>5 DEF Once

\* An erased entry is the only one that goes.
LEMMA RemoveAtLeaves ==
  ASSUME NEW S, NEW list \in Seq(S), IsInjective(list), NEW k \in 1 .. Len(list)
  PROVE  /\ RemoveAt(list, k) \in Seq(S) /\ IsInjective(RemoveAt(list, k))
         /\ Range(RemoveAt(list, k)) = Range(list) \ {list[k]}
  <1> DEFINE before == SubSeq(list, 1, k - 1)
             after == SubSeq(list, k + 1, Len(list))
             less == RemoveAt(list, k)
             h == [i \in 1 .. Len(list) - 1 |-> IF i <= k - 1 THEN i ELSE i + 1]
  <1>1. /\ before \in Seq(S) /\ Len(before) = k - 1
        /\ \A i \in 1 .. k - 1 : before[i] = list[i]
    OBVIOUS
  <1>2. /\ after \in Seq(S) /\ Len(after) = Len(list) - k
        /\ \A i \in 1 .. Len(list) - k : after[i] = list[k + i]
    OBVIOUS
  <1>3. less = before \o after /\ Len(list) \in Nat /\ DOMAIN list = 1 .. Len(list)
    BY DEF RemoveAt
  <1> HIDE DEF before, after, less, h
  <1>4. /\ before \o after \in Seq(S) /\ Len(before \o after) = Len(before) + Len(after)
        /\ \A i \in 1 .. Len(before) + Len(after) :
             (before \o after)[i] = IF i <= Len(before) THEN before[i] ELSE after[i - Len(before)]
    BY <1>1, <1>2, ConcatProperties
  <1>5. /\ less \in Seq(S) /\ Len(less) = Len(list) - 1
        /\ \A i \in 1 .. Len(list) - 1 : less[i] = IF i <= k - 1 THEN before[i] ELSE after[i - (k - 1)]
    BY <1>1, <1>2, <1>3, <1>4
  <1>6. \A i \in 1 .. Len(list) - 1 : h[i] = (IF i <= k - 1 THEN i ELSE i + 1) /\ h[i] \in 1 .. Len(list) /\ h[i] # k
    BY <1>3 DEF h
  <1>7. \A i \in 1 .. Len(list) - 1 : less[i] = list[h[i]]
    <2>1. ASSUME NEW i \in 1 .. Len(list) - 1, i <= k - 1 PROVE less[i] = list[h[i]]
      BY <1>1, <1>3, <1>5, <1>6, <2>1
    <2>2. ASSUME NEW i \in 1 .. Len(list) - 1, ~ (i <= k - 1) PROVE less[i] = list[h[i]]
      <3>1. i - (k - 1) \in 1 .. Len(list) - k /\ k + (i - (k - 1)) = i + 1
        BY <1>3, <2>2
      <3> QED
        BY <1>2, <1>5, <1>6, <2>2, <3>1
    <2> QED
      BY <2>1, <2>2
  <1>8. LeftOf(list, {list[k]}, Len(list), less, h)
    <2>1. h \in [1 .. Len(list) - 1 -> 1 .. Len(list)]
      BY <1>6 DEF h
    <2>2. \A i, j \in 1 .. Len(list) - 1 : i < j => h[i] < h[j]
      BY <1>3, <1>6
    <2>3. \A i \in 1 .. Len(list) - 1 : list[h[i]] \notin {list[k]}
      BY <1>3, <1>6 DEF IsInjective
    <2>4. ASSUME NEW i \in 1 .. Len(list), list[i] \notin {list[k]}
          PROVE  \E j \in 1 .. Len(list) - 1 : h[j] = i
      <3>1. i # k
        BY <2>4
      <3>2. CASE i < k
        <4>1. i \in 1 .. Len(list) - 1 /\ h[i] = i
          BY <1>3, <1>6, <3>2
        <4> QED
          BY <4>1
      <3>3. CASE i > k
        <4>1. i - 1 \in 1 .. Len(list) - 1 /\ h[i - 1] = i
          BY <1>3, <1>6, <3>3
        <4> QED
          BY <4>1
      <3> QED
        BY <3>1, <3>2, <3>3
    <2> QED
      BY <1>5, <1>7, <2>1, <2>2, <2>3, <2>4 DEF LeftOf
  <1>9. less \in Seq(S)
    BY <1>5
  <1>10. Once(less, list, {list[k]})
    BY <1>8, <1>9, LeftOnce
  <1> QED
    BY <1>9, <1>10 DEF less, Once

LEMMA AppendOnce ==
  ASSUME NEW S, NEW list \in Seq(S), IsInjective(list), NEW e \in S, e \notin Range(list)
  PROVE  /\ Append(list, e) \in Seq(S) /\ IsInjective(Append(list, e))
         /\ Range(Append(list, e)) = Range(list) \union {e}
  <1> DEFINE n == Append(list, e)
  <1>1. /\ n \in Seq(S) /\ Len(list) \in Nat /\ DOMAIN list = 1 .. Len(list)
        /\ DOMAIN n = 1 .. Len(list) + 1 /\ n[Len(list) + 1] = e
        /\ \A i \in 1 .. Len(list) : n[i] = list[i]
    OBVIOUS
  <1> HIDE DEF n
  <1>2. \A i \in 1 .. Len(list) + 1 : i \in 1 .. Len(list) \/ i = Len(list) + 1
    BY <1>1
  <1>3. \A i \in 1 .. Len(list) : list[i] # e
    BY <1>1 DEF Range
  <1>4. IsInjective(n)
    BY <1>1, <1>2, <1>3 DEF IsInjective
  <1>5. \A x : x \in Range(n) <=> x \in Range(list) \/ x = e
    BY <1>1, <1>2 DEF Range
  <1> QED
    BY <1>1, <1>4, <1>5 DEF n

\* No more players than places are in the first places of a list.
LEMMA FirstPlaces ==
  ASSUME NEW S, NEW list \in Seq(S), NEW m \in 0 .. Len(list),
         NEW A, \A x \in A : \E i \in 1 .. m : list[i] = x
  PROVE  IsFiniteSet(A) /\ Cardinality(A) <= m /\ Cardinality(A) \in Nat
  <1> DEFINE f == [i \in 1 .. m |-> list[i]]
             T == {list[i] : i \in 1 .. m}
  <1>1. m \in Int /\ m >= 0
    OBVIOUS
  <1>2. IsFiniteSet(1 .. m) /\ Cardinality(1 .. m) = m
    BY <1>1, FS_Interval
  <1>3. f \in Surjection(1 .. m, T)
    BY DEF Surjection
  <1>4. IsFiniteSet(T) /\ Cardinality(T) <= m
    <2> HIDE DEF f, T
    <2> QED
      BY <1>2, <1>3, FS_Surjection
  <1>5. A \in SUBSET T
    OBVIOUS
  <1>6. IsFiniteSet(A) /\ Cardinality(A) <= Cardinality(T) /\ Cardinality(A) \in Nat /\ Cardinality(T) \in Nat
    <2> HIDE DEF T
    <2> QED
      BY <1>4, <1>5, FS_Subset, FS_CardinalityType
  <1> QED
    BY <1>1, <1>4, <1>6

-----------------------------------------------------------------------------
(* The waiting list.                                                       *)

\* Each list has its own players, once; drift is not negative.
Lists(w, players) ==
  /\ w \in [priorityWaitList : Seq(Premium), waitList : Seq(players \ Premium), drift : Nat]
  /\ IsInjective(w.priorityWaitList) /\ IsInjective(w.waitList)

LEMMA CleanupLists ==
  ASSUME NEW players, NEW w, Lists(w, players), NEW expired
  PROVE  /\ Lists(Cleanup(w, expired), players)
         /\ Range(Cleanup(w, expired).priorityWaitList) = Range(w.priorityWaitList) \ expired
         /\ Range(Cleanup(w, expired).waitList) = Range(w.waitList) \ expired
         /\ Cleanup(w, expired).drift = w.drift
         /\ Cleanup(w, expired).priorityWaitList = CleanupList(w.priorityWaitList, expired)
         /\ Cleanup(w, expired).waitList = CleanupList(w.waitList, expired)
  <1> DEFINE one == CleanupList(w.priorityWaitList, expired)
             two == CleanupList(w.waitList, expired)
  <1>1. w.priorityWaitList \in Seq(Premium) /\ w.waitList \in Seq(players \ Premium) /\ w.drift \in Nat
    BY DEF Lists
  <1>2. one \in Seq(Premium) /\ IsInjective(one) /\ Range(one) = Range(w.priorityWaitList) \ expired
    <2>1. PICK h : LeftOf(w.priorityWaitList, expired, Len(w.priorityWaitList), one, h)
      BY <1>1, CleanupListLeaves
    <2>2. one \in Seq(Premium) /\ IsInjective(w.priorityWaitList)
      BY <1>1, CleanupListLeaves DEF Lists
    <2> HIDE DEF one
    <2>3. Once(one, w.priorityWaitList, expired)
      BY <1>1, <2>1, <2>2, LeftOnce
    <2> QED
      BY <2>2, <2>3 DEF Once
  <1>3. two \in Seq(players \ Premium) /\ IsInjective(two) /\ Range(two) = Range(w.waitList) \ expired
    <2>1. PICK h : LeftOf(w.waitList, expired, Len(w.waitList), two, h)
      BY <1>1, CleanupListLeaves
    <2>2. two \in Seq(players \ Premium) /\ IsInjective(w.waitList)
      BY <1>1, CleanupListLeaves DEF Lists
    <2> HIDE DEF two
    <2>3. Once(two, w.waitList, expired)
      BY <1>1, <2>1, <2>2, LeftOnce
    <2> QED
      BY <2>2, <2>3 DEF Once
  <1> HIDE DEF one, two
  <1>4. /\ Cleanup(w, expired).priorityWaitList = one /\ Cleanup(w, expired).waitList = two
        /\ Cleanup(w, expired).drift = w.drift
        /\ Cleanup(w, expired) \in [priorityWaitList : Seq(Premium), waitList : Seq(players \ Premium), drift : Nat]
    BY <1>1, <1>2, <1>3 DEF Cleanup, Lists, one, two
  <1> QED
    BY <1>2, <1>3, <1>4 DEF Lists, one, two

\* Where a waiting player is.
LEMMA PositionOf ==
  ASSUME NEW players, NEW w, Lists(w, players), NEW p \in Waiting(w)
  PROVE  /\ p \in Range(w[ListOf(p)]) /\ p \in players \union Premium
         /\ Position(w, p) \in 1 .. Len(w[ListOf(p)])
         /\ w[ListOf(p)][Position(w, p)] = p
  <1>1. /\ w.priorityWaitList \in Seq(Premium) /\ w.waitList \in Seq(players \ Premium)
        /\ DOMAIN w.priorityWaitList = 1 .. Len(w.priorityWaitList)
        /\ DOMAIN w.waitList = 1 .. Len(w.waitList)
        /\ p \in Range(w.priorityWaitList) \/ p \in Range(w.waitList)
    BY DEF Lists, Waiting
  <1>2. /\ \A x \in Range(w.priorityWaitList) : x \in Premium
        /\ \A x \in Range(w.waitList) : x \in players \ Premium
    BY <1>1 DEF Range
  <1>3. p \in Range(w[ListOf(p)]) /\ DOMAIN w[ListOf(p)] = 1 .. Len(w[ListOf(p)])
    BY <1>1, <1>2 DEF ListOf
  <1>4. \E i \in DOMAIN w[ListOf(p)] : w[ListOf(p)][i] = p
    BY <1>3 DEF Range
  <1> QED
    BY <1>1, <1>2, <1>3, <1>4 DEF Position

LEMMA AddedLists ==
  ASSUME NEW players, NEW w, Lists(w, players), NEW p \in players
  PROVE  /\ Lists(AddPlayerToList(w, p), players)
         /\ Waiting(AddPlayerToList(w, p)) = Waiting(w) \union {p}
         /\ AddPlayerToList(w, p).drift = w.drift
  <1> DEFINE a == AddPlayerToList(w, p)
  <1>1. CASE p \in Waiting(w)
    BY <1>1 DEF AddPlayerToList
  <1>2. CASE p \notin Waiting(w)
    <2>1. /\ w.priorityWaitList \in Seq(Premium) /\ w.waitList \in Seq(players \ Premium) /\ w.drift \in Nat
          /\ p \notin Range(w.priorityWaitList) /\ p \notin Range(w.waitList)
      BY <1>2 DEF Lists, Waiting
    <2>2. CASE p \in Premium
      <3> DEFINE n == Append(w.priorityWaitList, p)
      <3>1. n \in Seq(Premium) /\ IsInjective(n) /\ Range(n) = Range(w.priorityWaitList) \union {p}
        BY <2>1, <2>2, AppendOnce DEF Lists
      <3>2. a = [w EXCEPT !["priorityWaitList"] = n]
        BY <1>2, <2>2 DEF AddPlayerToList, ListOf
      <3> HIDE DEF n, a
      <3>3. /\ a \in [priorityWaitList : Seq(Premium), waitList : Seq(players \ Premium), drift : Nat]
            /\ a.priorityWaitList = n /\ a.waitList = w.waitList /\ a.drift = w.drift
        BY <2>1, <3>1, <3>2 DEF Lists
      <3>4. Lists(a, players) /\ Waiting(a) = Waiting(w) \union {p} /\ a.drift = w.drift
        BY <3>1, <3>3 DEF Lists, Waiting
      <3> QED
        BY <3>4 DEF a
    <2>3. CASE p \notin Premium
      <3> DEFINE n == Append(w.waitList, p)
      <3>1. n \in Seq(players \ Premium) /\ IsInjective(n) /\ Range(n) = Range(w.waitList) \union {p}
        BY <2>1, <2>3, AppendOnce DEF Lists
      <3>2. a = [w EXCEPT !["waitList"] = n]
        BY <1>2, <2>3 DEF AddPlayerToList, ListOf
      <3> HIDE DEF n, a
      <3>3. /\ a \in [priorityWaitList : Seq(Premium), waitList : Seq(players \ Premium), drift : Nat]
            /\ a.waitList = n /\ a.priorityWaitList = w.priorityWaitList /\ a.drift = w.drift
        BY <2>1, <3>1, <3>2 DEF Lists
      <3>4. Lists(a, players) /\ Waiting(a) = Waiting(w) \union {p} /\ a.drift = w.drift
        BY <3>1, <3>3 DEF Lists, Waiting
      <3> QED
        BY <3>4 DEF a
    <2> QED
      BY <2>2, <2>3
  <1> QED
    BY <1>1, <1>2

LEMMA ErasedLists ==
  ASSUME NEW players, NEW w, Lists(w, players), NEW p \in Waiting(w)
  PROVE  Lists(Erase(w, p), players) /\ Waiting(Erase(w, p)) = Waiting(w) \ {p}
  <1> DEFINE a == Erase(w, p)
             n == RemoveAt(w[ListOf(p)], Position(w, p))
  <1>1. /\ w.priorityWaitList \in Seq(Premium) /\ w.waitList \in Seq(players \ Premium) /\ w.drift \in Nat
        /\ \A x \in Range(w.priorityWaitList) : x \in Premium
        /\ \A x \in Range(w.waitList) : x \notin Premium
    BY DEF Lists, Range
  <1>2. /\ Position(w, p) \in 1 .. Len(w[ListOf(p)])
        /\ w[ListOf(p)][Position(w, p)] = p
    BY PositionOf
  <1>3. a = [w EXCEPT ![ListOf(p)] = n, !.drift = IF p \in Premium THEN w.drift + 1 ELSE w.drift]
    BY <1>1 DEF Erase, ListOf, Lists
  <1>4. CASE p \in Premium
    <2>1. ListOf(p) = "priorityWaitList"
      BY <1>4 DEF ListOf
    <2>2. n \in Seq(Premium) /\ IsInjective(n) /\ Range(n) = Range(w.priorityWaitList) \ {p}
      BY <1>1, <1>2, <2>1, RemoveAtLeaves DEF Lists
    <2> HIDE DEF n, a
    <2>3. /\ a \in [priorityWaitList : Seq(Premium), waitList : Seq(players \ Premium), drift : Nat]
          /\ a.priorityWaitList = n /\ a.waitList = w.waitList
      <3>1. a = [w EXCEPT !["priorityWaitList"] = n, !["drift"] = w.drift + 1]
        BY <1>3, <1>4, <2>1
      <3>2. w \in [priorityWaitList : Seq(Premium), waitList : Seq(players \ Premium), drift : Nat]
        BY DEF Lists
      <3> QED
        BY <1>1, <2>2, <3>1, <3>2
    <2>4. Lists(a, players) /\ Waiting(a) = Waiting(w) \ {p}
      BY <1>1, <1>4, <2>2, <2>3 DEF Lists, Waiting
    <2> QED
      BY <2>4 DEF a
  <1>5. CASE p \notin Premium
    <2>1. ListOf(p) = "waitList"
      BY <1>5 DEF ListOf
    <2>2. n \in Seq(players \ Premium) /\ IsInjective(n) /\ Range(n) = Range(w.waitList) \ {p}
      BY <1>1, <1>2, <2>1, RemoveAtLeaves DEF Lists
    <2> HIDE DEF n, a
    <2>3. /\ a \in [priorityWaitList : Seq(Premium), waitList : Seq(players \ Premium), drift : Nat]
          /\ a.waitList = n /\ a.priorityWaitList = w.priorityWaitList
      <3>1. a = [w EXCEPT !["waitList"] = n, !["drift"] = w.drift]
        BY <1>3, <1>5, <2>1
      <3>2. w \in [priorityWaitList : Seq(Premium), waitList : Seq(players \ Premium), drift : Nat]
        BY DEF Lists
      <3> QED
        BY <1>1, <2>2, <3>1, <3>2
    <2>4. Lists(a, players) /\ Waiting(a) = Waiting(w) \ {p}
      BY <1>1, <1>5, <2>2, <2>3 DEF Lists, Waiting
    <2> QED
      BY <2>4 DEF a
  <1> QED
    BY <1>4, <1>5

LEMMA ClientLoginLists ==
  ASSUME NEW players, NEW w, Lists(w, players), NEW p \in players, NEW playersOnline, NEW expired
  PROVE  Lists(ClientLogin(w, p, playersOnline, expired).list, players)
  <1> DEFINE kept == Cleanup(w, expired)
             added == AddPlayerToList(kept, p)
  <1>1. Lists(kept, players)
    BY CleanupLists
  <1>2. Lists(added, players) /\ p \in Waiting(added)
    <2> HIDE DEF kept
    <2> QED
      BY <1>1, AddedLists
  <1>3. Lists(Erase(added, p), players)
    <2> HIDE DEF added
    <2> QED
      BY <1>2, ErasedLists
  <1>4. ClientLogin(w, p, playersOnline, expired).list \in {w, added, Erase(added, p)}
    BY DEF ClientLogin
  <1> QED
    BY <1>2, <1>3, <1>4

\* Two waiting players have different places: all with priority are before the others.
LEMMA SlotsDiffer ==
  ASSUME NEW players, NEW w, Lists(w, players), NEW p \in Waiting(w), NEW q \in Waiting(w),
         Slot(w, p) = Slot(w, q)
  PROVE  p = q
  <1>1. /\ w.priorityWaitList \in Seq(Premium) /\ w.waitList \in Seq(players \ Premium) /\ w.drift \in Nat
        /\ Len(w.priorityWaitList) \in Nat /\ Len(w.waitList) \in Nat
    BY DEF Lists
  <1>2. ASSUME NEW x \in Waiting(w)
        PROVE  /\ x \in Premium => /\ Slot(w, x) \in 1 .. Len(w.priorityWaitList)
                                   /\ w.priorityWaitList[Slot(w, x)] = x
               /\ x \notin Premium => \E i \in 1 .. Len(w.waitList) :
                                        /\ Slot(w, x) = Len(w.priorityWaitList) + w.drift + i
                                        /\ w.waitList[i] = x
    BY <1>1, PositionOf DEF Slot, ListOf, PrioritySize
  <1> QED
    BY <1>1, <1>2

\* The m first places of left, what is left of list, stand for those before p in
\* list: for all of them, or for those up to p's entry.
Firsts(list, left, p, before, m) ==
  \/ m = Len(left) /\ before \subseteq Range(list)
  \/ \E i \in 1 .. Len(list), k \in 1 .. Len(left) :
       list[i] = p /\ left[k] = p /\ m = k - 1 /\ before = Range(SubSeq(list, 1, i - 1))

\* Who is before p, and still waits, is in the first places of what is left of the list.
LEMMA AheadPlaces ==
  ASSUME NEW S, NEW list \in Seq(S), IsInjective(list), NEW gone, NEW p, NEW before,
         NEW t \in Seq(S), NEW h, LeftOf(list, gone, Len(list), t, h), NEW m, Firsts(list, t, p, before, m),
         NEW x \in before, x \notin gone
  PROVE  \E j \in 1 .. m : t[j] = x
  <1>1. /\ h \in [1 .. Len(t) -> 1 .. Len(list)]
        /\ \A j, k \in 1 .. Len(t) : j < k => h[j] < h[k]
        /\ \A k \in 1 .. Len(t) : t[k] = list[h[k]]
        /\ \A i \in 1 .. Len(list) : list[i] \notin gone => \E k \in 1 .. Len(t) : h[k] = i
        /\ Len(t) \in Nat /\ Len(list) \in Nat /\ DOMAIN list = 1 .. Len(list)
    BY DEF LeftOf
  <1>2. CASE m = Len(t) /\ before \subseteq Range(list)
    <2>1. PICK i \in 1 .. Len(list) : list[i] = x
      BY <1>1, <1>2 DEF Range
    <2>2. PICK j \in 1 .. Len(t) : h[j] = i
      BY <1>1, <2>1
    <2> QED
      BY <1>1, <1>2, <2>1, <2>2
  <1>3. ASSUME NEW i \in 1 .. Len(list), NEW k \in 1 .. Len(t),
               list[i] = p, t[k] = p, m = k - 1, before = Range(SubSeq(list, 1, i - 1))
        PROVE  \E j \in 1 .. m : t[j] = x
    <2> DEFINE first == SubSeq(list, 1, i - 1)
    <2>1. DOMAIN first = 1 .. i - 1 /\ \A l \in 1 .. i - 1 : first[l] = list[l] /\ l \in 1 .. Len(list)
      BY <1>1
    <2> HIDE DEF first
    <2>2. PICK l \in 1 .. i - 1 : list[l] = x
      BY <1>3, <2>1 DEF Range, first
    <2>3. l \in 1 .. Len(list) /\ l < i
      BY <1>1, <2>2
    <2>4. PICK j \in 1 .. Len(t) : h[j] = l
      BY <1>1, <2>2, <2>3
    <2>5. h[k] = i
      BY <1>1, <1>3 DEF IsInjective
    <2>6. j < k
      <3>1. ~ (k < j) /\ k # j
        BY <1>1, <2>3, <2>4, <2>5
      <3> QED
        BY <1>1, <3>1
    <2> QED
      BY <1>1, <1>3, <2>2, <2>4, <2>6
  <1> QED
    BY <1>2, <1>3 DEF Firsts

\* Whoever clientLogin lets in leaves room for all who are before it and still wait.
LEMMA RoomAhead ==
  ASSUME NEW players, NEW w, Lists(w, players), NEW p \in players,
         NEW playersOnline \in Nat, NEW expired, MaxPlayers \in Nat, p \notin Privileged,
         ClientLogin(w, p, playersOnline, expired).admitted
  PROVE  playersOnline + 1
           + Cardinality(Ahead(w, p) \intersect Waiting(ClientLogin(w, p, playersOnline, expired).list))
         <= MaxPlayers
  <1> DEFINE list == ClientLogin(w, p, playersOnline, expired).list
             kept == Cleanup(w, expired)
             added == AddPlayerToList(kept, p)
             A == Ahead(w, p) \intersect Waiting(list)
  <1>1. CASE Waiting(w) = {} /\ playersOnline < MaxPlayers
    <2>1. list = w
      BY <1>1 DEF ClientLogin
    <2>2. A = {}
      BY <1>1, <2>1
    <2>3. Cardinality(A) = 0
      BY <2>2, FS_EmptySet
    <2> QED
      BY <1>1, <2>3
  <1>2. CASE ~ (Waiting(w) = {} /\ playersOnline < MaxPlayers)
    <2>1. playersOnline + NewSlot(kept, p) <= MaxPlayers /\ list = Erase(added, p)
      BY <1>2 DEF ClientLogin
    <2> DEFINE mine == w[ListOf(p)]
               left == kept[ListOf(p)]
               before == IF p \in Waiting(w) THEN Range(SubSeq(mine, 1, Position(w, p) - 1)) ELSE Range(mine)
               B == {x \in before : x \notin expired}
               P == Range(kept.priorityWaitList)
               m == IF p \in Waiting(kept) THEN Position(kept, p) - 1 ELSE Len(left)
    <2>2. /\ Lists(kept, players)
          /\ kept.priorityWaitList = CleanupList(w.priorityWaitList, expired)
          /\ kept.waitList = CleanupList(w.waitList, expired)
          /\ P = Range(w.priorityWaitList) \ expired
          /\ Range(kept.waitList) = Range(w.waitList) \ expired
      BY CleanupLists
    <2>3. Waiting(kept) = Waiting(w) \ expired
      BY <2>2 DEF Waiting
    <2>4. Waiting(list) = (Waiting(kept) \union {p}) \ {p}
      <3> HIDE DEF kept, list
      <3>1. Lists(added, players) /\ Waiting(added) = Waiting(kept) \union {p}
        BY <2>2, AddedLists
      <3> HIDE DEF added
      <3>2. Waiting(Erase(added, p)) = Waiting(added) \ {p}
        BY <3>1, ErasedLists
      <3> QED
        BY <2>1, <3>1, <3>2
    <2>5. /\ kept \in [priorityWaitList : Seq(Premium), waitList : Seq(players \ Premium), drift : Nat]
          /\ w \in [priorityWaitList : Seq(Premium), waitList : Seq(players \ Premium), drift : Nat]
          /\ IsInjective(w.priorityWaitList) /\ IsInjective(w.waitList)
      BY <2>2 DEF Lists
    <2>6. \E S : /\ mine \in Seq(S) /\ left \in Seq(S) /\ IsInjective(mine)
                 /\ left = CleanupList(mine, expired)
      <3> HIDE DEF kept
      <3>1. CASE p \in Premium
        BY <2>2, <2>5, <3>1 DEF ListOf
      <3>2. CASE p \notin Premium
        BY <2>2, <2>5, <3>2 DEF ListOf
      <3> QED
        BY <3>1, <3>2
    <2>7. PICK S : /\ mine \in Seq(S) /\ left \in Seq(S) /\ IsInjective(mine)
                   /\ left = CleanupList(mine, expired)
      BY <2>6
    <2>8. \E h : LeftOf(mine, expired, Len(mine), left, h)
      <3> HIDE DEF kept, mine, left
      <3> QED
        BY <2>7, CleanupListLeaves
    <2>9. PICK h : LeftOf(mine, expired, Len(mine), left, h)
      BY <2>8
    <2>10. Len(left) \in Nat /\ m \in 0 .. Len(left) /\ (p \in Waiting(kept) => left[m + 1] = p /\ m + 1 = Position(kept, p))
      <3> HIDE DEF kept
      <3>1. p \in Waiting(kept) => Position(kept, p) \in 1 .. Len(left) /\ left[Position(kept, p)] = p
        BY <2>2, PositionOf
      <3>2. Len(left) \in Nat
        BY <2>7
      <3> HIDE DEF left
      <3> QED
        BY <3>1, <3>2
    <2>11. Firsts(mine, left, p, before, m)
      <3>1. p \in Waiting(w) => Position(w, p) \in 1 .. Len(mine) /\ mine[Position(w, p)] = p
        BY PositionOf
      <3>2. before \subseteq Range(mine)
        <4>1. Len(mine) \in Nat /\ DOMAIN mine = 1 .. Len(mine)
          BY <2>7
        <4>2. ASSUME p \in Waiting(w) PROVE Range(SubSeq(mine, 1, Position(w, p) - 1)) \subseteq Range(mine)
          <5> HIDE DEF mine
          <5>1. PICK i \in 1 .. Len(mine) : i = Position(w, p)
            BY <3>1, <4>2
          <5>2. /\ DOMAIN SubSeq(mine, 1, i - 1) = 1 .. i - 1
                /\ \A l \in 1 .. i - 1 : SubSeq(mine, 1, i - 1)[l] = mine[l] /\ l \in 1 .. Len(mine)
            BY <2>7, <4>1
          <5>3. Range(SubSeq(mine, 1, i - 1)) \subseteq Range(mine)
            BY <4>1, <5>2 DEF Range
          <5> QED
            BY <5>1, <5>3
        <4> QED
          BY <4>2
      <3>3. CASE p \notin Waiting(kept)
        BY <3>2, <3>3 DEF Firsts
      <3>4. CASE p \in Waiting(kept)
        <4>1. p \in Waiting(w) /\ before = Range(SubSeq(mine, 1, Position(w, p) - 1))
          BY <2>3, <3>4
        <4>2. m + 1 \in 1 .. Len(left) /\ left[m + 1] = p /\ m = (m + 1) - 1
          <5>1. Position(kept, p) \in 1 .. Len(left)
            <6> HIDE DEF kept
            <6> QED
              BY <2>2, <3>4, PositionOf
          <5>2. m + 1 = Position(kept, p) /\ left[m + 1] = p
            BY <2>10, <3>4
          <5>3. m \in Int
            BY <2>10
          <5> HIDE DEF m, left, kept
          <5> QED
            BY <5>1, <5>2, <5>3
        <4> HIDE DEF m, left, mine, before, kept
        <4> QED
          BY <3>1, <4>1, <4>2 DEF Firsts
      <3> QED
        BY <3>3, <3>4
    <2>12. \A x \in B : \E j \in 1 .. m : left[j] = x
      <3> HIDE DEF kept, mine, left, before, m
      <3> QED
        BY <2>7, <2>9, <2>11, AheadPlaces
    <2>13. IsFiniteSet(B) /\ Cardinality(B) <= m /\ Cardinality(B) \in Nat
      <3> HIDE DEF kept, mine, left, before, m, B
      <3> QED
        BY <2>7, <2>10, <2>12, FirstPlaces
    <2>14. IsFiniteSet(P) /\ Cardinality(P) <= Len(kept.priorityWaitList) /\ Cardinality(P) \in Nat
      <3> DEFINE k == kept.priorityWaitList
      <3>1. k \in Seq(Premium) /\ Len(k) \in 0 .. Len(k) /\ DOMAIN k = 1 .. Len(k)
        BY <2>5
      <3> HIDE DEF k
      <3>2. \A x \in Range(k) : \E i \in 1 .. Len(k) : k[i] = x
        BY <3>1 DEF Range
      <3>3. IsFiniteSet(Range(k)) /\ Cardinality(Range(k)) <= Len(k) /\ Cardinality(Range(k)) \in Nat
        BY <3>1, <3>2, FirstPlaces
      <3> QED
        BY <3>3 DEF k
    <2>15. \A x \in A : x \notin expired /\ x \in Ahead(w, p)
      BY <2>3, <2>4
    <2>16. CASE p \in Premium
      <3>1. A \subseteq B
        BY <2>15, <2>16 DEF Ahead
      <3>2. NewSlot(kept, p) >= m + 1 /\ NewSlot(kept, p) \in Int
        <4>1. left = kept.priorityWaitList /\ kept.drift \in Nat
          BY <2>5, <2>16 DEF ListOf
        <4>2. CASE p \in Waiting(kept)
          BY <2>10, <2>16, <4>2 DEF NewSlot, Slot
        <4>3. CASE p \notin Waiting(kept)
          BY <2>10, <2>16, <4>1, <4>3 DEF NewSlot, PrioritySize
        <4> QED
          BY <4>2, <4>3
      <3>3. IsFiniteSet(A) /\ Cardinality(A) <= Cardinality(B) /\ Cardinality(A) \in Nat
        <4> HIDE DEF A, B
        <4> QED
          BY <2>13, <3>1, FS_Subset, FS_CardinalityType
      <3> HIDE DEF A, B, m, kept, list
      <3>4. playersOnline + 1 + Cardinality(A) <= MaxPlayers
        BY <2>1, <2>10, <2>13, <3>2, <3>3
      <3> QED
        BY <3>4 DEF A, list
    <2>17. CASE p \notin Premium
      <3>1. A \subseteq P \union B
        BY <2>2, <2>15, <2>17 DEF Ahead
      <3>2. NewSlot(kept, p) >= Len(kept.priorityWaitList) + m + 1 /\ NewSlot(kept, p) \in Int
        <4>1. left = kept.waitList /\ kept.drift \in Nat /\ Len(kept.priorityWaitList) \in Nat
          BY <2>5, <2>17 DEF ListOf
        <4>2. CASE p \in Waiting(kept)
          BY <2>10, <2>17, <4>1, <4>2 DEF NewSlot, Slot, PrioritySize
        <4>3. CASE p \notin Waiting(kept)
          <5>1. m = Len(kept.waitList) /\ m \in Nat
            BY <2>10, <4>1, <4>3
          <5>2. NewSlot(kept, p) = PrioritySize(kept) + WaitSize(kept) + 1
            BY <2>17, <4>3 DEF NewSlot
          <5> HIDE DEF kept, m
          <5> QED
            <6>1. PICK a \in Nat, b \in Nat, d \in Nat :
                    a = Len(kept.priorityWaitList) /\ b = Len(kept.waitList) /\ d = kept.drift
              BY <4>1, <5>1
            <6>2. PrioritySize(kept) = a + d /\ WaitSize(kept) = b - d
              BY <6>1 DEF PrioritySize, WaitSize
            <6>3. NewSlot(kept, p) = a + b + 1
              BY <5>2, <6>2
            <6> QED
              BY <5>1, <6>1, <6>3
        <4> QED
          BY <4>2, <4>3
      <3>3. /\ IsFiniteSet(P \union B) /\ Cardinality(P \union B) <= Cardinality(P) + Cardinality(B)
            /\ Cardinality(P \union B) \in Nat
        <4> HIDE DEF P, B
        <4>1. /\ IsFiniteSet(P \union B) /\ IsFiniteSet(P \intersect B)
              /\ Cardinality(P \union B) = Cardinality(P) + Cardinality(B) - Cardinality(P \intersect B)
          BY <2>13, <2>14, FS_Union, FS_Intersection
        <4>2. Cardinality(P \union B) \in Nat /\ Cardinality(P \intersect B) \in Nat
          BY <4>1, FS_CardinalityType
        <4> QED
          BY <2>13, <2>14, <4>1, <4>2
      <3>4. IsFiniteSet(A) /\ Cardinality(A) <= Cardinality(P \union B) /\ Cardinality(A) \in Nat
        <4> HIDE DEF A, P, B
        <4> QED
          BY <3>1, <3>3, FS_Subset, FS_CardinalityType
      <3>5. Len(kept.priorityWaitList) \in Nat
        BY <2>5
      <3> HIDE DEF A, B, P, m, kept, list
      <3>6. playersOnline + 1 + Cardinality(A) <= MaxPlayers
        BY <2>1, <2>10, <2>13, <2>14, <3>2, <3>3, <3>4, <3>5
      <3> QED
        BY <3>6 DEF A, list
    <2> QED
      BY <2>16, <2>17
  <1> QED
    BY <1>1, <1>2

-----------------------------------------------------------------------------
(* What a session leaves to the players, and the waiting list in the       *)
(* session: only EnterGame changes it.                                     *)

PlayersInv ==
  /\ replaceKick \in BOOLEAN
  /\ player \in [Clients -> Objects \union {NoObject}]
  /\ acceptPackets \subseteq Clients
  /\ IsFiniteSet(placed)
  /\ Lists(waiting, Players) /\ waiting.drift <= MaxDrift

\* What a step that leaves the waiting list alone has to show.
PlayersKeptBy ==
  /\ player' \in [Clients -> Objects \union {NoObject}]
  /\ acceptPackets' \subseteq Clients
  /\ IsFiniteSet(placed')

LEMMA PlayersKept ==
  ASSUME PlayersInv, PlayersKeptBy, UNCHANGED serverVars
  PROVE  PlayersInv'
  BY DEF PlayersInv, PlayersKeptBy, serverVars

\* A step that leaves the players and the game alone.
LEMMA PlayersSame ==
  ASSUME PlayersInv, UNCHANGED <<player, acceptPackets, serverVars>>, IsFiniteSet(placed')
  PROVE  PlayersInv'
  BY DEF PlayersInv, serverVars

LEMMA ConnectPlayers ==
  ASSUME PlayersInv, SessionTypes, NEW c \in Clients, NEW p, NEW rest, Connect(c, p, rest),
         UNCHANGED <<placed, serverVars>>
  PROVE  PlayersInv'
  <1>1. acceptPackets' \subseteq Clients
    BY DEF Connect, PlayersInv
  <1>2. player' \in [Clients -> Objects \union {NoObject}]
    <2>1. CASE player' = player
      BY <2>1 DEF PlayersInv
    <2>2. CASE \E o \in Online(p) : player' = [player EXCEPT ![c] = o]
      BY <2>2 DEF PlayersInv, SessionTypes, Online
    <2> QED
      BY <2>1, <2>2 DEF Connect
  <1> QED
    BY <1>1, <1>2, PlayersKept DEF PlayersKeptBy, PlayersInv

\* A creature that enters the game, or leaves it.
LEMMA PlacedFinite ==
  ASSUME PlayersInv, NEW o
  PROVE  IsFiniteSet(placed) /\ IsFiniteSet(placed \union {o}) /\ IsFiniteSet(placed \ {o})
  <1>1. IsFiniteSet(placed)
    BY DEF PlayersInv
  <1> QED
    BY <1>1, FS_AddElement, FS_RemoveElement

LEMMA EnterGamePlayers ==
  ASSUME PlayersInv, SessionTypes, NEW c \in Clients, NEW p \in Players, EnterGame(c, p)
  PROVE  PlayersInv'
  <1>1. PICK expired \in SUBSET Waiting(waiting) :
          LET result == ClientLogin(waiting, p, Cardinality(placed), expired)
          IN  /\ result.list.drift <= MaxDrift
              /\ waiting' = result.list
              /\ UNCHANGED replaceKick
              /\ \/ LET o == NewObject(p)
                    IN  /\ Spare(p) # {}
                        /\ player' = [player EXCEPT ![c] = o]
                        /\ placed' = placed \union {o}
                        /\ acceptPackets' = acceptPackets \union {c}
                 \/ UNCHANGED <<protocolVars, playerVars>>
    BY DEF EnterGame
  <1>2. Lists(waiting', Players) /\ waiting'.drift <= MaxDrift
    BY <1>1, ClientLoginLists DEF PlayersInv
  <1>3. PlayersKeptBy
    <2>1. CASE UNCHANGED <<protocolVars, playerVars>>
      BY <2>1 DEF PlayersInv, PlayersKeptBy, protocolVars, playerVars
    <2>2. CASE LET o == NewObject(p)
               IN  /\ Spare(p) # {}
                   /\ player' = [player EXCEPT ![c] = o]
                   /\ placed' = placed \union {o}
                   /\ acceptPackets' = acceptPackets \union {c}
      <3>1. PICK o : /\ o = NewObject(p)
                     /\ Spare(p) # {}
                     /\ player' = [player EXCEPT ![c] = o]
                     /\ placed' = placed \union {o}
                     /\ acceptPackets' = acceptPackets \union {c}
        BY <2>2
      <3>2. o \in Objects
        BY <3>1 DEF NewObject, Spare
      <3>3. IsFiniteSet(placed')
        BY <3>1, PlacedFinite
      <3> QED
        BY <3>1, <3>2, <3>3 DEF PlayersInv, PlayersKeptBy
    <2> QED
      BY <1>1, <2>1, <2>2
  <1> QED
    BY <1>1, <1>2, <1>3 DEF PlayersInv, PlayersKeptBy

LEMMA PlayersNext ==
  ASSUME SessionInv, PlayersInv, [Next]_vars
  PROVE  PlayersInv'
  <1>1. SessionTypes /\ IsFiniteSet(placed)
    BY DEF SessionInv, PlayersInv
  <1>2. ASSUME NEW c \in Clients, NEW p \in Players,
               RefusedWhileDead(c, p) \/ FirstMessage(c, p) \/ FirstMessageFails(c, p)
                 \/ RefuseLogin(c, p) \/ RefuseSecondLogin(c, p) \/ ReplaceLater(c, p)
        PROVE  PlayersInv'
    <2>1. UNCHANGED <<player, acceptPackets, placed, serverVars>>
      BY <1>2 DEF RefusedWhileDead, FirstMessage, FirstMessageFails, RefuseLogin,
                  RefuseSecondLogin, ReplaceLater, protocolVars, playerVars
    <2> QED
      BY <1>1, <2>1, PlayersSame
  <1>3. ASSUME NEW c \in Clients, ConnectionLost(c) \/ Expire(c) PROVE PlayersInv'
    <2>1. UNCHANGED <<player, acceptPackets, placed, serverVars>>
      BY <1>3 DEF ConnectionLost, Expire, protocolVars, playerVars
    <2> QED
      BY <1>1, <2>1, PlayersSame
  <1>4. ASSUME NEW c \in Clients, Destroy(c) PROVE PlayersInv'
    <2>1. /\ player' = [player EXCEPT ![c] = NoObject]
          /\ acceptPackets' = acceptPackets \ {c}
          /\ UNCHANGED <<placed, serverVars>>
      BY <1>4 DEF Destroy
    <2>2. PlayersKeptBy
      BY <1>1, <2>1 DEF PlayersInv, PlayersKeptBy
    <2> QED
      BY <2>1, <2>2, PlayersKept
  <1>5. ASSUME NEW c \in Clients, NEW p \in Players, EnterGame(c, p) PROVE PlayersInv'
    BY <1>1, <1>5, EnterGamePlayers
  <1>6. ASSUME NEW c \in Clients, NEW p \in Players, ConnectNow(c, p) PROVE PlayersInv'
    BY <1>1, <1>6, ConnectPlayers DEF ConnectNow
  <1>7. ASSUME NEW c \in Clients, ConnectLater(c) PROVE PlayersInv'
    BY <1>1, <1>7, ConnectPlayers DEF ConnectLater
  <1>8. ASSUME NEW c \in Clients, Release(c) PROVE PlayersInv'
    <2>1. UNCHANGED <<acceptPackets, placed, serverVars>>
      BY <1>8 DEF Release
    <2>2. player' \in [Clients -> Objects \union {NoObject}]
      <3>1. CASE player' = player
        BY <3>1 DEF PlayersInv
      <3>2. CASE player' = [player EXCEPT ![c] = NoObject]
        BY <3>2 DEF PlayersInv
      <3> QED
        BY <1>8, <3>1, <3>2 DEF Release
    <2> QED
      BY <1>1, <2>1, <2>2, PlayersKept DEF PlayersKeptBy, PlayersInv
  <1>9. ASSUME NEW c, LogoutBy(c) PROVE PlayersInv'
    <2>1. UNCHANGED <<player, acceptPackets, serverVars>> /\ placed' = placed \ {player[c]}
      BY <1>9 DEF LogoutBy, RemoveCreature, protocolVars
    <2> QED
      BY <2>1, PlacedFinite, PlayersSame
  <1>10. ASSUME NEW c \in Clients, Logout(c) PROVE PlayersInv'
    BY <1>9, <1>10 DEF Logout
  <1>11. ASSUME NEW c \in Clients, Respawn(c) PROVE PlayersInv'
    <2>1. /\ UNCHANGED <<player, acceptPackets, serverVars>>
          /\ placed' = placed \/ placed' = placed \union {player[c]}
      BY <1>11 DEF Respawn, protocolVars
    <2> QED
      BY <1>1, <2>1, PlacedFinite, PlayersSame
  <1>12. ASSUME NEW o \in Objects, Kick(o) \/ Think(o) \/ Die(o) PROVE PlayersInv'
    <2>1. CASE LogoutBy(client[o])
      BY <1>9, <2>1
    <2>2. CASE UNCHANGED <<player, acceptPackets, serverVars>> /\ placed' = placed \ {o}
      BY <2>2, PlacedFinite, PlayersSame
    <2>3. CASE UNCHANGED <<player, acceptPackets, placed, serverVars>>
      BY <1>1, <2>3, PlayersSame
    <2> QED
      BY <1>12, <2>1, <2>2, <2>3 DEF Kick, Think, RemovePlayer, Die, RemoveCreature, protocolVars
  <1>16. ASSUME NEW c \in Clients, Act(c) PROVE PlayersInv'
    BY <1>1, <1>16, PlayersSame DEF Act, protocolVars
  <1>13. CASE UNCHANGED vars
    BY <1>1, <1>13, PlayersSame DEF vars, protocolVars, playerVars
  <1>14. ASSUME NEW c \in Clients, Network(c) PROVE PlayersInv'
    BY <1>2, <1>3, <1>4, <1>14 DEF Network
  <1>15. ASSUME NEW c \in Clients, LoginStep(c) PROVE PlayersInv'
    BY <1>2, <1>5, <1>6, <1>15 DEF LoginStep
  <1> QED
    BY <1>7, <1>8, <1>10, <1>11, <1>12, <1>13, <1>14, <1>15, <1>16 DEF Next

\* The idle times: a think counts one up, as far as the limit.
IdleType == idle \in [Objects -> 0 .. IdleLimit]

LEMMA IdleNext ==
  ASSUME IdleType, [Next]_vars
  PROVE  IdleType'
  <1> USE DEF protocolVars, playerVars
  <1>1. 0 \in 0 .. IdleLimit /\ IdleLimit \in Nat
    BY SessionAssumption
  <1>2. CASE idle' = idle
    BY <1>2 DEF IdleType
  <1>3. CASE \E o \in Objects : idle' = [idle EXCEPT ![o] = 0]
    BY <1>1, <1>3 DEF IdleType
  <1>4. CASE \E o : idle' = [idle EXCEPT ![o] = 0]
    BY <1>1, <1>4 DEF IdleType
  <1>5. ASSUME NEW o \in Objects, Think(o) PROVE IdleType'
    <2>1. CASE idle[o] < IdleLimit /\ idle' = [idle EXCEPT ![o] = @ + 1]
      <3>1. idle[o] + 1 \in 0 .. IdleLimit
        BY <1>1, <2>1 DEF IdleType
      <3> QED
        BY <2>1, <3>1 DEF IdleType
    <2> QED
      BY <1>2, <1>5, <2>1 DEF Think, RemovePlayer, LogoutBy
  <1>6. ASSUME NEW c \in Clients, Network(c) PROVE IdleType'
    BY <1>2, <1>6 DEF Network, RefusedWhileDead, FirstMessage, FirstMessageFails,
                      ConnectionLost, Expire, Destroy
  <1>7. ASSUME NEW c \in Clients, NEW p, NEW rest, Connect(c, p, rest) PROVE IdleType'
    BY <1>2, <1>4, <1>7 DEF Connect
  <1>8. ASSUME NEW c \in Clients, LoginStep(c) PROVE IdleType'
    <2>1. ASSUME NEW p \in Players, EnterGame(c, p) PROVE IdleType'
      BY <1>2, <1>4, <2>1 DEF EnterGame
    <2>2. ASSUME NEW p \in Players, ConnectNow(c, p) PROVE IdleType'
      BY <1>7, <2>2 DEF ConnectNow
    <2> QED
      BY <1>2, <1>8, <2>1, <2>2 DEF LoginStep, RefuseLogin, RefuseSecondLogin, ReplaceLater
  <1>9. ASSUME NEW c \in Clients, ConnectLater(c) PROVE IdleType'
    BY <1>7, <1>9 DEF ConnectLater
  <1>10. ASSUME NEW c \in Clients, Release(c) \/ Logout(c) \/ Act(c) \/ Respawn(c)
         PROVE  IdleType'
    BY <1>2, <1>4, <1>10 DEF Release, Logout, LogoutBy, Act, Respawn
  <1>11. ASSUME NEW o \in Objects, Kick(o) \/ Die(o) PROVE IdleType'
    BY <1>2, <1>11 DEF Kick, RemovePlayer, LogoutBy, Die
  <1>12. CASE UNCHANGED vars
    BY <1>2, <1>12 DEF vars
  <1> QED
    BY <1>5, <1>6, <1>8, <1>9, <1>10, <1>11, <1>12 DEF Next

LEMMA PlayersInit ==
  ASSUME Init
  PROVE  PlayersInv
  <1>1. waiting = Nobody /\ Nobody.priorityWaitList = << >> /\ Nobody.waitList = << >> /\ Nobody.drift = 0
    BY DEF Init, Nobody
  <1>2. \A S : << >> \in Seq(S)
    OBVIOUS
  <1>3. DOMAIN << >> = {}
    OBVIOUS
  <1>4. IsInjective(<< >>)
    BY <1>3 DEF IsInjective
  <1>5. Nobody \in [priorityWaitList : Seq(Premium), waitList : Seq(Players \ Premium), drift : Nat]
    BY <1>2 DEF Nobody
  <1>6. Lists(waiting, Players) /\ waiting.drift <= MaxDrift
    BY <1>1, <1>4, <1>5, SessionAssumption DEF Lists
  <1>7. IsFiniteSet(placed)
    BY FS_EmptySet DEF Init
  <1> QED
    BY <1>6, <1>7 DEF Init, PlayersInv

THEOREM PlayersInvariant == Spec => [](SessionInv /\ PlayersInv /\ IdleType)
  <1>1. Init => PlayersInv
    BY PlayersInit
  <1>2. Init => IdleType
    BY SessionAssumption DEF Init, IdleType
  <1>3. SessionInv /\ PlayersInv /\ [Next]_vars => PlayersInv'
    BY PlayersNext
  <1>4. IdleType /\ [Next]_vars => IdleType'
    BY IdleNext
  <1> QED
    BY SessionInvariant, <1>1, <1>2, <1>3, <1>4, PTL DEF Spec

\* Two waiting players are never told the same place, and every variable keeps its
\* type: for any number of players, and however far the stored sizes are off.
THEOREM PlacesDifferHolds == Spec => []PlacesDiffer
  <1>1. SessionInv /\ PlayersInv /\ IdleType => PlacesDiffer
    <2> SUFFICES ASSUME SessionInv, PlayersInv, IdleType PROVE PlacesDiffer
      OBVIOUS
    <2>1. SessionTypes /\ Lists(waiting, Players) /\ waiting.drift <= MaxDrift
      BY DEF SessionInv, PlayersInv
    <2>2. \A p, q \in Waiting(waiting) : p # q => Slot(waiting, p) # Slot(waiting, q)
      BY <2>1, SlotsDiffer
    <2>3. /\ waiting.priorityWaitList \in Seq(Premium) /\ waiting.waitList \in Seq(Players \ Premium)
          /\ waiting.drift \in Nat
          /\ IsInjective(waiting.priorityWaitList) /\ IsInjective(waiting.waitList)
      BY <2>1 DEF Lists
    <2>4. Waiting(waiting) \subseteq Players
      <3>1. /\ \A x \in Range(waiting.priorityWaitList) : x \in Premium
            /\ \A x \in Range(waiting.waitList) : x \in Players \ Premium
        BY <2>3 DEF Range
      <3> QED
        BY <3>1, SessionAssumption DEF Waiting
    <2>5. waiting.drift \in 0 .. MaxDrift
      BY <2>1, <2>3, SessionAssumption
    <2>6. TypeOK
      BY <2>1, <2>3, <2>4, <2>5 DEF TypeOK, SessionTypes, Events, PlayersInv, IdleType
    <2> QED
      BY <2>2, <2>6 DEF PlacesDiffer
  <1> QED
    BY PlayersInvariant, <1>1, PTL

\* A player let in leaves room for everybody who waits before it, for any number of
\* players, the privileged excepted: also after entries have expired, and however far the stored sizes are off.
THEOREM RoomForThoseAheadHolds == Spec => RoomForThoseAhead
  <1> DEFINE Room(c, p) ==
        placed' # placed /\ EnterGame(c, p) =>
          Cardinality(placed') + Cardinality(Ahead(waiting, p) \intersect Waiting(waiting')) <= MaxPlayers
  <1>1. ASSUME SessionInv, PlayersInv, NEW c \in Clients, NEW p \in Players \ Privileged PROVE Room(c, p)
    <2> SUFFICES ASSUME placed' # placed, EnterGame(c, p)
                 PROVE  Cardinality(placed') + Cardinality(Ahead(waiting, p) \intersect Waiting(waiting'))
                          <= MaxPlayers
      OBVIOUS
    <2>1. PICK expired \in SUBSET Waiting(waiting) :
            /\ ClientLogin(waiting, p, Cardinality(placed), expired).admitted
            /\ waiting' = ClientLogin(waiting, p, Cardinality(placed), expired).list
            /\ Spare(p) # {} /\ placed' = placed \union {NewObject(p)}
      BY DEF EnterGame, playerVars
    <2>2. NewObject(p) \notin placed
      BY <2>1 DEF NewObject, Spare, Unused
    <2>3. IsFiniteSet(placed) /\ Lists(waiting, Players)
      BY <1>1 DEF PlayersInv
    <2>4. Cardinality(placed) \in Nat /\ Cardinality(placed') = Cardinality(placed) + 1
      <3> DEFINE o == NewObject(p)
      <3>1. o \notin placed /\ placed' = placed \union {o}
        BY <2>1, <2>2
      <3> HIDE DEF o
      <3> QED
        BY <2>3, <3>1, FS_AddElement, FS_CardinalityType
    <2> DEFINE n == Cardinality(placed)
    <2> HIDE DEF n
    <2>5. n \in Nat /\ MaxPlayers \in Nat /\ ClientLogin(waiting, p, n, expired).admitted
      BY <2>1, <2>4, SessionAssumption DEF n
    <2>6. n + 1 + Cardinality(Ahead(waiting, p) \intersect Waiting(ClientLogin(waiting, p, n, expired).list))
            <= MaxPlayers
      BY <2>3, <2>5, RoomAhead
    <2> QED
      BY <2>1, <2>4, <2>6 DEF n
  <1>2. SessionInv /\ PlayersInv => [\A c \in Clients, p \in Players \ Privileged : Room(c, p)]_vars
    BY <1>1
  <1> QED
    BY PlayersInvariant, <1>2, PTL DEF RoomForThoseAhead
=============================================================================
