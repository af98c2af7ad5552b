------------------------------ MODULE Session ------------------------------
(***************************************************************************)
(* The life of a game session (server/network/protocol/protocolgame.cpp):  *)
(* first message, login, replacement of a connected client with its retry  *)
(* after a second, connect, death and respawn, logout, release, and the    *)
(* waiting list.  The network thread takes first messages and closes       *)
(* connections; everything else is an event of the dispatcher.  What       *)
(* happens on a connection between its first message and its close is in   *)
(* Connection; here a connection is open, closed, or destroyed.            *)
(*                                                                         *)
(* Player::isConnecting only keeps sendPing from kicking; the check for    *)
(* idleness does not ask it, so the model leaves it out.                   *)
(***************************************************************************)
EXTENDS WaitingList, FiniteSets

CONSTANTS
  Clients,      \* ProtocolGame objects, each with its connection
  Players,      \* characters
  Objects,      \* Player objects; a destroyed one is used again
  Owner,        \* the character each object is made for
  MayIdle,      \* characters the check for idleness may spare: access players,
                \* VIPs that stay online, in training, where logout is forbidden
  IdleLimit,    \* bound: how many thinks without an action are one too many
  MaxDrift      \* bound: how far the stored sizes of the waiting list go

NoClient == "no client"
NoObject == "no object"
NoPlayer == "no player"

ASSUME SessionAssumption ==
  /\ IsFiniteSet(Clients)
  /\ NoClient \notin Clients
  /\ NoObject \notin Objects
  /\ NoPlayer \notin Players
  /\ Owner \in [Objects -> Players]
  /\ Premium \subseteq Players /\ Privileged \subseteq Players /\ MayIdle \subseteq Players
  /\ IdleLimit \in Nat
  /\ MaxPlayers \in Nat \ {0}
  /\ MaxDrift \in Nat

VARIABLES
  replaceKick,   \* the configuration, REPLACE_KICK_ON_LOGIN
  connection,    \* per client: "none", "open", "closed", "expired"
  queue,         \* the dispatcher's login and release events
  eventConnect,  \* per client, whom its scheduled connect is for
  player,        \* per client, ProtocolGame::player
  acceptPackets, \* the clients whose packets are parsed
  client,        \* per object, Player::client
  placed,        \* objects in Game::players and on a tile
  dead,          \* objects with Player::isDead
  idle,          \* per object, Player::idleTime in thinks
  waiting        \* the waiting list

playerVars == <<client, placed, dead, idle>>
protocolVars == <<eventConnect, player, acceptPackets>>
serverVars == <<replaceKick, waiting>>
vars == <<connection, queue, protocolVars, playerVars, serverVars>>

\* An object that no protocol holds and that is not in the game is destroyed.
Unused(o) == o \notin placed /\ client[o] = NoClient /\ \A c \in Clients : player[c] # o

Spare(p) == {o \in Objects : Owner[o] = p /\ Unused(o)}

\* The object that loadPlayerById fills (Objects bounds how many there are).
NewObject(p) == CHOOSE o \in Spare(p) : TRUE

\* getPlayerByName
Online(p) == {o \in placed : Owner[o] = p}

\* getDeadPlayer: m_deadPlayers holds weak references to the objects of protocols.
DeadPlayers(p) == {o \in dead : Owner[o] = p}
StillDead(objects) == dead' = {o \in objects : \E c \in Clients : player'[c] = o}

-----------------------------------------------------------------------------
(* disconnect: Connection::close runs once and queues the release.         *)

LoginEvent(c, p) == [op |-> "login", client |-> c, name |-> p]
ReleaseEvent(c) == [op |-> "release", client |-> c, name |-> NoPlayer]

Close(cs) == connection' = [c \in Clients |->
  IF c \in cs /\ connection[c] = "open" THEN "closed" ELSE connection[c]]
Releases(cs) == SetToSeq({ReleaseEvent(c) : c \in {d \in cs \ {NoClient} : connection[d] = "open"}})

Disconnect(c, rest) == Close({c}) /\ queue' = rest \o Releases({c})

\* A packet of c is parsed by an event that was queued before c's release.
Parses(c) ==
  /\ c \in acceptPackets
  /\ connection[c] = "open" \/ ReleaseEvent(c) \in Range(queue)

-----------------------------------------------------------------------------
(* The network thread.                                                     *)

\* onRecvFirstMessage refuses while the character is dead in another client.
RefusedWhileDead(c, p) ==
  /\ connection[c] = "none"
  /\ Online(p) = {}
  /\ \E o \in DeadPlayers(p) : client[o] # NoClient
  /\ connection' = [connection EXCEPT ![c] = "closed"]
  /\ queue' = Append(queue, ReleaseEvent(c))
  /\ UNCHANGED <<protocolVars, playerVars, serverVars>>

\* Otherwise it disconnects the character's client, and after the checks and
\* the authentication queues the login.
FirstMessage(c, p) ==
  LET clients == {client[o] : o \in Online(p)}
  IN  /\ connection[c] = "none"
      /\ Online(p) = {} => \A o \in DeadPlayers(p) : client[o] = NoClient
      /\ connection' = [d \in Clients |->
           IF d = c THEN "open"
           ELSE IF d \in clients /\ connection[d] = "open" THEN "closed" ELSE connection[d]]
      /\ queue' = Append(queue \o Releases(clients), LoginEvent(c, p))
      /\ UNCHANGED <<protocolVars, playerVars, serverVars>>

\* A failed check or authentication, also after the other client was closed.
FirstMessageFails(c, p) ==
  LET clients == {client[o] : o \in Online(p)}
  IN  /\ connection[c] = "none"
      /\ Online(p) # {}
      /\ Close(clients)
      /\ queue' = queue \o Releases(clients)
      /\ UNCHANGED <<protocolVars, playerVars, serverVars>>

\* The peer leaves, or a timer of the connection expires.
ConnectionLost(c) ==
  /\ connection[c] = "open"
  /\ Disconnect(c, queue)
  /\ UNCHANGED <<protocolVars, playerVars, serverVars>>

\* The last handler of a closed connection has run.
Expire(c) ==
  /\ connection[c] = "closed"
  /\ connection' = [connection EXCEPT ![c] = "expired"]
  /\ UNCHANGED <<queue, protocolVars, playerVars, serverVars>>

\* Nothing in the server reaches the protocol any more (a player that is neither
\* in the game nor dead is no way to it): its name is used again.
Destroy(c) ==
  /\ connection[c] = "expired"
  /\ eventConnect[c] = NoPlayer
  /\ \A i \in DOMAIN queue : queue[i].client # c
  /\ \A o \in placed \union dead : client[o] # c
  /\ connection' = [connection EXCEPT ![c] = "none"]
  /\ player' = [player EXCEPT ![c] = NoObject]
  /\ client' = [o \in Objects |-> IF client[o] = c THEN NoClient ELSE client[o]]
  /\ acceptPackets' = acceptPackets \ {c}
  /\ StillDead(dead)
  /\ UNCHANGED <<queue, eventConnect, placed, idle, serverVars>>

-----------------------------------------------------------------------------
(* The login event.                                                        *)

Logins(c, p) == queue # << >> /\ Head(queue) = LoginEvent(c, p)

\* The character is not in the game: every refusal before the waiting list.
RefuseLogin(c, p) ==
  /\ Logins(c, p)
  /\ Online(p) = {}
  /\ Disconnect(c, Tail(queue))
  /\ UNCHANGED <<protocolVars, playerVars, serverVars>>

\* clientLogin, and on admission loadPlayerById and placeCreature, which may
\* fail although the waiting list has let the player go.
EnterGame(c, p) ==
  /\ Logins(c, p)
  /\ Online(p) = {}
  /\ \E expired \in SUBSET Waiting(waiting), placeable \in BOOLEAN :
       LET result == ClientLogin(waiting, p, Cardinality(placed), expired)
       IN  /\ result.list.drift <= MaxDrift
           /\ waiting' = result.list
           /\ UNCHANGED replaceKick
           /\ IF result.admitted /\ placeable
              THEN LET o == NewObject(p)
                   IN  /\ Spare(p) # {}
                       /\ player' = [player EXCEPT ![c] = o]
                       /\ client' = [client EXCEPT ![o] = c]
                       /\ placed' = placed \union {o}
                       /\ idle' = [idle EXCEPT ![o] = 0]
                       /\ UNCHANGED dead
                       /\ acceptPackets' = acceptPackets \union {c}
                       /\ queue' = Tail(queue)
                       /\ UNCHANGED <<connection, eventConnect>>
              ELSE /\ Disconnect(c, Tail(queue))
                   /\ UNCHANGED <<protocolVars, playerVars>>

\* Mutant: a retry that finds no player returns without a word.
ConnectQuietly(c, p, rest) ==
  /\ IF connection[c] = "expired" \/ Online(p) = {}
     THEN UNCHANGED <<player, client, acceptPackets, idle>>
     ELSE /\ acceptPackets' = acceptPackets \union {c}
          /\ \E o \in Online(p) :
               /\ player' = [player EXCEPT ![c] = o]
               /\ client' = [client EXCEPT ![o] = c]
               /\ idle' = [idle EXCEPT ![o] = 0]
  /\ queue' = rest
  /\ UNCHANGED connection

\* connect: nothing is done on an expired connection; the client that the
\* player has by now is not asked.
Connect(c, p, rest) ==
  \/ /\ Online(p) = {}
     /\ Disconnect(c, rest)
     /\ UNCHANGED <<player, client, acceptPackets, idle>>
  \/ /\ Online(p) # {}
     /\ connection[c] = "expired"
     /\ queue' = rest
     /\ UNCHANGED <<connection, player, client, acceptPackets, idle>>
  \/ /\ connection[c] # "expired"
     /\ queue' = rest
     /\ acceptPackets' = acceptPackets \union {c}
     /\ \E o \in Online(p) :
          /\ player' = [player EXCEPT ![c] = o]
          /\ client' = [client EXCEPT ![o] = c]
          /\ idle' = [idle EXCEPT ![o] = 0]
     /\ UNCHANGED connection

\* The character is in the game: refuse, or disconnect its client and try again
\* in 1000 ms, or take the place of the client it has lost.
RefuseSecondLogin(c, p) ==
  /\ Logins(c, p)
  /\ Online(p) # {}
  /\ eventConnect[c] # NoPlayer \/ ~replaceKick
  /\ Disconnect(c, Tail(queue))
  /\ UNCHANGED <<protocolVars, playerVars, serverVars>>

ReplaceLater(c, p) ==
  /\ Logins(c, p)
  /\ eventConnect[c] = NoPlayer
  /\ replaceKick
  /\ \E o \in Online(p) :
       /\ client[o] # NoClient
       /\ Disconnect(client[o], Tail(queue))
  /\ eventConnect' = [eventConnect EXCEPT ![c] = p]
  /\ UNCHANGED <<player, acceptPackets, playerVars, serverVars>>

ConnectNow(c, p) ==
  /\ Logins(c, p)
  /\ eventConnect[c] = NoPlayer
  /\ replaceKick
  /\ \E o \in Online(p) : client[o] = NoClient
  /\ Connect(c, p, Tail(queue))
  /\ UNCHANGED <<eventConnect, placed, dead, serverVars>>

\* The scheduled connect.
ConnectLater(c) ==
  /\ eventConnect[c] # NoPlayer
  /\ Connect(c, eventConnect[c], queue)
  /\ eventConnect' = [eventConnect EXCEPT ![c] = NoPlayer]
  /\ UNCHANGED <<placed, dead, serverVars>>

-----------------------------------------------------------------------------
(* The end of a session.                                                   *)

\* Mutant: the protocol forgets its player, but not the player its client.
ReleaseHalf(c) ==
  /\ queue # << >>
  /\ Head(queue) = ReleaseEvent(c)
  /\ queue' = Tail(queue)
  /\ player' = [player EXCEPT ![c] = NoObject]
  /\ UNCHANGED <<connection, client, eventConnect, acceptPackets, placed, dead, idle, serverVars>>

\* release
Release(c) ==
  /\ queue # << >>
  /\ Head(queue) = ReleaseEvent(c)
  /\ queue' = Tail(queue)
  /\ IF player[c] # NoObject /\ client[player[c]] = c
     THEN /\ client' = [client EXCEPT ![player[c]] = NoClient]
          /\ player' = [player EXCEPT ![c] = NoObject]
     ELSE UNCHANGED <<client, player>>
  /\ StillDead(dead)
  /\ UNCHANGED <<connection, eventConnect, acceptPackets, placed, idle, serverVars>>

\* removeCreature
RemoveCreature(o) == placed' = placed \ {o}

\* logout of c's player, unless there is none or it is gone already
LogoutBy(c) ==
  /\ player[c] # NoObject
  /\ Disconnect(c, queue)
  /\ RemoveCreature(player[c])
  /\ UNCHANGED <<protocolVars, client, dead, idle, serverVars>>

\* The client asks to log out.
Logout(c) ==
  /\ Parses(c)
  /\ player[c] \in placed
  /\ LogoutBy(c)

\* Any other packet that makes the player act: resetIdleTime.
Act(c) ==
  /\ Parses(c)
  /\ player[c] \in placed
  /\ idle' = [idle EXCEPT ![player[c]] = 0]
  /\ UNCHANGED <<connection, queue, protocolVars, client, placed, dead, serverVars>>

\* Mutant: the kick goes through the client in every case.
RemoveByClient(o) ==
  /\ client[o] # NoClient
  /\ LogoutBy(client[o])

\* removePlayer: what the scripts answer is ignored, and the logout is forced.
RemovePlayer(o) ==
  IF client[o] # NoClient
  THEN LogoutBy(client[o])
  ELSE /\ RemoveCreature(o)
       /\ UNCHANGED <<connection, queue, protocolVars, client, dead, idle, serverVars>>

\* sendPing without an answer for a minute, or an administrator
Kick(o) == o \in placed /\ RemovePlayer(o)

\* onThink, for what it does about idleness.  Those it may spare it removes at times
\* that nothing tells: by Kick.
Think(o) ==
  /\ o \in placed /\ Owner[o] \notin MayIdle
  /\ \/ /\ idle[o] < IdleLimit
        /\ idle' = [idle EXCEPT ![o] = @ + 1]
        /\ UNCHANGED <<connection, queue, protocolVars, client, placed, dead, serverVars>>
     \/ idle[o] = IdleLimit /\ RemovePlayer(o)

\* despawn, at death
Die(o) ==
  /\ o \in placed
  /\ placed' = placed \ {o}
  /\ UNCHANGED <<connection, queue, protocolVars, client, idle, serverVars>>
  /\ StillDead(dead \union {o})

\* parsePacketDead: "ok" in the death window spawns the player again, or logs it
\* out when there is no room.
Respawn(c) ==
  /\ Parses(c)
  /\ player[c] \in dead
  /\ dead' = dead \ {player[c]}
  /\ \/ /\ placed' = placed \union {player[c]}
        /\ UNCHANGED <<connection, queue>>
     \/ /\ Disconnect(c, queue)
        /\ UNCHANGED placed
  /\ UNCHANGED <<protocolVars, client, idle, serverVars>>

-----------------------------------------------------------------------------

Init ==
  /\ replaceKick \in BOOLEAN
  /\ connection = [c \in Clients |-> "none"]
  /\ queue = << >>
  /\ eventConnect = [c \in Clients |-> NoPlayer]
  /\ player = [c \in Clients |-> NoObject]
  /\ acceptPackets = {}
  /\ client = [o \in Objects |-> NoClient]
  /\ placed = {}
  /\ dead = {}
  /\ idle = [o \in Objects |-> 0]
  /\ waiting = Nobody

LoginStep(c) ==
  \/ \E p \in Players : RefuseLogin(c, p) \/ EnterGame(c, p)
  \/ \E p \in Players : RefuseSecondLogin(c, p) \/ ReplaceLater(c, p) \/ ConnectNow(c, p)

Network(c) ==
  \/ \E p \in Players : RefusedWhileDead(c, p) \/ FirstMessage(c, p) \/ FirstMessageFails(c, p)
  \/ ConnectionLost(c)
  \/ Expire(c)
  \/ Destroy(c)

Next ==
  \/ \E c \in Clients : Network(c) \/ LoginStep(c) \/ ConnectLater(c) \/ Release(c)
  \/ \E c \in Clients : Logout(c) \/ Act(c) \/ Respawn(c)
  \/ \E o \in Objects : Kick(o) \/ Think(o) \/ Die(o)

Spec == Init /\ [][Next]_vars

\* The dispatcher runs its events and the checks of the creatures, which spare
\* those in MayIdle for as long as they like.
NextEvent ==
  /\ queue # << >>
  /\ LET c == Head(queue).client IN Release(c) \/ LoginStep(c)
FairSpec ==
  /\ Spec
  /\ WF_vars(NextEvent)
  /\ \A c \in Clients : WF_vars(ConnectLater(c))
  /\ \A o \in Objects : WF_vars(Think(o))

-----------------------------------------------------------------------------
(* Properties.                                                             *)

\* Every variable has its type, and nobody waits twice (clientLogin finds the
\* entry of a player that tries again).
TypeOK ==
  /\ replaceKick \in BOOLEAN
  /\ connection \in [Clients -> {"none", "open", "closed", "expired"}]
  /\ queue \in Seq([op : {"login", "release"}, client : Clients, name : Players \union {NoPlayer}])
  /\ eventConnect \in [Clients -> Players \union {NoPlayer}]
  /\ player \in [Clients -> Objects \union {NoObject}]
  /\ acceptPackets \subseteq Clients
  /\ client \in [Objects -> Clients \union {NoClient}]
  /\ placed \subseteq Objects
  /\ dead \subseteq Objects
  /\ idle \in [Objects -> 0 .. IdleLimit]
  /\ waiting.drift \in 0 .. MaxDrift
  /\ Waiting(waiting) \subseteq Players
  /\ IsInjective(waiting.priorityWaitList) /\ IsInjective(waiting.waitList)

\* A player's client holds that player, so that release finds it and a logout
\* through it removes it.
ClientHoldsPlayer == \A o \in Objects : client[o] # NoClient => player[client[o]] = o

\* A player let in leaves room for everybody who waits before it.  The privileged,
\* whom clientLogin lets in at once, are excepted.
RoomForThoseAhead ==
  [][\A c \in Clients, p \in Players \ Privileged : placed' # placed /\ EnterGame(c, p) =>
       Cardinality(placed') + Cardinality(Ahead(waiting, p) \intersect Waiting(waiting')) <= MaxPlayers]_vars

\* Two waiting players are never told the same place (and every variable keeps
\* its type).
PlacesDiffer ==
  /\ TypeOK
  /\ \A p, q \in Waiting(waiting) : p # q => Slot(waiting, p) # Slot(waiting, q)

\* A login whose connection stays open ends with a session: the retry finds the
\* player, or closes the connection.
LoginAnswered ==
  \A c \in Clients :
    (eventConnect[c] # NoPlayer \/ \E e \in Range(queue) : e.op = "login" /\ e.client = c)
      ~> (c \in acceptPackets \/ connection[c] # "open")

\* A player that no open connection controls does not stay in the game for ever,
\* whatever became of its client: it leaves, unless it is one of those the check
\* for idleness may spare, or somebody comes to play it.
Alone(o) == \A c \in Clients : player[c] = o => connection[c] # "open"
LoggingIn(p) ==
  \E c \in Clients : eventConnect[c] = p \/ LoginEvent(c, p) \in Range(queue)
NobodyLingers ==
  \A p \in Players \ MayIdle :
    (\E o \in Online(p) : Alone(o)) ~> (LoggingIn(p) \/ \A o \in Online(p) : ~Alone(o))

\* "Please use only one client at a time!": two open connections never control
\* one player.
OneClient ==
  \A c, d \in acceptPackets :
    c # d /\ connection[c] = "open" /\ connection[d] = "open" /\ player[c] \in placed
      => player[c] # player[d]
=============================================================================
