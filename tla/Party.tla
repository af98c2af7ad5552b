-------------------------------- MODULE Party --------------------------------
(***************************************************************************)
(* Parties (creatures/players/grouping/party.cpp) and the handlers of      *)
(* game.cpp that drive them, across death, logout and the end of player    *)
(* objects.  A party holds its members and invitees by shared pointers and *)
(* its leader by a weak one; players hold their party and the parties that *)
(* invite them.  Every action runs on the dispatcher.                      *)
(*                                                                         *)
(* Scripts accept every join, leave and disband, as with none registered.  *)
(* Shared experience is a function of levels, places and time, left out.   *)
(***************************************************************************)
EXTENDS SequencesExt, FiniteSets

CONSTANTS
  Players,   \* Player objects; a destroyed one is used again
  Parties    \* Party objects; a destroyed one is used again

NoPlayer == "no player"
NoParty == "no party"

ASSUME PartyAssumption ==
  /\ NoPlayer \notin Players
  /\ NoParty \notin Parties

VARIABLES
  leavePartyOnDeath, \* the configuration, LEAVE_PARTY_ON_DEATH
  online,            \* objects that getPlayerByID finds
  dead,              \* objects that a client with a death window holds
  parties            \* leader, memberList, inviteList per party;
                     \* party, invitePartyList per player
vars == <<leavePartyOnDeath, online, dead, parties>>

Grouping ==
  [leader          : [Parties -> Players \union {NoPlayer}],
   memberList      : [Parties -> Seq(Players)],
   inviteList      : [Parties -> SUBSET Players],
   party           : [Players -> Parties \union {NoParty}],
   invitePartyList : [Players -> SUBSET Parties]]

Alone ==
  [leader          |-> [q \in Parties |-> NoPlayer],
   memberList      |-> [q \in Parties |-> << >>],
   inviteList      |-> [q \in Parties |-> {}],
   party           |-> [p \in Players |-> NoParty],
   invitePartyList |-> [p \in Players |-> {}]]

Members(s, q) == Range(s.memberList[q])
Empty(s, q) == s.memberList[q] = << >> /\ s.inviteList[q] = {}

\* Nothing refers to a party that no player is in or invited to, nor to a player
\* that is neither online nor dead and in no list of a party.
UnusedParty(s, q) == \A p \in Players : s.party[p] # q /\ q \notin s.invitePartyList[p]
UnusedPlayer(s, p) ==
  /\ p \notin online \union dead
  /\ \A q \in Parties : p \notin Members(s, q) \union s.inviteList[q]

-----------------------------------------------------------------------------
(* Party.  Each operator takes and returns the grouping.                   *)

\* Mutant: the invitations stay with the invited players.
DisbandMembers(s, q) ==
  IF s.leader[q] = NoPlayer THEN s
  ELSE [s EXCEPT !.leader[q] = NoPlayer,
                 !.memberList[q] = << >>,
                 !.inviteList[q] = {},
                 !.party = [p \in Players |->
                   IF p = s.leader[q] \/ p \in Members(s, q) THEN NoParty ELSE @[p]]]

\* disband does nothing once the leader is gone.
Disband(s, q) ==
  IF s.leader[q] = NoPlayer THEN s
  ELSE [s EXCEPT !.leader[q] = NoPlayer,
                 !.memberList[q] = << >>,
                 !.inviteList[q] = {},
                 !.party = [p \in Players |->
                   IF p = s.leader[q] \/ p \in Members(s, q) THEN NoParty ELSE @[p]],
                 !.invitePartyList = [p \in Players |->
                   IF p \in s.inviteList[q] THEN @[p] \ {q} ELSE @[p]]]

\* Mutant: the new leader stays in the list.
PassAndStay(s, q, p) ==
  IF s.leader[q] \in {NoPlayer, p} \/ s.party[p] # q THEN s
  ELSE [s EXCEPT !.leader[q] = p, !.memberList[q] = <<s.leader[q]>> \o @]

PassPartyLeadership(s, q, p) ==
  IF s.leader[q] \in {NoPlayer, p} \/ s.party[p] # q THEN s
  ELSE [s EXCEPT !.leader[q] = p, !.memberList[q] = <<s.leader[q]>> \o RemoveFirst(@, p)]

\* Mutant: the party ends whenever its leader leaves.
LeaveAndDisband(s, q, p) ==
  LET leader == s.leader[q]
      left == [s EXCEPT !.memberList[q] = RemoveFirst(@, p), !.party[p] = NoParty]
  IN  IF leader = NoPlayer \/ (s.party[p] # q /\ leader # p) THEN s
      ELSE IF leader = p \/ Empty(left, q) THEN Disband(left, q)
      ELSE left

\* leaveParty: a leader that leaves passes the leadership to the front of the
\* list, unless that leaves it alone; a party that stays empty is disbanded.
LeaveParty(s, q, p) ==
  LET leader == s.leader[q]
      missingLeader ==
        /\ leader = p
        /\ s.memberList[q] = << >> \/ (Len(s.memberList[q]) = 1 /\ s.inviteList[q] = {})
      passed == IF leader = p /\ ~missingLeader
                THEN PassPartyLeadership(s, q, s.memberList[q][1]) ELSE s
      left == [passed EXCEPT !.memberList[q] = RemoveFirst(@, p), !.party[p] = NoParty]
  IN  IF leader = NoPlayer \/ (s.party[p] # q /\ leader # p) THEN s
      ELSE IF missingLeader \/ Empty(left, q) THEN Disband(left, q)
      ELSE left

\* joinParty
JoinParty(s, q, p) ==
  IF s.leader[q] = NoPlayer \/ p \notin s.inviteList[q] THEN s
  ELSE [s EXCEPT !.inviteList[q] = @ \ {p},
                 !.party[p] = q,
                 !.memberList[q] = Append(@, p),
                 !.invitePartyList[p] = @ \ {q}]

\* Mutant: an empty party stays.
RemoveInviteOnly(s, q, p) ==
  IF s.leader[q] = NoPlayer \/ p \notin s.inviteList[q] THEN s
  ELSE [s EXCEPT !.inviteList[q] = @ \ {p}, !.invitePartyList[p] = @ \ {q}]

\* removeInvite
RemoveInvite(s, q, p) ==
  LET removed == [s EXCEPT !.inviteList[q] = @ \ {p}, !.invitePartyList[p] = @ \ {q}]
  IN  IF s.leader[q] = NoPlayer \/ p \notin s.inviteList[q] THEN s
      ELSE IF Empty(removed, q) THEN Disband(removed, q)
      ELSE removed

\* clearPartyInvitations: every party takes its invitation back, and the player
\* forgets them all.  Taking back the one of a party touches no other party, so
\* their order does not matter; the leaders of those that end have none.
ClearPartyInvitations(s, p) ==
  LET after == [q \in Parties |-> IF q \in s.invitePartyList[p] THEN RemoveInvite(s, q, p) ELSE s]
  IN  [leader          |-> [q \in Parties |-> after[q].leader[q]],
       memberList      |-> [q \in Parties |-> after[q].memberList[q]],
       inviteList      |-> [q \in Parties |-> after[q].inviteList[q]],
       party           |-> [m \in Players |-> IF \E q \in Parties : after[q].party[m] = NoParty
                                              THEN NoParty ELSE s.party[m]],
       invitePartyList |-> [s.invitePartyList EXCEPT ![p] = {}]]

\* invitePlayer; a new party has its leader only.
InvitePlayer(s, q, p) ==
  IF s.leader[q] = NoPlayer \/ p \in s.inviteList[q] THEN s
  ELSE [s EXCEPT !.inviteList[q] = @ \union {p}, !.invitePartyList[p] = @ \union {q}]

Create(s, q, p) ==
  [s EXCEPT !.leader[q] = p, !.memberList[q] = << >>, !.inviteList[q] = {}, !.party[p] = q]

\* isInviting
IsInviting(p, other) ==
  /\ parties.party[p] # NoParty
  /\ parties.leader[parties.party[p]] = p
  /\ other \in parties.inviteList[parties.party[p]]

-----------------------------------------------------------------------------
(* The handlers of a player's requests: both players must be online.       *)

Leads(p) == parties.party[p] # NoParty /\ parties.leader[parties.party[p]] = p

\* playerInviteToParty
PlayerInviteToParty(p, invited) ==
  /\ {p, invited} \subseteq online /\ p # invited
  /\ ~IsInviting(invited, p)
  /\ parties.party[invited] = NoParty
  /\ \/ /\ parties.party[p] = NoParty
        /\ \E q \in Parties :
             /\ UnusedParty(parties, q)
             /\ parties' = InvitePlayer(Create(parties, q, p), q, invited)
     \/ /\ Leads(p)
        /\ parties' = InvitePlayer(parties, parties.party[p], invited)
  /\ UNCHANGED <<leavePartyOnDeath, online, dead>>

\* playerJoinParty
PlayerJoinParty(p, leader) ==
  /\ {p, leader} \subseteq online
  /\ IsInviting(leader, p)
  /\ parties.party[p] = NoParty
  /\ parties' = JoinParty(parties, parties.party[leader], p)
  /\ UNCHANGED <<leavePartyOnDeath, online, dead>>

\* playerRevokePartyInvitation
PlayerRevokePartyInvitation(p, invited) ==
  /\ {p, invited} \subseteq online
  /\ IsInviting(p, invited)
  /\ parties' = RemoveInvite(parties, parties.party[p], invited)
  /\ UNCHANGED <<leavePartyOnDeath, online, dead>>

\* playerPassPartyLeadership: the new leader is any partner (isPartner).
PlayerPassPartyLeadership(p, newLeader) ==
  /\ {p, newLeader} \subseteq online /\ p # newLeader
  /\ Leads(p)
  /\ parties.party[newLeader] = parties.party[p]
  /\ parties' = PassPartyLeadership(parties, parties.party[p], newLeader)
  /\ UNCHANGED <<leavePartyOnDeath, online, dead>>

\* playerLeaveParty, outside a fight; or the forced leave of a player that
\* became too weak and starts again
PlayerLeaveParty(p) ==
  /\ p \in online
  /\ parties.party[p] # NoParty
  /\ parties' = LeaveParty(parties, parties.party[p], p)
  /\ UNCHANGED <<leavePartyOnDeath, online, dead>>

-----------------------------------------------------------------------------
(* Death, logout, and the end of objects.                                  *)

\* A new object in the game.
Login(p) ==
  /\ p \notin online \union dead
  /\ parties.party[p] = NoParty /\ parties.invitePartyList[p] = {}
  /\ UnusedPlayer(parties, p)
  /\ online' = online \union {p}
  /\ UNCHANGED <<leavePartyOnDeath, dead, parties>>

LeaveIfMember(s, p) == IF s.party[p] = NoParty THEN s ELSE LeaveParty(s, s.party[p], p)

\* onRemoveCreature at a logout leaves the party, then clears the invitations.
Logout(p) ==
  /\ p \in online
  /\ online' = online \ {p}
  /\ parties' = ClearPartyInvitations(LeaveIfMember(parties, p), p)
  /\ UNCHANGED <<leavePartyOnDeath, dead>>

\* Mutant: the dead stay in their party, whatever the configuration says.
DieInParty(p) ==
  /\ p \in online
  /\ online' = online \ {p}
  /\ dead' = dead \union {p}
  /\ UNCHANGED <<leavePartyOnDeath, parties>>

\* despawn: only the configuration makes the dead leave; their invitations stay.
Die(p) ==
  /\ p \in online
  /\ online' = online \ {p}
  /\ dead' = dead \union {p}
  /\ parties' = IF leavePartyOnDeath THEN LeaveIfMember(parties, p) ELSE parties
  /\ UNCHANGED leavePartyOnDeath

\* Mutant: the object stays dead.
RespawnDead(p) ==
  /\ p \in dead
  /\ online' = online \union {p}
  /\ UNCHANGED <<leavePartyOnDeath, dead, parties>>

\* spawn
Respawn(p) ==
  /\ p \in dead
  /\ dead' = dead \ {p}
  /\ online' = online \union {p}
  /\ UNCHANGED <<leavePartyOnDeath, parties>>

\* The client of a dead player goes away, or there is no room to spawn it.
ReleaseDead(p) ==
  /\ p \in dead
  /\ dead' = dead \ {p}
  /\ UNCHANGED <<leavePartyOnDeath, online, parties>>

\* The last reference to a player object goes: its leader's weak pointer expires.
DestroyPlayer(p) ==
  /\ UnusedPlayer(parties, p)
  /\ parties.party[p] # NoParty \/ parties.invitePartyList[p] # {}
  /\ parties' = [parties EXCEPT
       !.leader = [q \in Parties |-> IF @[q] = p THEN NoPlayer ELSE @[q]],
       !.party[p] = NoParty,
       !.invitePartyList[p] = {}]
  /\ UNCHANGED <<leavePartyOnDeath, online, dead>>

\* The last reference to a party goes, and with it those it holds.
DestroyParty(q) ==
  /\ UnusedParty(parties, q)
  /\ ~Empty(parties, q)
  /\ parties' = [parties EXCEPT !.leader[q] = NoPlayer, !.memberList[q] = << >>, !.inviteList[q] = {}]
  /\ UNCHANGED <<leavePartyOnDeath, online, dead>>

-----------------------------------------------------------------------------

Init ==
  /\ leavePartyOnDeath \in BOOLEAN
  /\ online = {}
  /\ dead = {}
  /\ parties = Alone

Next ==
  \/ \E p, other \in Players :
       \/ PlayerInviteToParty(p, other)
       \/ PlayerJoinParty(p, other)
       \/ PlayerRevokePartyInvitation(p, other)
       \/ PlayerPassPartyLeadership(p, other)
  \/ \E p \in Players :
       PlayerLeaveParty(p) \/ Login(p) \/ Logout(p) \/ Die(p) \/ Respawn(p) \/ ReleaseDead(p) \/ DestroyPlayer(p)
  \/ \E q \in Parties : DestroyParty(q)

Spec == Init /\ [][Next]_vars

-----------------------------------------------------------------------------
(* Properties.                                                             *)

\* Every variable has its type.
TypeOK ==
  /\ leavePartyOnDeath \in BOOLEAN
  /\ online \subseteq Players
  /\ dead \subseteq Players \ online
  /\ parties \in Grouping

\* A player has a party exactly when the party has the player, once, as its
\* leader or as a member (and every variable keeps its type).
MembersHoldParty ==
  /\ TypeOK
  /\ \A q \in Parties :
    /\ IsInjective(parties.memberList[q])
    /\ parties.leader[q] \notin Members(parties, q)
    /\ \A p \in Players :
         parties.party[p] = q <=> p \in Members(parties, q) \union {parties.leader[q]}

\* A player's invitation is in the party's list, for the party to take back, and
\* as long as the party has a leader the player knows of it.
InvitationsAgree ==
  \A q \in Parties, p \in Players :
    /\ q \in parties.invitePartyList[p] => p \in parties.inviteList[q]
    /\ parties.leader[q] # NoPlayer /\ p \in parties.inviteList[q] => q \in parties.invitePartyList[p]

\* A leader never stays in a party with no member and no invitation.
NoEmptyParty == \A q \in Parties : parties.leader[q] # NoPlayer => ~Empty(parties, q)

\* When the dead leave their party, every player in a party is online, and so is
\* its leader: everyone can be reached and can leave.
NobodyStranded ==
  leavePartyOnDeath => \A p \in Players :
    parties.party[p] # NoParty => p \in online /\ parties.leader[parties.party[p]] \in online

\* A party of three or more ends by no single step, as long as its leader exists.
PartySurvives ==
  [][\A q \in Parties :
       Len(parties.memberList[q]) >= 2 /\ parties.leader[q] \in online \union dead
         => parties.leader[q]' # NoPlayer /\ parties.memberList[q]' # << >>]_vars
=============================================================================
