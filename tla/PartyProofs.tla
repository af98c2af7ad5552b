----------------------------- MODULE PartyProofs ------------------------------
(***************************************************************************)
(* Theorems about Party, for every number of players and parties.          *)
(***************************************************************************)
EXTENDS Party, SequenceTheorems, TLAPS

-----------------------------------------------------------------------------
(* Lists of members.                                                       *)

LEMMA EmptyList == IsInjective(<< >>) /\ Range(<< >>) = {}
  BY DEF IsInjective, Range

LEMMA AppendedOnce ==
  ASSUME NEW S, NEW l \in Seq(S), IsInjective(l), NEW e \in S, e \notin Range(l)
  PROVE  /\ Append(l, e) \in Seq(S) /\ IsInjective(Append(l, e))
         /\ Range(Append(l, e)) = Range(l) \union {e}
         /\ Append(l, e) # << >> /\ Len(Append(l, e)) = Len(l) + 1
  <1> DEFINE longer == Append(l, e)
  <1>1. /\ longer \in Seq(S) /\ longer # << >>
        /\ DOMAIN longer = 1 .. Len(l) + 1 /\ DOMAIN l = 1 .. Len(l) /\ Len(l) \in Nat
        /\ Len(longer) = Len(l) + 1
        /\ \A i \in 1 .. Len(l) : longer[i] = l[i]
        /\ longer[Len(l) + 1] = e
    BY AppendProperties
  <1> HIDE DEF longer
  <1>2. Range(longer) = Range(l) \union {e}
    BY <1>1 DEF Range
  <1>3. IsInjective(longer)
    BY <1>1 DEF IsInjective, Range
  <1> QED
    BY <1>1, <1>2, <1>3 DEF longer

LEMMA PrependedOnce ==
  ASSUME NEW S, NEW l \in Seq(S), IsInjective(l), NEW e \in S, e \notin Range(l)
  PROVE  /\ <<e>> \o l \in Seq(S) /\ IsInjective(<<e>> \o l)
         /\ Range(<<e>> \o l) = Range(l) \union {e}
         /\ <<e>> \o l # << >> /\ Len(<<e>> \o l) = Len(l) + 1
  <1> DEFINE longer == <<e>> \o l
  <1>1. /\ longer \in Seq(S)
        /\ DOMAIN longer = 1 .. Len(l) + 1 /\ DOMAIN l = 1 .. Len(l) /\ Len(l) \in Nat
        /\ Len(longer) = Len(l) + 1
        /\ longer[1] = e
        /\ \A i \in 1 .. Len(l) : longer[i + 1] = l[i]
        /\ \A i \in 2 .. Len(l) + 1 : i - 1 \in 1 .. Len(l) /\ longer[i] = l[i - 1]
    OBVIOUS
  <1> HIDE DEF longer
  <1>2. \A i \in DOMAIN longer :
          \/ i = 1 /\ longer[i] = e
          \/ i \in 2 .. Len(l) + 1 /\ i - 1 \in DOMAIN l /\ longer[i] = l[i - 1]
    BY <1>1
  <1>3. \A i \in DOMAIN l : i + 1 \in DOMAIN longer /\ longer[i + 1] = l[i]
    BY <1>1
  <1>4. Range(longer) = Range(l) \union {e}
    <2>1. \A i \in DOMAIN longer : longer[i] \in Range(l) \union {e}
      BY <1>2 DEF Range
    <2>2. \A i \in DOMAIN l : l[i] \in Range(longer)
      BY <1>3 DEF Range
    <2>3. e \in Range(longer)
      BY <1>1 DEF Range
    <2> QED
      BY <2>1, <2>2, <2>3 DEF Range
  <1>5. IsInjective(longer)
    <2> SUFFICES ASSUME NEW i \in DOMAIN longer, NEW j \in DOMAIN longer, longer[i] = longer[j]
                 PROVE  i = j
      BY DEF IsInjective
    <2>1. \A k \in DOMAIN l : l[k] # e
      BY DEF Range
    <2>2. i \in Int /\ j \in Int
      BY <1>1
    <2>3. CASE i = 1 /\ j = 1
      BY <2>3
    <2>4. CASE i - 1 \in DOMAIN l /\ longer[i] = l[i - 1] /\ j - 1 \in DOMAIN l /\ longer[j] = l[j - 1]
      <3>1. i - 1 = j - 1
        BY <2>4 DEF IsInjective
      <3> QED
        BY <3>1, <2>2
    <2> QED
      BY <1>2, <2>1, <2>3, <2>4
  <1>6. longer # << >>
    <2>1. Len(longer) # 0
      BY <1>1
    <2> QED
      BY <2>1
  <1> QED
    BY <1>1, <1>4, <1>5, <1>6 DEF longer

\* Without an element: RemoveFirst removes it, if it is there, and nothing else.
LEMMA RemovedOnce ==
  ASSUME NEW S, NEW l \in Seq(S), IsInjective(l), NEW e
  PROVE  /\ RemoveFirst(l, e) \in Seq(S) /\ IsInjective(RemoveFirst(l, e))
         /\ Range(RemoveFirst(l, e)) = Range(l) \ {e}
         /\ Len(l) >= 2 => RemoveFirst(l, e) # << >>
  <1>1. CASE ~ \E i \in 1 .. Len(l) : l[i] = e
    <2>1. RemoveFirst(l, e) = l /\ e \notin Range(l)
      BY <1>1 DEF RemoveFirst, Range
    <2>2. Len(l) >= 2 => l # << >>
      BY EmptySeq
    <2> QED
      BY <2>1, <2>2
  <1>2. CASE \E i \in 1 .. Len(l) : l[i] = e
    <2>1. PICK k \in 1 .. Len(l) : l[k] = e
      BY <1>2
    <2>2. SelectInSeq(l, LAMBDA v : v = e) = k
      <3>1. {i \in 1 .. Len(l) : l[i] = e} = {k}
        BY <2>1 DEF IsInjective
      <3>2. Min({k}) = k
        BY DEF Min
      <3> QED
        BY <3>1, <3>2 DEF SelectInSeq
    <2> DEFINE less == RemoveFirst(l, e)
    <2>3. less = SubSeq(l, 1, k - 1) \o SubSeq(l, k + 1, Len(l))
      BY <1>2, <2>2 DEF RemoveFirst, RemoveAt
    <2>4. /\ less \in Seq(S) /\ Len(less) = Len(l) - 1 /\ Len(l) \in Nat
          /\ DOMAIN less = 1 .. Len(l) - 1 /\ DOMAIN l = 1 .. Len(l) /\ k \in 1 .. Len(l)
          /\ \A i \in 1 .. k - 1 : less[i] = l[i]
          /\ \A i \in k .. Len(l) - 1 : less[i] = l[i + 1]
      <3> DEFINE before == SubSeq(l, 1, k - 1)
                 after == SubSeq(l, k + 1, Len(l))
      <3>1. /\ before \in Seq(S) /\ Len(before) = k - 1
            /\ \A i \in 1 .. k - 1 : before[i] = l[i]
        OBVIOUS
      <3>2. /\ after \in Seq(S) /\ Len(after) = Len(l) - k
            /\ \A i \in 1 .. Len(l) - k : after[i] = l[k + i]
        OBVIOUS
      <3>3. less = before \o after /\ Len(l) \in Nat /\ DOMAIN l = 1 .. Len(l)
        BY <2>3
      <3> HIDE DEF before, after, less
      <3>4. /\ less \in Seq(S) /\ Len(less) = Len(l) - 1 /\ DOMAIN less = 1 .. Len(l) - 1
            /\ \A i \in 1 .. Len(l) - 1 :
                 less[i] = IF i <= k - 1 THEN before[i] ELSE after[i - (k - 1)]
        <4>1. /\ before \o after \in Seq(S) /\ Len(before \o after) = Len(before) + Len(after)
              /\ \A i \in 1 .. Len(before) + Len(after) :
                   (before \o after)[i] = IF i <= Len(before) THEN before[i] ELSE after[i - Len(before)]
          BY <3>1, <3>2, ConcatProperties
        <4>2. Len(before) + Len(after) = Len(l) - 1
          BY <3>1, <3>2, <3>3
        <4>3. less \in Seq(S) /\ Len(less) = Len(l) - 1
          BY <4>1, <4>2, <3>3
        <4>4. DOMAIN less = 1 .. Len(l) - 1
          BY <4>3
        <4> QED
          BY <4>1, <4>2, <4>3, <4>4, <3>1, <3>3
      <3>5. ASSUME NEW i \in k .. Len(l) - 1 PROVE less[i] = l[i + 1]
        <4>1. i - (k - 1) \in 1 .. Len(l) - k /\ k + (i - (k - 1)) = i + 1 /\ i \in 1 .. Len(l) - 1 /\ ~ (i <= k - 1)
          BY <3>3
        <4> QED
          BY <4>1, <3>2, <3>4
      <3>6. ASSUME NEW i \in 1 .. k - 1 PROVE less[i] = l[i]
        <4>1. i \in 1 .. Len(l) - 1 /\ i <= k - 1
          BY <3>3
        <4> QED
          BY <4>1, <3>1, <3>4
      <3> QED
        BY <3>3, <3>4, <3>5, <3>6
    <2> HIDE DEF less
    <2> DEFINE was == [i \in DOMAIN less |-> IF i < k THEN i ELSE i + 1]
    <2>5. \A i \in DOMAIN less : was[i] \in DOMAIN l /\ was[i] # k /\ less[i] = l[was[i]]
      BY <2>4
    <2>6. \A i, j \in DOMAIN less : was[i] = was[j] => i = j
      BY <2>4
    <2>7. \A j \in DOMAIN l : j # k => \E i \in DOMAIN less : was[i] = j
      <3> TAKE j \in DOMAIN l
      <3>1. CASE j < k
        BY <3>1, <2>4
      <3>2. CASE j > k
        <4>1. j - 1 \in DOMAIN less /\ was[j - 1] = j
          BY <3>2, <2>4
        <4> QED
          BY <4>1
      <3> QED
        BY <3>1, <3>2, <2>4
    <2> HIDE DEF was
    <2>8. IsInjective(less)
      BY <2>5, <2>6 DEF IsInjective
    <2>9. \A j \in DOMAIN l : l[j] = e => j = k
      BY <2>1, <2>4 DEF IsInjective
    <2>10. Range(less) = Range(l) \ {e}
      <3>1. \A i \in DOMAIN less : less[i] \in Range(l) \ {e}
        BY <2>5, <2>9 DEF Range
      <3>2. \A j \in DOMAIN l : l[j] # e => l[j] \in Range(less)
        BY <2>1, <2>5, <2>7 DEF Range
      <3> QED
        BY <3>1, <3>2 DEF Range
    <2>11. Len(l) >= 2 => less # << >>
      BY <2>4, EmptySeq
    <2> QED
      BY <2>4, <2>8, <2>10, <2>11 DEF less
  <1> QED
    BY <1>1, <1>2
-----------------------------------------------------------------------------
(* The grouping.  Between the calls of one operation a party may be empty; *)
(* what must hold of a grouping otherwise is Sound.                        *)

Holding(s) ==
  \A q \in Parties :
    /\ IsInjective(s.memberList[q])
    /\ s.leader[q] \notin Members(s, q)
    /\ \A p \in Players : s.party[p] = q <=> p \in Members(s, q) \union {s.leader[q]}

Agreeing(s) ==
  \A q \in Parties, p \in Players :
    /\ q \in s.invitePartyList[p] => p \in s.inviteList[q]
    /\ s.leader[q] # NoPlayer /\ p \in s.inviteList[q] => q \in s.invitePartyList[p]

Sound(s) == s \in Grouping /\ Holding(s) /\ Agreeing(s)

Filled(s) == \A q \in Parties : s.leader[q] # NoPlayer => ~ Empty(s, q)

\* Everyone in a party has a leader.
Led(s) == \A p \in Players : s.party[p] # NoParty => s.leader[s.party[p]] # NoPlayer

\* A party of three or more with a leader does not end from s to t.
Outlives(s, t) ==
  \A q \in Parties :
    Len(s.memberList[q]) >= 2 /\ s.leader[q] # NoPlayer => t.leader[q] # NoPlayer /\ t.memberList[q] # << >>

\* From s to t only the party q has changed, it does not stay empty, does not end
\* while it has three players, and only players of new have joined a party.
Changed(s, t, q, new) ==
  /\ Sound(t)
  /\ \A r \in Parties \ {q} : /\ t.leader[r] = s.leader[r]
                              /\ t.memberList[r] = s.memberList[r]
                              /\ t.inviteList[r] = s.inviteList[r]
  /\ t.leader[q] # NoPlayer => ~ Empty(t, q)
  /\ t.leader[q] = NoPlayer => t.memberList[q] = << >> \/ t = s
  /\ Len(s.memberList[q]) >= 2 /\ s.leader[q] # NoPlayer => t.leader[q] # NoPlayer /\ t.memberList[q] # << >>
  /\ \A p \in Players : t.party[p] # NoParty => s.party[p] # NoParty \/ p \in new

LEMMA Types ==
  ASSUME NEW s \in Grouping
  PROVE  /\ \A q \in Parties : /\ s.leader[q] \in Players \union {NoPlayer}
                               /\ s.memberList[q] \in Seq(Players)
                               /\ s.inviteList[q] \subseteq Players
                               /\ Members(s, q) \subseteq Players
         /\ \A p \in Players : s.party[p] \in Parties \union {NoParty} /\ s.invitePartyList[p] \subseteq Parties
         /\ s = [leader |-> s.leader, memberList |-> s.memberList, inviteList |-> s.inviteList,
                 party |-> s.party, invitePartyList |-> s.invitePartyList]
         /\ s.leader \in [Parties -> Players \union {NoPlayer}] /\ s.memberList \in [Parties -> Seq(Players)]
         /\ s.inviteList \in [Parties -> SUBSET Players] /\ s.party \in [Players -> Parties \union {NoParty}]
         /\ s.invitePartyList \in [Players -> SUBSET Parties]
  <1>1. ASSUME NEW q \in Parties PROVE Members(s, q) \subseteq Players
    <2>1. s.memberList[q] \in Seq(Players)
      BY DEF Grouping
    <2> QED
      BY <2>1, RangeOfSeq DEF Members
  <1> QED
    BY <1>1 DEF Grouping

LEMMA NoOne == \A s, q : s.memberList[q] = << >> => Members(s, q) = {}
  BY EmptyList DEF Members

-----------------------------------------------------------------------------
(* The operations.                                                         *)

\* A party that changes leaves the others as they are.
LEMMA ChangedKeeps ==
  ASSUME NEW s, Sound(s), NEW q \in Parties, NEW t, NEW new, Changed(s, t, q, new)
  PROVE  /\ Filled(s) => Filled(t)
         /\ Led(s) => Led(t)
         /\ Outlives(s, t)
  <1>1. Filled(s) => Filled(t)
    BY DEF Changed, Filled, Empty
  <1>2. ASSUME Led(s), NEW p \in Players, t.party[p] # NoParty, t.leader[t.party[p]] = NoPlayer
        PROVE  FALSE
    <2> DEFINE r == t.party[p]
    <2>1. r \in Parties /\ p \in Members(t, r)
      BY <1>2, Types, PartyAssumption DEF Changed, Sound, Holding
    <2>2. t.memberList[r] # << >>
      BY <2>1, NoOne
    <2>3. CASE r = q
      BY <2>2, <2>3, <1>2 DEF Changed, Led
    <2>4. CASE r # q
      <3>1. p \in Members(s, r) /\ s.leader[r] = NoPlayer
        BY <2>1, <2>4, <1>2 DEF Changed, Members
      <3>2. s.party[p] = r
        BY <3>1, <2>1 DEF Sound, Holding
      <3> QED
        BY <3>1, <3>2, <2>1, <1>2, PartyAssumption DEF Led
    <2> QED
      BY <2>3, <2>4
  <1>3. Outlives(s, t)
    <2>1. \A r \in Parties : Len(s.memberList[r]) >= 2 => s.memberList[r] # << >>
      <3>1. Len(<< >>) = 0
        OBVIOUS
      <3> QED
        BY <3>1
    <2> QED
      BY <2>1 DEF Outlives, Changed
  <1> QED
    BY <1>1, <1>2, <1>3 DEF Led

LEMMA DisbandFields ==
  ASSUME NEW s \in Grouping, NEW q \in Parties, s.leader[q] # NoPlayer
  PROVE  LET t == Disband(s, q) IN
         /\ t \in Grouping
         /\ t.leader = [s.leader EXCEPT ![q] = NoPlayer]
         /\ t.memberList = [s.memberList EXCEPT ![q] = << >>]
         /\ t.inviteList = [s.inviteList EXCEPT ![q] = {}]
         /\ t.party = [p \in Players |-> IF p = s.leader[q] \/ p \in Members(s, q) THEN NoParty ELSE s.party[p]]
         /\ t.invitePartyList = [p \in Players |-> IF p \in s.inviteList[q] THEN s.invitePartyList[p] \ {q}
                                                                             ELSE s.invitePartyList[p]]
  <1>1. << >> \in Seq(Players)
    BY EmptySeq
  <1> QED
    BY <1>1 DEF Disband, Grouping

LEMMA DisbandChanges ==
  ASSUME NEW s, Sound(s), NEW q \in Parties, s.leader[q] # NoPlayer
  PROVE  LET t == Disband(s, q) IN
         /\ Sound(t)
         /\ t.leader[q] = NoPlayer /\ t.memberList[q] = << >>
         /\ \A r \in Parties \ {q} : /\ t.leader[r] = s.leader[r]
                                     /\ t.memberList[r] = s.memberList[r]
                                     /\ t.inviteList[r] = s.inviteList[r]
         /\ \A p \in Players : t.party[p] = IF s.party[p] = q THEN NoParty ELSE s.party[p]
         /\ t.inviteList[q] = {}
         /\ \A p \in Players : t.invitePartyList[p] = s.invitePartyList[p] \ {q}
  <1> DEFINE t == Disband(s, q)
  <1>1. /\ t \in Grouping
        /\ t.leader = [s.leader EXCEPT ![q] = NoPlayer]
        /\ t.memberList = [s.memberList EXCEPT ![q] = << >>]
        /\ t.inviteList = [s.inviteList EXCEPT ![q] = {}]
        /\ t.party = [p \in Players |-> IF p = s.leader[q] \/ p \in Members(s, q) THEN NoParty ELSE s.party[p]]
        /\ t.invitePartyList = [p \in Players |-> IF p \in s.inviteList[q] THEN s.invitePartyList[p] \ {q}
                                                                            ELSE s.invitePartyList[p]]
    BY DisbandFields DEF Sound
  <1> HIDE DEF t
  <1>2. /\ t.leader[q] = NoPlayer /\ t.memberList[q] = << >> /\ t.inviteList[q] = {}
        /\ \A r \in Parties \ {q} : /\ t.leader[r] = s.leader[r]
                                    /\ t.memberList[r] = s.memberList[r]
                                    /\ t.inviteList[r] = s.inviteList[r]
    BY <1>1, Types DEF Sound
  <1>3. \A p \in Players : t.party[p] = IF s.party[p] = q THEN NoParty ELSE s.party[p]
    BY <1>1 DEF Sound, Holding
  <1>4. \A p \in Players : t.invitePartyList[p] = s.invitePartyList[p] \ {q}
    BY <1>1 DEF Sound, Agreeing
  <1>5. Holding(t)
    <2>1. Members(t, q) = {} /\ IsInjective(t.memberList[q])
      BY <1>2, NoOne, EmptyList
    <2>2. \A r \in Parties \ {q} : Members(t, r) = Members(s, r)
      BY <1>2 DEF Members
    <2> QED
      BY <1>2, <1>3, <2>1, <2>2, PartyAssumption DEF Holding, Sound
  <1>6. Agreeing(t)
    BY <1>2, <1>4 DEF Agreeing, Sound
  <1> QED
    BY <1>1, <1>2, <1>3, <1>4, <1>5, <1>6 DEF t, Sound

LEMMA SameParty ==
  ASSUME NEW s, Sound(s), Filled(s), NEW q \in Parties, NEW new
  PROVE  Changed(s, s, q, new)
  <1>1. Len(s.memberList[q]) >= 2 => s.memberList[q] # << >>
    <2>1. Len(<< >>) = 0
      OBVIOUS
    <2> QED
      BY <2>1
  <1> QED
    BY <1>1 DEF Changed, Filled

LEMMA JoinPartyChanges ==
  ASSUME NEW s, Sound(s), Filled(s), NEW q \in Parties, NEW p \in Players, s.party[p] = NoParty
  PROVE  Changed(s, JoinParty(s, q, p), q, {p})
  <1>1. CASE s.leader[q] = NoPlayer \/ p \notin s.inviteList[q]
    BY <1>1, SameParty DEF JoinParty
  <1>2. CASE s.leader[q] # NoPlayer /\ p \in s.inviteList[q]
    <2> DEFINE t == JoinParty(s, q, p)
    <2>1. p \notin Members(s, q) /\ s.leader[q] # p
      BY PartyAssumption DEF Sound, Holding
    <2>2. /\ Append(s.memberList[q], p) \in Seq(Players) /\ IsInjective(Append(s.memberList[q], p))
          /\ Range(Append(s.memberList[q], p)) = Members(s, q) \union {p}
          /\ Append(s.memberList[q], p) # << >>
      BY <2>1, Types, AppendedOnce DEF Sound, Holding, Members
    <2>3. /\ t \in Grouping
          /\ t.leader = s.leader
          /\ t.memberList = [s.memberList EXCEPT ![q] = Append(s.memberList[q], p)]
          /\ t.inviteList = [s.inviteList EXCEPT ![q] = s.inviteList[q] \ {p}]
          /\ t.party = [s.party EXCEPT ![p] = q]
          /\ t.invitePartyList = [s.invitePartyList EXCEPT ![p] = s.invitePartyList[p] \ {q}]
      BY <1>2, <2>2, Types DEF JoinParty, Sound, Grouping
    <2> HIDE DEF t
    <2>4. /\ Members(t, q) = Members(s, q) \union {p} /\ t.memberList[q] # << >>
          /\ IsInjective(t.memberList[q])
          /\ \A r \in Parties \ {q} : /\ Members(t, r) = Members(s, r)
                                      /\ t.memberList[r] = s.memberList[r]
                                      /\ t.inviteList[r] = s.inviteList[r]
      BY <2>2, <2>3, Types DEF Members, Sound
    <2>5. Holding(t)
      BY <2>1, <2>3, <2>4, Types, PartyAssumption DEF Holding, Sound
    <2>6. Agreeing(t)
      BY <1>2, <2>3, Types DEF Agreeing, Sound
    <2> QED
      BY <1>2, <2>3, <2>4, <2>5, <2>6, Types DEF Changed, Sound, Empty, t
  <1> QED
    BY <1>1, <1>2

\* What removing an invitation may change
InviteRemoved(s, t, q, p) ==
  /\ Changed(s, t, q, {})
  /\ t.leader[q] \in {s.leader[q], NoPlayer}
  /\ s.memberList[q] # << >> => t.leader[q] = s.leader[q]
  /\ t.memberList[q] = s.memberList[q]
  /\ t.inviteList[q] = IF s.leader[q] = NoPlayer THEN s.inviteList[q] ELSE s.inviteList[q] \ {p}
  /\ \A m \in Players : t.party[m] \in {s.party[m], NoParty}
  /\ \A m \in Players \ {p} : t.invitePartyList[m] = s.invitePartyList[m]

LEMMA RemoveInviteChanges ==
  ASSUME NEW s, Sound(s), Filled(s), NEW q \in Parties, NEW p \in Players
  PROVE  InviteRemoved(s, RemoveInvite(s, q, p), q, p)
  <1> DEFINE t == RemoveInvite(s, q, p)
  <1>1. CASE s.leader[q] = NoPlayer \/ p \notin s.inviteList[q]
    <2>1. t = s
      BY <1>1 DEF RemoveInvite
    <2>2. s.inviteList[q] = IF s.leader[q] = NoPlayer THEN s.inviteList[q] ELSE s.inviteList[q] \ {p}
      BY <1>1
    <2> QED
      BY <2>1, <2>2, SameParty DEF InviteRemoved
  <1>2. CASE s.leader[q] # NoPlayer /\ p \in s.inviteList[q]
    <2> DEFINE removed == [s EXCEPT !.inviteList[q] = @ \ {p}, !.invitePartyList[p] = @ \ {q}]
    <2>1. t = IF Empty(removed, q) THEN Disband(removed, q) ELSE removed
      BY <1>2 DEF RemoveInvite
    <2>2. /\ removed \in Grouping
          /\ removed.leader = s.leader /\ removed.memberList = s.memberList /\ removed.party = s.party
          /\ removed.inviteList = [s.inviteList EXCEPT ![q] = s.inviteList[q] \ {p}]
          /\ removed.invitePartyList = [s.invitePartyList EXCEPT ![p] = s.invitePartyList[p] \ {q}]
      BY Types DEF Sound, Grouping
    <2> HIDE DEF removed, t
    <2>3. /\ removed.inviteList[q] = s.inviteList[q] \ {p}
          /\ \A r \in Parties \ {q} : removed.inviteList[r] = s.inviteList[r]
          /\ \A m \in Players \ {p} : removed.invitePartyList[m] = s.invitePartyList[m]
          /\ removed.invitePartyList[p] = s.invitePartyList[p] \ {q}
      BY <2>2, Types DEF Sound
    <2>4. Sound(removed)
      <3>1. Holding(removed)
        BY <2>2 DEF Holding, Sound, Members
      <3>2. Agreeing(removed)
        BY <2>2, <2>3 DEF Agreeing, Sound
      <3> QED
        BY <2>2, <3>1, <3>2 DEF Sound
    <2>5. CASE Empty(removed, q)
      <3>1. /\ t = Disband(removed, q) /\ removed.leader[q] # NoPlayer
            /\ s.memberList[q] = << >> /\ s.inviteList[q] \ {p} = {}
        BY <1>2, <2>1, <2>2, <2>3, <2>5 DEF Empty
      <3>2. /\ Sound(t)
            /\ t.leader[q] = NoPlayer /\ t.memberList[q] = << >> /\ t.inviteList[q] = {}
            /\ \A r \in Parties \ {q} : /\ t.leader[r] = s.leader[r]
                                        /\ t.memberList[r] = s.memberList[r]
                                        /\ t.inviteList[r] = s.inviteList[r]
            /\ \A m \in Players : t.party[m] = IF s.party[m] = q THEN NoParty ELSE s.party[m]
            /\ \A m \in Players : t.invitePartyList[m] = removed.invitePartyList[m] \ {q}
        <4>1. /\ Sound(t)
              /\ t.leader[q] = NoPlayer /\ t.memberList[q] = << >>
              /\ \A r \in Parties \ {q} : /\ t.leader[r] = removed.leader[r]
                                          /\ t.memberList[r] = removed.memberList[r]
                                          /\ t.inviteList[r] = removed.inviteList[r]
              /\ \A m \in Players : t.party[m] = IF removed.party[m] = q THEN NoParty ELSE removed.party[m]
              /\ t.inviteList[q] = {}
              /\ \A m \in Players : t.invitePartyList[m] = removed.invitePartyList[m] \ {q}
          BY <3>1, <2>4, DisbandChanges
        <4> QED
          BY <4>1, <2>2, <2>3
      <3>3. \A m \in Players \ {p} : q \notin s.invitePartyList[m]
        BY <3>1 DEF Sound, Agreeing
      <3>4. Len(<< >>) = 0
        OBVIOUS
      <3>5. Changed(s, t, q, {})
        BY <3>1, <3>2, <3>4 DEF Changed
      <3>6. t.inviteList[q] = s.inviteList[q] \ {p}
        BY <3>1, <3>2
      <3>7. \A m \in Players : t.party[m] \in {s.party[m], NoParty}
        BY <3>2
      <3>8. \A m \in Players \ {p} : t.invitePartyList[m] = s.invitePartyList[m]
        <4> TAKE m \in Players \ {p}
        <4>1. t.invitePartyList[m] = s.invitePartyList[m] \ {q}
          BY <3>2, <2>3
        <4>2. q \notin s.invitePartyList[m]
          BY <3>3
        <4> QED
          BY <4>1, <4>2
      <3> QED
        BY <1>2, <3>1, <3>2, <3>5, <3>6, <3>7, <3>8 DEF t, InviteRemoved
    <2>6. CASE ~ Empty(removed, q)
      <3>1. t = removed
        BY <2>1, <2>6
      <3>2. Len(<< >>) = 0
        OBVIOUS
      <3>3. Changed(s, t, q, {})
        BY <3>1, <3>2, <1>2, <2>2, <2>3, <2>4, <2>6 DEF Changed
      <3> QED
        BY <3>1, <3>3, <1>2, <2>2, <2>3 DEF t, InviteRemoved
    <2> QED
      BY <2>5, <2>6
  <1> QED
    BY <1>1, <1>2

LEMMA PassPartyLeadershipChanges ==
  ASSUME NEW s, Sound(s), Filled(s), NEW q \in Parties, NEW p \in Players, s.party[p] = q
  PROVE  Changed(s, PassPartyLeadership(s, q, p), q, {})
  <1>1. CASE s.leader[q] \in {NoPlayer, p}
    BY <1>1, SameParty DEF PassPartyLeadership
  <1>2. CASE s.leader[q] \notin {NoPlayer, p}
    <2> DEFINE t == PassPartyLeadership(s, q, p)
               list == <<s.leader[q]>> \o RemoveFirst(s.memberList[q], p)
    <2>1. p \in Members(s, q) /\ s.leader[q] \in Players /\ s.leader[q] \notin Members(s, q)
      BY <1>2, Types DEF Sound, Holding
    <2>2. /\ RemoveFirst(s.memberList[q], p) \in Seq(Players)
          /\ IsInjective(RemoveFirst(s.memberList[q], p))
          /\ Range(RemoveFirst(s.memberList[q], p)) = Members(s, q) \ {p}
      BY Types, RemovedOnce DEF Sound, Holding, Members
    <2>3. /\ list \in Seq(Players) /\ IsInjective(list) /\ list # << >>
          /\ Range(list) = (Members(s, q) \ {p}) \union {s.leader[q]}
      BY <2>1, <2>2, PrependedOnce
    <2>4. /\ t \in Grouping
          /\ t.leader = [s.leader EXCEPT ![q] = p]
          /\ t.memberList = [s.memberList EXCEPT ![q] = list]
          /\ t.inviteList = s.inviteList /\ t.party = s.party /\ t.invitePartyList = s.invitePartyList
      BY <1>2, <2>3, Types DEF PassPartyLeadership, Sound, Grouping
    <2> HIDE DEF t, list
    <2>5. /\ Members(t, q) = (Members(s, q) \ {p}) \union {s.leader[q]} /\ t.memberList[q] # << >>
          /\ IsInjective(t.memberList[q]) /\ t.leader[q] = p
          /\ \A r \in Parties \ {q} : /\ Members(t, r) = Members(s, r)
                                      /\ t.memberList[r] = s.memberList[r]
                                      /\ t.leader[r] = s.leader[r]
      BY <2>3, <2>4, Types DEF Members, Sound
    <2>6. Holding(t)
      BY <1>2, <2>1, <2>4, <2>5, Types, PartyAssumption DEF Holding, Sound
    <2>7. Agreeing(t)
      BY <1>2, <2>4, <2>5 DEF Agreeing, Sound
    <2> QED
      BY <2>4, <2>5, <2>6, <2>7, PartyAssumption DEF Changed, Sound, Empty, t
  <1> QED
    BY <1>1, <1>2

\* A member leaves, and the party ends if that leaves nobody but its leader.
Without(w, q, p) == [w EXCEPT !.memberList[q] = RemoveFirst(@, p), !.party[p] = NoParty]
Settled(w, q) == IF Empty(w, q) THEN Disband(w, q) ELSE w

MemberLeft(w, t, q, p) ==
  /\ Sound(t)
  /\ \A r \in Parties \ {q} : /\ t.leader[r] = w.leader[r]
                              /\ t.memberList[r] = w.memberList[r]
                              /\ t.inviteList[r] = w.inviteList[r]
  /\ t.leader[q] # NoPlayer => ~ Empty(t, q)
  /\ t.leader[q] = NoPlayer => t.memberList[q] = << >>
  /\ Members(w, q) \ {p} # {} => t.leader[q] # NoPlayer /\ t.memberList[q] # << >>
  /\ \A m \in Players : t.party[m] \in {w.party[m], NoParty}
  /\ t.party[p] = NoParty

LEMMA MemberLeaves ==
  ASSUME NEW w, Sound(w), NEW q \in Parties, NEW p \in Players,
         w.party[p] = q, w.leader[q] \notin {p, NoPlayer}
  PROVE  MemberLeft(w, Settled(Without(w, q, p), q), q, p)
  <1> DEFINE list == RemoveFirst(w.memberList[q], p)
             left == Without(w, q, p)
             t == Settled(left, q)
  <1>1. p \in Members(w, q) /\ w.leader[q] \in Players /\ w.leader[q] # p
    BY Types DEF Sound, Holding
  <1>2. list \in Seq(Players) /\ IsInjective(list) /\ Range(list) = Members(w, q) \ {p}
    BY Types, RemovedOnce DEF Sound, Holding, Members
  <1>3. /\ left \in Grouping
        /\ left.leader = w.leader
        /\ left.memberList = [w.memberList EXCEPT ![q] = list]
        /\ left.inviteList = w.inviteList
        /\ left.party = [w.party EXCEPT ![p] = NoParty]
        /\ left.invitePartyList = w.invitePartyList
    <2>1. left = [w EXCEPT !.memberList[q] = list, !.party[p] = NoParty]
      BY DEF Without
    <2> HIDE DEF left, list
    <2> QED
      BY <1>2, <2>1, Types DEF Sound, Grouping
  <1> HIDE DEF left, list
  <1>4. /\ Members(left, q) = Members(w, q) \ {p} /\ left.memberList[q] = list
        /\ left.party[p] = NoParty /\ \A m \in Players \ {p} : left.party[m] = w.party[m]
        /\ \A r \in Parties \ {q} : Members(left, r) = Members(w, r) /\ left.memberList[r] = w.memberList[r]
    BY <1>2, <1>3, Types DEF Members, Sound
  <1>5. Sound(left)
    <2>1. Holding(left)
      BY <1>1, <1>2, <1>3, <1>4, PartyAssumption DEF Holding, Sound
    <2>2. Agreeing(left)
      BY <1>3 DEF Agreeing, Sound
    <2> QED
      BY <1>3, <2>1, <2>2 DEF Sound
  <1>6. left.leader[q] # NoPlayer /\ (Members(left, q) # {} => left.memberList[q] # << >>)
    BY <1>1, <1>3, NoOne, PartyAssumption
  <1>7. CASE Empty(left, q)
    <2>1. t = Disband(left, q) /\ Members(w, q) \ {p} = {}
      BY <1>4, <1>6, <1>7 DEF Empty, Settled
    <2> HIDE DEF t
    <2>2. /\ Sound(t)
          /\ t.leader[q] = NoPlayer /\ t.memberList[q] = << >>
          /\ \A r \in Parties \ {q} : /\ t.leader[r] = left.leader[r]
                                      /\ t.memberList[r] = left.memberList[r]
                                      /\ t.inviteList[r] = left.inviteList[r]
          /\ \A m \in Players : t.party[m] = IF left.party[m] = q THEN NoParty ELSE left.party[m]
      BY <1>5, <1>6, <2>1, DisbandChanges
    <2>3. t.party[p] = NoParty /\ \A m \in Players : t.party[m] \in {w.party[m], NoParty}
      BY <1>4, <2>2
    <2>4. MemberLeft(w, t, q, p)
      BY <1>3, <1>4, <2>1, <2>2, <2>3 DEF MemberLeft
    <2> QED
      BY <2>4 DEF t, left
  <1>8. CASE ~ Empty(left, q)
    <2>1. t = left
      BY <1>8 DEF Settled
    <2> HIDE DEF t
    <2>2. MemberLeft(w, t, q, p)
      BY <1>3, <1>4, <1>5, <1>6, <1>8, <2>1 DEF MemberLeft
    <2> QED
      BY <2>2 DEF t, left
  <1> QED
    BY <1>7, <1>8

\* leaveParty, as the player or its leader sees it.
LEMMA LeavePartyChanges ==
  ASSUME NEW s, Sound(s), Filled(s), NEW p \in Players, s.party[p] # NoParty
  PROVE  LET t == LeaveParty(s, s.party[p], p) IN
         /\ Changed(s, t, s.party[p], {})
         /\ Led(s) => t.party[p] = NoParty
  <1> DEFINE q == s.party[p]
             t == LeaveParty(s, q, p)
             list == s.memberList[q]
             missingLeader == s.leader[q] = p /\ (list = << >> \/ (Len(list) = 1 /\ s.inviteList[q] = {}))
             passed == IF s.leader[q] = p /\ ~ missingLeader THEN PassPartyLeadership(s, q, list[1]) ELSE s
             left == [passed EXCEPT !.memberList[q] = RemoveFirst(@, p), !.party[p] = NoParty]
  <1>1. q \in Parties /\ list \in Seq(Players) /\ IsInjective(list) /\ s.leader[q] \in Players \union {NoPlayer}
    BY Types DEF Sound, Holding
  <1>2. CASE s.leader[q] = NoPlayer
    <2>1. t = s
      BY <1>2 DEF LeaveParty
    <2> QED
      BY <1>1, <1>2, <2>1, SameParty DEF Led
  <1>3. ASSUME s.leader[q] # NoPlayer
        PROVE  t = IF missingLeader \/ Empty(left, q) THEN Disband(left, q) ELSE left
    BY <1>3 DEF LeaveParty
  <1>4. Len(<< >>) = 0 /\ Len(list) \in Nat /\ (Len(list) = 0 <=> list = << >>)
    BY <1>1, EmptySeq
  \* The party ends with its leader.
  <1>5. CASE missingLeader
    <2>1. passed = s /\ s.leader[q] = p /\ s.leader[q] # NoPlayer
      BY <1>5, PartyAssumption
    <2>2. p \notin Members(s, q)
      BY <1>1, <2>1 DEF Sound, Holding
    <2> DEFINE kept == RemoveFirst(list, p)
    <2>3. kept = list
      BY <1>1, <2>2, RangeEquality DEF RemoveFirst, Members
    <2>4. /\ left \in Grouping
          /\ left.leader = s.leader /\ left.memberList = s.memberList /\ left.inviteList = s.inviteList
          /\ left.party = [s.party EXCEPT ![p] = NoParty] /\ left.invitePartyList = s.invitePartyList
      <3>1. left = [s EXCEPT !.memberList[q] = kept, !.party[p] = NoParty]
        BY <2>1
      <3> HIDE DEF left, kept, passed
      <3> QED
        BY <1>1, <2>3, <3>1, Types DEF Sound, Grouping
    <2>5. t = Disband(left, q)
      BY <1>3, <1>5, <2>1
    <2> DEFINE u == Disband(s, q)
    <2> HIDE DEF left, kept, passed, t, q, list, u
    <2>9. ~ (Len(list) >= 2)
      BY <1>4, <1>5
    <2> HIDE DEF missingLeader
    <2> USE DEF list, u
    <2>6. /\ left.party[p] = NoParty /\ \A m \in Players \ {p} : left.party[m] = s.party[m]
          /\ Members(left, q) = Members(s, q) /\ left.leader[q] = p
      BY <2>1, <2>4, Types DEF Members, Sound
    <2>7. t = u
      <3>1. /\ t \in Grouping
            /\ t.leader = [left.leader EXCEPT ![q] = NoPlayer]
            /\ t.memberList = [left.memberList EXCEPT ![q] = << >>]
            /\ t.inviteList = [left.inviteList EXCEPT ![q] = {}]
            /\ t.party = [m \in Players |-> IF m = left.leader[q] \/ m \in Members(left, q)
                                             THEN NoParty ELSE left.party[m]]
            /\ t.invitePartyList = [m \in Players |-> IF m \in left.inviteList[q]
                                                       THEN left.invitePartyList[m] \ {q}
                                                       ELSE left.invitePartyList[m]]
        <4>1. left \in Grouping /\ left.leader[q] # NoPlayer /\ q \in Parties
          BY <1>1, <2>1, <2>4
        <4> QED
          BY <4>1, <2>5, DisbandFields
      <3>2. /\ u \in Grouping
            /\ u.leader = [s.leader EXCEPT ![q] = NoPlayer]
            /\ u.memberList = [s.memberList EXCEPT ![q] = << >>]
            /\ u.inviteList = [s.inviteList EXCEPT ![q] = {}]
            /\ u.party = [m \in Players |-> IF m = s.leader[q] \/ m \in Members(s, q)
                                             THEN NoParty ELSE s.party[m]]
            /\ u.invitePartyList = [m \in Players |-> IF m \in s.inviteList[q]
                                                       THEN s.invitePartyList[m] \ {q}
                                                       ELSE s.invitePartyList[m]]
        BY <1>1, <2>1, DisbandFields DEF Sound
      <3> HIDE DEF u
      <3>3. t.party = u.party
        BY <2>1, <2>6, <3>1, <3>2
      <3>4. /\ t.leader = u.leader /\ t.memberList = u.memberList /\ t.inviteList = u.inviteList
            /\ t.invitePartyList = u.invitePartyList
        BY <2>4, <3>1, <3>2
      <3>5. /\ t = [leader |-> t.leader, memberList |-> t.memberList, inviteList |-> t.inviteList,
                    party |-> t.party, invitePartyList |-> t.invitePartyList]
            /\ u = [leader |-> u.leader, memberList |-> u.memberList, inviteList |-> u.inviteList,
                    party |-> u.party, invitePartyList |-> u.invitePartyList]
        BY <3>1, <3>2, Types
      <3> HIDE DEF u
      <3> QED
        BY <3>3, <3>4, <3>5
    <2>8. /\ Sound(u) /\ u.leader[q] = NoPlayer /\ u.memberList[q] = << >>
          /\ \A r \in Parties \ {q} : /\ u.leader[r] = s.leader[r]
                                      /\ u.memberList[r] = s.memberList[r]
                                      /\ u.inviteList[r] = s.inviteList[r]
          /\ \A m \in Players : u.party[m] = IF s.party[m] = q THEN NoParty ELSE s.party[m]
      BY <1>1, <2>1, DisbandChanges
    <2>10. s.party[p] = q
      BY DEF q
    <2> QED
      BY <2>7, <2>8, <2>9, <2>10 DEF Changed, t
  \* A leader that leaves is a member of the one it passes the leadership to.
  <1>6. CASE s.leader[q] = p /\ ~ missingLeader
    <2> DEFINE n == list[1]
               w == PassPartyLeadership(s, q, n)
    <2>1. Len(list) # 0 /\ 1 \in DOMAIN list /\ n \in Members(s, q) /\ n \in Players
      BY <1>1, <1>4, <1>6 DEF Members, Range
    <2>2. s.party[n] = q /\ n # p
      BY <1>1, <1>6, <2>1 DEF Sound, Holding
    <2>3. Changed(s, w, q, {})
      <3> HIDE DEF q, list, n
      <3> QED
        BY <1>1, <2>1, <2>2, PassPartyLeadershipChanges
    <2>4. w.leader = [s.leader EXCEPT ![q] = n] /\ w.party = s.party
      BY <1>6, <2>2, PartyAssumption DEF PassPartyLeadership, Sound, Grouping
    <2>5. passed = w /\ t = Settled(left, q)
      BY <1>3, <1>6, PartyAssumption DEF Settled
    <2>6. Len(list) >= 2 => Members(w, q) \ {p} # {}
      <3> SUFFICES ASSUME Len(list) >= 2 PROVE Members(w, q) \ {p} # {}
        OBVIOUS
      <3> HIDE DEF w, n, q
      <3>1. 1 \in DOMAIN list /\ 2 \in DOMAIN list
        BY <1>1, <1>4
      <3>2. list[2] # n /\ list[2] \in Members(s, q) /\ list[2] \in Players
        BY <3>1, <1>1 DEF n, IsInjective, Members, Range
      <3>3. s.party[list[2]] = q /\ list[2] # p
        BY <3>2, <1>1, <1>6 DEF Sound, Holding
      <3>4. w.party[list[2]] = q /\ w.leader[q] = n
        BY <3>3, <2>4, <1>1, Types DEF Sound
      <3>5. list[2] \in Members(w, q)
        BY <3>2, <3>4, <2>3, <1>1 DEF Changed, Sound, Holding
      <3> QED
        BY <3>3, <3>5
    <2>7. w.party[p] = q /\ w.leader[q] = n /\ n \notin {p, NoPlayer} /\ Sound(w)
      <3>1. Sound(w) /\ s.party[p] = q /\ n # NoPlayer
        BY <2>1, <2>3, PartyAssumption DEF Changed
      <3> HIDE DEF q, w, n
      <3> QED
        BY <1>1, <2>2, <2>4, <3>1, Types DEF Sound
    <2>8. t = Settled(Without(w, q, p), q)
      BY <2>5 DEF Without
    <2> HIDE DEF left, w, t, passed, n, missingLeader
    <2>9. MemberLeft(w, t, q, p)
      <3> HIDE DEF q
      <3> QED
        BY <1>1, <2>7, <2>8, MemberLeaves
    <2>10. Changed(s, t, q, {})
      BY <2>3, <2>4, <2>6, <2>9 DEF Changed, MemberLeft
    <2> QED
      BY <2>9, <2>10 DEF t, MemberLeft
  <1>7. CASE s.leader[q] \notin {p, NoPlayer}
    <2>1. passed = s /\ ~ missingLeader /\ t = Settled(left, q)
      BY <1>3, <1>7 DEF Settled
    <2>2. t = Settled(Without(s, q, p), q) /\ s.party[p] = q
      BY <2>1 DEF Without
    <2> HIDE DEF left, t, passed, missingLeader
    <2>3. MemberLeft(s, t, q, p)
      <3> HIDE DEF q
      <3> QED
        BY <1>1, <1>7, <2>2, MemberLeaves
    <2>4. Len(list) >= 2 => Members(s, q) \ {p} # {}
      <3> SUFFICES ASSUME Len(list) >= 2 PROVE Members(s, q) \ {p} # {}
        OBVIOUS
      <3> HIDE DEF q
      <3>1. 1 \in DOMAIN list /\ 2 \in DOMAIN list /\ list[1] # list[2]
        BY <1>1, <1>4 DEF IsInjective
      <3> QED
        <4>1. list[1] \in Members(s, q) /\ list[2] \in Members(s, q)
          BY <3>1 DEF Members, Range
        <4> QED
          BY <3>1, <4>1
    <2>5. Changed(s, t, q, {})
      BY <2>3, <2>4 DEF Changed, MemberLeft
    <2> QED
      BY <2>3, <2>5 DEF t, MemberLeft
  <1> QED
    BY <1>2, <1>5, <1>6, <1>7

\* What an invitation changes
InviteAdded(s, t, q, p) ==
  /\ t \in Grouping
  /\ t.leader = s.leader /\ t.memberList = s.memberList /\ t.party = s.party
  /\ t.inviteList = [s.inviteList EXCEPT ![q] = s.inviteList[q] \union {p}]
  /\ t.invitePartyList = [s.invitePartyList EXCEPT ![p] = s.invitePartyList[p] \union {q}]

LEMMA InvitePlayerFields ==
  ASSUME NEW s \in Grouping, NEW q \in Parties, NEW p \in Players,
         s.leader[q] # NoPlayer, p \notin s.inviteList[q]
  PROVE  InviteAdded(s, InvitePlayer(s, q, p), q, p)
  <1> DEFINE t == InvitePlayer(s, q, p)
             invites == [s.inviteList EXCEPT ![q] = s.inviteList[q] \union {p}]
             inviting == [s.invitePartyList EXCEPT ![p] = s.invitePartyList[p] \union {q}]
  <1>1. invites \in [Parties -> SUBSET Players] /\ inviting \in [Players -> SUBSET Parties]
    BY Types
  <1>2. t = [s EXCEPT !.inviteList = invites, !.invitePartyList = inviting]
    BY DEF InvitePlayer
  <1> HIDE DEF t, invites, inviting
  <1>3. /\ t \in Grouping
        /\ t.leader = s.leader /\ t.memberList = s.memberList /\ t.party = s.party
        /\ t.inviteList = invites /\ t.invitePartyList = inviting
    BY <1>1, <1>2 DEF Grouping
  <1> QED
    BY <1>3 DEF t, invites, inviting, InviteAdded

LEMMA InvitePlayerChanges ==
  ASSUME NEW s, Sound(s), Filled(s), NEW q \in Parties, NEW p \in Players
  PROVE  Changed(s, InvitePlayer(s, q, p), q, {})
  <1>1. CASE s.leader[q] = NoPlayer \/ p \in s.inviteList[q]
    BY <1>1, SameParty DEF InvitePlayer
  <1>2. CASE s.leader[q] # NoPlayer /\ p \notin s.inviteList[q]
    <2> DEFINE t == InvitePlayer(s, q, p)
    <2>1. /\ t \in Grouping
          /\ t.leader = s.leader /\ t.memberList = s.memberList /\ t.party = s.party
          /\ t.inviteList = [s.inviteList EXCEPT ![q] = s.inviteList[q] \union {p}]
          /\ t.invitePartyList = [s.invitePartyList EXCEPT ![p] = s.invitePartyList[p] \union {q}]
      BY <1>2, InvitePlayerFields DEF Sound, InviteAdded
    <2> HIDE DEF t
    <2>2. /\ t.inviteList[q] = s.inviteList[q] \union {p}
          /\ \A r \in Parties \ {q} : t.inviteList[r] = s.inviteList[r]
      BY <2>1, Types DEF Sound
    <2>3. Holding(t)
      BY <2>1 DEF Holding, Sound, Members
    <2>4. Agreeing(t)
      BY <1>2, <2>1, <2>2, Types DEF Agreeing, Sound
    <2>5. Len(<< >>) = 0
      OBVIOUS
    <2>6. Sound(t) /\ ~ Empty(t, q)
      BY <2>1, <2>2, <2>3, <2>4 DEF Sound, Empty
    <2> QED
      BY <1>2, <2>1, <2>2, <2>5, <2>6 DEF Changed, t
  <1> QED
    BY <1>1, <1>2

\* A new party, with the invitation that it is created for.
LEMMA CreateChanges ==
  ASSUME NEW s, Sound(s), Filled(s), NEW q \in Parties, UnusedParty(s, q),
         NEW p \in Players, s.party[p] = NoParty, NEW i \in Players
  PROVE  Changed(s, InvitePlayer(Create(s, q, p), q, i), q, {p})
  <1> DEFINE t == InvitePlayer(Create(s, q, p), q, i)
             u == Create(s, q, p)
  <1>1. << >> \in Seq(Players)
    BY EmptySeq
  <1>2. /\ u \in Grouping
        /\ u.leader = [s.leader EXCEPT ![q] = p]
        /\ u.memberList = [s.memberList EXCEPT ![q] = << >>]
        /\ u.inviteList = [s.inviteList EXCEPT ![q] = {}]
        /\ u.party = [s.party EXCEPT ![p] = q]
        /\ u.invitePartyList = s.invitePartyList
    BY <1>1, Types DEF Create, Sound, Grouping
  <1>3. t = InvitePlayer(u, q, i)
    OBVIOUS
  <1> HIDE DEF u, t
  <1>4. u.leader[q] # NoPlayer /\ u.inviteList[q] = {} /\ u.leader[q] = p
    BY <1>2, Types, PartyAssumption DEF Sound
  <1>5. /\ t \in Grouping
        /\ t.leader = u.leader /\ t.memberList = u.memberList /\ t.party = u.party
        /\ t.inviteList = [u.inviteList EXCEPT ![q] = u.inviteList[q] \union {i}]
        /\ t.invitePartyList = [u.invitePartyList EXCEPT ![i] = u.invitePartyList[i] \union {q}]
    <2>1. i \notin u.inviteList[q]
      BY <1>4
    <2>2. InviteAdded(u, t, q, i)
      BY <1>2, <1>3, <1>4, <2>1, InvitePlayerFields
    <2> QED
      BY <2>2 DEF InviteAdded
  <1>6. /\ t.leader[q] = p /\ t.memberList[q] = << >> /\ t.inviteList[q] = {i}
        /\ \A r \in Parties \ {q} : /\ t.leader[r] = s.leader[r]
                                    /\ t.memberList[r] = s.memberList[r]
                                    /\ t.inviteList[r] = s.inviteList[r]
    BY <1>2, <1>4, <1>5, Types DEF Sound
  <1>7. /\ t.party[p] = q /\ \A m \in Players \ {p} : t.party[m] = s.party[m]
        /\ t.invitePartyList[i] = s.invitePartyList[i] \union {q}
        /\ \A m \in Players \ {i} : t.invitePartyList[m] = s.invitePartyList[m]
    BY <1>2, <1>5, Types DEF Sound
  <1>8. s.leader[q] = NoPlayer /\ \A m \in Players : s.party[m] # q /\ q \notin s.invitePartyList[m]
    BY Types DEF UnusedParty, Sound, Holding
  <1>9. Holding(t)
    <2>1. Members(t, q) = {} /\ IsInjective(t.memberList[q])
      BY <1>6, NoOne, EmptyList
    <2>2. \A r \in Parties \ {q} : Members(t, r) = Members(s, r)
      BY <1>6 DEF Members
    <2>3. \A r \in Parties : p \notin Members(s, r) \union {s.leader[r]}
      BY PartyAssumption DEF Sound, Holding
    <2> QED
      BY <1>6, <1>7, <1>8, <2>1, <2>2, <2>3 DEF Holding, Sound
  <1>10. Agreeing(t)
    BY <1>6, <1>7, <1>8 DEF Agreeing, Sound
  <1>11. ~ Empty(t, q)
    BY <1>6 DEF Empty
  <1> QED
    BY <1>5, <1>6, <1>7, <1>8, <1>9, <1>10, <1>11, PartyAssumption DEF Changed, Sound, t

\* clearPartyInvitations, party by party
LEMMA ClearPartyInvitationsChanges ==
  ASSUME NEW s, Sound(s), Filled(s), NEW p \in Players
  PROVE  LET t == ClearPartyInvitations(s, p) IN
         /\ Sound(t) /\ Filled(t)
         /\ \A q \in Parties : /\ t.memberList[q] = s.memberList[q]
                               /\ s.memberList[q] # << >> => t.leader[q] = s.leader[q]
         /\ \A m \in Players : t.party[m] \in {s.party[m], NoParty}
         /\ Led(s) => Led(t)
  <1> DEFINE after == [q \in Parties |-> IF q \in s.invitePartyList[p] THEN RemoveInvite(s, q, p) ELSE s]
             t == ClearPartyInvitations(s, p)
  <1>1. ASSUME NEW q \in Parties
        PROVE  /\ Changed(s, after[q], q, {})
               /\ after[q].leader[q] \in {s.leader[q], NoPlayer}
               /\ s.memberList[q] # << >> => after[q].leader[q] = s.leader[q]
               /\ after[q].memberList[q] = s.memberList[q]
               /\ \A m \in Players : after[q].party[m] \in {s.party[m], NoParty}
               /\ q \in s.invitePartyList[p] /\ s.leader[q] # NoPlayer =>
                    after[q].inviteList[q] = s.inviteList[q] \ {p}
               /\ q \notin s.invitePartyList[p] \/ s.leader[q] = NoPlayer =>
                    after[q].inviteList[q] = s.inviteList[q]
    <2>1. CASE q \in s.invitePartyList[p]
      <3>1. after[q] = RemoveInvite(s, q, p)
        BY <2>1
      <3> HIDE DEF after
      <3>2. InviteRemoved(s, after[q], q, p)
        BY <3>1, RemoveInviteChanges
      <3> QED
        BY <2>1, <3>2 DEF InviteRemoved
    <2>2. CASE q \notin s.invitePartyList[p]
      <3>1. after[q] = s
        BY <2>2
      <3> HIDE DEF after
      <3> QED
        BY <2>2, <3>1, SameParty
    <2> QED
      BY <2>1, <2>2
  <1>2. /\ t.leader = [q \in Parties |-> after[q].leader[q]]
        /\ t.memberList = [q \in Parties |-> after[q].memberList[q]]
        /\ t.inviteList = [q \in Parties |-> after[q].inviteList[q]]
        /\ t.party = [m \in Players |-> IF \E q \in Parties : after[q].party[m] = NoParty
                                        THEN NoParty ELSE s.party[m]]
        /\ t.invitePartyList = [s.invitePartyList EXCEPT ![p] = {}]
        /\ t = [leader |-> t.leader, memberList |-> t.memberList, inviteList |-> t.inviteList,
                party |-> t.party, invitePartyList |-> t.invitePartyList]
    BY DEF ClearPartyInvitations
  <1> HIDE DEF after, t
  <1>3. \A q \in Parties : Sound(after[q]) /\ after[q] \in Grouping
    BY <1>1 DEF Changed, Sound
  <1>4. t \in Grouping
    <2>1. /\ t.leader \in [Parties -> Players \union {NoPlayer}]
          /\ t.memberList \in [Parties -> Seq(Players)]
          /\ t.inviteList \in [Parties -> SUBSET Players]
      BY <1>2, <1>3, Types
    <2>2. /\ t.party \in [Players -> Parties \union {NoParty}]
          /\ t.invitePartyList \in [Players -> SUBSET Parties]
      BY <1>2, Types DEF Sound
    <2> QED
      BY <1>2, <2>1, <2>2 DEF Grouping
  <1>5. \A q \in Parties : /\ t.leader[q] = after[q].leader[q]
                           /\ t.memberList[q] = s.memberList[q] /\ t.memberList[q] = after[q].memberList[q]
                           /\ t.inviteList[q] = after[q].inviteList[q]
                           /\ Members(t, q) = Members(s, q) /\ Members(after[q], q) = Members(s, q)
    BY <1>1, <1>2 DEF Members
  <1>6. \A m \in Players : t.party[m] \in {s.party[m], NoParty}
    BY <1>2
  <1>7. \A r \in Parties, m \in Players : t.party[m] = r <=> after[r].party[m] = r
    <2> TAKE r \in Parties, m \in Players
    <2>1. r # NoParty
      BY PartyAssumption
    <2>2. ASSUME t.party[m] = r PROVE after[r].party[m] = r
      BY <1>1, <1>2, <2>1, <2>2
    <2>3. ASSUME after[r].party[m] = r PROVE t.party[m] = r
      <3>1. s.party[m] = r
        BY <1>1, <2>1, <2>3
      <3>2. ASSUME NEW q \in Parties PROVE after[q].party[m] # NoParty
        <4>1. CASE q = r
          BY <4>1, <2>1, <2>3
        <4>2. CASE q # r
          <5>1. m \in Members(s, r) \union {s.leader[r]}
            BY <3>1 DEF Sound, Holding
          <5>2. m \in Members(after[q], r) \union {after[q].leader[r]}
            BY <4>2, <5>1, <1>1 DEF Changed, Members
          <5> QED
            BY <5>2, <1>3, <2>1 DEF Sound, Holding
        <4> QED
          BY <4>1, <4>2
      <3> QED
        BY <1>2, <3>1, <3>2
    <2> QED
      BY <2>2, <2>3
  <1>8. Holding(t)
    BY <1>3, <1>5, <1>7 DEF Holding, Sound
  <1>9. Agreeing(t)
    <2> SUFFICES ASSUME NEW q \in Parties, NEW m \in Players
                 PROVE  /\ q \in t.invitePartyList[m] => m \in t.inviteList[q]
                        /\ t.leader[q] # NoPlayer /\ m \in t.inviteList[q] => q \in t.invitePartyList[m]
      BY DEF Agreeing
    <2>1. /\ q \in s.invitePartyList[m] => m \in s.inviteList[q]
          /\ s.leader[q] # NoPlayer /\ m \in s.inviteList[q] => q \in s.invitePartyList[m]
      BY DEF Sound, Agreeing
    <2>2. t.invitePartyList[m] = IF m = p THEN {} ELSE s.invitePartyList[m]
      BY <1>2, Types DEF Sound
    <2>3. /\ t.leader[q] # NoPlayer => s.leader[q] # NoPlayer
          /\ t.inviteList[q] = IF q \in s.invitePartyList[p] /\ s.leader[q] # NoPlayer
                               THEN s.inviteList[q] \ {p} ELSE s.inviteList[q]
      BY <1>1, <1>5
    <2> QED
      BY <2>1, <2>2, <2>3
  <1>10. Filled(t)
    BY <1>1, <1>5 DEF Filled, Changed, Empty
  <1>11. \A q \in Parties : s.memberList[q] # << >> => t.leader[q] = s.leader[q]
    BY <1>1, <1>5
  <1>12. ASSUME Led(s) PROVE Led(t)
    <2> SUFFICES ASSUME NEW m \in Players, t.party[m] # NoParty, t.leader[t.party[m]] = NoPlayer
                 PROVE  FALSE
      BY DEF Led
    <2>1. s.party[m] = t.party[m] /\ t.party[m] \in Parties
      BY <1>4, <1>6, Types
    <2>2. m \in Members(t, t.party[m])
      BY <1>8, <2>1, PartyAssumption DEF Holding
    <2>3. s.memberList[t.party[m]] # << >>
      BY <1>5, <2>1, <2>2, NoOne
    <2> QED
      BY <1>11, <1>12, <2>1, <2>3 DEF Led
  <1> QED
    BY <1>4, <1>5, <1>6, <1>8, <1>9, <1>10, <1>11, <1>12 DEF Sound, t

LEMMA LeaveIfMemberChanges ==
  ASSUME NEW s, Sound(s), Filled(s), NEW p \in Players
  PROVE  LET t == LeaveIfMember(s, p) IN
         /\ Sound(t) /\ Filled(t) /\ Outlives(s, t)
         /\ \A m \in Players : t.party[m] # NoParty => s.party[m] # NoParty
         /\ Led(s) => Led(t) /\ t.party[p] = NoParty
  <1> DEFINE t == LeaveIfMember(s, p)
             q == s.party[p]
  <1>1. CASE q = NoParty
    <2>1. t = s
      BY <1>1 DEF LeaveIfMember
    <2>2. Len(<< >>) = 0
      OBVIOUS
    <2>3. Outlives(s, s)
      BY <2>2 DEF Outlives
    <2> QED
      BY <1>1, <2>1, <2>3
  <1>2. CASE q # NoParty
    <2>1. t = LeaveParty(s, q, p)
      BY <1>2 DEF LeaveIfMember
    <2>2. q \in Parties
      BY <1>2, Types DEF Sound
    <2>3. Changed(s, t, q, {}) /\ (Led(s) => t.party[p] = NoParty)
      BY <1>2, <2>1, LeavePartyChanges
    <2> HIDE DEF t, q
    <2>4. /\ Filled(t) /\ Outlives(s, t)
          /\ Led(s) => Led(t)
      BY <2>2, <2>3, ChangedKeeps
    <2> QED
      BY <2>3, <2>4 DEF Changed, t
  <1> QED
    BY <1>1, <1>2

-----------------------------------------------------------------------------
(* The inductive invariant: the grouping is sound, no party is empty, and  *)
(* when the dead leave their party whoever is in one is online and led.    *)

Inv ==
  /\ TypeOK
  /\ Sound(parties)
  /\ Filled(parties)
  /\ leavePartyOnDeath => /\ Led(parties)
                          /\ \A p \in Players : parties.party[p] # NoParty => p \in online

\* What PartySurvives says of a step
PartyKept ==
  \A q \in Parties :
    Len(parties.memberList[q]) >= 2 /\ parties.leader[q] \in online \union dead
      => parties.leader[q]' # NoPlayer /\ parties.memberList[q]' # << >>

LEMMA InvImplies ==
  ASSUME Inv
  PROVE  MembersHoldParty /\ InvitationsAgree /\ NoEmptyParty /\ NobodyStranded
  <1>1. MembersHoldParty /\ InvitationsAgree /\ NoEmptyParty
    BY DEF Inv, Sound, Holding, Agreeing, Filled, MembersHoldParty, InvitationsAgree, NoEmptyParty
  <1>2. ASSUME leavePartyOnDeath, NEW p \in Players, parties.party[p] # NoParty
        PROVE  p \in online /\ parties.leader[parties.party[p]] \in online
    <2> DEFINE q == parties.party[p]
               leader == parties.leader[q]
    <2>1. q \in Parties /\ leader # NoPlayer /\ leader \in Players
      BY <1>2, Types DEF Inv, Sound, Led
    <2>2. parties.party[leader] = q
      BY <2>1 DEF Inv, Sound, Holding
    <2> QED
      BY <1>2, <2>1, <2>2 DEF Inv
  <1> QED
    BY <1>1, <1>2 DEF NobodyStranded

LEMMA InitInv == Init => Inv
  <1> SUFFICES ASSUME Init PROVE Inv
    OBVIOUS
  <1>1. << >> \in Seq(Players)
    BY EmptySeq
  <1>2. /\ parties \in Grouping
        /\ \A q \in Parties : /\ parties.leader[q] = NoPlayer
                              /\ parties.memberList[q] = << >> /\ parties.inviteList[q] = {}
        /\ \A p \in Players : parties.party[p] = NoParty /\ parties.invitePartyList[p] = {}
    BY <1>1 DEF Init, Alone, Grouping
  <1>3. Holding(parties)
    BY <1>2, NoOne, EmptyList, PartyAssumption DEF Holding
  <1>4. Agreeing(parties) /\ Filled(parties) /\ Led(parties)
    BY <1>2 DEF Agreeing, Filled, Led
  <1> QED
    BY <1>2, <1>3, <1>4 DEF Init, Inv, Sound, TypeOK

\* A handler changes one party: whoever joins it is online.
LEMMA HandlerStep ==
  ASSUME Inv, NEW q \in Parties, NEW new \in SUBSET online,
         Changed(parties, parties', q, new),
         UNCHANGED <<leavePartyOnDeath, online, dead>>
  PROVE  Inv' /\ PartyKept
  <1>1. Sound(parties) /\ Filled(parties) /\ Sound(parties')
    BY DEF Inv, Changed
  <1>2. Filled(parties') /\ (Led(parties) => Led(parties')) /\ Outlives(parties, parties')
    BY <1>1, ChangedKeeps
  <1>3. PartyKept
    BY <1>2, PartyAssumption DEF PartyKept, Outlives, Inv, TypeOK
  <1>4. TypeOK'
    BY <1>1 DEF Inv, TypeOK, Sound
  <1>5. leavePartyOnDeath' => /\ Led(parties')
                              /\ \A p \in Players : parties'.party[p] # NoParty => p \in online'
    BY <1>2 DEF Inv, Changed
  <1> QED
    BY <1>1, <1>2, <1>3, <1>4, <1>5 DEF Inv

\* Only who is online or dead has changed, and whoever has gone is in no party
\* that the dead must leave.
LEMMA SameGrouping ==
  ASSUME Inv, parties' = parties, leavePartyOnDeath' = leavePartyOnDeath,
         online' \in SUBSET Players, dead' \in SUBSET (Players \ online'),
         leavePartyOnDeath => online \subseteq online'
  PROVE  Inv' /\ PartyKept
  <1>1. PartyKept
    <2>1. Len(<< >>) = 0
      OBVIOUS
    <2> QED
      BY <2>1, PartyAssumption DEF PartyKept, Inv, TypeOK
  <1> QED
    BY <1>1 DEF Inv, TypeOK

LEMMA LogoutStep ==
  ASSUME Inv, NEW p \in Players, Logout(p)
  PROVE  Inv' /\ PartyKept
  <1> DEFINE left == LeaveIfMember(parties, p)
  <1>1. Sound(parties) /\ Filled(parties) /\ p \in online
    BY DEF Inv, Logout
  <1>2. /\ Sound(left) /\ Filled(left) /\ Outlives(parties, left)
        /\ \A m \in Players : left.party[m] # NoParty => parties.party[m] # NoParty
        /\ Led(parties) => Led(left) /\ left.party[p] = NoParty
    BY <1>1, LeaveIfMemberChanges
  <1>3. /\ parties' = ClearPartyInvitations(left, p) /\ online' = online \ {p}
        /\ UNCHANGED <<leavePartyOnDeath, dead>>
    BY DEF Logout
  <1> HIDE DEF left
  <1>4. /\ Sound(parties') /\ Filled(parties')
        /\ \A q \in Parties : /\ parties'.memberList[q] = left.memberList[q]
                              /\ left.memberList[q] # << >> => parties'.leader[q] = left.leader[q]
        /\ \A m \in Players : parties'.party[m] \in {left.party[m], NoParty}
        /\ Led(left) => Led(parties')
    BY <1>2, <1>3, ClearPartyInvitationsChanges
  <1>5. PartyKept
    BY <1>2, <1>4, PartyAssumption DEF PartyKept, Outlives, Inv, TypeOK
  <1>6. TypeOK'
    BY <1>3, <1>4 DEF Inv, TypeOK, Sound
  <1>7. ASSUME leavePartyOnDeath'
        PROVE  Led(parties') /\ \A m \in Players : parties'.party[m] # NoParty => m \in online'
    BY <1>2, <1>3, <1>4, <1>7 DEF Inv
  <1> QED
    BY <1>4, <1>5, <1>6, <1>7 DEF Inv

LEMMA DieStep ==
  ASSUME Inv, NEW p \in Players, Die(p)
  PROVE  Inv' /\ PartyKept
  <1>1. /\ Sound(parties) /\ Filled(parties) /\ p \in online
        /\ online' = online \ {p} /\ dead' = dead \union {p} /\ leavePartyOnDeath' = leavePartyOnDeath
    BY DEF Inv, Die
  <1>2. online' \in SUBSET Players /\ dead' \in SUBSET (Players \ online')
    BY <1>1 DEF Inv, TypeOK
  <1>3. CASE ~ leavePartyOnDeath
    BY <1>1, <1>2, <1>3, SameGrouping DEF Die
  <1>4. CASE leavePartyOnDeath
    <2>1. parties' = LeaveIfMember(parties, p) /\ Led(parties)
      BY <1>4 DEF Die, Inv
    <2>2. /\ Sound(parties') /\ Filled(parties') /\ Outlives(parties, parties')
          /\ \A m \in Players : parties'.party[m] # NoParty => parties.party[m] # NoParty
          /\ Led(parties) => Led(parties') /\ parties'.party[p] = NoParty
      BY <1>1, <2>1, LeaveIfMemberChanges
    <2>3. PartyKept
      BY <2>2, PartyAssumption DEF PartyKept, Outlives, Inv, TypeOK
    <2>4. TypeOK'
      BY <1>1, <1>2, <2>2 DEF Inv, TypeOK, Sound
    <2>5. Led(parties') /\ \A m \in Players : parties'.party[m] # NoParty => m \in online'
      BY <1>1, <1>4, <2>1, <2>2 DEF Inv
    <2> QED
      BY <2>2, <2>3, <2>4, <2>5 DEF Inv
  <1> QED
    BY <1>3, <1>4

\* A destroyed player is in no list; only a party that it led loses its leader.
LEMMA DestroyPlayerStep ==
  ASSUME Inv, NEW p \in Players, DestroyPlayer(p)
  PROVE  Inv' /\ PartyKept
  <1> DEFINE s == parties
             t == parties'
  <1>1. /\ p \notin online \union dead
        /\ \A q \in Parties : p \notin Members(s, q) /\ p \notin s.inviteList[q]
        /\ UNCHANGED <<leavePartyOnDeath, online, dead>>
        /\ Sound(s) /\ Filled(s) /\ TypeOK
    BY DEF Inv, DestroyPlayer, UnusedPlayer
  <1>2. /\ t \in Grouping
        /\ t.leader = [q \in Parties |-> IF s.leader[q] = p THEN NoPlayer ELSE s.leader[q]]
        /\ t.memberList = s.memberList /\ t.inviteList = s.inviteList
        /\ t.party = [s.party EXCEPT ![p] = NoParty]
        /\ t.invitePartyList = [s.invitePartyList EXCEPT ![p] = {}]
    BY <1>1 DEF DestroyPlayer, Sound, Grouping
  <1>3. /\ \A q \in Parties : t.leader[q] = IF s.leader[q] = p THEN NoPlayer ELSE s.leader[q]
        /\ \A m \in Players : t.party[m] = IF m = p THEN NoParty ELSE s.party[m]
        /\ \A m \in Players : t.invitePartyList[m] = IF m = p THEN {} ELSE s.invitePartyList[m]
        /\ \A q \in Parties : Members(t, q) = Members(s, q)
    BY <1>1, <1>2, Types DEF Sound, Members
  <1> HIDE DEF s, t
  <1>4. Holding(t)
    <2>1. \A q \in Parties : Members(s, q) \subseteq Players
      BY <1>1, Types DEF Sound
    <2> QED
      BY <1>1, <1>2, <1>3, <2>1, PartyAssumption DEF Holding, Sound
  <1>5. Agreeing(t)
    BY <1>1, <1>2, <1>3 DEF Agreeing, Sound
  <1>6. Filled(t)
    BY <1>1, <1>2, <1>3 DEF Filled, Empty
  <1>7. PartyKept
    <2>1. Len(<< >>) = 0
      OBVIOUS
    <2>2. ASSUME NEW q \in Parties, Len(s.memberList[q]) >= 2, s.leader[q] \in online \union dead
          PROVE  t.leader[q] # NoPlayer /\ t.memberList[q] # << >>
      BY <1>1, <1>2, <1>3, <2>1, <2>2, PartyAssumption DEF TypeOK
    <2> QED
      BY <2>2 DEF PartyKept, s, t
  <1>8. ASSUME leavePartyOnDeath
        PROVE  Led(t) /\ \A m \in Players : t.party[m] # NoParty => m \in online
    <2>1. Led(s) /\ \A m \in Players : s.party[m] # NoParty => m \in online
      BY <1>8 DEF Inv, s
    <2>2. \A q \in Parties : s.leader[q] # p
      BY <1>1, <2>1, PartyAssumption DEF Sound, Holding
    <2> QED
      BY <1>1, <1>3, <2>1, <2>2, Types DEF Led, Sound
  <1> QED
    BY <1>1, <1>2, <1>4, <1>5, <1>6, <1>7, <1>8 DEF Inv, Sound, TypeOK, t

\* A destroyed party had nobody.
LEMMA DestroyPartyStep ==
  ASSUME Inv, NEW q \in Parties, DestroyParty(q)
  PROVE  Inv' /\ PartyKept
  <1> DEFINE s == parties
             t == parties'
  <1>1. /\ UnusedParty(s, q) /\ Sound(s) /\ Filled(s)
        /\ UNCHANGED <<leavePartyOnDeath, online, dead>>
    BY DEF Inv, DestroyParty
  <1>2. << >> \in Seq(Players)
    BY EmptySeq
  <1>3. /\ t \in Grouping
        /\ t.leader = [s.leader EXCEPT ![q] = NoPlayer]
        /\ t.memberList = [s.memberList EXCEPT ![q] = << >>]
        /\ t.inviteList = [s.inviteList EXCEPT ![q] = {}]
        /\ t.party = s.party /\ t.invitePartyList = s.invitePartyList
    BY <1>1, <1>2 DEF DestroyParty, Sound, Grouping
  <1> HIDE DEF s, t
  <1>4. /\ t.leader[q] = NoPlayer /\ t.memberList[q] = << >> /\ t.inviteList[q] = {}
        /\ \A r \in Parties \ {q} : /\ t.leader[r] = s.leader[r]
                                    /\ t.memberList[r] = s.memberList[r]
                                    /\ t.inviteList[r] = s.inviteList[r]
    BY <1>1, <1>3, Types DEF Sound
  <1>5. s.leader[q] = NoPlayer /\ \A m \in Players : s.party[m] # q /\ q \notin s.invitePartyList[m]
    BY <1>1, Types DEF UnusedParty, Sound, Holding
  <1>6. Holding(t)
    <2>1. Members(t, q) = {} /\ IsInjective(t.memberList[q])
      BY <1>4, NoOne, EmptyList
    <2>2. \A r \in Parties \ {q} : Members(t, r) = Members(s, r)
      BY <1>4 DEF Members
    <2> QED
      BY <1>1, <1>3, <1>4, <1>5, <2>1, <2>2, PartyAssumption DEF Holding, Sound
  <1>7. Agreeing(t)
    BY <1>1, <1>3, <1>4, <1>5 DEF Agreeing, Sound
  <1>8. Changed(s, t, q, {})
    BY <1>3, <1>4, <1>5, <1>6, <1>7 DEF Changed, Sound
  <1> QED
    BY <1>1, <1>8, HandlerStep DEF s, t

-----------------------------------------------------------------------------
(* The theorems.                                                           *)

LEMMA NextInv ==
  ASSUME Inv, [Next]_vars
  PROVE  Inv' /\ (PartyKept \/ UNCHANGED vars)
  <1> USE DEF Next
  <1>0. Sound(parties) /\ Filled(parties) /\ TypeOK
    BY DEF Inv
  <1>1. ASSUME NEW p \in Players, NEW other \in Players, PlayerInviteToParty(p, other)
        PROVE  Inv' /\ PartyKept
    <2>1. p \in online /\ UNCHANGED <<leavePartyOnDeath, online, dead>>
      BY <1>1 DEF PlayerInviteToParty
    <2>2. CASE \E q \in Parties : /\ parties.party[p] = NoParty /\ UnusedParty(parties, q)
                                  /\ parties' = InvitePlayer(Create(parties, q, p), q, other)
      <3>1. PICK q \in Parties : /\ parties.party[p] = NoParty /\ UnusedParty(parties, q)
                                 /\ parties' = InvitePlayer(Create(parties, q, p), q, other)
        BY <2>2
      <3>2. Changed(parties, parties', q, {p}) /\ {p} \in SUBSET online
        BY <1>0, <2>1, <3>1, CreateChanges
      <3> QED
        BY <2>1, <3>2, HandlerStep
    <2>3. CASE Leads(p) /\ parties' = InvitePlayer(parties, parties.party[p], other)
      <3>1. parties.party[p] \in Parties
        BY <1>0, <2>3, Types DEF Leads, Sound
      <3>2. Changed(parties, parties', parties.party[p], {}) /\ {} \in SUBSET online
        BY <1>0, <2>3, <3>1, InvitePlayerChanges
      <3> QED
        BY <2>1, <3>1, <3>2, HandlerStep
    <2> QED
      BY <1>1, <2>2, <2>3 DEF PlayerInviteToParty
  <1>2. ASSUME NEW p \in Players, NEW leader \in Players, PlayerJoinParty(p, leader)
        PROVE  Inv' /\ PartyKept
    <2>1. /\ p \in online /\ UNCHANGED <<leavePartyOnDeath, online, dead>>
          /\ parties.party[leader] \in Parties /\ parties.party[p] = NoParty
          /\ parties' = JoinParty(parties, parties.party[leader], p)
      BY <1>0, <1>2, Types DEF PlayerJoinParty, IsInviting, Sound
    <2>2. Changed(parties, parties', parties.party[leader], {p}) /\ {p} \in SUBSET online
      BY <1>0, <2>1, JoinPartyChanges
    <2> QED
      BY <2>1, <2>2, HandlerStep
  <1>3. ASSUME NEW p \in Players, NEW invited \in Players, PlayerRevokePartyInvitation(p, invited)
        PROVE  Inv' /\ PartyKept
    <2>1. /\ UNCHANGED <<leavePartyOnDeath, online, dead>>
          /\ parties.party[p] \in Parties
          /\ parties' = RemoveInvite(parties, parties.party[p], invited)
      BY <1>0, <1>3, Types DEF PlayerRevokePartyInvitation, IsInviting, Sound
    <2>2. InviteRemoved(parties, parties', parties.party[p], invited)
      BY <1>0, <2>1, RemoveInviteChanges
    <2>3. Changed(parties, parties', parties.party[p], {}) /\ {} \in SUBSET online
      BY <2>2 DEF InviteRemoved
    <2> QED
      BY <2>1, <2>3, HandlerStep
  <1>4. ASSUME NEW p \in Players, NEW newLeader \in Players, PlayerPassPartyLeadership(p, newLeader)
        PROVE  Inv' /\ PartyKept
    <2>1. /\ UNCHANGED <<leavePartyOnDeath, online, dead>>
          /\ parties.party[p] \in Parties /\ parties.party[newLeader] = parties.party[p]
          /\ parties' = PassPartyLeadership(parties, parties.party[p], newLeader)
      BY <1>0, <1>4, Types DEF PlayerPassPartyLeadership, Leads, Sound
    <2>2. Changed(parties, parties', parties.party[p], {}) /\ {} \in SUBSET online
      BY <1>0, <2>1, PassPartyLeadershipChanges
    <2> QED
      BY <2>1, <2>2, HandlerStep
  <1>5. ASSUME NEW p \in Players, PlayerLeaveParty(p)
        PROVE  Inv' /\ PartyKept
    <2>1. /\ UNCHANGED <<leavePartyOnDeath, online, dead>>
          /\ parties.party[p] \in Parties /\ parties.party[p] # NoParty
          /\ parties' = LeaveParty(parties, parties.party[p], p)
      BY <1>0, <1>5, Types DEF PlayerLeaveParty, Sound
    <2>2. Changed(parties, parties', parties.party[p], {}) /\ {} \in SUBSET online
      BY <1>0, <2>1, LeavePartyChanges
    <2> QED
      BY <2>1, <2>2, HandlerStep
  <1>6. ASSUME NEW p \in Players, Login(p) \/ Respawn(p) PROVE Inv' /\ PartyKept
    BY <1>0, <1>6, SameGrouping DEF Login, Respawn, TypeOK
  <1>7. ASSUME NEW p \in Players, ReleaseDead(p) PROVE Inv' /\ PartyKept
    BY <1>0, <1>7, SameGrouping DEF ReleaseDead, TypeOK
  <1>8. ASSUME UNCHANGED vars PROVE Inv'
    BY <1>8 DEF vars, Inv, TypeOK, Sound, Holding, Agreeing, Filled, Led
  <1> QED
    BY <1>1, <1>2, <1>3, <1>4, <1>5, <1>6, <1>7, <1>8,
       LogoutStep, DieStep, DestroyPlayerStep, DestroyPartyStep

LEMMA InvAlways == Spec => []Inv
  <1>1. Inv /\ [Next]_vars => Inv'
    BY NextInv
  <1> QED
    BY <1>1, InitInv, PTL DEF Spec

\* A player has a party exactly when the party has the player, once.
THEOREM MembersHoldPartyAlways == Spec => []MembersHoldParty
  <1>1. Inv => MembersHoldParty
    BY InvImplies
  <1> QED
    BY <1>1, InvAlways, PTL

\* Player and party agree on an invitation as long as the party has a leader.
THEOREM InvitationsAgreeAlways == Spec => []InvitationsAgree
  <1>1. Inv => InvitationsAgree
    BY InvImplies
  <1> QED
    BY <1>1, InvAlways, PTL

\* No leader is left alone in a party: disband is called wherever it must be.
THEOREM NoEmptyPartyAlways == Spec => []NoEmptyParty
  <1>1. Inv => NoEmptyParty
    BY InvImplies
  <1> QED
    BY <1>1, InvAlways, PTL

\* When the dead leave their party, its players and its leader are online.
THEOREM NobodyStrandedAlways == Spec => []NobodyStranded
  <1>1. Inv => NobodyStranded
    BY InvImplies
  <1> QED
    BY <1>1, InvAlways, PTL

\* No step ends a party of three or more whose leader exists.
THEOREM PartySurvivesAlways == Spec => PartySurvives
  <1>1. Inv /\ [Next]_vars => [PartyKept]_vars
    BY NextInv
  <1>2. [PartyKept]_vars <=>
          [\A q \in Parties :
             Len(parties.memberList[q]) >= 2 /\ parties.leader[q] \in online \union dead
               => parties.leader[q]' # NoPlayer /\ parties.memberList[q]' # << >>]_vars
    BY DEF PartyKept
  <1> QED
    BY <1>1, <1>2, InvAlways, PTL DEF Spec, PartySurvives
=============================================================================
