---------------------------- MODULE WaitingList ----------------------------
(***************************************************************************)
(* The waiting list of a full server                                       *)
(* (creatures/players/management/waitlist.cpp), as operators on its value: *)
(* two lists, and how much their stored sizes are off.  clientLogin takes  *)
(* every admitted player out of waitList, also one that is in              *)
(* priorityWaitList: the node leaves the list it is in, but the size       *)
(* counter that goes down is waitList's (std::list keeps a counter, and    *)
(* size() returns it).  Timeouts are abstracted to the set of entries that *)
(* have expired.                                                           *)
(***************************************************************************)
EXTENDS Integers, SequencesExt

CONSTANTS
  Premium,      \* the players that wait in priorityWaitList
  Privileged,   \* those with CanAlwaysLogin and the gamemasters
  MaxPlayers    \* MAX_PLAYERS; 0 would mean no limit

Nobody == [priorityWaitList |-> << >>, waitList |-> << >>, drift |-> 0]

ListOf(p) == IF p \in Premium THEN "priorityWaitList" ELSE "waitList"
Waiting(w) == Range(w.priorityWaitList) \union Range(w.waitList)
Position(w, p) == CHOOSE i \in DOMAIN w[ListOf(p)] : w[ListOf(p)][i] = p

\* priorityWaitList.size() and waitList.size()
PrioritySize(w) == Len(w.priorityWaitList) + w.drift
WaitSize(w) == Len(w.waitList) - w.drift

\* cleanupList, of one list: the entries that have not expired, in their order
\* (a recursive function, for the proofs).
CleanupList(list, expired) ==
  LET kept[n \in 0 .. Len(list)] ==
        IF n = 0 THEN << >>
        ELSE IF list[n] \in expired THEN kept[n - 1] ELSE Append(kept[n - 1], list[n])
  IN  kept[Len(list)]

Cleanup(w, expired) ==
  [w EXCEPT !.priorityWaitList = CleanupList(@, expired), !.waitList = CleanupList(@, expired)]

\* Mutant: a player without premium is placed as if nobody had priority.
SlotInOwnList(w, p) == Position(w, p)

\* getClientSlot
Slot(w, p) ==
  IF p \in Premium THEN Position(w, p) ELSE PrioritySize(w) + Position(w, p)

\* Mutant: a new entry of waitList is placed by that list's size alone.
NewSlotInOwnList(w, p) ==
  IF p \in Waiting(w) THEN Slot(w, p)
  ELSE IF p \in Premium THEN PrioritySize(w) + 1
  ELSE WaitSize(w) + 1

\* The slot addPlayerToList gives: a new entry is placed by the stored sizes.
NewSlot(w, p) ==
  IF p \in Waiting(w) THEN Slot(w, p)
  ELSE IF p \in Premium THEN PrioritySize(w) + 1
  ELSE PrioritySize(w) + WaitSize(w) + 1

\* Mutant: the entry of the last try is not found.
AddPlayerTwice(w, p) == [w EXCEPT ![ListOf(p)] = Append(@, p)]

\* addPlayerToList
AddPlayerToList(w, p) ==
  IF p \in Waiting(w) THEN w ELSE [w EXCEPT ![ListOf(p)] = Append(@, p)]

\* waitList.erase of the player's entry
Erase(w, p) ==
  [w EXCEPT ![ListOf(p)] = RemoveAt(@, Position(w, p)),
            !.drift = IF p \in Premium THEN @ + 1 ELSE @]

\* clientLogin, with so many players online.  The privileged pass the list and
\* the limit by.
ClientLogin(w, p, playersOnline, expired) ==
  IF p \in Privileged \/ (Waiting(w) = {} /\ playersOnline < MaxPlayers)
  THEN [admitted |-> TRUE, list |-> w]
  ELSE LET kept == Cleanup(w, expired)
           added == AddPlayerToList(kept, p)
       IN  IF playersOnline + NewSlot(kept, p) <= MaxPlayers
           THEN [admitted |-> TRUE, list |-> Erase(added, p)]
           ELSE [admitted |-> FALSE, list |-> added]

\* The players a list serves before p.
Ahead(w, p) ==
  LET mine == w[ListOf(p)]
      before == IF p \in Waiting(w) THEN Range(SubSeq(mine, 1, Position(w, p) - 1)) ELSE Range(mine)
  IN  IF p \in Premium THEN before ELSE Range(w.priorityWaitList) \union before
=============================================================================
