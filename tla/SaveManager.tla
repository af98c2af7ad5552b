---------------------------- MODULE SaveManager ----------------------------
(***************************************************************************)
(* Saving players (game/scheduling/save_manager.cpp, io/iologindata.cpp).  *)
(* The dispatcher loads a player into an object, changes it, and asks for  *)
(* it to be saved: at once, or with toggleSaveAsync by a task of the       *)
(* thread pool that holds only a weak reference.  A save is a list of      *)
(* statements, each committed on its own, since executeWithinTransaction   *)
(* runs them before BEGIN.                                                 *)
(*                                                                         *)
(* What a player owns is abstracted to a version: every change gives the   *)
(* object the player's next version, and the database keeps the version    *)
(* each of its tables was last written with.  A player who died keeps the  *)
(* object in its client: it comes back with that object, or logs out.      *)
(***************************************************************************)
EXTENDS Integers, SequencesExt

CONSTANTS
  Players,       \* GUIDs
  Objects,       \* Player objects, each filled by one load
  Owner,         \* the GUID each object is loaded for
  Pool,          \* threads of the thread pool
  Async,         \* toggleSaveAsync
  DbFails,       \* a statement may fail
  MaxVersion,    \* bound: changes made to a player
  MaxSchedules   \* bound: tasks given to the pool

Dispatcher == "dispatcher"
NoObject == "none"
ASSUME SaveAssumption ==
  /\ Dispatcher \notin Pool
  /\ NoObject \notin Objects
  /\ Owner \in [Objects -> Players]
  /\ Async \in BOOLEAN
  /\ DbFails \in BOOLEAN
  /\ MaxVersion \in Nat
  /\ MaxSchedules \in Nat

\* The row of table players, and player_items for all the tables that a save
\* empties before it fills them.
Tables == {"players", "items"}
Gone == -1     \* the version of an emptied table
Versions == 0 .. MaxVersion

\* savePlayerGuard
Statements ==
  << [table |-> "players", op |-> "write"],
     [table |-> "items",   op |-> "delete"],
     [table |-> "items",   op |-> "write"] >>

VARIABLES
  state,        \* "unused", "loading", "online" (in Game::players), "dead" (at the
                \* death screen), "copy" (an offline player's object, used by one
                \* handler), "out", "freed"
  online,       \* objects whose online flag is set (Player::isOnline)
  data,         \* per object, the version of each table's data
  row,          \* per player, the version of each table in the database
  playerMap,    \* m_playerMap: the time a save was last scheduled, if any
  scheduledAt,  \* m_scheduledAt
  queue,        \* tasks the pool has not taken
  clock,        \* steady_clock, advanced by every schedule
  job,          \* per thread, the objects left to save, the one being saved
                \* and its next statement
  shutdown,     \* the game state is GAME_STATE_SHUTDOWN
  failed,       \* history: players whose last save failed
  newest,       \* history: per player, how many versions there have been
  latest,       \* history: per player, the version in the game, or last in it
  asked,        \* history: per object, what it held at its last savePlayer
  rushed        \* history: players last loaded while an older object of theirs lived

objectVars == <<state, online, data>>
taskVars == <<playerMap, scheduledAt, queue, clock>>
history == <<failed, newest, latest, asked, rushed>>
vars == <<objectVars, row, taskVars, job, shutdown, history>>

Threads == Pool \union {Dispatcher}
NoTime == 0          \* no entry in m_playerMap
DefaultTime == -1    \* the entry operator[] inserts
Idle == [left |-> {}, object |-> NoObject, next |-> 1]
Everywhere(v) == [t \in Tables |-> v]

Alive(o) == state[o] \notin {"unused", "freed"}
Locked(o) == \E t \in Threads : job[t].object = o
Referenced(o) == \E t \in Threads : o \in job[t].left \union {job[t].object}
OnlineObjects == {o \in Objects : state[o] = "online"}
DispatcherFree ==
  /\ job[Dispatcher] = Idle
  /\ \A o \in Objects : state[o] \notin {"loading", "copy"}

-----------------------------------------------------------------------------
(* Asking for a save.                                                      *)

\* Mutant: the task is queued before its time enters m_playerMap, which a save
\* already under way then erases: no task finds its own time.
ScheduleForgets(o) ==
  /\ clock < MaxSchedules
  /\ clock' = clock + 1
  /\ queue' = Append(queue, [op |-> "player", object |-> o, at |-> clock + 1])
  /\ UNCHANGED <<playerMap, scheduledAt, job>>

\* schedulePlayer
Schedule(o) ==
  /\ clock < MaxSchedules
  /\ clock' = clock + 1
  /\ playerMap' = [playerMap EXCEPT ![Owner[o]] = clock + 1]
  /\ queue' = Append(queue, [op |-> "player", object |-> o, at |-> clock + 1])
  /\ UNCHANGED <<scheduledAt, job>>

\* doSavePlayer, for each object of a set, by thread t: see Lock.
SaveNow(t, objects) ==
  /\ job' = [job EXCEPT ![t].left = objects]
  /\ UNCHANGED taskVars

\* Mutant: schedulePlayer in every case, although the server may be going down
\* or the object be a copy that nobody holds.
SavePlayerLater(o) ==
  /\ asked' = [asked EXCEPT ![o] = data[o]]
  /\ IF Async THEN Schedule(o) ELSE UNCHANGED <<taskVars, job>>

\* savePlayer
SavePlayer(o) ==
  /\ asked' = [asked EXCEPT ![o] = data[o]]
  /\ IF o \in online /\ ~shutdown /\ Async THEN Schedule(o) ELSE SaveNow(Dispatcher, {o})

\* scheduleAll
ScheduleAll ==
  /\ DispatcherFree
  /\ ~shutdown
  /\ Async
  /\ clock < MaxSchedules
  /\ clock' = clock + 1
  /\ scheduledAt' = clock + 1
  /\ queue' = Append(queue, [op |-> "all", object |-> NoObject, at |-> clock + 1])
  /\ UNCHANGED <<objectVars, row, playerMap, job, shutdown, history>>

\* saveAll on the dispatcher: scheduleAll without toggleSaveAsync, and the
\* closing of the server.
SaveAll ==
  /\ DispatcherFree
  /\ OnlineObjects # {}
  /\ SaveNow(Dispatcher, OnlineObjects)
  /\ asked' = [o \in Objects |-> IF o \in OnlineObjects THEN data[o] ELSE asked[o]]
  /\ UNCHANGED <<objectVars, row, shutdown, failed, newest, latest, rushed>>

-----------------------------------------------------------------------------
(* The dispatcher's handlers.                                              *)

\* loadPlayerById starts: at login, or for a handler that needs an offline player.
BeginLoad(o) ==
  LET p == Owner[o]
  IN  /\ DispatcherFree
      /\ ~shutdown
      /\ state[o] = "unused"
      /\ \A q \in OnlineObjects : Owner[q] # p
      /\ state' = [state EXCEPT ![o] = "loading"]
      /\ data' = [data EXCEPT ![o] = row[p]]
      /\ asked' = [asked EXCEPT ![o] = row[p]]
      /\ rushed' = IF \E q \in Objects : Owner[q] = p /\ Alive(q) THEN rushed \union {p} ELSE rushed \ {p}
      /\ UNCHANGED <<online, row, taskVars, job, shutdown, failed, newest, latest>>

\* Its later queries read the other tables.  The online flag is true from the
\* constructor on; only Game's own lookups clear it for a copy.  Nobody logs in
\* whose character is at the death screen of another client.
EndLoad(o, as) ==
  /\ state[o] = "loading"
  /\ as = "online" => \A q \in Objects : state[q] = "dead" => Owner[q] # Owner[o]
  /\ data' = [data EXCEPT ![o]["items"] = row[Owner[o]]["items"]]
  /\ asked' = [asked EXCEPT ![o]["items"] = row[Owner[o]]["items"]]
  /\ state' = [state EXCEPT ![o] = as]
  /\ \/ online' = online \union {o}
     \/ as = "copy" /\ UNCHANGED online
  /\ UNCHANGED <<row, taskVars, job, shutdown, failed, newest, latest, rushed>>

Change(o) ==
  /\ \/ state[o] = "online" /\ DispatcherFree /\ ~shutdown
     \/ state[o] = "copy"
  /\ newest[Owner[o]] < MaxVersion
  /\ newest' = [newest EXCEPT ![Owner[o]] = @ + 1]
  /\ latest' = [latest EXCEPT ![Owner[o]] = newest[Owner[o]] + 1]
  /\ data' = [data EXCEPT ![o] = Everywhere(newest[Owner[o]] + 1)]
  /\ UNCHANGED <<state, online, row, taskVars, job, shutdown, failed, asked, rushed>>

\* A save of an online player.
SaveOnline(o) ==
  /\ DispatcherFree
  /\ ~shutdown
  /\ state[o] = "online"
  /\ SavePlayer(o)
  /\ UNCHANGED <<objectVars, row, shutdown, failed, newest, latest, rushed>>

\* onRemoveCreature, or the end of a handler that changed an offline player:
\* the object is saved, and nothing refers to it any more.
Leave(o) ==
  /\ \/ state[o] = "online" /\ DispatcherFree
     \/ state[o] = "copy" /\ job[Dispatcher] = Idle
  /\ state' = [state EXCEPT ![o] = "out"]
  /\ SavePlayer(o)
  /\ UNCHANGED <<online, data, row, shutdown, failed, newest, latest, rushed>>

\* Mutant: a death does not save.
DieUnsaved(o) ==
  /\ DispatcherFree
  /\ state[o] = "online"
  /\ state' = [state EXCEPT ![o] = "dead"]
  /\ UNCHANGED <<online, data, row, taskVars, job, shutdown, history>>

\* despawn: the player leaves Game::players and is saved; the client keeps the object.
Die(o) ==
  /\ DispatcherFree
  /\ state[o] = "online"
  /\ state' = [state EXCEPT ![o] = "dead"]
  /\ SavePlayer(o)
  /\ UNCHANGED <<online, data, row, shutdown, failed, newest, latest, rushed>>

\* spawn: the object comes back as it was.  What a copy was given and saved
\* meanwhile is no longer in the game; the object's next save undoes it.
Respawn(o) ==
  /\ DispatcherFree
  /\ ~shutdown
  /\ state[o] = "dead"
  /\ state' = [state EXCEPT ![o] = "online"]
  /\ latest' = [latest EXCEPT ![Owner[o]] = data[o]["players"]]
  /\ UNCHANGED <<online, data, row, taskVars, job, shutdown, failed, newest, asked, rushed>>

\* Or the client goes, and nothing is saved any more.
ReleaseDead(o) ==
  /\ DispatcherFree
  /\ state[o] = "dead"
  /\ state' = [state EXCEPT ![o] = "out"]
  /\ UNCHANGED <<online, data, row, taskVars, job, shutdown, history>>

\* Mutant: the pool's tasks hold raw pointers.
FreeUnderSave(o) ==
  /\ state[o] = "out"
  /\ state' = [state EXCEPT ![o] = "freed"]
  /\ UNCHANGED <<online, data, row, taskVars, job, shutdown, history>>

\* The last shared_ptr goes: the protocol has released the player, and no save
\* holds it.
Free(o) ==
  /\ state[o] = "out"
  /\ ~Referenced(o)
  /\ state' = [state EXCEPT ![o] = "freed"]
  /\ UNCHANGED <<online, data, row, taskVars, job, shutdown, history>>

\* setGameState(GAME_STATE_SHUTDOWN); the handler then removes every player.
Shutdown ==
  /\ DispatcherFree
  /\ ~shutdown
  /\ shutdown' = TRUE
  /\ UNCHANGED <<objectVars, row, taskVars, job, history>>

-----------------------------------------------------------------------------
(* The pool's tasks, and doSavePlayer.                                     *)

\* A pool thread takes the next task.  The weak reference is locked, and the
\* task skipped if a save was scheduled after it.
Take(t) ==
  /\ job[t] = Idle
  /\ queue # << >>
  /\ queue' = Tail(queue)
  /\ LET task == Head(queue)
         p    == Owner[task.object]
     IN  \/ /\ task.op = "all"
            /\ job' = IF scheduledAt # task.at THEN job
                      ELSE [job EXCEPT ![t].left = OnlineObjects]
            /\ UNCHANGED playerMap
         \/ /\ task.op = "player"
            /\ ~Alive(task.object)
            /\ UNCHANGED <<playerMap, job>>
         \/ /\ task.op = "player"
            /\ Alive(task.object)
            /\ playerMap' = IF playerMap[p] = NoTime
                            THEN [playerMap EXCEPT ![p] = DefaultTime] ELSE playerMap
            /\ job' = IF playerMap[p] # task.at THEN job
                      ELSE [job EXCEPT ![t].left = {task.object}]
  /\ UNCHANGED <<objectVars, row, scheduledAt, clock, shutdown, history>>

\* Mutant: the caller holds the PlayerLock that doSavePlayer waits for.
LockTwice(t, o) ==
  /\ job[t].object = NoObject
  /\ o \in job[t].left
  /\ ~Referenced(o)
  /\ job' = [job EXCEPT ![t] = [left |-> @.left \ {o}, object |-> o, next |-> 1]]
  /\ UNCHANGED <<objectVars, row, taskVars, shutdown, history>>

\* doSavePlayer begins: PlayerLock, then m_playerMap.erase.
Lock(t, o) ==
  /\ job[t].object = NoObject
  /\ o \in job[t].left
  /\ ~Locked(o)
  /\ job' = [job EXCEPT ![t] = [left |-> @.left \ {o}, object |-> o, next |-> 1]]
  /\ playerMap' = [playerMap EXCEPT ![Owner[o]] = NoTime]
  /\ UNCHANGED <<objectVars, row, scheduledAt, queue, clock, shutdown, history>>

\* The save of an object ends and the next one, if any, begins.
Unlock(t) == [job EXCEPT ![t] = [Idle EXCEPT !.left = job[t].left]]

\* The last statement ends the save, and with it whatever an earlier one left undone.
Execute(t) ==
  LET o == job[t].object
      s == Statements[job[t].next]
      last == job[t].next = Len(Statements)
  IN  /\ o # NoObject
      /\ row' = [row EXCEPT ![Owner[o]][s.table] =
                   IF s.op = "delete" THEN Gone ELSE data[o][s.table]]
      /\ job' = IF last THEN Unlock(t) ELSE [job EXCEPT ![t].next = @ + 1]
      /\ failed' = IF last THEN failed \ {Owner[o]} ELSE failed
      /\ UNCHANGED <<objectVars, taskVars, shutdown, newest, latest, asked, rushed>>

\* A statement fails: the exception leaves executeWithinTransaction, nothing is
\* rolled back, and the result is only logged.
Fail(t) ==
  /\ DbFails
  /\ job[t].object # NoObject
  /\ job' = Unlock(t)
  /\ failed' = failed \union {Owner[job[t].object]}
  /\ UNCHANGED <<objectVars, row, taskVars, shutdown, newest, latest, asked, rushed>>

Init ==
  /\ state = [o \in Objects |-> "unused"]
  /\ online = {}
  /\ data = [o \in Objects |-> Everywhere(0)]
  /\ row = [p \in Players |-> Everywhere(0)]
  /\ playerMap = [p \in Players |-> NoTime]
  /\ scheduledAt = NoTime
  /\ queue = << >>
  /\ clock = 0
  /\ job = [t \in Threads |-> Idle]
  /\ shutdown = FALSE
  /\ failed = {}
  /\ newest = [p \in Players |-> 0]
  /\ latest = [p \in Players |-> 0]
  /\ asked = [o \in Objects |-> Everywhere(0)]
  /\ rushed = {}

Saving(t) == Execute(t) \/ Fail(t) \/ \E o \in Objects : Lock(t, o)
PoolStep(t) == Take(t) \/ Saving(t)

Handler ==
  \/ ScheduleAll \/ SaveAll \/ Shutdown
  \/ \E o \in Objects :
       \/ BeginLoad(o)
       \/ \E as \in {"online", "copy"} : EndLoad(o, as)
       \/ Change(o) \/ SaveOnline(o) \/ Leave(o) \/ Free(o)
       \/ Die(o) \/ Respawn(o) \/ ReleaseDead(o)

Next == Handler \/ Saving(Dispatcher) \/ \E t \in Pool : PoolStep(t)

\* The pool's threads run, and so does a save begun on the dispatcher.
Fairness ==
  /\ WF_vars(Saving(Dispatcher))
  /\ \A t \in Pool : WF_vars(PoolStep(t))

Spec == Init /\ [][Next]_vars
FairSpec == Spec /\ Fairness

-----------------------------------------------------------------------------
(* Properties.                                                             *)

TypeOK ==
  /\ state \in [Objects -> {"unused", "loading", "online", "dead", "copy", "out", "freed"}]
  /\ online \subseteq Objects
  /\ data \in [Objects -> [Tables -> Versions \union {Gone}]]
  /\ row \in [Players -> [Tables -> Versions \union {Gone}]]
  /\ playerMap \in [Players -> DefaultTime .. MaxSchedules]
  /\ scheduledAt \in 0 .. MaxSchedules
  /\ queue \in Seq([op : {"player", "all"}, object : Objects \union {NoObject},
                     at : 1 .. MaxSchedules])
  /\ clock \in 0 .. MaxSchedules
  /\ \A t \in Threads :
       /\ job[t].left \subseteq Objects
       /\ job[t].object \in Objects \union {NoObject}
       /\ job[t].next \in DOMAIN Statements
  /\ shutdown \in BOOLEAN
  /\ failed \subseteq Players
  /\ newest \in [Players -> Versions]
  /\ latest \in [Players -> Versions]
  /\ asked \in [Objects -> [Tables -> Versions \union {Gone}]]
  /\ rushed \subseteq Players

\* Whoever loads a player, at login or for a change made while it is offline or
\* dead, gets in every table what the player last had in the game: neither an older
\* state, nor one that a respawn has undone.
LoadsNewest ==
  [][\A o \in Objects : state[o] = "loading" /\ state'[o] # "loading" =>
       data'[o] = Everywhere(latest[Owner[o]])]_vars

\* The weak references of the queue are locked before use: no thread works on
\* an object that was freed.
NoUseAfterFree == \A o \in Objects : Referenced(o) => Alive(o)

Queued(p) == \E i \in DOMAIN queue : queue[i].op = "player" /\ Owner[queue[i].object] = p
BeingSaved(p) == \E o \in Objects : Owner[o] = p /\ Referenced(o)

\* The database has what the object was last asked to save, or something newer.
Reached(o) == \A t \in Tables : row[Owner[o]][t] >= asked[o][t]

\* Nothing is queued or being saved for the player of a living object, and the last
\* save has not failed: the next one repairs what that one left half written.
Quiet(o) ==
  Alive(o) /\ ~Queued(Owner[o]) /\ ~BeingSaved(Owner[o]) /\ Owner[o] \notin failed

\* Tasks skip each other by comparing times in m_playerMap, and other saves erase
\* those times: still, unless the player was loaded while an older object of it
\* lived, the database is never behind what was asked for, nor ahead of the object.
NoSaveLost ==
  \A o \in Objects : Quiet(o) /\ Owner[o] \notin rushed =>
    Reached(o) /\ \A t \in Tables : row[Owner[o]][t] <= data[o][t]

\* A save that was asked for is eventually in the database while the object
\* lives, unless the last save fails or the player is loaded again meanwhile.
EventuallySaved ==
  \A o \in Objects :
    Alive(o) /\ ~Reached(o)
      ~> Reached(o) \/ ~Alive(o) \/ Owner[o] \in failed \union rushed
=============================================================================
