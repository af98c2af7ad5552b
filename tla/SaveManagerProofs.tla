------------------------- MODULE SaveManagerProofs -------------------------
(***************************************************************************)
(* Proofs about SaveManager, for every set of players, objects and pool    *)
(* threads: its types, and that no thread works on a freed object; for     *)
(* saves on the dispatcher that do not fail, that a load always finds what *)
(* the player last had; and that no save asked for is lost, unless the     *)
(* player is loaded again while an older object lives.                     *)
(***************************************************************************)
EXTENDS SaveManager, TLAPS

\* TypeOK says of each thread what its job holds; job is a function of such records.
Jobs == [left : SUBSET Objects, object : Objects \union {NoObject}, next : DOMAIN Statements]
JobsType == job \in [Threads -> Jobs]

\* The conjuncts of TypeOK by the variables they are about.  A task that saves a
\* player names an object.
ObjectsType ==
  /\ state \in [Objects -> {"unused", "loading", "online", "dead", "copy", "out", "freed"}]
  /\ online \subseteq Objects
  /\ data \in [Objects -> [Tables -> Versions \union {Gone}]]
RowsType == row \in [Players -> [Tables -> Versions \union {Gone}]]
TimesType ==
  /\ playerMap \in [Players -> DefaultTime .. MaxSchedules]
  /\ scheduledAt \in 0 .. MaxSchedules
  /\ clock \in 0 .. MaxSchedules
Times == 1 .. MaxSchedules
Tasks == [op : {"player"}, object : Objects, at : Times]
           \union [op : {"all"}, object : {NoObject}, at : Times]
QueueType == queue \in Seq(Tasks)
HistoryType ==
  /\ shutdown \in BOOLEAN
  /\ failed \subseteq Players
  /\ newest \in [Players -> Versions]
  /\ latest \in [Players -> Versions]
  /\ asked \in [Objects -> [Tables -> Versions \union {Gone}]]
  /\ rushed \subseteq Players

\* Only the tables that a save empties are ever empty: the row of table players is
\* written in place.
PlayersRowStays ==
  /\ \A o \in Objects : data[o]["players"] \in Versions
  /\ \A p \in Players : row[p]["players"] \in Versions

Types == ObjectsType /\ RowsType /\ TimesType /\ QueueType /\ JobsType /\ HistoryType

\* PlayerLock: two threads never write one object's tables at the same time.
OneSaverPerObject ==
  \A t, u \in Threads :
    t # u /\ job[t].object = job[u].object => job[t].object = NoObject

IInv == Types /\ PlayersRowStays /\ OneSaverPerObject /\ NoUseAfterFree

\* Sequences over a larger set; the first element and the rest of a queue.
LEMMA SeqMonotone ==
  ASSUME NEW S, NEW T, S \subseteq T, NEW q \in Seq(S) PROVE q \in Seq(T)
  <1> QED
    OBVIOUS

LEMMA QueueFacts ==
  ASSUME NEW S, NEW q \in Seq(S), q # << >> PROVE Head(q) \in S /\ Tail(q) \in Seq(S)
  <1> QED
    OBVIOUS

\* The parts make up the type invariant.
LEMMA TypesMakeTypeOK == Types => TypeOK
  <1> SUFFICES ASSUME Types PROVE TypeOK
    OBVIOUS
  <1>1. \A t \in Threads : /\ job[t].left \subseteq Objects
                          /\ job[t].object \in Objects \union {NoObject}
                          /\ job[t].next \in DOMAIN Statements
    BY DEF Types, JobsType, Jobs
  <1>2. Tasks \subseteq [op : {"player", "all"}, object : Objects \union {NoObject},
                         at : 1 .. MaxSchedules]
    BY DEF Tasks, Times
  <1>3. queue \in Seq([op : {"player", "all"}, object : Objects \union {NoObject},
                      at : 1 .. MaxSchedules])
    BY <1>2, SeqMonotone DEF Types, QueueType
  <1> QED
    BY <1>1, <1>3 DEF Types, ObjectsType, RowsType, TimesType, QueueType, HistoryType, TypeOK

\* The list of statements, as the solver needs it.
LEMMA StatementsFacts ==
  /\ Len(Statements) = 3
  /\ DOMAIN Statements = {1, 2, 3}
  /\ Statements[1].table = "players" /\ Statements[1].op = "write"
  /\ Statements[2].table = "items" /\ Statements[2].op = "delete"
  /\ Statements[3].table = "items" /\ Statements[3].op = "write"
  <1> QED
    BY DEF Statements

\* A thread that holds no job refers to no object.
LEMMA IdleIsJob == Idle \in Jobs /\ Idle.left = {} /\ Idle.object = NoObject /\ Idle.next = 1
  <1> QED
    BY StatementsFacts DEF Idle, Jobs

-----------------------------------------------------------------------------
(* What a step does to the jobs.                                           *)

\* An idle thread is given objects that are alive: no object is locked by it, so
\* the first fact stays, and the second is that the given objects are alive.
LEMMA GivenJob ==
  ASSUME JobsType, OneSaverPerObject, NoUseAfterFree,
         NEW t \in Threads, job[t].object = NoObject,
         NEW objects \in SUBSET Objects,
         job' = [job EXCEPT ![t].left = objects],
         \A o \in Objects : Alive(o) => Alive(o)',
         \A o \in objects : Alive(o)'
  PROVE  JobsType' /\ OneSaverPerObject' /\ NoUseAfterFree'
  <1>1. JobsType'
    BY DEF JobsType, Jobs
  <1>2. OneSaverPerObject'
    BY DEF JobsType, Jobs, OneSaverPerObject
  <1>3. NoUseAfterFree'
    BY DEF JobsType, Jobs, NoUseAfterFree, Referenced
  <1> QED
    BY <1>1, <1>2, <1>3

\* Steps that leave the jobs alone keep both facts, if they free no object that a
\* job refers to.
LEMMA SameJobs ==
  ASSUME JobsType, OneSaverPerObject, NoUseAfterFree, UNCHANGED job,
         \A o \in Objects : Alive(o) /\ Referenced(o) => Alive(o)'
  PROVE  JobsType' /\ OneSaverPerObject' /\ NoUseAfterFree'
  <1> QED
    BY DEF JobsType, OneSaverPerObject, NoUseAfterFree, Referenced

\* Steps that neither ask for a save nor take a task keep the types of both.
LEMMA TimesStay ==
  ASSUME TimesType, QueueType, UNCHANGED taskVars
  PROVE  TimesType' /\ QueueType'
  <1>1. UNCHANGED <<playerMap, scheduledAt, clock>> /\ UNCHANGED queue
    BY DEF taskVars
  <1>2. TimesType'
    BY <1>1 DEF TimesType
  <1>3. QueueType'
    BY <1>1 DEF QueueType
  <1> QED
    BY <1>2, <1>3

\* A save asked for on the dispatcher is done by it at once or queued.
LEMMA SavePlayerAsks ==
  ASSUME IInv, NEW o \in Objects, SavePlayer(o), job[Dispatcher] = Idle,
         \A q \in Objects : Alive(q) => Alive(q)', Alive(o)'
  PROVE  /\ TimesType' /\ QueueType' /\ asked' \in [Objects -> [Tables -> Versions \union {Gone}]]
         /\ JobsType' /\ OneSaverPerObject' /\ NoUseAfterFree'
  <1> USE SaveAssumption
  <1>1. asked' \in [Objects -> [Tables -> Versions \union {Gone}]]
    BY DEF SavePlayer, IInv, Types, HistoryType, ObjectsType
  <1>2. CASE Schedule(o)
    <2>1. clock + 1 \in 1 .. MaxSchedules /\ clock + 1 \in DefaultTime .. MaxSchedules
      BY <1>2 DEF Schedule, IInv, Types, TimesType, DefaultTime
    <2>2. QueueType'
      <3>1. [op |-> "player", object |-> o, at |-> clock + 1] \in Tasks
        BY <2>1 DEF Tasks, Times
      <3> QED
        BY <1>2, <3>1 DEF Schedule, IInv, Types, QueueType
    <2>3. TimesType'
      BY <1>2, <2>1 DEF Schedule, IInv, Types, TimesType
    <2>4. JobsType' /\ OneSaverPerObject' /\ NoUseAfterFree'
      BY <1>2, SameJobs DEF Schedule, IInv, Types
    <2> QED
      BY <1>1, <2>2, <2>3, <2>4
  <1>3. CASE SaveNow(Dispatcher, {o})
    <2>1. JobsType' /\ OneSaverPerObject' /\ NoUseAfterFree'
      <3>1. /\ job' = [job EXCEPT ![Dispatcher].left = {o}]
            /\ {o} \in SUBSET Objects
            /\ Dispatcher \in Threads
            /\ job[Dispatcher].object = NoObject
        BY <1>3, IdleIsJob DEF SaveNow, Threads
      <3> QED
        BY <3>1, GivenJob DEF IInv, Types
    <2>2. UNCHANGED taskVars
      BY <1>3 DEF SaveNow
    <2> QED
      BY <1>1, <2>1, <2>2, TimesStay DEF IInv, Types
  <1> QED
    BY <1>2, <1>3 DEF SavePlayer

-----------------------------------------------------------------------------

\* The invariant holds at the start: nothing is loaded, queued or saved.
LEMMA InitInv == Init => IInv
  <1> SUFFICES ASSUME Init PROVE IInv
    OBVIOUS
  <1> USE SaveAssumption
  <1>1. JobsType
    BY IdleIsJob DEF Init, JobsType
  <1>2. \A t \in Threads : job[t] = Idle
    BY DEF Init
  <1>3. OneSaverPerObject /\ NoUseAfterFree
    BY <1>2, IdleIsJob DEF OneSaverPerObject, NoUseAfterFree, Referenced
  <1>4. Everywhere(0) \in [Tables -> Versions \union {Gone}] /\ 0 \in Versions
    BY DEF Everywhere, Versions
  <1>5. ObjectsType /\ RowsType /\ HistoryType
    BY <1>4 DEF Init, ObjectsType, RowsType, HistoryType
  <1>6. TimesType
    BY DEF Init, TimesType, NoTime, DefaultTime
  <1>7. QueueType
    BY DEF Init, QueueType
  <1>8. PlayersRowStays
    BY <1>4 DEF Init, PlayersRowStays, Everywhere, Tables
  <1> QED
    BY <1>1, <1>3, <1>5, <1>6, <1>7, <1>8 DEF IInv, Types

-----------------------------------------------------------------------------
(* The dispatcher's handlers.                                              *)

LEMMA ScheduleAllInv ==
  ASSUME IInv, ScheduleAll PROVE IInv'
  <1> USE SaveAssumption
  <1>1. clock + 1 \in 1 .. MaxSchedules /\ clock + 1 \in 0 .. MaxSchedules
    BY DEF ScheduleAll, IInv, Types, TimesType
  <1>2. QueueType'
    <2>1. [op |-> "all", object |-> NoObject, at |-> clock + 1] \in Tasks
      BY <1>1 DEF Tasks, Times
    <2> QED
      BY <2>1 DEF ScheduleAll, IInv, Types, QueueType
  <1>3. TimesType'
    BY <1>1 DEF ScheduleAll, IInv, Types, TimesType
  <1>4. JobsType' /\ OneSaverPerObject' /\ NoUseAfterFree'
    BY SameJobs DEF ScheduleAll, objectVars, IInv, Types, Alive
  <1>5. UNCHANGED <<state, online, data, row, shutdown, failed, newest, latest, asked, rushed>>
    BY DEF ScheduleAll, objectVars, history
  <1>6. ObjectsType' /\ RowsType' /\ HistoryType' /\ PlayersRowStays'
    BY <1>5 DEF IInv, Types, ObjectsType, RowsType, HistoryType, PlayersRowStays
  <1> QED
    BY <1>2, <1>3, <1>4, <1>6 DEF IInv, Types

LEMMA SaveAllInv ==
  ASSUME IInv, SaveAll PROVE IInv'
  <1> USE SaveAssumption
  <1>1. UNCHANGED <<state, online, data, row, shutdown, failed, newest, latest, rushed>> /\ UNCHANGED taskVars
    BY DEF SaveAll, SaveNow, objectVars
  <1>2. TimesType' /\ QueueType'
    BY <1>1, TimesStay DEF IInv, Types
  <1>3. JobsType' /\ OneSaverPerObject' /\ NoUseAfterFree'
    <2>1. \A o \in OnlineObjects : Alive(o)'
      BY <1>1 DEF OnlineObjects, Alive
    <2>2. /\ job' = [job EXCEPT ![Dispatcher].left = OnlineObjects]
          /\ OnlineObjects \in SUBSET Objects
          /\ Dispatcher \in Threads
          /\ job[Dispatcher].object = NoObject
      BY IdleIsJob DEF SaveAll, SaveNow, DispatcherFree, OnlineObjects, Threads
    <2>3. \A o \in Objects : Alive(o) => Alive(o)'
      BY <1>1 DEF Alive
    <2> QED
      BY <2>1, <2>2, <2>3, GivenJob DEF IInv, Types
  <1>4. asked' \in [Objects -> [Tables -> Versions \union {Gone}]]
    BY DEF SaveAll, IInv, Types, HistoryType, ObjectsType
  <1>5. ObjectsType' /\ RowsType' /\ HistoryType' /\ PlayersRowStays'
    BY <1>1, <1>4 DEF IInv, Types, ObjectsType, RowsType, HistoryType, PlayersRowStays
  <1> QED
    BY <1>2, <1>3, <1>5 DEF IInv, Types

\* A load starts with the row of table players.
LEMMA BeginLoadInv ==
  ASSUME IInv, NEW o \in Objects, BeginLoad(o) PROVE IInv'
  <1> USE SaveAssumption
  <1>1. UNCHANGED <<online, row, job, shutdown, failed, newest, latest>> /\ UNCHANGED taskVars
    BY DEF BeginLoad
  <1>2. TimesType' /\ QueueType'
    BY <1>1, TimesStay DEF IInv, Types
  <1>3. Owner[o] \in Players
    OBVIOUS
  <1>4. ObjectsType' /\ PlayersRowStays'
    BY <1>1, <1>3 DEF BeginLoad, IInv, Types, ObjectsType, RowsType, PlayersRowStays
  <1>5. JobsType' /\ OneSaverPerObject' /\ NoUseAfterFree'
    <2>1. \A q \in Objects : Alive(q) => Alive(q)'
      BY DEF BeginLoad, Alive, IInv, Types, ObjectsType
    <2> QED
      BY <1>1, <2>1, SameJobs DEF IInv, Types
  <1>6. asked' \in [Objects -> [Tables -> Versions \union {Gone}]] /\ rushed' \subseteq Players
    BY <1>3 DEF BeginLoad, IInv, Types, RowsType, HistoryType
  <1>7. RowsType' /\ HistoryType'
    BY <1>1, <1>6 DEF IInv, Types, RowsType, HistoryType
  <1> QED
    BY <1>2, <1>4, <1>5, <1>7 DEF IInv, Types

LEMMA EndLoadInv ==
  ASSUME IInv, NEW o \in Objects, NEW as \in {"online", "copy"}, EndLoad(o, as) PROVE IInv'
  <1> USE SaveAssumption
  <1>1. UNCHANGED <<row, job, shutdown, failed, newest, latest, rushed>> /\ UNCHANGED taskVars
    BY DEF EndLoad
  <1>2. TimesType' /\ QueueType'
    BY <1>1, TimesStay DEF IInv, Types
  <1>3. row[Owner[o]]["items"] \in Versions \union {Gone}
    BY DEF IInv, Types, RowsType, Tables
  <1>4. ObjectsType' /\ PlayersRowStays'
    BY <1>1, <1>3 DEF EndLoad, IInv, Types, ObjectsType, PlayersRowStays, Tables
  <1>5. JobsType' /\ OneSaverPerObject' /\ NoUseAfterFree'
    <2>1. \A q \in Objects : Alive(q) => Alive(q)'
      BY DEF EndLoad, Alive, IInv, Types, ObjectsType
    <2> QED
      BY <1>1, <2>1, SameJobs DEF IInv, Types
  <1>6. RowsType' /\ HistoryType'
    BY <1>1, <1>3 DEF EndLoad, IInv, Types, RowsType, HistoryType, Tables
  <1> QED
    BY <1>2, <1>4, <1>5, <1>6 DEF IInv, Types

LEMMA ChangeInv ==
  ASSUME IInv, NEW o \in Objects, Change(o) PROVE IInv'
  <1> USE SaveAssumption
  <1>1. UNCHANGED <<state, online, row, job, shutdown, failed, asked, rushed>> /\ UNCHANGED taskVars
    BY DEF Change
  <1>2. TimesType' /\ QueueType'
    BY <1>1, TimesStay DEF IInv, Types
  <1>3. Owner[o] \in Players /\ newest[Owner[o]] + 1 \in Versions
    BY DEF Change, IInv, Types, HistoryType, Versions
  <1>4. Everywhere(newest[Owner[o]] + 1) \in [Tables -> Versions \union {Gone}]
        /\ Everywhere(newest[Owner[o]] + 1)["players"] \in Versions
    BY <1>3 DEF Everywhere, Tables
  <1>5. ObjectsType' /\ PlayersRowStays'
    BY <1>1, <1>4 DEF Change, IInv, Types, ObjectsType, PlayersRowStays
  <1>6. JobsType' /\ OneSaverPerObject' /\ NoUseAfterFree'
    BY <1>1, SameJobs DEF Alive, IInv, Types
  <1>7. RowsType'
    BY <1>1 DEF IInv, Types, RowsType
  <1>8. HistoryType'
    BY <1>1, <1>3 DEF Change, IInv, Types, HistoryType
  <1> QED
    BY <1>2, <1>5, <1>6, <1>7, <1>8 DEF IInv, Types

LEMMA SaveOnlineInv ==
  ASSUME IInv, NEW o \in Objects, SaveOnline(o) PROVE IInv'
  <1>1. UNCHANGED <<state, online, data, row, shutdown, failed, newest, latest, rushed>>
    BY DEF SaveOnline, objectVars
  <1>2. Alive(o)' /\ \A q \in Objects : Alive(q) => Alive(q)'
    BY <1>1 DEF SaveOnline, Alive
  <1>3. /\ TimesType' /\ QueueType' /\ asked' \in [Objects -> [Tables -> Versions \union {Gone}]]
        /\ JobsType' /\ OneSaverPerObject' /\ NoUseAfterFree'
    BY <1>2, SavePlayerAsks DEF SaveOnline, DispatcherFree
  <1>4. ObjectsType' /\ RowsType' /\ HistoryType' /\ PlayersRowStays'
    BY <1>1, <1>3 DEF IInv, Types, ObjectsType, RowsType, HistoryType, PlayersRowStays
  <1> QED
    BY <1>3, <1>4 DEF IInv, Types

\* The object is saved as it leaves the game or dies, and stays alive.
LEMMA LeaveInv ==
  ASSUME IInv, NEW o \in Objects, Leave(o) \/ Die(o) PROVE IInv'
  <1>1. UNCHANGED <<online, data, row, shutdown, failed, newest, latest, rushed>>
    BY DEF Leave, Die
  <1>2. ObjectsType'
    BY <1>1 DEF Leave, Die, IInv, Types, ObjectsType
  <1>3. Alive(o)' /\ \A q \in Objects : Alive(q) => Alive(q)'
    BY DEF Leave, Die, Alive, IInv, Types, ObjectsType
  <1>4. /\ TimesType' /\ QueueType' /\ asked' \in [Objects -> [Tables -> Versions \union {Gone}]]
        /\ JobsType' /\ OneSaverPerObject' /\ NoUseAfterFree'
    BY <1>3, SavePlayerAsks DEF Leave, Die, DispatcherFree
  <1>5. RowsType' /\ HistoryType' /\ PlayersRowStays'
    BY <1>1, <1>4 DEF IInv, Types, RowsType, HistoryType, PlayersRowStays
  <1> QED
    BY <1>2, <1>4, <1>5 DEF IInv, Types

\* A dead player's object goes back into the game, or is let go.
LEMMA AfterDeathInv ==
  ASSUME IInv, NEW o \in Objects, Respawn(o) \/ ReleaseDead(o) PROVE IInv'
  <1>1. UNCHANGED <<online, data, row, job, shutdown, failed, newest, asked, rushed>> /\ UNCHANGED taskVars
    BY DEF Respawn, ReleaseDead, history
  <1>2. TimesType' /\ QueueType'
    BY <1>1, TimesStay DEF IInv, Types
  <1>3. ObjectsType'
    BY <1>1 DEF Respawn, ReleaseDead, IInv, Types, ObjectsType
  <1>4. \A q \in Objects : Alive(q) => Alive(q)'
    BY DEF Respawn, ReleaseDead, Alive, IInv, Types, ObjectsType
  <1>5. JobsType' /\ OneSaverPerObject' /\ NoUseAfterFree'
    BY <1>1, <1>4, SameJobs DEF IInv, Types
  <1>6. latest' \in [Players -> Versions]
    BY SaveAssumption DEF Respawn, ReleaseDead, history, IInv, Types, HistoryType, PlayersRowStays
  <1>7. RowsType' /\ HistoryType' /\ PlayersRowStays'
    BY <1>1, <1>6 DEF IInv, Types, RowsType, HistoryType, PlayersRowStays
  <1> QED
    BY <1>2, <1>3, <1>5, <1>7 DEF IInv, Types

\* Only an object that no job refers to is freed.
LEMMA FreeInv ==
  ASSUME IInv, NEW o \in Objects, Free(o) PROVE IInv'
  <1>1. UNCHANGED <<online, data, row, job, shutdown, failed, newest, latest, asked, rushed>> /\ UNCHANGED taskVars
    BY DEF Free, history
  <1>2. TimesType' /\ QueueType'
    BY <1>1, TimesStay DEF IInv, Types
  <1>3. ObjectsType'
    BY <1>1 DEF Free, IInv, Types, ObjectsType
  <1>4. \A q \in Objects : Alive(q) /\ Referenced(q) => Alive(q)'
    BY DEF Free, Alive, IInv, Types, ObjectsType
  <1>5. JobsType' /\ OneSaverPerObject' /\ NoUseAfterFree'
    BY <1>1, <1>4, SameJobs DEF IInv, Types
  <1>6. RowsType' /\ HistoryType' /\ PlayersRowStays'
    BY <1>1 DEF IInv, Types, RowsType, HistoryType, PlayersRowStays
  <1> QED
    BY <1>2, <1>3, <1>5, <1>6 DEF IInv, Types

LEMMA ShutdownInv ==
  ASSUME IInv, Shutdown PROVE IInv'
  <1>1. UNCHANGED <<state, online, data, row, job, failed, newest, latest, asked, rushed>> /\ UNCHANGED taskVars
    BY DEF Shutdown, objectVars, history
  <1>2. TimesType' /\ QueueType'
    BY <1>1, TimesStay DEF IInv, Types
  <1>3. JobsType' /\ OneSaverPerObject' /\ NoUseAfterFree'
    BY <1>1, SameJobs DEF Alive, IInv, Types
  <1>4. ObjectsType' /\ RowsType' /\ HistoryType' /\ PlayersRowStays'
    BY <1>1 DEF Shutdown, IInv, Types, ObjectsType, RowsType, HistoryType, PlayersRowStays
  <1> QED
    BY <1>2, <1>3, <1>4 DEF IInv, Types

-----------------------------------------------------------------------------
(* The pool's tasks, and the saves.                                        *)

\* The weak reference is locked, so the thread is given an object that is alive.
LEMMA TakeInv ==
  ASSUME IInv, NEW t \in Pool, Take(t) PROVE IInv'
  <1> USE SaveAssumption
  <1> DEFINE task == Head(queue)
             p    == Owner[task.object]
  <1>1. UNCHANGED <<state, online, data, row, scheduledAt, clock, shutdown, failed, newest, latest, asked, rushed>>
    BY DEF Take, objectVars, history
  <1>2. task \in Tasks /\ QueueType'
    BY QueueFacts DEF Take, IInv, Types, QueueType
  <1>3. ObjectsType' /\ RowsType' /\ HistoryType' /\ PlayersRowStays'
    BY <1>1 DEF IInv, Types, ObjectsType, RowsType, HistoryType, PlayersRowStays
  <1>4. task.op = "player" => task.object \in Objects /\ p \in Players
    BY <1>2 DEF Tasks
  <1>5. TimesType'
    <2>1. DefaultTime \in DefaultTime .. MaxSchedules
      BY DEF DefaultTime
    <2>2. \/ playerMap' = playerMap
          \/ task.op = "player" /\ playerMap' = [playerMap EXCEPT ![p] = DefaultTime]
      BY DEF Take
    <2>3. playerMap' \in [Players -> DefaultTime .. MaxSchedules]
      BY <1>4, <2>1, <2>2 DEF IInv, Types, TimesType
    <2> QED
      BY <1>1, <2>3 DEF IInv, Types, TimesType
  <1>6. JobsType' /\ OneSaverPerObject' /\ NoUseAfterFree'
    <2>1. \A o \in Objects : Alive(o) => Alive(o)'
      BY <1>1 DEF Alive
    <2>2. CASE job' = job
      BY <2>1, <2>2, SameJobs DEF IInv, Types
    <2>3. CASE job' = [job EXCEPT ![t].left = OnlineObjects]
      <3>1. OnlineObjects \in SUBSET Objects /\ \A o \in OnlineObjects : Alive(o)'
        BY <1>1 DEF OnlineObjects, Alive
      <3>2. t \in Threads /\ job[t].object = NoObject
        BY IdleIsJob DEF Take, Threads
      <3> QED
        BY <2>1, <2>3, <3>1, <3>2, GivenJob DEF IInv, Types
    <2>4. CASE /\ task.op = "player" /\ Alive(task.object)
               /\ job' = [job EXCEPT ![t].left = {task.object}]
      <3>1. {task.object} \in SUBSET Objects /\ \A o \in {task.object} : Alive(o)'
        BY <1>1, <1>4, <2>4 DEF Alive
      <3>2. t \in Threads /\ job[t].object = NoObject
        BY IdleIsJob DEF Take, Threads
      <3> QED
        BY <2>1, <2>4, <3>1, <3>2, GivenJob DEF IInv, Types
    <2>5. \/ job' = job
          \/ job' = [job EXCEPT ![t].left = OnlineObjects]
          \/ /\ task.op = "player" /\ Alive(task.object)
             /\ job' = [job EXCEPT ![t].left = {task.object}]
      BY DEF Take
    <2> QED
      BY <2>2, <2>3, <2>4, <2>5
  <1> QED
    BY <1>2, <1>3, <1>5, <1>6 DEF IInv, Types

\* PlayerLock: the object was locked by no thread.
LEMMA LockInv ==
  ASSUME IInv, NEW t \in Threads, NEW o \in Objects, Lock(t, o) PROVE IInv'
  <1> USE SaveAssumption
  <1>1. /\ UNCHANGED <<state, online, data, row, scheduledAt, queue, clock>>
        /\ UNCHANGED <<shutdown, failed, newest, latest, asked, rushed>>
    BY DEF Lock, objectVars, history
  <1>2. job' = [job EXCEPT ![t] = [left |-> job[t].left \ {o}, object |-> o, next |-> 1]]
    BY DEF Lock
  <1>3. JobsType'
    BY <1>2, StatementsFacts DEF IInv, Types, JobsType, Jobs
  <1>4. OneSaverPerObject'
    BY <1>2 DEF Lock, Locked, IInv, Types, JobsType, Jobs, OneSaverPerObject
  <1>5. NoUseAfterFree'
    BY <1>1, <1>2 DEF Lock, Alive, Referenced, IInv, Types, JobsType, Jobs, NoUseAfterFree
  <1>6. TimesType' /\ QueueType'
    <2>1. NoTime \in DefaultTime .. MaxSchedules
      BY DEF NoTime, DefaultTime
    <2>2. TimesType'
      BY <1>1, <2>1 DEF Lock, IInv, Types, TimesType
    <2> QED
      BY <1>1, <2>2 DEF IInv, Types, QueueType
  <1>7. ObjectsType' /\ RowsType' /\ HistoryType' /\ PlayersRowStays'
    BY <1>1 DEF IInv, Types, ObjectsType, RowsType, HistoryType, PlayersRowStays
  <1> QED
    BY <1>3, <1>4, <1>5, <1>6, <1>7 DEF IInv, Types

\* The end of the save of an object, and the move to its next statement.
LEMMA JobGoesOn ==
  ASSUME IInv, NEW t \in Threads, UNCHANGED state,
         \/ job' = Unlock(t)
         \/ job[t].next # 3 /\ job' = [job EXCEPT ![t].next = @ + 1]
  PROVE  JobsType' /\ OneSaverPerObject' /\ NoUseAfterFree'
  <1> USE SaveAssumption
  <1>1. CASE job' = Unlock(t)
    <2>1. job' = [job EXCEPT ![t] = [left |-> job[t].left, object |-> NoObject, next |-> 1]]
      BY <1>1 DEF Unlock, Idle
    <2>2. JobsType'
      BY <2>1, StatementsFacts DEF IInv, Types, JobsType, Jobs
    <2>3. OneSaverPerObject' /\ NoUseAfterFree'
      BY <2>1 DEF IInv, Types, JobsType, Jobs, OneSaverPerObject, NoUseAfterFree, Referenced, Alive
    <2> QED
      BY <2>2, <2>3
  <1>2. CASE job[t].next # 3 /\ job' = [job EXCEPT ![t].next = @ + 1]
    <2>1. job[t].next + 1 \in DOMAIN Statements
      BY <1>2, StatementsFacts DEF IInv, Types, JobsType, Jobs
    <2>2. JobsType'
      BY <1>2, <2>1 DEF IInv, Types, JobsType, Jobs
    <2>3. OneSaverPerObject' /\ NoUseAfterFree'
      BY <1>2 DEF IInv, Types, JobsType, Jobs, OneSaverPerObject, NoUseAfterFree, Referenced, Alive
    <2> QED
      BY <2>2, <2>3
  <1> QED
    BY <1>1, <1>2

\* Only the tables that a save fills again are ever emptied.
LEMMA ExecuteInv ==
  ASSUME IInv, NEW t \in Threads, Execute(t) PROVE IInv'
  <1> USE SaveAssumption
  <1> DEFINE o == job[t].object
             s == Statements[job[t].next]
             v == IF s.op = "delete" THEN Gone ELSE data[o][s.table]
  <1>1. UNCHANGED <<state, online, data, shutdown, newest, latest, asked, rushed>> /\ UNCHANGED taskVars
    BY DEF Execute, objectVars
  <1>2. o \in Objects /\ Owner[o] \in Players /\ job[t].next \in {1, 2, 3}
    BY StatementsFacts DEF Execute, IInv, Types, JobsType, Jobs
  <1>3. row' = [row EXCEPT ![Owner[o]][s.table] = v]
    BY DEF Execute
  <1>4. s.table \in Tables /\ (s.table = "players" => s.op = "write")
    BY <1>2, StatementsFacts DEF Tables
  <1>5. v \in Versions \union {Gone} /\ (s.table = "players" => v \in Versions)
    BY <1>2, <1>4 DEF IInv, Types, ObjectsType, PlayersRowStays
  <1> HIDE DEF s, v
  <1>6. RowsType'
    BY <1>2, <1>3, <1>4, <1>5 DEF IInv, Types, RowsType
  <1>7. PlayersRowStays'
    BY <1>1, <1>2, <1>3, <1>4, <1>5 DEF IInv, Types, RowsType, PlayersRowStays, Tables
  <1>8. TimesType' /\ QueueType'
    BY <1>1, TimesStay DEF IInv, Types
  <1>9. failed' \subseteq Players
    BY DEF Execute, IInv, Types, HistoryType
  <1>10. ObjectsType' /\ HistoryType'
    BY <1>1, <1>9 DEF IInv, Types, ObjectsType, HistoryType
  <1>11. JobsType' /\ OneSaverPerObject' /\ NoUseAfterFree'
    BY <1>1, JobGoesOn, StatementsFacts DEF Execute
  <1> QED
    BY <1>6, <1>7, <1>8, <1>10, <1>11 DEF IInv, Types

LEMMA FailInv ==
  ASSUME IInv, NEW t \in Threads, Fail(t) PROVE IInv'
  <1> USE SaveAssumption
  <1>1. UNCHANGED <<state, online, data, row, shutdown, newest, latest, asked, rushed>> /\ UNCHANGED taskVars
    BY DEF Fail, objectVars
  <1>2. JobsType' /\ OneSaverPerObject' /\ NoUseAfterFree'
    BY <1>1, JobGoesOn DEF Fail
  <1>3. TimesType' /\ QueueType'
    BY <1>1, TimesStay DEF IInv, Types
  <1>4. failed' \subseteq Players
    BY DEF Fail, IInv, Types, HistoryType, JobsType, Jobs
  <1>5. ObjectsType' /\ RowsType' /\ HistoryType' /\ PlayersRowStays'
    BY <1>1, <1>4 DEF IInv, Types, ObjectsType, RowsType, HistoryType, PlayersRowStays
  <1> QED
    BY <1>2, <1>3, <1>5 DEF IInv, Types

-----------------------------------------------------------------------------

LEMMA StepInv == IInv /\ [Next]_vars => IInv'
  <1> SUFFICES ASSUME IInv, [Next]_vars PROVE IInv'
    OBVIOUS
  <1>1. CASE Handler
    BY <1>1, ScheduleAllInv, SaveAllInv, ShutdownInv, BeginLoadInv, EndLoadInv, ChangeInv,
       SaveOnlineInv, LeaveInv, AfterDeathInv, FreeInv DEF Handler
  <1>2. ASSUME NEW t \in Threads, Saving(t) PROVE IInv'
    BY <1>2, ExecuteInv, FailInv, LockInv DEF Saving
  <1>3. ASSUME NEW t \in Pool, Take(t) PROVE IInv'
    BY <1>3, TakeInv
  <1>4. CASE UNCHANGED vars
    <2>1. /\ UNCHANGED <<state, online, data, row, job, shutdown>>
          /\ UNCHANGED <<failed, newest, latest, asked, rushed>> /\ UNCHANGED taskVars
      BY <1>4 DEF vars, objectVars, history
    <2>2. TimesType' /\ QueueType'
      BY <2>1, TimesStay DEF IInv, Types
    <2>3. JobsType' /\ OneSaverPerObject' /\ NoUseAfterFree'
      BY <2>1, SameJobs DEF Alive, IInv, Types
    <2>4. ObjectsType' /\ RowsType' /\ HistoryType' /\ PlayersRowStays'
      BY <2>1 DEF IInv, Types, ObjectsType, RowsType, HistoryType, PlayersRowStays
    <2> QED
      BY <2>2, <2>3, <2>4 DEF IInv, Types
  <1> QED
    BY <1>1, <1>2, <1>3, <1>4 DEF Next, PoolStep, Threads

LEMMA Invariance == Spec => []IInv
  <1> QED
    BY InitInv, StepInv, PTL DEF Spec

\* Type correctness, for the variables of the save manager and of the players.
THEOREM TypeCorrect == Spec => []TypeOK
  <1>1. IInv => TypeOK
    BY TypesMakeTypeOK DEF IInv
  <1> QED
    BY <1>1, Invariance, PTL

\* The queue's weak references are locked before use: no thread works on an
\* object that was freed.
THEOREM NoUseAfterFreeHolds == Spec => []NoUseAfterFree
  <1>1. IInv => NoUseAfterFree
    BY DEF IInv
  <1> QED
    BY <1>1, Invariance, PTL

-----------------------------------------------------------------------------
(* Saves on the dispatcher, by statements that do not fail.                *)

Sync == Async = FALSE /\ DbFails = FALSE

InHand == {o \in Objects : o \in job[Dispatcher].left \union {job[Dispatcher].object}}
InUse == {o \in Objects : state[o] \in {"online", "copy"}}
Loaded == {o \in Objects : state[o] \in {"loading", "copy"}}
Latest(p) == Everywhere(latest[p])

\* The pool has nothing to do.
PoolIdle == queue = << >> /\ \A t \in Pool : job[t] = Idle

\* A handler that loads an object does nothing else meanwhile, and nobody else has
\* an object of that player.
LoadsAlone ==
  /\ \A o \in Loaded : InHand = {} /\ Loaded = {o}
  /\ \A o, q \in InUse \union Loaded : Owner[o] = Owner[q] => o = q

\* Whoever works on a player, or saves it, has its last state in the game.
Current ==
  /\ \A o \in InUse \union InHand : data[o] = Latest(Owner[o])
  /\ \A o \in Loaded : data[o]["players"] = latest[Owner[o]]

\* What nobody works on is saved, in every table; what is being saved is written
\* as far as the statements have come.
Settled ==
  /\ \A p \in Players :
       (\A o \in InUse \union InHand : Owner[o] # p) => row[p] = Latest(p)
  /\ job[Dispatcher].object # NoObject /\ job[Dispatcher].next # 1 =>
       row[Owner[job[Dispatcher].object]]["players"] = latest[Owner[job[Dispatcher].object]]

SyncInv == PoolIdle /\ LoadsAlone /\ Current /\ Settled

\* A player has one object in the game or at a death screen; the dead one holds one
\* version of everything, with which it may come back.
Sessions == {o \in Objects : state[o] \in {"online", "dead"}}
DeadKept ==
  /\ \A o, q \in Sessions : Owner[o] = Owner[q] => o = q
  /\ \A o \in Objects : state[o] = "dead" => data[o] = Everywhere(data[o]["players"])

\* A handler that may run finds the dispatcher without objects to save, and nothing
\* loaded.
LEMMA FreeDispatcher ==
  ASSUME IInv, DispatcherFree PROVE InHand = {} /\ Loaded = {}
  <1> USE SaveAssumption
  <1>1. job[Dispatcher].left = {} /\ job[Dispatcher].object = NoObject
    BY IdleIsJob DEF DispatcherFree
  <1> QED
    BY <1>1 DEF DispatcherFree, InHand, Loaded

LEMMA InitSync ==
  ASSUME Init PROVE SyncInv
  <1> USE SaveAssumption
  <1>1. Dispatcher \in Threads /\ \A t \in Threads : job[t] = Idle
    BY DEF Init, Threads
  <1>2. InHand = {} /\ InUse = {} /\ Loaded = {}
    BY <1>1, IdleIsJob DEF Init, InHand, InUse, Loaded
  <1>3. PoolIdle
    BY <1>1 DEF Init, PoolIdle, Threads
  <1>4. \A p \in Players : row[p] = Latest(p)
    BY DEF Init, Latest
  <1> QED
    BY <1>1, <1>2, <1>3, <1>4, IdleIsJob DEF SyncInv, LoadsAlone, Current, Settled

\* The dispatcher begins to save objects in use that are current.
LEMMA SaveBegins ==
  ASSUME IInv, SyncInv, NEW objects \in SUBSET InUse, SaveNow(Dispatcher, objects),
         InHand = {}, job[Dispatcher].object = NoObject,
         UNCHANGED <<data, row, latest>>,
         \A o \in Objects : o \in InUse' => o \in InUse,
         \A o \in InUse \ objects : o \in InUse',
         Loaded' = {}
  PROVE  SyncInv'
  <1> USE SaveAssumption
  <1>1. /\ queue' = queue /\ job' = [job EXCEPT ![Dispatcher].left = objects]
        /\ Dispatcher \in Threads
    BY DEF SaveNow, taskVars, Threads
  <1>2. job'[Dispatcher].left = objects /\ job'[Dispatcher].object = NoObject
    BY <1>1 DEF IInv, Types, JobsType, Jobs
  <1>3. InHand' = objects
    BY <1>2 DEF InHand, InUse
  <1>4. PoolIdle'
    BY <1>1 DEF SyncInv, PoolIdle, IInv, Types, JobsType, Threads
  <1>5. InUse' \subseteq InUse /\ InUse \subseteq InUse' \union InHand'
    BY <1>3 DEF InUse
  <1>6. LoadsAlone'
    BY <1>5 DEF SyncInv, LoadsAlone
  <1>7. Current'
    BY <1>3, <1>5 DEF SyncInv, Current, Latest
  <1>8. Settled'
    BY <1>2, <1>3, <1>5 DEF SyncInv, Settled, Latest
  <1> QED
    BY <1>4, <1>6, <1>7, <1>8 DEF SyncInv

\* Without toggleSaveAsync, savePlayer saves at once.
LEMMA SavesAtOnce ==
  ASSUME Sync, NEW o \in Objects, SavePlayer(o) PROVE SaveNow(Dispatcher, {o})
  <1> QED
    BY DEF Sync, SavePlayer

\* Steps that change no job, no row and no version, and begin or end no use of an
\* object.
LEMMA NothingChanges ==
  ASSUME SyncInv, UNCHANGED <<job, queue, data, row, latest>>,
         InUse' = InUse, Loaded' = Loaded
  PROVE  SyncInv'
  <1> QED
    BY DEF SyncInv, PoolIdle, LoadsAlone, Current, Settled, InHand, Latest

LEMMA SaveAllSync ==
  ASSUME Sync, IInv, SyncInv, SaveAll PROVE SyncInv'
  <1> USE SaveAssumption
  <1>1. InHand = {} /\ Loaded = {} /\ job[Dispatcher].object = NoObject
    BY FreeDispatcher, IdleIsJob DEF SaveAll, DispatcherFree
  <1>2. InUse' = InUse /\ Loaded' = {} /\ OnlineObjects \in SUBSET InUse
    BY <1>1 DEF SaveAll, objectVars, InUse, Loaded, OnlineObjects
  <1>3. SaveNow(Dispatcher, OnlineObjects) /\ UNCHANGED <<data, row, latest>>
    BY DEF SaveAll, objectVars
  <1> QED
    BY <1>1, <1>2, <1>3, SaveBegins

LEMMA SaveOnlineSync ==
  ASSUME Sync, IInv, SyncInv, NEW o \in Objects, SaveOnline(o) PROVE SyncInv'
  <1> USE SaveAssumption
  <1>1. InHand = {} /\ Loaded = {} /\ job[Dispatcher].object = NoObject
    BY FreeDispatcher, IdleIsJob DEF SaveOnline, DispatcherFree
  <1>2. InUse' = InUse /\ Loaded' = {} /\ {o} \in SUBSET InUse
    BY <1>1 DEF SaveOnline, objectVars, InUse, Loaded
  <1>3. SaveNow(Dispatcher, {o}) /\ UNCHANGED <<data, row, latest>>
    BY SavesAtOnce DEF SaveOnline, objectVars
  <1> QED
    BY <1>1, <1>2, <1>3, SaveBegins

\* What leaves the game, or a handler, is at that moment handed to its save.
LEMMA LeaveSync ==
  ASSUME Sync, IInv, SyncInv, NEW o \in Objects, Leave(o) \/ Die(o) PROVE SyncInv'
  <1> USE SaveAssumption
  <1>1. InHand = {} /\ Loaded \subseteq {o} /\ job[Dispatcher].object = NoObject
    <2>1. CASE DispatcherFree
      BY <2>1, FreeDispatcher, IdleIsJob DEF DispatcherFree
    <2>2. CASE state[o] = "copy" /\ job[Dispatcher] = Idle
      BY <2>2, IdleIsJob DEF SyncInv, LoadsAlone, Loaded
    <2> QED
      BY <2>1, <2>2 DEF Leave, Die
  <1>2. o \in InUse /\ \E s \in {"out", "dead"} : state' = [state EXCEPT ![o] = s]
    BY DEF Leave, Die, InUse
  <1>3. InUse' = InUse \ {o} /\ Loaded' = {}
    BY <1>1, <1>2 DEF IInv, Types, ObjectsType, InUse, Loaded
  <1>4. SaveNow(Dispatcher, {o}) /\ UNCHANGED <<data, row, latest>>
    BY SavesAtOnce DEF Leave, Die
  <1> QED
    BY <1>1, <1>2, <1>3, <1>4, SaveBegins

\* A load finds the player settled: nobody uses it and its saves are complete.
LEMMA BeginLoadSync ==
  ASSUME IInv, SyncInv, NEW o \in Objects, BeginLoad(o) PROVE SyncInv'
  <1> USE SaveAssumption
  <1>1. InHand = {} /\ Loaded = {}
    BY FreeDispatcher DEF BeginLoad
  <1>2. /\ UNCHANGED <<job, queue, row, latest>> /\ InHand' = InHand
        /\ state' = [state EXCEPT ![o] = "loading"] /\ state[o] = "unused"
        /\ data' = [data EXCEPT ![o] = row[Owner[o]]]
    BY DEF BeginLoad, taskVars, history, InHand
  <1>3. InUse' = InUse /\ Loaded' = {o} /\ o \notin InUse
    BY <1>1, <1>2 DEF IInv, Types, ObjectsType, InUse, Loaded
  <1>4. \A q \in InUse : Owner[q] # Owner[o]
    BY <1>1 DEF BeginLoad, InUse, Loaded, OnlineObjects
  <1>5. row[Owner[o]] = Latest(Owner[o])
    BY <1>1, <1>4 DEF SyncInv, Settled
  <1>6. PoolIdle' /\ LoadsAlone'
    BY <1>1, <1>2, <1>3, <1>4 DEF SyncInv, PoolIdle, LoadsAlone
  <1>7. Current'
    <2>1. data'[o] = Latest(Owner[o]) /\ \A q \in Objects \ {o} : data'[q] = data[q]
      BY <1>2, <1>5 DEF IInv, Types, ObjectsType
    <2>2. data'[o]["players"] = latest[Owner[o]]
      BY <2>1 DEF Latest, Everywhere, Tables
    <2> QED
      BY <1>1, <1>2, <1>3, <2>1, <2>2 DEF SyncInv, Current, Latest, InUse
  <1>8. Settled'
    BY <1>1, <1>2, <1>3 DEF SyncInv, Settled, Latest
  <1> QED
    BY <1>6, <1>7, <1>8 DEF SyncInv

\* The second half of a load finds the tables as the first half left them.
LEMMA EndLoadFindsLatest ==
  ASSUME IInv, SyncInv, NEW o \in Objects, NEW as \in {"online", "copy"}, EndLoad(o, as)
  PROVE  /\ InHand = {} /\ Loaded = {o} /\ o \notin InUse
         /\ data' = [data EXCEPT ![o] = Latest(Owner[o])]
  <1> USE SaveAssumption
  <1>1. o \in Loaded /\ o \notin InUse
    BY DEF EndLoad, Loaded, InUse
  <1>2. InHand = {} /\ Loaded = {o} /\ \A q \in InUse : Owner[q] # Owner[o]
    BY <1>1 DEF SyncInv, LoadsAlone
  <1>3. row[Owner[o]] = Latest(Owner[o])
    BY <1>2 DEF SyncInv, Settled
  <1>4. data[o]["players"] = latest[Owner[o]] /\ data[o] \in [Tables -> Versions \union {Gone}]
    BY <1>1 DEF SyncInv, Current, IInv, Types, ObjectsType
  <1>5. [data[o] EXCEPT !["items"] = row[Owner[o]]["items"]] = Latest(Owner[o])
    BY <1>3, <1>4 DEF Latest, Everywhere, Tables
  <1>6. data' = [data EXCEPT ![o] = [data[o] EXCEPT !["items"] = row[Owner[o]]["items"]]]
    BY DEF EndLoad
  <1> QED
    BY <1>1, <1>2, <1>5, <1>6

LEMMA EndLoadSync ==
  ASSUME IInv, SyncInv, NEW o \in Objects, NEW as \in {"online", "copy"}, EndLoad(o, as)
  PROVE  SyncInv'
  <1> USE SaveAssumption
  <1>1. /\ InHand = {} /\ Loaded = {o} /\ o \notin InUse
        /\ data' = [data EXCEPT ![o] = Latest(Owner[o])]
    BY EndLoadFindsLatest
  <1>2. /\ UNCHANGED <<job, queue, row, latest>> /\ InHand' = InHand
        /\ state' = [state EXCEPT ![o] = as]
    BY DEF EndLoad, taskVars, history, InHand
  <1>3. InUse' = InUse \union {o} /\ Loaded' \subseteq {o}
    BY <1>1, <1>2 DEF IInv, Types, ObjectsType, InUse, Loaded
  <1>4. PoolIdle' /\ LoadsAlone'
    BY <1>1, <1>2, <1>3 DEF SyncInv, PoolIdle, LoadsAlone
  <1>5. Current'
    <2>1. data'[o] = Latest(Owner[o]) /\ \A q \in Objects \ {o} : data'[q] = data[q]
      BY <1>1 DEF IInv, Types, ObjectsType
    <2>2. data'[o]["players"] = latest[Owner[o]]
      BY <2>1 DEF Latest, Everywhere, Tables
    <2> QED
      BY <1>1, <1>2, <1>3, <2>1, <2>2 DEF SyncInv, Current, Latest
  <1>6. Settled'
    BY <1>1, <1>2, <1>3 DEF SyncInv, Settled, Latest
  <1> QED
    BY <1>4, <1>5, <1>6 DEF SyncInv

\* A change makes its own object the latest, and nobody else has one of the player.
LEMMA ChangeSync ==
  ASSUME IInv, SyncInv, NEW o \in Objects, Change(o) PROVE SyncInv'
  <1> USE SaveAssumption
  <1> DEFINE w == Owner[o]
             v == newest[w] + 1
  <1>1. InHand = {} /\ o \in InUse /\ Loaded \subseteq {o}
    BY FreeDispatcher DEF Change, InUse, Loaded, SyncInv, LoadsAlone
  <1>2. /\ UNCHANGED <<job, queue, row, state>>
        /\ latest' = [latest EXCEPT ![w] = v]
        /\ data' = [data EXCEPT ![o] = Everywhere(v)]
    BY DEF Change, taskVars
  <1>3. InUse' = InUse /\ Loaded' = Loaded /\ InHand' = {}
    BY <1>1, <1>2 DEF InUse, Loaded, InHand
  <1>4. job[Dispatcher].object = NoObject
    BY <1>1 DEF InHand, IInv, Types, JobsType, Jobs, Threads
  <1>5. \A q \in InUse \union Loaded : q = o \/ Owner[q] # w
    BY <1>1 DEF SyncInv, LoadsAlone
  <1>6. latest'[w] = v /\ \A p \in Players \ {w} : latest'[p] = latest[p]
    BY <1>2 DEF IInv, Types, HistoryType
  <1>7. data'[o] = Everywhere(v) /\ \A q \in Objects \ {o} : data'[q] = data[q]
    BY <1>2 DEF IInv, Types, ObjectsType
  <1>8. PoolIdle' /\ LoadsAlone'
    BY <1>1, <1>2, <1>3 DEF SyncInv, PoolIdle, LoadsAlone
  <1>9. Current'
    <2>1. data'[o]["players"] = v
      BY <1>7 DEF Everywhere, Tables
    <2> HIDE DEF v
    <2> QED
      BY <1>1, <1>3, <1>5, <1>6, <1>7, <2>1 DEF SyncInv, Current, Latest, InUse, Loaded
  <1>10. Settled'
    BY <1>1, <1>2, <1>3, <1>4, <1>6 DEF SyncInv, Settled, Latest
  <1> QED
    BY <1>8, <1>9, <1>10 DEF SyncInv

LEMMA GoneSync ==
  ASSUME IInv, SyncInv, NEW o \in Objects, Free(o) \/ ReleaseDead(o) PROVE SyncInv'
  <1>1. InUse' = InUse /\ Loaded' = Loaded
    BY DEF Free, ReleaseDead, InUse, Loaded, IInv, Types, ObjectsType
  <1>2. UNCHANGED <<job, queue, data, row, latest>>
    BY DEF Free, ReleaseDead, taskVars, history
  <1> QED
    BY <1>1, <1>2, NothingChanges

\* The object that comes back makes its own state the last one in the game.
LEMMA RespawnSync ==
  ASSUME IInv, SyncInv, DeadKept, NEW o \in Objects, Respawn(o) PROVE SyncInv'
  <1> USE SaveAssumption
  <1> DEFINE w == Owner[o]
             v == data[o]["players"]
  <1>1. InHand = {} /\ Loaded = {}
    BY FreeDispatcher DEF Respawn
  <1>2. /\ UNCHANGED <<job, queue, row, data>> /\ InHand' = InHand
        /\ state[o] = "dead" /\ state' = [state EXCEPT ![o] = "online"]
        /\ latest' = [latest EXCEPT ![w] = v]
    BY DEF Respawn, taskVars, InHand
  <1>3. InUse' = InUse \union {o} /\ Loaded' = {}
    BY <1>1, <1>2 DEF IInv, Types, ObjectsType, InUse, Loaded
  <1>4. \A q \in InUse : Owner[q] # w
    BY <1>1, <1>2 DEF DeadKept, Sessions, InUse, Loaded
  <1>5. w \in Players /\ latest'[w] = v /\ \A p \in Players \ {w} : latest'[p] = latest[p]
    BY <1>2 DEF IInv, Types, HistoryType
  <1>6. data[o] = Everywhere(v)
    BY <1>2 DEF DeadKept
  <1>7. job[Dispatcher].object = NoObject
    BY IdleIsJob DEF Respawn, DispatcherFree
  <1>8. PoolIdle' /\ LoadsAlone'
    BY <1>1, <1>2, <1>3, <1>4 DEF SyncInv, PoolIdle, LoadsAlone
  <1> HIDE DEF v
  <1>9. Current'
    BY <1>1, <1>2, <1>3, <1>4, <1>5, <1>6 DEF SyncInv, Current, Latest, InUse
  <1>10. Settled'
    BY <1>1, <1>2, <1>3, <1>5, <1>7 DEF SyncInv, Settled, Latest
  <1> QED
    BY <1>8, <1>9, <1>10 DEF SyncInv

\* Only the dispatcher saves; a lock moves an object within its job.
LEMMA LockSync ==
  ASSUME IInv, SyncInv, NEW t \in Threads, NEW o \in Objects, Lock(t, o) PROVE SyncInv'
  <1> USE SaveAssumption
  <1>1. t = Dispatcher
    BY IdleIsJob DEF SyncInv, PoolIdle, Lock, Threads
  <1>2. /\ job' = [job EXCEPT ![t] = [left |-> job[t].left \ {o}, object |-> o, next |-> 1]]
        /\ o \in job[t].left /\ job[t].object = NoObject
        /\ UNCHANGED <<state, queue, data, row, latest>>
    BY DEF Lock, objectVars, history
  <1>3. job'[t] = [left |-> job[t].left \ {o}, object |-> o, next |-> 1]
    BY <1>2 DEF IInv, Types, JobsType
  <1>4. InUse' = InUse /\ Loaded' = Loaded /\ InHand' = InHand
    BY <1>1, <1>2, <1>3 DEF InUse, Loaded, InHand
  <1>5. PoolIdle'
    BY <1>1, <1>2 DEF SyncInv, PoolIdle, IInv, Types, JobsType, Threads
  <1>6. LoadsAlone' /\ Current'
    BY <1>2, <1>4 DEF SyncInv, LoadsAlone, Current, Latest
  <1>7. Settled'
    BY <1>1, <1>2, <1>3, <1>4 DEF SyncInv, Settled, Latest
  <1> QED
    BY <1>5, <1>6, <1>7 DEF SyncInv

\* A statement writes current data; after the last one both tables are written.
LEMMA ExecuteSync ==
  ASSUME IInv, SyncInv, NEW t \in Threads, Execute(t) PROVE SyncInv'
  <1> USE SaveAssumption
  <1> DEFINE o == job[t].object
             w == Owner[o]
             s == Statements[job[t].next]
             v == IF s.op = "delete" THEN Gone ELSE data[o][s.table]
  <1>1. t = Dispatcher /\ o \in Objects /\ w \in Players /\ job[t].next \in {1, 2, 3}
    BY IdleIsJob, StatementsFacts
       DEF SyncInv, PoolIdle, Execute, Threads, IInv, Types, JobsType, Jobs
  <1>2. /\ row' = [row EXCEPT ![w][s.table] = v]
        /\ UNCHANGED <<state, queue, data, latest>>
        /\ job' = IF job[t].next = 3 THEN Unlock(t) ELSE [job EXCEPT ![t].next = @ + 1]
    BY StatementsFacts DEF Execute, objectVars, taskVars
  <1>3. o \in InHand /\ data[o] = Latest(w) /\ Loaded = {}
    BY <1>1 DEF InHand, SyncInv, Current, LoadsAlone
  <1>4. data[o]["players"] = latest[w] /\ data[o]["items"] = latest[w]
    BY <1>3 DEF Latest, Everywhere, Tables
  <1>5. /\ job'[t].left = job[t].left
        /\ job'[t].object = IF job[t].next = 3 THEN NoObject ELSE o
        /\ \A u \in Threads \ {t} : job'[u] = job[u]
    BY <1>2 DEF Unlock, Idle, IInv, Types, JobsType, Jobs
  <1>6. InUse' = InUse /\ Loaded' = {} /\ InHand' \subseteq InHand
    BY <1>1, <1>2, <1>3, <1>5 DEF InUse, Loaded, InHand
  <1>7. \A q \in InHand : q \in InHand' \/ (q = o /\ job[t].next = 3)
    BY <1>1, <1>5 DEF InHand
  <1>8. PoolIdle'
    BY <1>1, <1>2, <1>5 DEF SyncInv, PoolIdle, Threads
  <1>9. LoadsAlone' /\ Current'
    BY <1>2, <1>6 DEF SyncInv, LoadsAlone, Current, Latest
  <1>10. \A p \in Players \ {w} : row'[p] = row[p]
    BY <1>2 DEF IInv, Types, RowsType
  <1>11. row[w] \in [Tables -> Versions \union {Gone}] /\ row'[w] = [row[w] EXCEPT ![s.table] = v]
    BY <1>1, <1>2 DEF IInv, Types, RowsType
  <1>12. ASSUME job[t].next # 3, row'[w]["players"] = latest[w] PROVE SyncInv'
    <2>1. o \in InHand' /\ job'[Dispatcher].object = o /\ InHand' = InHand
      BY <1>1, <1>3, <1>5, <1>6, <1>7, <1>12
    <2>2. ASSUME NEW p \in Players, \A q \in InUse' \union InHand' : Owner[q] # p
          PROVE  row'[p] = Latest(p)'
      <3>1. p # w /\ row'[p] = row[p]
        BY <1>10, <2>1, <2>2
      <3>2. \A q \in InUse \union InHand : Owner[q] # p
        BY <1>6, <2>1, <2>2
      <3> QED
        BY <1>2, <3>1, <3>2 DEF SyncInv, Settled, Latest
    <2>3. Settled'
      <3>1. row'[Owner[o]]["players"] = latest'[Owner[o]]
        BY <1>2, <1>12
      <3> QED
        BY <2>1, <2>2, <3>1 DEF Settled
    <2> QED
      BY <1>8, <1>9, <2>3 DEF SyncInv
  <1>13. CASE job[t].next = 1
    <2>1. row'[w]["players"] = latest[w]
      BY <1>4, <1>11, <1>13, StatementsFacts DEF Tables
    <2> QED
      BY <1>13, <1>12, <2>1
  <1>14. CASE job[t].next = 2
    <2>1. row'[w]["players"] = latest[w]
      BY <1>1, <1>11, <1>14, StatementsFacts DEF Tables, SyncInv, Settled
    <2> QED
      BY <1>14, <1>12, <2>1
  <1>15. CASE job[t].next = 3
    <2>1. row[w]["players"] = latest[w]
      BY <1>1, <1>15 DEF SyncInv, Settled
    <2>2. row'[w] = [row[w] EXCEPT !["items"] = latest[w]]
      BY <1>4, <1>11, <1>15, StatementsFacts
    <2>3. row'[w] = Latest(w)
      BY <1>11, <2>1, <2>2 DEF Latest, Everywhere, Tables
    <2>4. ASSUME NEW p \in Players, \A q \in InUse' \union InHand' : Owner[q] # p
          PROVE  row'[p] = Latest(p)'
      <3>1. CASE p = w
        BY <1>2, <2>3, <3>1 DEF Latest
      <3>2. CASE p # w
        <4>1. row'[p] = row[p]
          BY <1>10, <2>4, <3>2
        <4>2. \A q \in InUse \union InHand : Owner[q] # p
          BY <1>6, <1>7, <2>4, <3>2
        <4> QED
          BY <1>2, <4>1, <4>2 DEF SyncInv, Settled, Latest
      <3> QED
        BY <3>1, <3>2
    <2>5. job'[Dispatcher].object = NoObject
      BY <1>1, <1>5, <1>15
    <2>6. Settled'
      BY <2>4, <2>5 DEF Settled
    <2> QED
      BY <1>8, <1>9, <2>6 DEF SyncInv
  <1> QED
    BY <1>1, <1>13, <1>14, <1>15

LEMMA StepSync ==
  ASSUME Sync, IInv, SyncInv, DeadKept, [Next]_vars PROVE SyncInv'
  <1>1. ASSUME ScheduleAll PROVE FALSE
    BY <1>1 DEF Sync, ScheduleAll
  <1>2. ASSUME NEW t \in Pool, Take(t) PROVE FALSE
    BY <1>2 DEF SyncInv, PoolIdle, Take
  <1>3. ASSUME NEW t \in Threads, Fail(t) PROVE FALSE
    BY <1>3 DEF Sync, Fail
  <1>4. CASE Shutdown
    <2>1. InUse' = InUse /\ Loaded' = Loaded /\ UNCHANGED <<job, queue, data, row, latest>>
      BY <1>4 DEF Shutdown, objectVars, taskVars, history, InUse, Loaded
    <2> QED
      BY <2>1, NothingChanges
  <1>5. CASE UNCHANGED vars
    <2>1. InUse' = InUse /\ Loaded' = Loaded /\ UNCHANGED <<job, queue, data, row, latest>>
      BY <1>5 DEF vars, objectVars, taskVars, history, InUse, Loaded
    <2> QED
      BY <2>1, NothingChanges
  <1>6. CASE Handler
    BY <1>1, <1>4, <1>6, SaveAllSync, BeginLoadSync, EndLoadSync, ChangeSync, SaveOnlineSync,
       LeaveSync, RespawnSync, GoneSync DEF Handler
  <1>7. ASSUME NEW t \in Threads, Saving(t) PROVE SyncInv'
    BY <1>3, <1>7, ExecuteSync, LockSync DEF Saving
  <1> QED
    BY <1>2, <1>5, <1>6, <1>7 DEF Next, PoolStep, Threads

\* The steps that move an object between the states of its life.
LifeStep(o) ==
  \/ BeginLoad(o) \/ Leave(o) \/ Die(o) \/ Respawn(o) \/ ReleaseDead(o) \/ Free(o)
  \/ \E as \in {"online", "copy"} : EndLoad(o, as)

LEMMA OneLifeMoves ==
  ASSUME Next PROVE \/ \E o \in Objects : LifeStep(o)
                    \/ UNCHANGED <<state, data>>
                    \/ state' = state /\ \E o \in Objects : Change(o)
  <1>1. ASSUME ScheduleAll \/ SaveAll \/ Shutdown PROVE UNCHANGED <<state, data>>
    BY <1>1 DEF ScheduleAll, SaveAll, Shutdown, objectVars
  <1>2. ASSUME NEW o \in Objects, SaveOnline(o) PROVE UNCHANGED <<state, data>>
    BY <1>2 DEF SaveOnline, objectVars
  <1>3. ASSUME NEW o \in Objects, Change(o) PROVE state' = state
    BY <1>3 DEF Change
  <1>4. Handler => \/ \E o \in Objects : LifeStep(o)
                   \/ UNCHANGED <<state, data>>
                   \/ state' = state /\ \E o \in Objects : Change(o)
    BY <1>1, <1>2, <1>3 DEF Handler, LifeStep
  <1>5. ASSUME NEW t \in Threads, Saving(t) PROVE UNCHANGED <<state, data>>
    BY <1>5 DEF Saving, Execute, Fail, Lock, objectVars
  <1>6. ASSUME NEW t \in Pool, Take(t) PROVE UNCHANGED <<state, data>>
    BY <1>6 DEF Take, objectVars
  <1> QED
    BY <1>4, <1>5, <1>6 DEF Next, PoolStep, Threads

\* Steps that touch no session and no dead object's data.
LEMMA DeadStay ==
  ASSUME DeadKept, Sessions' \subseteq Sessions,
         \A o \in Objects : state'[o] = "dead" => state[o] = "dead" /\ data'[o] = data[o]
  PROVE  DeadKept'
  <1> QED
    BY DEF DeadKept

\* Nobody logs in whose character is dead or in the game, and who dies is current.
LEMMA StepDead ==
  ASSUME IInv, SyncInv, DeadKept, [Next]_vars PROVE DeadKept'
  <1>1. CASE UNCHANGED <<state, data>>
    BY <1>1, DeadStay DEF Sessions
  <1>2. ASSUME state' = state, NEW o \in Objects, Change(o) PROVE DeadKept'
    <2>1. data' = [data EXCEPT ![o] = Everywhere(newest[Owner[o]] + 1)] /\ state[o] # "dead"
      BY <1>2 DEF Change
    <2> QED
      BY <1>2, <2>1, DeadStay DEF Sessions, IInv, Types, ObjectsType
  <1>3. ASSUME NEW o \in Objects, LifeStep(o) PROVE DeadKept'
    <2>1. CASE BeginLoad(o)
      BY <2>1, DeadStay DEF BeginLoad, Sessions, IInv, Types, ObjectsType
    <2>2. CASE Leave(o) \/ ReleaseDead(o) \/ Free(o)
      BY <2>2, DeadStay DEF Leave, ReleaseDead, Free, Sessions, IInv, Types, ObjectsType
    <2>3. CASE Die(o)
      <3>1. /\ o \in InUse /\ state[o] = "online" /\ state' = [state EXCEPT ![o] = "dead"]
            /\ data' = data
        BY <2>3 DEF Die, InUse
      <3>2. data[o] = Everywhere(latest[Owner[o]])
        BY <3>1 DEF SyncInv, Current, Latest
      <3>3. data[o] = Everywhere(data[o]["players"])
        BY <3>2 DEF Everywhere, Tables
      <3>4. Sessions' = Sessions
        BY <3>1 DEF Sessions, IInv, Types, ObjectsType
      <3> QED
        BY <3>1, <3>3, <3>4 DEF DeadKept, IInv, Types, ObjectsType
    <2>4. CASE Respawn(o)
      <3>1. /\ state[o] = "dead" /\ state' = [state EXCEPT ![o] = "online"] /\ data' = data
        BY <2>4 DEF Respawn
      <3> QED
        BY <3>1, DeadStay DEF Sessions, IInv, Types, ObjectsType
    <2>5. ASSUME NEW as \in {"online", "copy"}, EndLoad(o, as) PROVE DeadKept'
      <3>1. state[o] = "loading" /\ state' = [state EXCEPT ![o] = as]
        BY <2>5 DEF EndLoad
      <3>2. \A q \in Objects : q # o => state'[q] = state[q] /\ data'[q] = data[q]
        BY <2>5, <3>1 DEF EndLoad, IInv, Types, ObjectsType
      <3>3. state'[o] # "dead"
        BY <3>1 DEF IInv, Types, ObjectsType
      <3>4. CASE as = "copy"
        BY <3>1, <3>2, <3>3, <3>4, DeadStay DEF Sessions, IInv, Types, ObjectsType
      <3>5. CASE as = "online"
        <4>1. \A q \in Objects : state[q] = "dead" => Owner[q] # Owner[o]
          BY <2>5, <3>5 DEF EndLoad
        <4>2. \A q \in Objects : state[q] = "online" => Owner[q] # Owner[o]
          BY <3>1 DEF SyncInv, LoadsAlone, InUse, Loaded
        <4>3. Sessions' = Sessions \union {o}
          BY <3>1, <3>2, <3>5 DEF Sessions, IInv, Types, ObjectsType
        <4>4. \A q \in Sessions : Owner[q] # Owner[o]
          BY <4>1, <4>2 DEF Sessions
        <4> QED
          BY <3>2, <3>3, <4>3, <4>4 DEF DeadKept
      <3> QED
        BY <3>4, <3>5
    <2> QED
      BY <1>3, <2>1, <2>2, <2>3, <2>4, <2>5 DEF LifeStep
  <1> QED
    BY <1>1, <1>2, <1>3, OneLifeMoves DEF vars, objectVars

\* Without toggleSaveAsync and without failing statements, a load (at login, or for
\* a handler that changes an offline or dead player) gets in every table what the
\* player last had in the game, whatever the handlers, the deaths and returns, the
\* saves and the shutdown in between.
THEOREM LoadsNewestHolds ==
  ASSUME Async = FALSE, DbFails = FALSE
  PROVE  Spec => LoadsNewest
  <1> DEFINE L == \A o \in Objects : state[o] = "loading" /\ state'[o] # "loading" =>
                    data'[o] = Everywhere(latest[Owner[o]])
  <1>1. Init => SyncInv /\ DeadKept
    <2>1. Init => \A o \in Objects : state[o] = "unused"
      BY DEF Init
    <2>2. Init => DeadKept
      BY <2>1 DEF DeadKept, Sessions
    <2> QED
      BY <2>2, InitSync
  <1>2. IInv /\ SyncInv /\ DeadKept /\ [Next]_vars => SyncInv' /\ DeadKept'
    <2>1. Sync
      BY DEF Sync
    <2> QED
      BY <2>1, StepSync, StepDead
  <1>3. IInv /\ SyncInv /\ [Next]_vars => [L]_vars
    <2> SUFFICES ASSUME IInv, SyncInv, Next, NEW o \in Objects,
                        state[o] = "loading", state'[o] # "loading"
                 PROVE  data'[o] = Everywhere(latest[Owner[o]])
      OBVIOUS
    <2>1. PICK q \in Objects : LifeStep(q)
      BY OneLifeMoves DEF Change
    <2>2. /\ ~BeginLoad(q) /\ ~Leave(q) /\ ~Free(q)
          /\ ~Die(q) /\ ~Respawn(q) /\ ~ReleaseDead(q)
      BY DEF BeginLoad, Leave, Die, Respawn, ReleaseDead, Free, IInv, Types, ObjectsType
    <2>3. PICK as \in {"online", "copy"} : EndLoad(q, as)
      BY <2>1, <2>2 DEF LifeStep
    <2>4. q = o
      BY <2>3 DEF EndLoad, IInv, Types, ObjectsType
    <2> QED
      BY <2>3, <2>4, EndLoadFindsLatest DEF Latest, IInv, Types, ObjectsType
  <1> QED
    BY <1>1, <1>2, <1>3, Invariance, PTL DEF Spec, LoadsNewest

-----------------------------------------------------------------------------
(* Saves are not lost, unless a player is loaded while an older object of  *)
(* it lives: the tasks of the pool skip each other by their times, which   *)
(* are kept per player, and saves erase the times.                         *)

\* An object whose player was last loaded when no other object of it was alive.
Calm(o) == Alive(o) /\ Owner[o] \notin rushed

Alone ==
  \A o, q \in Objects : Calm(o) /\ Alive(q) /\ Owner[o] = Owner[q] => o = q

\* What an object holds is as new as what it was asked to save, and as the rows.
Ahead(o) == \A t \in Tables : asked[o][t] <= data[o][t] /\ row[Owner[o]][t] <= data[o][t]

Known ==
  /\ \A o \in Objects, t \in Tables : data[o][t] <= newest[Owner[o]]
  /\ \A p \in Players, t \in Tables : row[p][t] <= newest[p]

\* A task that will not be skipped, unless a save erases its time.
Pending(o) ==
  \E task \in ToSet(queue) : task.op = "player" /\ task.object = o /\ task.at = playerMap[Owner[o]]

Waiting(o) == \E t \in Threads : o \in job[t].left

\* A save that writes what was asked for: it has not begun to write, or has
\* written the first table after that.
Covering(o) ==
  \E t \in Threads :
    job[t].object = o /\ (job[t].next = 1 \/ row[Owner[o]]["players"] >= asked[o]["players"])

\* A save that writes what was asked for is to come or under way, or else none is
\* under way, and the last one has written it or has failed.
Sure(o) ==
  \/ Pending(o) \/ Waiting(o) \/ Covering(o)
  \/ ~ Locked(o) /\ (Reached(o) \/ Owner[o] \in failed)

SureInv == Known /\ Alone /\ \A o \in Objects : Calm(o) => Ahead(o) /\ Sure(o)

\* Versions can be compared.
LEMMA VersionTypes ==
  ASSUME IInv
  PROVE  /\ data \in [Objects -> [Tables -> Int]] /\ asked \in [Objects -> [Tables -> Int]]
         /\ row \in [Players -> [Tables -> Int]] /\ newest \in [Players -> Int]
         /\ "players" \in Tables /\ "items" \in Tables
         /\ \A o \in Objects : Owner[o] \in Players
  <1>1. Versions \union {Gone} \subseteq Int /\ Versions \subseteq Int
    BY SaveAssumption DEF Versions, Gone
  <1>2. [Tables -> Versions \union {Gone}] \subseteq [Tables -> Int]
    BY <1>1
  <1>3. /\ data \in [Objects -> [Tables -> Int]] /\ asked \in [Objects -> [Tables -> Int]]
        /\ row \in [Players -> [Tables -> Int]] /\ newest \in [Players -> Int]
    BY <1>1, <1>2 DEF IInv, Types, ObjectsType, RowsType, HistoryType
  <1> QED
    BY <1>3, SaveAssumption DEF Tables

\* The object a thread works on, or will, is the only one of a calm player.
LEMMA OwnSaver ==
  ASSUME IInv, SureInv, NEW o \in Objects, Alive(o), NEW q \in Objects, Calm(q), q # o
  PROVE  Owner[q] # Owner[o]
  <1> QED
    BY DEF SureInv, Alone

\* The tasks in a queue, when one is added or the first is taken.
LEMMA AddedTask ==
  ASSUME NEW S, NEW q \in Seq(S), NEW task \in S
  PROVE  ToSet(Append(q, task)) = ToSet(q) \union {task}
  <1> DEFINE n == Append(q, task)
  <1>1. /\ n \in Seq(S) /\ Len(n) = Len(q) + 1 /\ Len(q) \in Nat
        /\ DOMAIN q = 1 .. Len(q) /\ DOMAIN n = 1 .. Len(q) + 1
        /\ n[Len(q) + 1] = task /\ \A i \in 1 .. Len(q) : n[i] = q[i]
    OBVIOUS
  <1> HIDE DEF n
  <1>2. \A x : x \in ToSet(n) <=> x \in ToSet(q) \/ x = task
    BY <1>1 DEF ToSet
  <1> QED
    BY <1>2 DEF n

\* The first task and those behind it.
LEMMA TakenTask ==
  ASSUME NEW S, NEW q \in Seq(S), q # << >>
  PROVE  ToSet(q) = {Head(q)} \union ToSet(Tail(q))
  <1> DEFINE n == Tail(q)
  <1>1. /\ n \in Seq(S) /\ Len(n) = Len(q) - 1 /\ Len(q) \in Nat /\ Len(q) # 0
        /\ DOMAIN q = 1 .. Len(q) /\ DOMAIN n = 1 .. Len(q) - 1
        /\ Head(q) = q[1] /\ \A i \in 1 .. Len(q) - 1 : n[i] = q[i + 1]
    OBVIOUS
  <1> HIDE DEF n
  <1>2. ASSUME NEW x PROVE x \in ToSet(q) <=> x = Head(q) \/ x \in ToSet(n)
    <2>1. ASSUME NEW i \in 1 .. Len(q), q[i] = x, i # 1 PROVE x \in ToSet(n)
      <3>1. i - 1 \in 1 .. Len(q) - 1 /\ (i - 1) + 1 = i
        BY <1>1, <2>1
      <3> QED
        BY <1>1, <2>1, <3>1 DEF ToSet
    <2>2. ASSUME NEW i \in 1 .. Len(q) - 1, n[i] = x PROVE x \in ToSet(q)
      <3>1. i + 1 \in 1 .. Len(q)
        BY <1>1
      <3> QED
        BY <1>1, <2>2, <3>1 DEF ToSet
    <2>3. 1 \in 1 .. Len(q)
      BY <1>1
    <2> QED
      BY <1>1, <2>1, <2>2, <2>3 DEF ToSet
  <1> QED
    BY <1>2 DEF n

\* At first no object is alive, and every version is 0.
LEMMA InitSure == Init => SureInv
  <1> SUFFICES ASSUME Init PROVE SureInv
    OBVIOUS
  <1>1. \A o \in Objects : Owner[o] \in Players
    BY SaveAssumption
  <1>2. Known
    BY <1>1 DEF Init, Known, Everywhere
  <1>3. \A o \in Objects : ~ Alive(o)
    BY DEF Init, Alive
  <1> QED
    BY <1>2, <1>3 DEF SureInv, Alone, Calm

\* Steps that give the jobs more to do, and write no data: whoever is
\* asked for a save gets one.
LEMMA AskedSure ==
  ASSUME IInv, SureInv, UNCHANGED <<data, row, failed, newest, rushed>>,
         \A o \in Objects : Alive(o)' => Alive(o),
         \A t \in Threads : /\ job'[t].object = job[t].object /\ job'[t].next = job[t].next
                            /\ job[t].left \subseteq job'[t].left,
         \A o \in Objects :
           IF asked'[o] = asked[o] THEN Calm(o) /\ Pending(o) => Pending(o)' \/ Waiting(o)'
           ELSE asked'[o] = data[o] /\ (Pending(o)' \/ Waiting(o)')
  PROVE  SureInv'
  <1>1. Known'
    BY DEF SureInv, Known
  <1>2. \A o \in Objects : Calm(o)' => Calm(o)
    BY DEF Calm
  <1>3. Alone'
    BY <1>2 DEF SureInv, Alone
  <1>4. ASSUME NEW o \in Objects, Calm(o)' PROVE Ahead(o)'
    BY <1>2, <1>4, VersionTypes DEF SureInv, Ahead
  <1>5. ASSUME NEW o \in Objects, Calm(o)' PROVE Sure(o)'
    <2>1. Calm(o) /\ Sure(o)
      BY <1>2, <1>5 DEF SureInv
    <2>2. CASE asked'[o] # asked[o]
      BY <2>2 DEF Sure
    <2>3. CASE asked'[o] = asked[o]
      <3>1. Waiting(o) => Waiting(o)'
        BY DEF Waiting
      <3>2. Covering(o) => Covering(o)'
        BY <2>3 DEF Covering
      <3>3. Locked(o)' <=> Locked(o)
        BY DEF Locked
      <3>4. Reached(o) => Reached(o)'
        BY <2>3 DEF Reached
      <3> QED
        BY <2>1, <2>3, <3>1, <3>2, <3>3, <3>4 DEF Sure
    <2> QED
      BY <2>2, <2>3
  <1> QED
    BY <1>1, <1>3, <1>4, <1>5 DEF SureInv

\* savePlayer: its task carries the time that enters m_playerMap with it, and no
\* other player's time changes.
LEMMA SavePlayerSure ==
  ASSUME IInv, SureInv, NEW o \in Objects, SavePlayer(o), job[Dispatcher] = Idle,
         Alive(o), UNCHANGED <<data, row, failed, newest, rushed>>,
         \A q \in Objects : Alive(q)' => Alive(q)
  PROVE  SureInv'
  <1> USE SaveAssumption
  <1>1. /\ asked' = [asked EXCEPT ![o] = data[o]] /\ Owner[o] \in Players
        /\ \A q \in Objects : asked'[q] = IF q = o THEN data[o] ELSE asked[q]
    BY VersionTypes DEF SavePlayer
  <1>2. CASE Schedule(o)
    <2> DEFINE task == [op |-> "player", object |-> o, at |-> clock + 1]
    <2>1. task \in Tasks
      BY <1>2 DEF Schedule, IInv, Types, TimesType, Tasks, Times
    <2>2. ToSet(queue') = ToSet(queue) \union {task}
      BY <1>2, <2>1, AddedTask DEF Schedule, IInv, Types, QueueType
    <2>3. job' = job /\ playerMap' = [playerMap EXCEPT ![Owner[o]] = clock + 1]
      BY <1>2 DEF Schedule
    <2>4. task.op = "player" /\ task.object = o /\ task.at = clock + 1
      OBVIOUS
    <2> HIDE DEF task
    <2>5. Pending(o)'
      BY <1>1, <2>2, <2>3, <2>4 DEF Pending, IInv, Types, TimesType
    <2>6. ASSUME NEW q \in Objects, q # o, Calm(q) PROVE Pending(q) => Pending(q)'
      <3>1. Owner[q] # Owner[o]
        BY <2>6, OwnSaver
      <3> QED
        BY <2>2, <2>3, <3>1 DEF Pending, IInv, Types, TimesType
    <2>7. \A q \in Objects : IF asked'[q] = asked[q] THEN Calm(q) /\ Pending(q) => Pending(q)' \/ Waiting(q)'
                             ELSE asked'[q] = data[q] /\ (Pending(q)' \/ Waiting(q)')
      BY <1>1, <2>5, <2>6
    <2> QED
      BY <2>3, <2>7, AskedSure
  <1>3. CASE SaveNow(Dispatcher, {o})
    <2>1. /\ UNCHANGED <<queue, playerMap>>
          /\ job' = [job EXCEPT ![Dispatcher].left = {o}] /\ Dispatcher \in Threads
          /\ job[Dispatcher].left = {}
      BY <1>3, IdleIsJob DEF SaveNow, taskVars, Threads
    <2>2. \A t \in Threads : /\ job'[t].object = job[t].object /\ job'[t].next = job[t].next
                             /\ job'[t].left = IF t = Dispatcher THEN {o} ELSE job[t].left
      BY <2>1 DEF IInv, Types, JobsType, Jobs
    <2>3. Waiting(o)' /\ \A q \in Objects : Pending(q) => Pending(q)'
      BY <2>1, <2>2 DEF Waiting, Pending
    <2>4. \A q \in Objects : IF asked'[q] = asked[q] THEN Calm(q) /\ Pending(q) => Pending(q)' \/ Waiting(q)'
                             ELSE asked'[q] = data[q] /\ (Pending(q)' \/ Waiting(q)')
      BY <1>1, <2>3
    <2>5. \A t \in Threads : job[t].left \subseteq job'[t].left
      BY <2>1, <2>2
    <2> QED
      BY <2>2, <2>4, <2>5, AskedSure
  <1> QED
    BY <1>2, <1>3 DEF SavePlayer

\* Handlers that ask for no save, or for nobody's in particular.
LEMMA NobodyAsked ==
  ASSUME IInv, SureInv, UNCHANGED <<data, row, failed, newest, asked, rushed, job>>,
         UNCHANGED playerMap,
         \A o \in Objects : Alive(o)' => Alive(o),
         ToSet(queue) \subseteq ToSet(queue')
  PROVE  SureInv'
  <1>1. \A o \in Objects : Pending(o) => Pending(o)'
    BY DEF Pending
  <1>2. \A t \in Threads : /\ job'[t].object = job[t].object /\ job'[t].next = job[t].next
                           /\ job[t].left \subseteq job'[t].left
    OBVIOUS
  <1> QED
    BY <1>1, <1>2, AskedSure

LEMMA ScheduleAllSure ==
  ASSUME IInv, SureInv, ScheduleAll PROVE SureInv'
  <1> DEFINE task == [op |-> "all", object |-> NoObject, at |-> clock + 1]
  <1>1. task \in Tasks
    BY SaveAssumption DEF ScheduleAll, IInv, Types, TimesType, Tasks, Times
  <1>2. ToSet(queue') = ToSet(queue) \union {task}
    BY <1>1, AddedTask DEF ScheduleAll, IInv, Types, QueueType
  <1> HIDE DEF task
  <1>3. UNCHANGED <<state, data, row, failed, newest, asked, rushed, job>> /\ UNCHANGED playerMap
    BY DEF ScheduleAll, objectVars, history
  <1> QED
    BY <1>2, <1>3, NobodyAsked DEF Alive

LEMMA SaveAllSure ==
  ASSUME IInv, SureInv, SaveAll PROVE SureInv'
  <1>1. /\ UNCHANGED <<state, data, row, failed, newest, rushed, queue, playerMap>>
        /\ job' = [job EXCEPT ![Dispatcher].left = OnlineObjects] /\ Dispatcher \in Threads
        /\ job[Dispatcher].left = {}
        /\ asked' = [o \in Objects |-> IF o \in OnlineObjects THEN data[o] ELSE asked[o]]
    BY IdleIsJob DEF SaveAll, SaveNow, DispatcherFree, objectVars, taskVars, Threads
  <1>2. \A t \in Threads : /\ job'[t].object = job[t].object /\ job'[t].next = job[t].next
                           /\ job'[t].left = IF t = Dispatcher THEN OnlineObjects ELSE job[t].left
    BY <1>1 DEF IInv, Types, JobsType, Jobs
  <1>3. /\ \A o \in OnlineObjects : Waiting(o)'
        /\ \A o \in Objects : Pending(o) => Pending(o)'
    BY <1>1, <1>2 DEF Waiting, Pending
  <1>4. \A q \in Objects : IF asked'[q] = asked[q] THEN Calm(q) /\ Pending(q) => Pending(q)' \/ Waiting(q)'
                           ELSE asked'[q] = data[q] /\ (Pending(q)' \/ Waiting(q)')
    BY <1>1, <1>3
  <1>5. \A t \in Threads : job[t].left \subseteq job'[t].left
    BY <1>1, <1>2
  <1> QED
    BY <1>1, <1>2, <1>4, <1>5, AskedSure DEF Alive

LEMMA SaveOnlineSure ==
  ASSUME IInv, SureInv, NEW o \in Objects, SaveOnline(o) PROVE SureInv'
  <1>1. /\ SavePlayer(o) /\ job[Dispatcher] = Idle /\ state[o] = "online"
        /\ UNCHANGED <<state, data, row, failed, newest, rushed>>
    BY DEF SaveOnline, DispatcherFree, objectVars
  <1> QED
    BY <1>1, SavePlayerSure DEF Alive

LEMMA LeaveSure ==
  ASSUME IInv, SureInv, NEW o \in Objects, Leave(o) \/ Die(o) PROVE SureInv'
  <1>1. /\ SavePlayer(o) /\ job[Dispatcher] = Idle /\ state[o] \in {"online", "copy"}
        /\ UNCHANGED <<data, row, failed, newest, rushed>>
    BY DEF Leave, Die, DispatcherFree
  <1>2. Alive(o) /\ \A q \in Objects : Alive(q)' => Alive(q)
    BY <1>1 DEF Leave, Die, Alive, IInv, Types, ObjectsType
  <1> QED
    BY <1>1, <1>2, SavePlayerSure

LEMMA GoneSure ==
  ASSUME IInv, SureInv, NEW o \in Objects, Respawn(o) \/ ReleaseDead(o) \/ Free(o) PROVE SureInv'
  <1>1. UNCHANGED <<data, row, failed, newest, asked, rushed, job, queue, playerMap>>
    BY DEF Respawn, ReleaseDead, Free, history, taskVars
  <1>2. \A q \in Objects : Alive(q)' => Alive(q)
    BY DEF Respawn, ReleaseDead, Free, Alive, IInv, Types, ObjectsType
  <1> QED
    BY <1>1, <1>2, NobodyAsked

\* A load begins with the rows; it is calm when no other object of the player is alive.
LEMMA BeginLoadSure ==
  ASSUME IInv, SureInv, NEW o \in Objects, BeginLoad(o) PROVE SureInv'
  <1> DEFINE p == Owner[o]
             older == \E q \in Objects : Owner[q] = p /\ Alive(q)
  <1>1. /\ state[o] = "unused" /\ state' = [state EXCEPT ![o] = "loading"]
        /\ data' = [data EXCEPT ![o] = row[p]] /\ asked' = [asked EXCEPT ![o] = row[p]]
        /\ rushed' = IF older THEN rushed \union {p} ELSE rushed \ {p}
        /\ UNCHANGED <<row, failed, newest, job, queue, playerMap>>
    BY DEF BeginLoad, taskVars
  <1>2. \A q \in Objects : /\ state'[q] = IF q = o THEN "loading" ELSE state[q]
                           /\ data'[q] = IF q = o THEN row[p] ELSE data[q]
                           /\ asked'[q] = IF q = o THEN row[p] ELSE asked[q]
    BY <1>1 DEF IInv, Types, ObjectsType, HistoryType
  <1>3. ~ Alive(o) /\ ~ Referenced(o) /\ \A q \in Objects : q # o => (Alive(q)' <=> Alive(q))
    BY <1>1, <1>2 DEF Alive, IInv, NoUseAfterFree
  <1>4. Known'
    BY <1>1, <1>2, VersionTypes DEF SureInv, Known
  <1>5. ASSUME NEW q \in Objects, q # o, Calm(q)' PROVE Calm(q) /\ Owner[q] # p
    BY <1>1, <1>3, <1>5 DEF Calm
  <1>6. Alone'
    <2>1. ASSUME NEW q \in Objects, NEW r \in Objects, Calm(q)', Alive(r)', Owner[q] = Owner[r]
          PROVE  q = r
      <3>1. CASE q = o
        BY <1>1, <1>3, <2>1, <3>1 DEF Calm
      <3>2. CASE q # o
        <4>1. Calm(q) /\ r # o /\ Alive(r)
          BY <1>3, <1>5, <2>1, <3>2
        <4> QED
          BY <2>1, <4>1 DEF SureInv, Alone
      <3> QED
        BY <3>1, <3>2
    <2> QED
      BY <2>1 DEF Alone
  <1>7. ASSUME NEW q \in Objects, Calm(q)' PROVE Ahead(q)' /\ Sure(q)'
    <2>1. CASE q = o
      <3>1. Ahead(o)' /\ Reached(o)'
        BY <1>1, <1>2, VersionTypes DEF Ahead, Reached
      <3>2. ~ Locked(o)'
        BY <1>1, <1>3 DEF Referenced, Locked
      <3> QED
        BY <2>1, <3>1, <3>2 DEF Sure
    <2>2. CASE q # o
      <3>1. Ahead(q) /\ Sure(q)
        BY <1>5, <1>7, <2>2 DEF SureInv
      <3>2. UNCHANGED <<row, failed, job, queue, playerMap>> /\ data'[q] = data[q] /\ asked'[q] = asked[q]
        BY <1>1, <1>2, <2>2
      <3> QED
        BY <3>1, <3>2 DEF Ahead, Sure, Pending, Waiting, Covering, Locked, Reached
    <2> QED
      BY <2>1, <2>2
  <1> QED
    BY <1>4, <1>6, <1>7 DEF SureInv

\* It ends with the rows of the other tables.
LEMMA EndLoadSure ==
  ASSUME IInv, SureInv, NEW o \in Objects, NEW as \in {"online", "copy"}, EndLoad(o, as) PROVE SureInv'
  <1> DEFINE p == Owner[o]
  <1>1. /\ state[o] = "loading" /\ state' = [state EXCEPT ![o] = as]
        /\ data' = [data EXCEPT ![o]["items"] = row[p]["items"]]
        /\ asked' = [asked EXCEPT ![o]["items"] = row[p]["items"]]
        /\ UNCHANGED <<row, failed, newest, rushed, job, queue, playerMap>>
    BY DEF EndLoad, taskVars
  <1>2. \A q \in Objects, t \in Tables :
           /\ data'[q][t] = IF q = o /\ t = "items" THEN row[p][t] ELSE data[q][t]
           /\ asked'[q][t] = IF q = o /\ t = "items" THEN row[p][t] ELSE asked[q][t]
    BY <1>1, VersionTypes
  <1>3. Known'
    BY <1>1, <1>2, VersionTypes DEF SureInv, Known
  <1>4. \A q \in Objects : (Alive(q)' => Alive(q)) /\ (Calm(q)' => Calm(q))
    BY <1>1 DEF Calm, Alive, IInv, Types, ObjectsType
  <1>5. Alone'
    BY <1>4 DEF SureInv, Alone
  <1>6. ASSUME NEW q \in Objects, Calm(q)' PROVE Ahead(q)' /\ Sure(q)'
    <2>1. Ahead(q) /\ Sure(q)
      BY <1>4, <1>6 DEF SureInv
    <2>2. Ahead(q)'
      BY <1>1, <1>2, <2>1, VersionTypes DEF Ahead
    <2>3. Covering(q) => Covering(q)'
      BY <1>1, <1>2, VersionTypes DEF Covering
    <2>4. Reached(q) => Reached(q)'
      BY <1>1, <1>2, VersionTypes DEF Reached
    <2> QED
      BY <1>1, <2>1, <2>2, <2>3, <2>4 DEF Sure, Pending, Waiting, Locked
  <1> QED
    BY <1>3, <1>5, <1>6 DEF SureInv

\* A change gives a version that no table has had.
LEMMA ChangeSure ==
  ASSUME IInv, SureInv, NEW o \in Objects, Change(o) PROVE SureInv'
  <1> DEFINE n == newest[Owner[o]]
  <1>1. /\ state[o] \in {"online", "copy"}
        /\ newest' = [newest EXCEPT ![Owner[o]] = n + 1]
        /\ data' = [data EXCEPT ![o] = Everywhere(n + 1)]
        /\ UNCHANGED <<state, row, failed, asked, rushed, job, queue, playerMap>>
    BY DEF Change, taskVars
  <1>2. \A q \in Objects, t \in Tables : data'[q][t] = IF q = o THEN n + 1 ELSE data[q][t]
    BY <1>1, VersionTypes DEF Everywhere
  <1>3. \A p \in Players : newest'[p] = IF p = Owner[o] THEN n + 1 ELSE newest[p]
    BY <1>1, VersionTypes
  <1>4. /\ \A t \in Tables : data[o][t] <= n /\ row[Owner[o]][t] <= n
        /\ n \in Int
    BY VersionTypes DEF SureInv, Known
  <1> HIDE DEF n
  <1>5. Known'
    <2>1. \A q \in Objects, t \in Tables : data'[q][t] <= newest'[Owner[q]]
      <3> SUFFICES ASSUME NEW q \in Objects, NEW t \in Tables PROVE data'[q][t] <= newest'[Owner[q]]
        OBVIOUS
      <3>1. data[q][t] <= newest[Owner[q]] /\ data[q][t] \in Int /\ newest[Owner[q]] \in Int
        BY VersionTypes DEF SureInv, Known
      <3>2. newest'[Owner[q]] = IF Owner[q] = Owner[o] THEN n + 1 ELSE newest[Owner[q]]
        BY <1>3, VersionTypes
      <3>3. Owner[q] = Owner[o] => newest[Owner[q]] = n
        BY DEF n
      <3> QED
        BY <1>2, <1>4, <3>1, <3>2, <3>3
    <2>2. \A p \in Players, t \in Tables : row[p][t] <= newest'[p]
      <3> SUFFICES ASSUME NEW p \in Players, NEW t \in Tables PROVE row[p][t] <= newest'[p]
        OBVIOUS
      <3>1. row[p][t] <= newest[p] /\ row[p][t] \in Int /\ newest[p] \in Int
        BY VersionTypes DEF SureInv, Known
      <3>2. p = Owner[o] => newest[p] = n
        BY DEF n
      <3> QED
        BY <1>3, <1>4, <3>1, <3>2
    <2> QED
      BY <1>1, <2>1, <2>2 DEF Known
  <1>6. \A q \in Objects : (Alive(q)' <=> Alive(q)) /\ (Calm(q)' <=> Calm(q))
    BY <1>1 DEF Calm, Alive
  <1>7. Alone'
    BY <1>6 DEF SureInv, Alone
  <1>8. ASSUME NEW q \in Objects, Calm(q)' PROVE Ahead(q)'
    <2>1. Ahead(q)
      BY <1>6, <1>8 DEF SureInv
    <2>2. CASE q = o
      <3>1. \A t \in Tables : asked[o][t] <= data[o][t]
        BY <2>1, <2>2 DEF Ahead
      <3>2. \A t \in Tables : /\ asked[o][t] \in Int /\ data[o][t] \in Int
                              /\ row[Owner[o]][t] \in Int
        BY VersionTypes
      <3> QED
        BY <1>1, <1>2, <1>4, <2>2, <3>1, <3>2 DEF Ahead
    <2>3. CASE q # o
      BY <1>1, <1>2, <2>1, <2>3 DEF Ahead
    <2> QED
      BY <2>2, <2>3
  <1>9. ASSUME NEW q \in Objects, Calm(q)' PROVE Sure(q)'
    BY <1>1, <1>6, <1>9 DEF SureInv, Sure, Pending, Waiting, Covering, Locked, Reached
  <1> QED
    BY <1>5, <1>7, <1>8, <1>9 DEF SureInv

\* A pool thread takes a task: the one that carries the player's time is not
\* skipped, and the default time that enters m_playerMap is no task's.
LEMMA TakeSure ==
  ASSUME IInv, SureInv, NEW t \in Pool, Take(t) PROVE SureInv'
  <1> USE SaveAssumption
  <1> DEFINE task == Head(queue)
             p    == Owner[task.object]
             all  == [job EXCEPT ![t].left = OnlineObjects]
             one  == [job EXCEPT ![t].left = {task.object}]
             default == [playerMap EXCEPT ![p] = DefaultTime]
  <1>1. UNCHANGED <<state, data, row, failed, newest, asked, rushed>> /\ t \in Threads /\ job[t] = Idle
    BY DEF Take, objectVars, history, Threads
  <1>2. task \in Tasks /\ ToSet(queue) = {task} \union ToSet(queue') /\ ToSet(queue) \subseteq Tasks
    <2>1. task \in Tasks /\ ToSet(queue) = {task} \union ToSet(queue')
      BY QueueFacts, TakenTask DEF Take, IInv, Types, QueueType
    <2>2. ToSet(queue) \subseteq Tasks
      BY DEF ToSet, IInv, Types, QueueType
    <2> QED
      BY <2>1, <2>2
  <1>3. \/ /\ task.op = "all"
           /\ job' = IF scheduledAt # task.at THEN job ELSE all
           /\ UNCHANGED playerMap
        \/ /\ task.op = "player"
           /\ ~Alive(task.object)
           /\ UNCHANGED <<playerMap, job>>
        \/ /\ task.op = "player"
           /\ Alive(task.object)
           /\ playerMap' = IF playerMap[p] = NoTime THEN default ELSE playerMap
           /\ job' = IF playerMap[p] # task.at THEN job ELSE one
    BY Zenon DEF Take
  <1>4. task.op = "player" => task.object \in Objects /\ p \in Players
    BY <1>2 DEF Tasks
  <1> HIDE DEF task, p, all, one, default
  <1>5. /\ job' = job \/ (task.op = "all" /\ job' = all) \/ (task.op = "player" /\ job' = one)
        /\ task.op = "player" /\ Alive(task.object) /\ playerMap[p] = task.at => job' = one
        /\ playerMap' = playerMap \/ (playerMap[p] = NoTime /\ playerMap' = default)
    BY <1>3
  <1>6. PICK objects \in SUBSET Objects :
          /\ \A u \in Threads : /\ job'[u].object = job[u].object /\ job'[u].next = job[u].next
                                /\ job'[u].left = IF u = t THEN objects ELSE job[u].left
          /\ \A o \in objects : o \in OnlineObjects \/ (task.op = "player" /\ o = task.object)
          /\ task.op = "player" /\ Alive(task.object) /\ playerMap[p] = task.at => task.object \in objects
    <2>1. ASSUME NEW objects \in SUBSET Objects, job' = [job EXCEPT ![t].left = objects]
          PROVE  \A u \in Threads : /\ job'[u].object = job[u].object /\ job'[u].next = job[u].next
                                    /\ job'[u].left = IF u = t THEN objects ELSE job[u].left
      BY <1>1, <2>1 DEF IInv, Types, JobsType, Jobs
    <2>2. CASE task.op = "player" /\ job' = one
      <3>1. {task.object} \in SUBSET Objects /\ job' = [job EXCEPT ![t].left = {task.object}]
        BY <1>4, <2>2 DEF one
      <3>2. \A u \in Threads : /\ job'[u].object = job[u].object /\ job'[u].next = job[u].next
                               /\ job'[u].left = IF u = t THEN {task.object} ELSE job[u].left
        BY <2>1, <3>1
      <3> QED
        BY <2>2, <3>1, <3>2
    <2>3. CASE task.op = "all" /\ job' = all
      <3>1. OnlineObjects \in SUBSET Objects /\ job' = [job EXCEPT ![t].left = OnlineObjects]
        BY <2>3 DEF OnlineObjects, all
      <3>2. \A u \in Threads : /\ job'[u].object = job[u].object /\ job'[u].next = job[u].next
                               /\ job'[u].left = IF u = t THEN OnlineObjects ELSE job[u].left
        BY <2>1, <3>1
      <3>3. task.op # "player"
        BY <2>3
      <3> QED
        BY <3>1, <3>2, <3>3
    <2>4. CASE job' = job /\ ~ (task.op = "player" /\ Alive(task.object) /\ playerMap[p] = task.at)
      <3>1. job[t].left = {}
        BY <1>1, IdleIsJob
      <3>2. \A u \in Threads : /\ job'[u].object = job[u].object /\ job'[u].next = job[u].next
                               /\ job'[u].left = IF u = t THEN {} ELSE job[u].left
        BY <2>4, <3>1
      <3> QED
        BY <2>4, <3>2
    <2> QED
      BY <1>5, <2>2, <2>3, <2>4
  <1>7. ASSUME NEW q \in Objects, Alive(q), Pending(q) PROVE Pending(q)' \/ Waiting(q)'
    <2>1. PICK x \in ToSet(queue) : x.op = "player" /\ x.object = q /\ x.at = playerMap[Owner[q]]
      BY <1>7 DEF Pending
    <2>2. CASE x = task
      <3>1. task.op = "player" /\ task.object = q /\ playerMap[p] = task.at
        BY <2>1, <2>2 DEF p
      <3>2. q \in objects
        BY <1>6, <1>7, <3>1
      <3> QED
        BY <1>1, <1>6, <3>2 DEF Waiting
    <2>3. CASE x # task
      <3>1. playerMap'[Owner[q]] = playerMap[Owner[q]]
        <4>1. x.at # NoTime
          BY <1>2, <2>1 DEF Tasks, Times, NoTime
        <4>2. playerMap' = playerMap \/ (playerMap[p] = NoTime /\ playerMap' = [playerMap EXCEPT ![p] = DefaultTime])
          BY <1>5 DEF default
        <4>3. CASE playerMap[p] = NoTime /\ playerMap' = [playerMap EXCEPT ![p] = DefaultTime]
          <5>1. Owner[q] \in Players
            OBVIOUS
          <5>2. playerMap[Owner[q]] # NoTime
            BY <2>1, <4>1
          <5>3. p # Owner[q]
            BY <4>3, <5>2
          <5> QED
            BY <4>3, <5>1, <5>3 DEF IInv, Types, TimesType
        <4> QED
          BY <4>2, <4>3
      <3>2. x \in ToSet(queue')
        BY <1>2, <2>3
      <3> QED
        BY <2>1, <3>1, <3>2 DEF Pending
    <2> QED
      BY <2>2, <2>3
  <1>8. \A u \in Threads : job[u].left \subseteq job'[u].left
    BY <1>1, <1>6, IdleIsJob
  <1>9. \A q \in Objects : IF asked'[q] = asked[q] THEN Calm(q) /\ Pending(q) => Pending(q)' \/ Waiting(q)'
                          ELSE asked'[q] = data[q] /\ (Pending(q)' \/ Waiting(q)')
    BY <1>1, <1>7 DEF Calm
  <1>10. \A q \in Objects : Alive(q)' => Alive(q)
    BY <1>1 DEF Alive
  <1> QED
    BY <1>1, <1>6, <1>8, <1>9, <1>10, AskedSure

\* doSavePlayer begins: it erases the time of its own player only, and will
\* write what was asked for.
LEMMA LockSure ==
  ASSUME IInv, SureInv, NEW t \in Threads, NEW o \in Objects, Lock(t, o) PROVE SureInv'
  <1> USE SaveAssumption
  <1>1. /\ UNCHANGED <<state, data, row, failed, newest, asked, rushed, queue>>
        /\ job[t].object = NoObject /\ o \in job[t].left
        /\ playerMap' = [playerMap EXCEPT ![Owner[o]] = NoTime]
    BY DEF Lock, objectVars, history
  <1>2. \A u \in Threads :
          IF u = t THEN job'[u].left = job[u].left \ {o} /\ job'[u].object = o /\ job'[u].next = 1
          ELSE job'[u] = job[u]
    BY DEF Lock, IInv, Types, JobsType, Jobs
  <1>3. Alive(o)
    BY <1>1 DEF IInv, NoUseAfterFree, Referenced
  <1>4. Known'
    BY <1>1 DEF SureInv, Known
  <1>5. \A q \in Objects : (Alive(q)' <=> Alive(q)) /\ (Calm(q)' <=> Calm(q))
    BY <1>1 DEF Calm, Alive
  <1>6. Alone'
    BY <1>5 DEF SureInv, Alone
  <1>7. ASSUME NEW q \in Objects, Calm(q)' PROVE Ahead(q)' /\ Sure(q)'
    <2>1. Calm(q) /\ Ahead(q) /\ Sure(q)
      BY <1>5, <1>7 DEF SureInv
    <2>2. Ahead(q)'
      BY <1>1, <2>1 DEF Ahead
    <2>3. CASE q = o
      BY <1>2, <2>2, <2>3 DEF Sure, Covering
    <2>4. CASE q # o
      <3>1. Owner[q] # Owner[o]
        BY <1>3, <2>1, <2>4, OwnSaver
      <3>2. Pending(q) => Pending(q)'
        BY <1>1, <3>1 DEF Pending, IInv, Types, TimesType
      <3>3. Waiting(q) => Waiting(q)'
        BY <1>2, <2>4 DEF Waiting
      <3>4. Covering(q) => Covering(q)'
        BY <1>1, <1>2 DEF Covering
      <3>5. Locked(q)' => Locked(q)
        BY <1>2, <2>4 DEF Locked
      <3>6. Reached(q) \/ Owner[q] \in failed => Reached(q)' \/ Owner[q] \in failed'
        BY <1>1 DEF Reached
      <3> QED
        BY <2>1, <2>2, <3>2, <3>3, <3>4, <3>5, <3>6 DEF Sure
    <2> QED
      BY <2>3, <2>4
  <1> QED
    BY <1>4, <1>6, <1>7 DEF SureInv

\* The end of the save of an object, or the move to its next statement: nothing
\* else changes in the jobs.
LEMMA OneJobMoves ==
  ASSUME IInv, NEW t \in Threads,
         \/ job' = Unlock(t)
         \/ job' = [job EXCEPT ![t].next = @ + 1]
  PROVE  \A u \in Threads :
           /\ job'[u].left = job[u].left
           /\ u # t => job'[u] = job[u]
           /\ job' = Unlock(t) => job'[t].object = NoObject
           /\ job' = [job EXCEPT ![t].next = @ + 1] =>
                job'[t].object = job[t].object /\ job'[t].next = job[t].next + 1
  <1>1. CASE job' = Unlock(t)
    <2>1. job' = [job EXCEPT ![t] = [left |-> job[t].left, object |-> NoObject, next |-> 1]]
      BY <1>1 DEF Unlock, Idle
    <2>2. \A u \in Threads : job'[u].left = job[u].left /\ (u # t => job'[u] = job[u])
      BY <2>1 DEF IInv, Types, JobsType, Jobs
    <2>3. job'[t].object = NoObject
      BY <2>1 DEF IInv, Types, JobsType, Jobs
    <2>4. job' # [job EXCEPT ![t].next = @ + 1] \/ job[t].object = NoObject
      BY <2>3 DEF IInv, Types, JobsType, Jobs
    <2>5. job' = [job EXCEPT ![t].next = @ + 1] =>
            job'[t].object = job[t].object /\ job'[t].next = job[t].next + 1
      BY DEF IInv, Types, JobsType, Jobs
    <2> QED
      BY <2>2, <2>3, <2>5
  <1>2. CASE job' = [job EXCEPT ![t].next = @ + 1]
    <2>1. \A u \in Threads : job'[u].left = job[u].left /\ (u # t => job'[u] = job[u])
      BY <1>2 DEF IInv, Types, JobsType, Jobs
    <2>2. job'[t].object = job[t].object /\ job'[t].next = job[t].next + 1
      BY <1>2 DEF IInv, Types, JobsType, Jobs
    <2>3. job' = Unlock(t) => job'[t].object = NoObject
      BY DEF Unlock, Idle, IInv, Types, JobsType, Jobs
    <2> QED
      BY <1>2, <2>1, <2>2, <2>3
  <1> QED
    BY <1>1, <1>2

\* The players that a thread is not saving.
LEMMA OthersSure ==
  ASSUME IInv, NEW t \in Threads, NEW q \in Objects, Sure(q), q # job[t].object,
         UNCHANGED <<queue, playerMap, asked>>,
         row'[Owner[q]] = row[Owner[q]], Owner[q] \in failed' <=> Owner[q] \in failed,
         \A u \in Threads : job'[u].left = job[u].left /\ (u # t => job'[u] = job[u]),
         job'[t].object # q
  PROVE  Sure(q)'
  <1>1. Pending(q) => Pending(q)'
    BY DEF Pending
  <1>2. Waiting(q) => Waiting(q)'
    BY DEF Waiting
  <1>3. Covering(q) => Covering(q)'
    BY DEF Covering
  <1>4. Locked(q)' => Locked(q)
    BY DEF Locked
  <1>5. Reached(q) => Reached(q)'
    BY DEF Reached
  <1> QED
    BY <1>1, <1>2, <1>3, <1>4, <1>5 DEF Sure

\* A save writes the first table before the others, with data at least as new
\* as what was asked for: when it ends every table has it.
LEMMA ExecuteSure ==
  ASSUME IInv, SureInv, NEW t \in Threads, Execute(t) PROVE SureInv'
  <1> USE SaveAssumption
  <1>0. PICK o \in Objects : o = job[t].object
    BY DEF Execute, IInv, Types, JobsType, Jobs
  <1> DEFINE n == job[t].next
             p == Owner[o]
             s == Statements[n]
             v == IF s.op = "delete" THEN Gone ELSE data[o][s.table]
             last == n = Len(Statements)
  <1>1. UNCHANGED <<state, data, newest, asked, rushed, queue, playerMap>>
    BY DEF Execute, objectVars, taskVars
  <1>2. n \in {1, 2, 3} /\ p \in Players
    BY StatementsFacts DEF IInv, Types, JobsType, Jobs
  <1>3. row' = [row EXCEPT ![p][s.table] = v]
    BY <1>0 DEF Execute
  <1>4. /\ n = 1 => s.table = "players" /\ v = data[o]["players"]
        /\ n = 2 => s.table = "items" /\ v = Gone
        /\ n = 3 => s.table = "items" /\ v = data[o]["items"]
        /\ last <=> n = 3
    BY StatementsFacts
  <1>5. /\ job' = IF last THEN Unlock(t) ELSE [job EXCEPT ![t].next = @ + 1]
        /\ failed' = IF last THEN failed \ {p} ELSE failed
    BY <1>0 DEF Execute
  <1>6. \A u \in Threads : job'[u].left = job[u].left /\ (u # t => job'[u] = job[u])
    BY <1>5, OneJobMoves
  <1>7. IF last THEN job'[t].object = NoObject ELSE job'[t].object = o /\ job'[t].next = n + 1
    BY <1>0, <1>5, OneJobMoves
  <1>8. Alive(o) /\ \A u \in Threads : u # t => job[u].object # o
    BY <1>0 DEF IInv, OneSaverPerObject, NoUseAfterFree, Referenced
  <1>9. s.table \in Tables /\ v \in Int /\ (v = Gone \/ v = data[o][s.table])
    BY <1>2, <1>4, VersionTypes DEF Gone
  <1>10. \A q \in Objects : (Alive(q)' <=> Alive(q)) /\ (Calm(q)' <=> Calm(q))
    BY <1>1 DEF Calm, Alive
  <1> HIDE DEF n, p, s, v, last
  <1>11. /\ \A q \in Players : q # p => row'[q] = row[q]
         /\ \A x \in Tables : row'[p][x] = IF x = s.table THEN v ELSE row[p][x]
    BY <1>2, <1>3, <1>9, VersionTypes
  <1>12. \A x \in Tables : Gone <= data[o][x]
    <2>1. \A x \in Tables : data[o][x] \in Versions \union {Gone}
      BY DEF IInv, Types, ObjectsType
    <2> QED
      BY <2>1 DEF Versions, Gone
  <1>13. Known'
    <2>1. \A q \in Objects, x \in Tables : data'[q][x] <= newest'[Owner[q]]
      BY <1>1 DEF SureInv, Known
    <2>2. \A x \in Tables : data[o][x] <= newest[p] /\ Gone <= newest[p]
      BY <1>2, <1>12, VersionTypes DEF SureInv, Known, p, Gone
    <2>3. ASSUME NEW q \in Players, NEW x \in Tables PROVE row'[q][x] <= newest'[q]
      BY <1>1, <1>2, <1>9, <1>11, <2>2 DEF SureInv, Known
    <2> QED
      BY <2>1, <2>3 DEF Known
  <1>14. Alone'
    BY <1>10 DEF SureInv, Alone
  <1>15. ASSUME Calm(o) PROVE Ahead(o)' /\ Sure(o)'
    <2>1. Ahead(o) /\ Sure(o)
      BY <1>15 DEF SureInv
    <2>2. Ahead(o)'
      BY <1>1, <1>9, <1>11, <1>12, <2>1 DEF Ahead, p
    <2>3. Pending(o) => Pending(o)'
      BY <1>1 DEF Pending
    <2>4. Waiting(o) => Waiting(o)'
      BY <1>6 DEF Waiting
    <2>5. Locked(o)
      BY <1>0 DEF Locked
    <2>6. Covering(o) => n = 1 \/ row[p]["players"] >= asked[o]["players"]
      BY <1>0, <1>8 DEF Covering, n, p
    <2>7. ASSUME Covering(o) PROVE row'[p]["players"] >= asked'[o]["players"]
      <3>1. CASE n = 1
        <4>1. row'[p]["players"] = data[o]["players"]
          BY <1>4, <1>11, <3>1, VersionTypes
        <4> QED
          BY <1>1, <2>1, <4>1, VersionTypes DEF Ahead
      <3>2. CASE n # 1
        <4>1. s.table = "items" /\ row'[p]["players"] = row[p]["players"]
          BY <1>2, <1>4, <1>11, <3>2, VersionTypes
        <4> QED
          BY <1>1, <2>6, <2>7, <3>2, <4>1
      <3> QED
        BY <3>1, <3>2
    <2>8. CASE Covering(o) /\ n # 3
      <3>1. job'[t].object = o
        BY <1>4, <1>7, <2>8
      <3> QED
        BY <2>2, <2>7, <2>8, <3>1 DEF Sure, Covering, p
    <2>9. CASE Covering(o) /\ n = 3
      <3>1. row'[p]["items"] >= asked'[o]["items"]
        <4>1. row'[p]["items"] = data[o]["items"]
          BY <1>4, <1>11, <2>9, VersionTypes
        <4> QED
          BY <1>1, <2>1, <4>1, VersionTypes DEF Ahead
      <3>2. Reached(o)'
        BY <2>7, <2>9, <3>1 DEF Reached, Tables, p
      <3>3. ~ Locked(o)'
        BY <1>4, <1>6, <1>7, <1>8, <2>9 DEF Locked
      <3> QED
        BY <2>2, <3>2, <3>3 DEF Sure
    <2> QED
      BY <2>1, <2>2, <2>3, <2>4, <2>5, <2>8, <2>9 DEF Sure
  <1>16. ASSUME NEW q \in Objects, q # o, Calm(q) PROVE Ahead(q)' /\ Sure(q)'
    <2>1. Owner[q] # p /\ Owner[q] \in Players
      BY <1>8, <1>16, OwnSaver DEF p
    <2>2. row'[Owner[q]] = row[Owner[q]] /\ (Owner[q] \in failed' <=> Owner[q] \in failed)
      BY <1>5, <1>11, <2>1
    <2>3. job'[t].object # q /\ q # job[t].object
      BY <1>0, <1>7, <1>16
    <2>4. Ahead(q) /\ Sure(q)
      BY <1>16 DEF SureInv
    <2>5. Ahead(q)'
      BY <1>1, <2>2, <2>4 DEF Ahead
    <2>6. UNCHANGED <<queue, playerMap, asked>>
      BY <1>1
    <2>7. Sure(q)'
      BY <1>6, <2>2, <2>3, <2>4, <2>6, OthersSure
    <2> QED
      BY <2>5, <2>7
  <1> QED
    BY <1>10, <1>13, <1>14, <1>15, <1>16 DEF SureInv

\* A failed save is recorded as such.
LEMMA FailSure ==
  ASSUME IInv, SureInv, NEW t \in Threads, Fail(t) PROVE SureInv'
  <1> USE SaveAssumption
  <1>0. PICK o \in Objects : o = job[t].object
    BY DEF Fail, IInv, Types, JobsType, Jobs
  <1>1. UNCHANGED <<state, data, row, newest, asked, rushed, queue, playerMap>>
    BY DEF Fail, objectVars, taskVars
  <1>2. job' = Unlock(t) /\ failed' = failed \union {Owner[o]}
    BY <1>0 DEF Fail
  <1>3. /\ \A u \in Threads : job'[u].left = job[u].left /\ (u # t => job'[u] = job[u])
        /\ job'[t].object = NoObject
    BY <1>2, OneJobMoves
  <1>4. Known'
    BY <1>1 DEF SureInv, Known
  <1>5. \A q \in Objects : (Alive(q)' <=> Alive(q)) /\ (Calm(q)' <=> Calm(q))
    BY <1>1 DEF Calm, Alive
  <1>6. Alone'
    BY <1>5 DEF SureInv, Alone
  <1>7. Alive(o) /\ \A u \in Threads : u # t => job[u].object # o
    BY <1>0 DEF IInv, OneSaverPerObject, NoUseAfterFree, Referenced
  <1>8. ASSUME NEW q \in Objects, Calm(q) PROVE Ahead(q)'
    BY <1>1, <1>8 DEF SureInv, Ahead
  <1>9. Sure(o)'
    BY <1>2, <1>3, <1>7 DEF Sure, Locked
  <1>10. ASSUME NEW q \in Objects, q # o, Calm(q) PROVE Sure(q)'
    <2>1. Owner[q] # Owner[o]
      BY <1>7, <1>10, OwnSaver
    <2>2. /\ row'[Owner[q]] = row[Owner[q]] /\ (Owner[q] \in failed' <=> Owner[q] \in failed)
          /\ job'[t].object # q /\ UNCHANGED <<queue, playerMap, asked>>
      BY <1>1, <1>2, <1>3, <2>1
    <2>3. q # job[t].object /\ Sure(q)
      BY <1>0, <1>10 DEF SureInv
    <2> QED
      BY <1>3, <2>2, <2>3, OthersSure
  <1> QED
    BY <1>4, <1>5, <1>6, <1>8, <1>9, <1>10 DEF SureInv

\* Every step keeps what makes saves sure.
LEMMA StepSure == IInv /\ SureInv /\ [Next]_vars => SureInv'
  <1> SUFFICES ASSUME IInv, SureInv, [Next]_vars PROVE SureInv'
    OBVIOUS
  <1>1. CASE Shutdown \/ UNCHANGED vars
    <2>1. UNCHANGED <<data, row, failed, newest, asked, rushed, job, state, queue, playerMap>>
      BY <1>1 DEF Shutdown, vars, objectVars, taskVars, history
    <2> QED
      BY <2>1, NobodyAsked DEF Alive
  <1>2. CASE Handler
    BY <1>1, <1>2, ScheduleAllSure, SaveAllSure, BeginLoadSure, EndLoadSure, ChangeSure,
       SaveOnlineSure, LeaveSure, GoneSure DEF Handler
  <1>3. ASSUME NEW t \in Threads, Saving(t) PROVE SureInv'
    BY <1>3, ExecuteSure, FailSure, LockSure DEF Saving
  <1>4. ASSUME NEW t \in Pool, Take(t) PROVE SureInv'
    BY <1>4, TakeSure
  <1> QED
    BY <1>1, <1>2, <1>3, <1>4 DEF Next, PoolStep, Threads

\* NoSaveLost, in the code: once nothing is queued or being saved for a player, and
\* unless the last save failed, every table has what savePlayer was last asked to save
\* of the player's object, and nothing newer than the object; for every number of
\* objects, save for players who were loaded while an older object of theirs lived.
THEOREM NoSaveLostHolds == Spec => []NoSaveLost
  <1>1. Init => IInv /\ SureInv
    BY InitInv, InitSure
  <1>2. IInv /\ SureInv /\ [Next]_vars => IInv' /\ SureInv'
    BY StepInv, StepSure
  <1>3. IInv /\ SureInv => NoSaveLost
    <2> SUFFICES ASSUME IInv, SureInv, NEW o \in Objects, Quiet(o), Owner[o] \notin rushed
                 PROVE  Reached(o) /\ \A t \in Tables : row[Owner[o]][t] <= data[o][t]
      BY DEF NoSaveLost
    <2>1. Ahead(o) /\ Sure(o)
      BY DEF Quiet, SureInv, Calm
    <2>2. ~ Referenced(o)
      BY DEF Quiet, BeingSaved
    <2>3. ~ Waiting(o) /\ ~ Covering(o)
      BY <2>2 DEF Waiting, Covering, Referenced
    <2>4. ~ Pending(o)
      BY DEF Pending, Quiet, Queued, ToSet
    <2> QED
      BY <2>1, <2>3, <2>4 DEF Sure, Ahead, Quiet
  <1> QED
    BY <1>1, <1>2, <1>3, PTL DEF Spec
=============================================================================
