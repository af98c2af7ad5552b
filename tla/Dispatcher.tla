----------------------------- MODULE Dispatcher -----------------------------
(***************************************************************************)
(* The event loop of the server (game/scheduling/dispatcher.cpp and        *)
(* task.cpp).  Every thread appends to a queue of its own, under that      *)
(* queue's mutex; one thread, the dispatcher, merges the queues into the   *)
(* main ones, runs the events group by group, runs the scheduled tasks     *)
(* that are due, and sleeps on a condition variable when nothing is left.  *)
(*                                                                         *)
(* Times (OTSYS_TIME, Task::utime, Task::expiration) are kept relative to  *)
(* the cached clock OTSYS_TIME, which only the dispatcher advances, so the *)
(* clock has no bound.                                                     *)
(***************************************************************************)
EXTENDS Integers, Sequences, SequencesExt

CONSTANTS
  NumThreads,    \* threads with a ThreadTask, numbered as getThreadId does
  DThread,       \* the thread that runs the loop of Dispatcher::init
  PoolThreads,   \* threads that run parallel groups and detached tasks
  MaxEvents,     \* bound: events added in a behaviour
  MaxTimers,     \* bound: scheduled tasks created in a behaviour
  Perpetual,     \* cycle events the server registers at start and never stops
  Delays,        \* the delays given to scheduleEvent and cycleEvent
  ExpiresAfter,  \* the non-zero expiresAfterMs given to addEvent
  MaxAdvance,    \* bound: how far one UPDATE_OTSYS_TIME moves the clock
  MaxLag         \* bound: lateness is counted up to this many ticks

Threads == 1 .. NumThreads
Events  == 1 .. MaxEvents
Timers  == 1 .. MaxTimers

ASSUME ThreadsAssumption ==
  /\ NumThreads \in Nat \ {0}
  /\ DThread \in Threads
  /\ PoolThreads \subseteq Threads
ASSUME TimersAssumption ==
  /\ MaxEvents \in Nat
  /\ MaxTimers \in Nat
  /\ Perpetual \in 0 .. MaxTimers
  /\ Delays \subseteq Nat
  /\ Delays # {}
ASSUME ClockAssumption ==
  /\ ExpiresAfter \in Nat \ {0}
  /\ MaxAdvance \in Nat
  /\ MaxLag \in Nat \ {0}
  /\ \A d \in Delays : d <= MaxAdvance

\* enum class TaskGroup; the dispatcher visits the groups in this order.
Groups == {"Walk", "WalkParallel", "Serial", "GenericParallel"}

\* What the loop of Dispatcher::init does in one iteration: executeEvents()
\* from Walk, executeScheduledEvents() with its trailing executeEvents() from
\* GenericParallel, mergeEvents(), and the wait when nothing is pending.
Loop ==
  LET MainMerge  == [op |-> "merge", groups |-> {"Walk", "Serial"}]
      AsyncMerge == [op |-> "merge", groups |-> {"WalkParallel", "GenericParallel"}]
      Serial(g)   == [op |-> "serial", groups |-> {g}]
      Parallel(g) == [op |-> "parallel", groups |-> {g}]
      Plain(o)    == [op |-> o, groups |-> {}]
  IN  << Plain("clock"),
         MainMerge, Serial("Walk"), AsyncMerge,
         Parallel("WalkParallel"),
         MainMerge, Serial("Serial"), AsyncMerge,
         Parallel("GenericParallel"),
         Plain("timers"), AsyncMerge, Parallel("GenericParallel"),
         MainMerge, Plain("decide"), Plain("wait"), Plain("asleep") >>

VARIABLES
  threadTasks,      \* ThreadTask::tasks: per thread and group, a queue of events
  threadScheduled,  \* ThreadTask::scheduledTasks: per thread, new timers
  mTasks,           \* m_tasks: per group, what is left of the merged queue
  scheduledTasks,   \* the multiset of merged timers, ordered by utime
  scheduledTasksRef,\* the ids stopEvent can find
  cancelled,        \* timers whose func is nullptr
  cycle,            \* timers created by cycleEvent
  delay,            \* Task::delay
  utime,            \* Task::utime - OTSYS_TIME(), from -MaxLag up
  expiresIn,        \* Task::expiration - OTSYS_TIME(), from -1 up; 0 events never expire
  perishable,       \* events with a non-zero expiration
  hasPendingTasks,
  step,             \* the loop's position in Loop
  mergeNext,        \* the thread whose queues the running merge takes next
  running, ran,     \* the timer whose func() has been called, and execute()'s result
  origin,           \* history: who added each event, to which group, in id order
  lastEventId,      \* Task::LAST_EVENT_ID
  executed,         \* history: events whose func() ran
  dropped,          \* history: events skipped because they had expired
  stopped           \* history: ids given to stopEvent

queueVars == <<threadTasks, mTasks>>
timerVars == <<threadScheduled, scheduledTasks, scheduledTasksRef, cancelled,
               cycle, delay, lastEventId, stopped>>
clockVars == <<utime, expiresIn>>
eventVars == <<perishable, origin>>
doneVars  == <<executed, dropped>>
loopVars  == <<step, mergeNext, running, ran>>
vars == <<queueVars, timerVars, clockVars, eventVars, doneVars, loopVars, hasPendingTasks>>

NoTimer == 0
At(o) == Loop[step].op = o

-----------------------------------------------------------------------------
(* The queue operations, called by any thread.                             *)

\* notify(): the flag is set and the condition variable signalled only if the
\* flag was clear.  The signal reaches the dispatcher only when it is already
\* waiting; dummyMutex is not taken.
Notify ==
  /\ hasPendingTasks' = TRUE
  /\ step' = IF ~hasPendingTasks /\ At("asleep") THEN 1 ELSE step

\* addEvent, addWalkEvent and asyncEvent, by thread t: append and notify in one
\* critical section of the thread's mutex.
AddTo(t, g, expires) ==
  LET e == Len(origin) + 1
  IN  /\ e \in Events
      /\ origin' = Append(origin, [thread |-> t, group |-> g])
      /\ threadTasks' = [threadTasks EXCEPT ![t][g] = Append(@, e)]
      /\ perishable' = IF expires THEN perishable \union {e} ELSE perishable
      /\ expiresIn' = [expiresIn EXCEPT ![e] = IF expires THEN ExpiresAfter ELSE 0]

AddEvent(t) ==
  /\ \/ \E expires \in BOOLEAN, g \in {"Serial", "Walk"} : AddTo(t, g, expires)
     \/ \E g \in {"WalkParallel", "GenericParallel"} : AddTo(t, g, FALSE)
  /\ Notify
  /\ UNCHANGED <<timerVars, utime>>

\* scheduleEvent and cycleEvent, by thread t.
ScheduleEvent(t) ==
  LET k == lastEventId + 1
  IN  /\ k \in Timers
      /\ lastEventId' = k
      /\ \E d \in Delays, c \in BOOLEAN :
           /\ delay' = [delay EXCEPT ![k] = d]
           /\ utime' = [utime EXCEPT ![k] = d]
           /\ cycle' = IF c THEN cycle \union {k} ELSE cycle
      /\ threadScheduled' = [threadScheduled EXCEPT ![t] = @ \union {k}]
      /\ scheduledTasksRef' = scheduledTasksRef \union {k}
      /\ Notify
      /\ UNCHANGED <<threadTasks, eventVars, expiresIn, scheduledTasks, cancelled, stopped>>

\* Mutant: the id is erased, but the task keeps its function.
StopEventForgets ==
  \E k \in (Perpetual + 1) .. lastEventId :
    /\ stopped' = stopped \union {k}
    /\ scheduledTasksRef' = scheduledTasksRef \ {k}
    /\ UNCHANGED <<threadTasks, clockVars, eventVars, threadScheduled, scheduledTasks,
                   cancelled, cycle, delay, lastEventId, hasPendingTasks, step>>

\* stopEvent: a timer whose id is not in the reference map is left alone.
StopEvent ==
  \E k \in (Perpetual + 1) .. lastEventId :
    /\ stopped' = stopped \union {k}
    /\ cancelled' = IF k \in scheduledTasksRef THEN cancelled \union {k} ELSE cancelled
    /\ scheduledTasksRef' = scheduledTasksRef \ {k}
    /\ UNCHANGED <<threadTasks, clockVars, eventVars, threadScheduled, scheduledTasks,
                   cycle, delay, lastEventId, hasPendingTasks, step>>

\* What the function of an event or timer may do to the dispatcher; stopEvent
\* is only called on the dispatcher thread.
Effect(t) ==
  \/ AddEvent(t)
  \/ ScheduleEvent(t)
  \/ t = DThread /\ StopEvent
  \/ UNCHANGED <<threadTasks, timerVars, clockVars, eventVars, hasPendingTasks, step>>

-----------------------------------------------------------------------------
(* The dispatcher thread.                                                  *)

Saturate(n, floor) == IF n < floor THEN floor ELSE n

\* The cached clock advances by d.
Elapse(d) ==
  /\ utime' = [k \in Timers |->
                 IF k <= lastEventId THEN Saturate(utime[k] - d, -MaxLag) ELSE 0]
  /\ expiresIn' = [e \in Events |->
                     IF e \in perishable THEN Saturate(expiresIn[e] - d, -1) ELSE 0]

\* Mutant: the walk over the threads starts one too early.
GotoZero(s) == step' = s /\ mergeNext' = 0

Goto(s) == step' = s /\ mergeNext' = 1

\* UPDATE_OTSYS_TIME at the top of the loop, d ticks after the last one.
UpdateTime(d) ==
  /\ At("clock")
  /\ Elapse(d)
  /\ Goto(step + 1)
  /\ UNCHANGED <<queueVars, timerVars, eventVars, doneVars, running, ran, hasPendingTasks>>

\* Mutant: the insert after the swap is left out.
MergedQueueSwapOnly(main, mine) == IF Len(mine) > Len(main) THEN mine ELSE main

\* Mutant: the longer queue is emptied without having been swapped in.
MergedQueueInsertOnly(main, mine) == IF Len(mine) > Len(main) THEN main ELSE main \o mine

\* The longer of the two queues becomes the front of the merged one: the swap
\* in __mergeEvents saves moving the longer vector.
MergedQueue(main, mine) ==
  IF Len(mine) > Len(main) THEN mine \o main ELSE main \o mine

\* One iteration of __mergeEvents: thread t's queues of the step's groups, and
\* with mergeEvents its new timers too, under t's mutex.
MergeThread ==
  /\ At("merge") /\ mergeNext <= NumThreads
  /\ LET t  == mergeNext
         gs == Loop[step].groups
     IN  /\ mTasks' = [g \in Groups |->
                         IF g \in gs THEN MergedQueue(mTasks[g], threadTasks[t][g])
                                     ELSE mTasks[g]]
         /\ threadTasks' = [threadTasks EXCEPT ![t] =
                              [g \in Groups |-> IF g \in gs THEN << >> ELSE @[g]]]
         /\ IF "Serial" \in gs
            THEN /\ scheduledTasks' = scheduledTasks \union threadScheduled[t]
                 /\ threadScheduled' = [threadScheduled EXCEPT ![t] = {}]
            ELSE UNCHANGED <<scheduledTasks, threadScheduled>>
  /\ mergeNext' = mergeNext + 1
  /\ UNCHANGED <<scheduledTasksRef, cancelled, cycle, delay, lastEventId, stopped, clockVars,
                 eventVars, doneVars, step, running, ran, hasPendingTasks>>

\* The end of a merge; mergeEvents ends in checkPendingTasks, which overwrites
\* whatever the other threads' notify() stored meanwhile.
EndMerge ==
  /\ At("merge") /\ mergeNext > NumThreads
  /\ hasPendingTasks' = IF "Serial" \in Loop[step].groups
                        THEN \E g \in Groups : mTasks[g] # << >>
                        ELSE hasPendingTasks
  /\ Goto(step + 1)
  /\ UNCHANGED <<queueVars, timerVars, clockVars, eventVars, doneVars, running, ran>>

\* Task::execute of an event by thread t: skipped when it has expired.
ExecuteEvent(t, e) ==
  \/ /\ e \in perishable /\ expiresIn[e] < 0
     /\ dropped' = dropped \union {e}
     /\ UNCHANGED <<threadTasks, timerVars, clockVars, eventVars, executed,
                    hasPendingTasks, step>>
  \/ /\ ~(e \in perishable /\ expiresIn[e] < 0)
     /\ executed' = executed \union {e}
     /\ Effect(t)
     /\ UNCHANGED dropped

\* executeSerialEvents: the events of the group one after the other.
ExecuteSerial ==
  /\ At("serial")
  /\ \E g \in Loop[step].groups :
       /\ mTasks[g] # << >>
       /\ mTasks' = [mTasks EXCEPT ![g] = Tail(@)]
       /\ ExecuteEvent(DThread, Head(mTasks[g]))
  /\ UNCHANGED <<mergeNext, running, ran>>

\* executeParallelEvents: asyncWait lets the pool and the dispatcher run the
\* events of the group in any order.
ExecuteParallel ==
  /\ At("parallel")
  /\ \E g \in Loop[step].groups, t \in PoolThreads \union {DThread} :
       \E i \in 1 .. Len(mTasks[g]) :
         /\ mTasks' = [mTasks EXCEPT ![g] = RemoveAt(@, i)]
         /\ ExecuteEvent(t, mTasks[g][i])
  /\ UNCHANGED <<mergeNext, running, ran>>

\* The group is finished (for a parallel one, asyncWait has returned).
EndGroup ==
  /\ At("serial") \/ At("parallel")
  /\ \A g \in Loop[step].groups : mTasks[g] = << >>
  /\ Goto(step + 1)
  /\ UNCHANGED <<queueVars, timerVars, clockVars, eventVars, doneVars, running, ran,
                 hasPendingTasks>>

Earliest(k) == \A j \in scheduledTasks : utime[k] <= utime[j]

\* executeScheduledEvents, one iteration: execute() of the earliest timer ...
RunTimer ==
  /\ At("timers") /\ running = NoTimer
  /\ \E k \in scheduledTasks :
       /\ Earliest(k) /\ utime[k] <= 0
       /\ running' = k
       /\ \/ /\ k \notin cancelled
             /\ ran' = TRUE
             /\ Effect(DThread)
          \/ /\ k \in cancelled
             /\ ran' = FALSE
             /\ UNCHANGED <<threadTasks, timerVars, clockVars, eventVars,
                            hasPendingTasks, step>>
  /\ UNCHANGED <<mTasks, doneVars, mergeNext>>

\* Mutant: no finished timer leaves the reference map.
FinishTimerLeaks ==
  /\ At("timers") /\ running # NoTimer
  /\ IF ran /\ running \in cycle
     THEN /\ utime' = [utime EXCEPT ![running] = delay[running]]
          /\ threadScheduled' = [threadScheduled EXCEPT ![DThread] = @ \union {running}]
     ELSE UNCHANGED <<utime, threadScheduled>>
  /\ scheduledTasks' = scheduledTasks \ {running}
  /\ running' = NoTimer /\ ran' = FALSE
  /\ UNCHANGED <<queueVars, scheduledTasksRef, cancelled, cycle, delay, lastEventId, stopped,
                 expiresIn, eventVars, doneVars, hasPendingTasks, step, mergeNext>>

\* Mutant: a cycle event is not scheduled again.
FinishTimerOnce ==
  /\ At("timers") /\ running # NoTimer
  /\ scheduledTasksRef' = scheduledTasksRef \ {running}
  /\ scheduledTasks' = scheduledTasks \ {running}
  /\ running' = NoTimer /\ ran' = FALSE
  /\ UNCHANGED <<queueVars, threadScheduled, cancelled, cycle, delay, lastEventId, stopped,
                 clockVars, eventVars, doneVars, hasPendingTasks, step, mergeNext>>

\* ... and what follows it: a cycle event that ran goes back to the
\* dispatcher's own queue, any other timer leaves the reference map.
FinishTimer ==
  /\ At("timers") /\ running # NoTimer
  /\ IF ran /\ running \in cycle
     THEN /\ utime' = [utime EXCEPT ![running] = delay[running]]
          /\ threadScheduled' = [threadScheduled EXCEPT ![DThread] = @ \union {running}]
          /\ UNCHANGED scheduledTasksRef
     ELSE /\ scheduledTasksRef' = scheduledTasksRef \ {running}
          /\ UNCHANGED <<utime, threadScheduled>>
  /\ scheduledTasks' = scheduledTasks \ {running}
  /\ running' = NoTimer /\ ran' = FALSE
  /\ UNCHANGED <<queueVars, cancelled, cycle, delay, lastEventId, stopped, expiresIn,
                 eventVars, doneVars, hasPendingTasks, step, mergeNext>>

\* The first timer is not due yet, or there is none.
EndTimers ==
  /\ At("timers") /\ running = NoTimer
  /\ \A k \in scheduledTasks : utime[k] > 0
  /\ Goto(step + 1)
  /\ UNCHANGED <<queueVars, timerVars, clockVars, eventVars, doneVars, running, ran,
                 hasPendingTasks>>

\* if (!hasPendingTasks): the flag is read before the thread is in wait_for.
Decide ==
  /\ At("decide")
  /\ Goto(IF hasPendingTasks THEN 1 ELSE step + 1)
  /\ UNCHANGED <<queueVars, timerVars, clockVars, eventVars, doneVars, running, ran,
                 hasPendingTasks>>

\* signalSchedule.wait_for: from here on a notify_one is received.
Sleep ==
  /\ At("wait")
  /\ Goto(step + 1)
  /\ UNCHANGED <<queueVars, timerVars, clockVars, eventVars, doneVars, running, ran,
                 hasPendingTasks>>

\* The wait lasts until the earliest merged timer is due
\* (timeUntilNextScheduledTask), then the loop's UPDATE_OTSYS_TIME runs.
TimeoutWake ==
  /\ At("asleep") /\ scheduledTasks # {}
  /\ \E k \in scheduledTasks, d \in 0 .. MaxAdvance :
       Earliest(k) /\ utime[k] <= d /\ Elapse(d)
  /\ Goto(2)
  /\ UNCHANGED <<queueVars, timerVars, eventVars, doneVars, running, ran, hasPendingTasks>>

\* wait_for has no predicate, so it may return for no reason; with no timer at
\* all its argument is milliseconds::max(), which overflows the deadline and may
\* make it return at once.
SpuriousWake ==
  /\ At("asleep")
  /\ Goto(1)
  /\ UNCHANGED <<queueVars, timerVars, clockVars, eventVars, doneVars, running, ran,
                 hasPendingTasks>>

-----------------------------------------------------------------------------
\* Game::start has registered the perpetual cycle events, from the thread that
\* is not yet the dispatcher, and the loop is at its top.
Init ==
  /\ threadTasks = [t \in Threads |-> [g \in Groups |-> << >>]]
  /\ threadScheduled = [t \in Threads |-> IF t = DThread THEN 1 .. Perpetual ELSE {}]
  /\ mTasks = [g \in Groups |-> << >>]
  /\ scheduledTasks = {}
  /\ scheduledTasksRef = 1 .. Perpetual
  /\ cancelled = {}
  /\ cycle = 1 .. Perpetual
  /\ \E d \in Delays :
       /\ delay = [k \in Timers |-> IF k <= Perpetual THEN d ELSE 0]
       /\ utime = delay
  /\ expiresIn = [e \in Events |-> 0]
  /\ perishable = {}
  /\ hasPendingTasks = FALSE
  /\ step = 1 /\ mergeNext = 1
  /\ running = NoTimer /\ ran = FALSE
  /\ origin = << >>
  /\ lastEventId = Perpetual
  /\ executed = {} /\ dropped = {} /\ stopped = {}

DispatcherStep ==
  \/ \E d \in 0 .. MaxAdvance : UpdateTime(d)
  \/ MergeThread \/ EndMerge
  \/ ExecuteSerial \/ ExecuteParallel \/ EndGroup
  \/ RunTimer \/ FinishTimer \/ EndTimers
  \/ Decide \/ Sleep \/ TimeoutWake

\* Another thread: network, pool or main.
OtherThread ==
  /\ \E t \in Threads \ {DThread} : AddEvent(t) \/ ScheduleEvent(t)
  /\ UNCHANGED mergeNext
  /\ UNCHANGED <<mTasks, doneVars, running, ran>>

Next == DispatcherStep \/ SpuriousWake \/ OtherThread

Spec == Init /\ [][Next]_vars

\* The dispatcher thread is never descheduled for ever, and a loop that turns
\* for ever sees the wall clock advance; nothing is assumed of the other threads
\* or of spurious wake-ups.
FairSpec ==
  /\ Spec
  /\ WF_vars(DispatcherStep)
  /\ SF_vars(\E d \in 1 .. MaxAdvance : UpdateTime(d))

-----------------------------------------------------------------------------
(* Properties.                                                             *)

Created == 1 .. Len(origin)
Handled == executed \union dropped

\* What any thread may change, and what only the loop changes.
SharedTypes ==
  /\ threadTasks \in [Threads -> [Groups -> Seq(Events)]]
  /\ threadScheduled \in [Threads -> SUBSET Timers]
  /\ scheduledTasks \subseteq Timers
  /\ scheduledTasksRef \subseteq Timers
  /\ cancelled \subseteq Timers
  /\ cycle \subseteq Timers
  /\ delay \in [Timers -> Delays \union {0}]
  /\ utime \in [Timers -> Int]
  /\ expiresIn \in [Events -> Int]
  /\ perishable \subseteq Events
  /\ hasPendingTasks \in BOOLEAN
  /\ step \in DOMAIN Loop
  /\ origin \in Seq([thread : Threads, group : Groups])
  /\ lastEventId \in 0 .. MaxTimers
  /\ stopped \subseteq Timers

LoopTypes ==
  /\ mTasks \in [Groups -> Seq(Events)]
  /\ mergeNext \in 1 .. (NumThreads + 1)
  /\ running \in Timers \union {NoTimer}
  /\ ran \in BOOLEAN
  /\ executed \subseteq Events
  /\ dropped \subseteq Events

TypeOK == SharedTypes /\ LoopTypes

\* The queues of the loop, thread 0 standing for it, and of the other threads.
QueueIds == (Threads \union {0}) \X Groups
QueueOf(h) == IF h[1] = 0 THEN mTasks[h[2]] ELSE threadTasks[h[1]][h[2]]

\* No event is lost, run twice or left in two queues, whatever the moves, swaps
\* and clears of __mergeEvents do to the vectors: it is queued once, in one place,
\* until it is run or dropped, and never both.
OneHome ==
  /\ executed \intersect dropped = {}
  /\ \A h \in QueueIds : IsInjective(QueueOf(h))
  /\ \A e \in Events :
       LET homes == {h \in QueueIds : e \in ToSet(QueueOf(h))}
       IN  IF e \in Created \ Handled THEN \E h \in QueueIds : homes = {h} ELSE homes = {}

\* The swap in __mergeEvents may put later events of a thread in front of its
\* earlier ones, but only within one batch: once an event of a thread has left
\* its queue, every earlier event of that thread and group is handled or merged.
BatchOrder ==
  \A e1, e2 \in Created :
    LET g == origin[e1].group
    IN  /\ e1 < e2 /\ origin[e1] = origin[e2]
        /\ e2 \in Handled \union ToSet(mTasks[g])
        => e1 \in Handled \union ToSet(mTasks[g])

\* The timers that some queue still holds.
Queued == scheduledTasks \union UNION {threadScheduled[t] : t \in Threads}

\* stopEvent can find every timer that could still run, and the reference map
\* keeps no id of a timer that is gone (it would grow for ever).
RefsExact == scheduledTasksRef = Queued \ cancelled

\* After stopEvent(k) returns, the function of k is never called again, whether
\* k was waiting in a thread's queue, merged, due in the same pass, or a cycle
\* event that stopped itself while it was running.
StoppedNeverRuns ==
  [][\A k \in stopped : running # k /\ running' = k => ~ran']_vars

\* Every event added by any thread is run or, past its expiration, skipped.
EventuallyHandled == \A e \in Events : (e \in Created) ~> (e \in Handled)

\* Every timer that waits in some queue is taken up, and a cycle event that is
\* never stopped is taken up again and again.
TimersTakenUp ==
  /\ \A k \in Timers : (k \in Queued) ~> (running = k)
  /\ \A k \in 1 .. Perpetual : []<>(running = k)

=============================================================================
