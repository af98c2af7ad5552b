-------------------------- MODULE DispatcherProofs --------------------------
(***************************************************************************)
(* Theorems about Dispatcher, for any number of threads, events, timers    *)
(* and any delays: the timers and their references, and, from the second  *)
(* half on, the queues of events and their order.                          *)
(***************************************************************************)
EXTENDS Dispatcher, SequenceTheorems, TLAPS

-----------------------------------------------------------------------------
(* The step program and the helpers on queues.                             *)

LEMMA LoopShape ==
  /\ DOMAIN Loop = 1 .. 16
  /\ \A s \in 1 .. 16 : Loop[s].groups \subseteq Groups
  /\ \A s \in 1 .. 16 : Loop[s].op # "asleep" => s + 1 \in 1 .. 16
  BY DEF Loop, Groups

LEMMA RemoveAtType ==
  ASSUME NEW S, NEW q \in Seq(S), NEW i \in 1 .. Len(q)
  PROVE  RemoveAt(q, i) \in Seq(S)
  <1>1. /\ SubSeq(q, 1, i - 1) \in Seq(S)
        /\ SubSeq(q, i + 1, Len(q)) \in Seq(S)
    OBVIOUS
  <1> QED
    BY <1>1 DEF RemoveAt

LEMMA MergedQueueType ==
  ASSUME NEW S, NEW main \in Seq(S), NEW mine \in Seq(S)
  PROVE  MergedQueue(main, mine) \in Seq(S)
  BY DEF MergedQueue

-----------------------------------------------------------------------------
(* Type correctness.                                                       *)

LEMMA DelayIsInt == \A d \in Delays \union {0} : d \in Int
  <1> TAKE d \in Delays \union {0}
  <1> QED
    BY TimersAssumption

LEMMA InitType == Init => TypeOK
  <1> SUFFICES ASSUME Init PROVE TypeOK
    OBVIOUS
  <1>1. PICK d \in Delays : delay = [k \in Timers |-> IF k <= Perpetual THEN d ELSE 0]
    BY DEF Init
  <1>2. delay \in [Timers -> Delays \union {0}] /\ utime \in [Timers -> Int]
    BY <1>1, DelayIsInt DEF Init
  <1>3. 1 .. Perpetual \subseteq Timers /\ Perpetual \in 0 .. MaxTimers
    BY TimersAssumption DEF Timers
  <1>4. << >> \in Seq(Events) /\ << >> \in Seq([thread : Threads, group : Groups])
    BY EmptySeq
  <1>5. threadTasks \in [Threads -> [Groups -> Seq(Events)]] /\ mTasks \in [Groups -> Seq(Events)]
    BY <1>4 DEF Init
  <1>6. threadScheduled \in [Threads -> SUBSET Timers]
    BY <1>3 DEF Init
  <1>7. 1 \in DOMAIN Loop /\ 1 \in 1 .. (NumThreads + 1)
    BY LoopShape, ThreadsAssumption
  <1>8. expiresIn \in [Events -> Int] /\ scheduledTasks \subseteq Timers /\ cancelled \subseteq Timers
    BY DEF Init
  <1>9. /\ scheduledTasksRef \subseteq Timers /\ cycle \subseteq Timers /\ stopped \subseteq Timers
        /\ perishable \subseteq Events /\ lastEventId \in 0 .. MaxTimers
    BY <1>3 DEF Init
  <1>10. /\ hasPendingTasks \in BOOLEAN /\ step \in DOMAIN Loop
         /\ origin \in Seq([thread : Threads, group : Groups])
    BY <1>4, <1>7 DEF Init
  <1>11. SharedTypes
    BY <1>2, <1>5, <1>6, <1>8, <1>9, <1>10 DEF SharedTypes
  <1>12. LoopTypes
    BY <1>5, <1>7 DEF Init, LoopTypes
  <1> QED
    BY <1>11, <1>12 DEF TypeOK

LEMMA AddEventType ==
  ASSUME TypeOK, NEW t \in Threads, AddEvent(t)
  PROVE  SharedTypes'
  <1>1. PICK g \in Groups, x \in BOOLEAN : AddTo(t, g, x)
    BY DEF AddEvent, Groups
  <1>2. Len(origin) + 1 \in Events
    BY <1>1 DEF AddTo
  <1>3. threadTasks' \in [Threads -> [Groups -> Seq(Events)]]
    <2>1. Append(threadTasks[t][g], Len(origin) + 1) \in Seq(Events)
      BY <1>2 DEF TypeOK, SharedTypes
    <2> QED
      BY <1>1, <2>1 DEF AddTo, TypeOK, SharedTypes
  <1>4. /\ expiresIn' \in [Events -> Int]
        /\ perishable' \subseteq Events
        /\ origin' \in Seq([thread : Threads, group : Groups])
    BY <1>1, <1>2, ClockAssumption DEF AddTo, TypeOK, SharedTypes
  <1>5. hasPendingTasks' \in BOOLEAN /\ step' \in DOMAIN Loop
    BY LoopShape DEF AddEvent, Notify, TypeOK, SharedTypes
  <1> QED
    BY <1>3, <1>4, <1>5 DEF AddEvent, TypeOK, SharedTypes, timerVars

LEMMA ScheduleEventType ==
  ASSUME TypeOK, NEW t \in Threads, ScheduleEvent(t)
  PROVE  SharedTypes'
  <1> DEFINE k == lastEventId + 1
  <1>1. k \in Timers /\ k \in 0 .. MaxTimers
    BY TimersAssumption DEF ScheduleEvent, Timers
  <1>2. PICK d \in Delays, c \in BOOLEAN :
          /\ delay' = [delay EXCEPT ![k] = d]
          /\ utime' = [utime EXCEPT ![k] = d]
          /\ cycle' = IF c THEN cycle \union {k} ELSE cycle
    BY DEF ScheduleEvent
  <1>3. d \in Int
    BY TimersAssumption
  <1>4. /\ delay' \in [Timers -> Delays \union {0}]
        /\ utime' \in [Timers -> Int]
        /\ cycle' \subseteq Timers
    BY <1>1, <1>2, <1>3 DEF TypeOK, SharedTypes
  <1>5. /\ threadScheduled' \in [Threads -> SUBSET Timers]
        /\ scheduledTasksRef' \subseteq Timers
        /\ lastEventId' \in 0 .. MaxTimers
    BY <1>1 DEF ScheduleEvent, TypeOK, SharedTypes
  <1>6. hasPendingTasks' \in BOOLEAN /\ step' \in DOMAIN Loop
    BY LoopShape DEF ScheduleEvent, Notify, TypeOK, SharedTypes
  <1> QED
    BY <1>4, <1>5, <1>6 DEF ScheduleEvent, TypeOK, SharedTypes, eventVars

LEMMA StopEventType ==
  ASSUME TypeOK, StopEvent
  PROVE  SharedTypes'
  <1>1. PICK k \in (Perpetual + 1) .. lastEventId :
          /\ stopped' = stopped \union {k}
          /\ cancelled' = IF k \in scheduledTasksRef THEN cancelled \union {k} ELSE cancelled
    BY DEF StopEvent
  <1>2. k \in Timers
    BY TimersAssumption DEF TypeOK, SharedTypes, Timers
  <1> QED
    BY <1>1, <1>2 DEF StopEvent, TypeOK, SharedTypes, clockVars, eventVars

LEMMA EffectType ==
  ASSUME TypeOK, NEW t \in Threads, Effect(t)
  PROVE  SharedTypes'
  <1>1. CASE AddEvent(t)
    BY <1>1, AddEventType
  <1>2. CASE ScheduleEvent(t)
    BY <1>2, ScheduleEventType
  <1>3. CASE StopEvent
    BY <1>3, StopEventType
  <1>4. CASE UNCHANGED <<threadTasks, timerVars, clockVars, eventVars, hasPendingTasks, step>>
    BY <1>4 DEF TypeOK, SharedTypes, timerVars, clockVars, eventVars
  <1> QED
    BY <1>1, <1>2, <1>3, <1>4 DEF Effect

LEMMA ExecuteEventType ==
  ASSUME TypeOK, NEW t \in Threads, NEW e \in Events, ExecuteEvent(t, e)
  PROVE  /\ SharedTypes'
         /\ executed' \subseteq Events
         /\ dropped' \subseteq Events
  <1>1. CASE Effect(t) /\ executed' = executed \union {e} /\ UNCHANGED dropped
    BY <1>1, EffectType DEF TypeOK, LoopTypes
  <1>2. CASE /\ dropped' = dropped \union {e}
             /\ UNCHANGED <<threadTasks, timerVars, clockVars, eventVars, executed,
                            hasPendingTasks, step>>
    BY <1>2 DEF TypeOK, SharedTypes, LoopTypes, timerVars, clockVars, eventVars
  <1> QED
    BY <1>1, <1>2 DEF ExecuteEvent

LEMMA ElapseType ==
  ASSUME TypeOK, NEW d \in Nat, Elapse(d)
  PROVE  utime' \in [Timers -> Int] /\ expiresIn' \in [Events -> Int]
  BY ClockAssumption DEF Elapse, Saturate, TypeOK, SharedTypes

\* Every step, one case per action of Next.
LEMMA NextType ==
  ASSUME TypeOK, [Next]_vars
  PROVE  TypeOK'
  <1> USE DEF TypeOK, queueVars, timerVars, clockVars, eventVars, doneVars
  <1>1. CASE \E d \in 0 .. MaxAdvance : UpdateTime(d)
    <2>1. PICK d \in 0 .. MaxAdvance : UpdateTime(d)
      BY <1>1
    <2>2. utime' \in [Timers -> Int] /\ expiresIn' \in [Events -> Int]
      BY <2>1, ElapseType, ClockAssumption DEF UpdateTime
    <2>3. step' \in DOMAIN Loop /\ mergeNext' \in 1 .. (NumThreads + 1)
      BY <2>1, LoopShape, ThreadsAssumption, SMTT(20) DEF UpdateTime, Goto, At, SharedTypes
    <2> QED
      BY <2>1, <2>2, <2>3 DEF UpdateTime, SharedTypes, LoopTypes
  <1>2. CASE MergeThread
    <2> DEFINE t == mergeNext
               gs == Loop[step].groups
    <2>1. t \in Threads /\ mergeNext' \in 1 .. (NumThreads + 1)
      BY <1>2, ThreadsAssumption DEF MergeThread, LoopTypes, Threads
    <2>2. \A g \in Groups : MergedQueue(mTasks[g], threadTasks[t][g]) \in Seq(Events)
      BY <2>1, MergedQueueType DEF SharedTypes, LoopTypes
    <2>3. mTasks' \in [Groups -> Seq(Events)]
      BY <1>2, <2>2 DEF MergeThread, LoopTypes
    <2>4. threadTasks' \in [Threads -> [Groups -> Seq(Events)]]
      <3>1. [g \in Groups |-> IF g \in gs THEN << >> ELSE threadTasks[t][g]]
              \in [Groups -> Seq(Events)]
        BY <2>1 DEF SharedTypes
      <3> QED
        BY <1>2, <3>1 DEF MergeThread, SharedTypes
    <2>5. scheduledTasks' \subseteq Timers /\ threadScheduled' \in [Threads -> SUBSET Timers]
      BY <1>2, <2>1 DEF MergeThread, SharedTypes
    <2> QED
      BY <1>2, <2>1, <2>3, <2>4, <2>5 DEF MergeThread, SharedTypes, LoopTypes
  <1>3. CASE EndMerge
    <2>1. step' \in DOMAIN Loop /\ mergeNext' \in 1 .. (NumThreads + 1)
      <3>1. step' = step + 1 /\ mergeNext' = 1 /\ Loop[step].op = "merge"
        BY <1>3 DEF EndMerge, Goto, At
      <3> QED
        BY <3>1, LoopShape, ThreadsAssumption DEF SharedTypes
    <2>2. hasPendingTasks' \in BOOLEAN
      BY <1>3 DEF EndMerge, SharedTypes
    <2> QED
      BY <1>3, <2>1, <2>2 DEF EndMerge, SharedTypes, LoopTypes
  <1>4. CASE ExecuteSerial
    <2>1. PICK g \in Loop[step].groups :
            /\ mTasks[g] # << >>
            /\ mTasks' = [mTasks EXCEPT ![g] = Tail(@)]
            /\ ExecuteEvent(DThread, Head(mTasks[g]))
      BY <1>4 DEF ExecuteSerial
    <2>2. g \in Groups
      BY LoopShape DEF SharedTypes
    <2>3. Head(mTasks[g]) \in Events /\ Tail(mTasks[g]) \in Seq(Events)
      BY <2>1, <2>2 DEF LoopTypes
    <2>4. SharedTypes' /\ executed' \subseteq Events /\ dropped' \subseteq Events
      BY <2>1, <2>3, ExecuteEventType, ThreadsAssumption
    <2> QED
      BY <1>4, <2>1, <2>3, <2>4 DEF ExecuteSerial, LoopTypes
  <1>5. CASE ExecuteParallel
    <2>1. PICK g \in Loop[step].groups, t \in PoolThreads \union {DThread} :
          \E i \in 1 .. Len(mTasks[g]) :
            /\ mTasks' = [mTasks EXCEPT ![g] = RemoveAt(@, i)]
            /\ ExecuteEvent(t, mTasks[g][i])
      BY <1>5 DEF ExecuteParallel
    <2>2. PICK i \in 1 .. Len(mTasks[g]) :
            /\ mTasks' = [mTasks EXCEPT ![g] = RemoveAt(@, i)]
            /\ ExecuteEvent(t, mTasks[g][i])
      BY <2>1
    <2>3. g \in Groups /\ t \in Threads
      BY LoopShape, ThreadsAssumption DEF SharedTypes
    <2>4. mTasks[g][i] \in Events /\ RemoveAt(mTasks[g], i) \in Seq(Events)
      BY <2>3, RemoveAtType DEF LoopTypes
    <2>5. SharedTypes' /\ executed' \subseteq Events /\ dropped' \subseteq Events
      BY <2>2, <2>3, <2>4, ExecuteEventType
    <2> QED
      BY <1>5, <2>2, <2>4, <2>5 DEF ExecuteParallel, LoopTypes
  <1>6. CASE EndGroup
    <2>1. step' \in DOMAIN Loop /\ mergeNext' \in 1 .. (NumThreads + 1)
      BY <1>6, LoopShape, ThreadsAssumption, SMTT(20) DEF EndGroup, Goto, At, SharedTypes
    <2> QED
      BY <1>6, <2>1 DEF EndGroup, SharedTypes, LoopTypes
  <1>7. CASE RunTimer
    <2>1. PICK k \in scheduledTasks :
            /\ running' = k
            /\ \/ ran' = TRUE /\ Effect(DThread)
               \/ ran' = FALSE /\ UNCHANGED <<threadTasks, timerVars, clockVars, eventVars,
                                              hasPendingTasks, step>>
      BY <1>7 DEF RunTimer
    <2>2. SharedTypes'
      BY <2>1, EffectType, ThreadsAssumption DEF SharedTypes
    <2> QED
      BY <1>7, <2>1, <2>2 DEF RunTimer, SharedTypes, LoopTypes
  <1>8. CASE FinishTimer
    <2>1. running \in Timers
      BY <1>8 DEF FinishTimer, LoopTypes
    <2>2. delay[running] \in Int
      <3>1. delay[running] \in Delays \union {0}
        BY <2>1 DEF SharedTypes
      <3> QED
        BY <3>1, DelayIsInt
    <2>3. utime' \in [Timers -> Int]
      BY <1>8, <2>1, <2>2 DEF FinishTimer, SharedTypes
    <2>4. threadScheduled' \in [Threads -> SUBSET Timers]
      <3>1. CASE ran /\ running \in cycle
        <4>1. threadScheduled' = [threadScheduled EXCEPT ![DThread] = @ \union {running}]
          BY <1>8, <3>1 DEF FinishTimer
        <4> QED
          BY <2>1, <4>1, ThreadsAssumption DEF SharedTypes
      <3>2. CASE ~(ran /\ running \in cycle)
        BY <1>8, <3>2 DEF FinishTimer, SharedTypes
      <3> QED
        BY <3>1, <3>2
    <2> QED
      BY <1>8, <2>3, <2>4 DEF FinishTimer, SharedTypes, LoopTypes
  <1>9. CASE EndTimers
    <2>1. step' \in DOMAIN Loop /\ mergeNext' \in 1 .. (NumThreads + 1)
      BY <1>9, LoopShape, ThreadsAssumption, SMTT(20) DEF EndTimers, Goto, At, SharedTypes
    <2> QED
      BY <1>9, <2>1 DEF EndTimers, SharedTypes, LoopTypes
  <1>10. CASE Decide \/ Sleep \/ SpuriousWake
    <2>1. step' \in DOMAIN Loop /\ mergeNext' \in 1 .. (NumThreads + 1)
      BY <1>10, LoopShape, ThreadsAssumption DEF Decide, Sleep, SpuriousWake, Goto, At, SharedTypes
    <2> QED
      BY <1>10, <2>1 DEF Decide, Sleep, SpuriousWake, SharedTypes, LoopTypes
  <1>11. CASE TimeoutWake
    <2>1. PICK d \in 0 .. MaxAdvance : Elapse(d)
      BY <1>11 DEF TimeoutWake
    <2>2. utime' \in [Timers -> Int] /\ expiresIn' \in [Events -> Int]
      BY <2>1, ElapseType, ClockAssumption
    <2>3. step' \in DOMAIN Loop /\ mergeNext' \in 1 .. (NumThreads + 1)
      BY <1>11, LoopShape, ThreadsAssumption DEF TimeoutWake, Goto
    <2> QED
      BY <1>11, <2>2, <2>3 DEF TimeoutWake, SharedTypes, LoopTypes
  <1>12. CASE OtherThread
    <2>1. SharedTypes'
      BY <1>12, AddEventType, ScheduleEventType DEF OtherThread
    <2> QED
      BY <1>12, <2>1 DEF OtherThread, LoopTypes
  <1>13. CASE UNCHANGED vars
    BY <1>13 DEF vars, loopVars, SharedTypes, LoopTypes
  <1> QED
    BY <1>1, <1>2, <1>3, <1>4, <1>5, <1>6, <1>7, <1>8, <1>9, <1>10, <1>11, <1>12, <1>13
    DEF Next, DispatcherStep

\* Every queue holds events and timers that were created, and the loop is at a
\* position of its step program: the state is one the dispatcher can be in.
THEOREM TypeCorrect == Spec => []TypeOK
  <1>1. TypeOK /\ [Next]_vars => TypeOK'
    BY NextType
  <1> QED
    BY InitType, <1>1, PTL DEF Spec

-----------------------------------------------------------------------------
(* The reference map and stopped timers.                                   *)

\* RefsExact is inductive together with: a timer is in one queue, no queue or
\* set names a timer that was not created yet, a stopped timer that is still
\* queued is cancelled, and the timer being run is a merged one.
OneQueue ==
  /\ \A t \in Threads : threadScheduled[t] \intersect scheduledTasks = {}
  /\ \A t, u \in Threads : t # u => threadScheduled[t] \intersect threadScheduled[u] = {}

TimersCreated ==
  /\ Queued \subseteq 1 .. lastEventId
  /\ cancelled \subseteq 1 .. lastEventId
  /\ stopped \subseteq 1 .. lastEventId

StoppedCancelled == stopped \intersect Queued \subseteq cancelled

TimersInv == RefsExact /\ OneQueue /\ TimersCreated /\ StoppedCancelled

RunningMerged == running # NoTimer => running \in scheduledTasks

LEMMA QueuedAfterSchedule ==
  ASSUME TypeOK, NEW t \in Threads, NEW k,
         threadScheduled' = [threadScheduled EXCEPT ![t] = @ \union {k}],
         scheduledTasks' = scheduledTasks
  PROVE  Queued' = Queued \union {k}
  BY DEF Queued, TypeOK, SharedTypes

LEMMA ScheduleEventTimers ==
  ASSUME TypeOK, TimersInv, NEW t \in Threads, ScheduleEvent(t)
  PROVE  TimersInv' /\ scheduledTasks' = scheduledTasks
  <1> DEFINE k == lastEventId + 1
  <1>1. /\ k \in Timers /\ lastEventId' = k
        /\ threadScheduled' = [threadScheduled EXCEPT ![t] = @ \union {k}]
        /\ scheduledTasksRef' = scheduledTasksRef \union {k}
        /\ UNCHANGED <<scheduledTasks, cancelled, stopped>>
    BY DEF ScheduleEvent
  <1>2. Queued' = Queued \union {k}
    BY <1>1, QueuedAfterSchedule
  <1>3. lastEventId \in Nat
    BY TimersAssumption DEF TypeOK, SharedTypes
  <1>4. k \notin Queued /\ k \notin cancelled /\ k \notin stopped
    BY <1>3 DEF TimersInv, TimersCreated
  <1>5. RefsExact'
    BY <1>1, <1>2, <1>4 DEF TimersInv, RefsExact
  <1>6. OneQueue'
    BY <1>1, <1>4 DEF TimersInv, OneQueue, Queued, TypeOK, SharedTypes
  <1>7. TimersCreated'
    <2>1. 1 .. lastEventId \subseteq 1 .. lastEventId' /\ k \in 1 .. lastEventId'
      BY <1>1, <1>3
    <2> QED
      BY <1>1, <1>2, <2>1 DEF TimersInv, TimersCreated
  <1>8. StoppedCancelled'
    BY <1>1, <1>2, <1>4 DEF TimersInv, StoppedCancelled
  <1> QED
    BY <1>1, <1>5, <1>6, <1>7, <1>8 DEF TimersInv

LEMMA StopEventTimers ==
  ASSUME TypeOK, TimersInv, StopEvent
  PROVE  TimersInv' /\ scheduledTasks' = scheduledTasks
  <1>1. PICK k \in (Perpetual + 1) .. lastEventId :
          /\ stopped' = stopped \union {k}
          /\ cancelled' = IF k \in scheduledTasksRef THEN cancelled \union {k} ELSE cancelled
          /\ scheduledTasksRef' = scheduledTasksRef \ {k}
    BY DEF StopEvent
  <1>2. k \in 1 .. lastEventId
    BY TimersAssumption DEF TypeOK, SharedTypes
  <1>3. UNCHANGED <<threadScheduled, scheduledTasks, lastEventId>>
    BY DEF StopEvent
  <1>4. Queued' = Queued
    BY <1>3 DEF Queued
  <1> QED
    BY <1>1, <1>2, <1>3, <1>4
    DEF TimersInv, RefsExact, OneQueue, TimersCreated, StoppedCancelled

LEMMA TimersUnchanged ==
  ASSUME TimersInv, UNCHANGED timerVars
  PROVE  TimersInv' /\ scheduledTasks' = scheduledTasks
  BY DEF timerVars, TimersInv, RefsExact, OneQueue, TimersCreated, StoppedCancelled, Queued

LEMMA EffectTimers ==
  ASSUME TypeOK, TimersInv, NEW t \in Threads, Effect(t)
  PROVE  TimersInv' /\ scheduledTasks' = scheduledTasks
  BY TimersUnchanged, ScheduleEventTimers, StopEventTimers DEF Effect, AddEvent

LEMMA ExecuteEventTimers ==
  ASSUME TypeOK, TimersInv, NEW t \in Threads, NEW e, ExecuteEvent(t, e)
  PROVE  TimersInv' /\ scheduledTasks' = scheduledTasks
  BY TimersUnchanged, EffectTimers DEF ExecuteEvent

LEMMA MergeThreadTimers ==
  ASSUME TypeOK, TimersInv, RunningMerged, MergeThread
  PROVE  TimersInv' /\ RunningMerged'
  <1> DEFINE t == mergeNext
  <1>1. t \in Threads
    BY ThreadsAssumption DEF MergeThread, TypeOK, LoopTypes, Threads
  <1>2. UNCHANGED <<scheduledTasksRef, cancelled, lastEventId, stopped, running>>
    BY DEF MergeThread
  <1>3. \/ /\ scheduledTasks' = scheduledTasks \union threadScheduled[t]
           /\ threadScheduled' = [threadScheduled EXCEPT ![t] = {}]
        \/ UNCHANGED <<scheduledTasks, threadScheduled>>
    BY DEF MergeThread
  <1>4. Queued' = Queued
    <2>1. CASE UNCHANGED <<scheduledTasks, threadScheduled>>
      BY <2>1 DEF Queued
    <2>2. CASE /\ scheduledTasks' = scheduledTasks \union threadScheduled[t]
               /\ threadScheduled' = [threadScheduled EXCEPT ![t] = {}]
      <3>1. \A u \in Threads : threadScheduled'[u] = IF u = t THEN {} ELSE threadScheduled[u]
        BY <1>1, <2>2 DEF TypeOK, SharedTypes
      <3>2. \A k : (k \in Queued') <=> (k \in Queued)
        BY <1>1, <2>2, <3>1 DEF Queued
      <3> QED
        BY <3>2
    <2> QED
      BY <1>3, <2>1, <2>2
  <1>5. OneQueue'
    BY <1>1, <1>3 DEF TimersInv, OneQueue, TypeOK, SharedTypes
  <1>6. RunningMerged'
    BY <1>2, <1>3 DEF RunningMerged
  <1> QED
    BY <1>2, <1>4, <1>5, <1>6 DEF TimersInv, RefsExact, TimersCreated, StoppedCancelled

LEMMA FinishTimerTimers ==
  ASSUME TypeOK, TimersInv, RunningMerged, FinishTimer
  PROVE  TimersInv' /\ RunningMerged'
  <1>1. /\ running \in scheduledTasks
        /\ scheduledTasks' = scheduledTasks \ {running}
        /\ running' = NoTimer
        /\ UNCHANGED <<cancelled, lastEventId, stopped>>
    BY DEF FinishTimer, RunningMerged
  <1>2. CASE /\ threadScheduled' = [threadScheduled EXCEPT ![DThread] = @ \union {running}]
             /\ UNCHANGED scheduledTasksRef
    <2>1. Queued' = Queued
      BY <1>1, <1>2, ThreadsAssumption DEF Queued, TypeOK, SharedTypes
    <2>2. OneQueue'
      BY <1>1, <1>2, ThreadsAssumption DEF TimersInv, OneQueue, TypeOK, SharedTypes
    <2> QED
      BY <1>1, <1>2, <2>1, <2>2
      DEF TimersInv, RefsExact, TimersCreated, StoppedCancelled, RunningMerged
  <1>3. CASE /\ scheduledTasksRef' = scheduledTasksRef \ {running}
             /\ UNCHANGED threadScheduled
    <2>1. Queued' = Queued \ {running}
      BY <1>1, <1>3 DEF Queued, TimersInv, OneQueue
    <2>2. OneQueue'
      BY <1>1, <1>3 DEF TimersInv, OneQueue
    <2> QED
      BY <1>1, <1>3, <2>1, <2>2
      DEF TimersInv, RefsExact, TimersCreated, StoppedCancelled, RunningMerged
  <1> QED
    BY <1>2, <1>3 DEF FinishTimer

LEMMA InitTimers == Init => TimersInv /\ RunningMerged
  <1> SUFFICES ASSUME Init PROVE TimersInv /\ RunningMerged
    OBVIOUS
  <1>1. Queued = 1 .. Perpetual
    BY ThreadsAssumption DEF Init, Queued
  <1> QED
    BY <1>1 DEF Init, TimersInv, RefsExact, OneQueue, TimersCreated, StoppedCancelled,
                RunningMerged

LEMMA NextTimers ==
  ASSUME TypeOK, TimersInv, RunningMerged, [Next]_vars
  PROVE  TimersInv' /\ RunningMerged'
  <1>1. CASE MergeThread
    BY <1>1, MergeThreadTimers
  <1>2. CASE ExecuteSerial
    BY <1>2, ExecuteEventTimers, ThreadsAssumption DEF ExecuteSerial, RunningMerged
  <1>3. CASE ExecuteParallel
    BY <1>3, ExecuteEventTimers, ThreadsAssumption DEF ExecuteParallel, RunningMerged
  <1>4. CASE RunTimer
    <2>1. PICK k \in scheduledTasks :
            /\ running' = k
            /\ Effect(DThread) \/ UNCHANGED timerVars
      BY <1>4 DEF RunTimer
    <2>2. TimersInv' /\ scheduledTasks' = scheduledTasks
      BY <2>1, EffectTimers, TimersUnchanged, ThreadsAssumption
    <2> QED
      BY <2>1, <2>2 DEF RunningMerged
  <1>5. CASE FinishTimer
    BY <1>5, FinishTimerTimers
  <1>6. CASE OtherThread
    <2>1. TimersInv' /\ scheduledTasks' = scheduledTasks
      BY <1>6, ScheduleEventTimers, TimersUnchanged DEF OtherThread, AddEvent
    <2> QED
      BY <1>6, <2>1 DEF OtherThread, RunningMerged
  <1>7. CASE UNCHANGED <<timerVars, running>>
    BY <1>7, TimersUnchanged DEF RunningMerged
  <1>8. \/ MergeThread \/ ExecuteSerial \/ ExecuteParallel \/ RunTimer \/ FinishTimer
        \/ OtherThread \/ UNCHANGED <<timerVars, running>>
    BY DEF Next, DispatcherStep, UpdateTime, EndMerge, EndGroup, EndTimers, Decide, Sleep,
           TimeoutWake, SpuriousWake, vars, timerVars, loopVars
  <1> QED
    BY <1>1, <1>2, <1>3, <1>4, <1>5, <1>6, <1>7, <1>8

LEMMA TimersInvariant == Spec => [](TypeOK /\ TimersInv /\ RunningMerged)
  <1>1. Init => TypeOK /\ TimersInv /\ RunningMerged
    BY InitType, InitTimers
  <1>2. TypeOK /\ TimersInv /\ RunningMerged /\ [Next]_vars
          => (TypeOK /\ TimersInv /\ RunningMerged)'
    BY NextType, NextTimers
  <1> QED
    BY <1>1, <1>2, PTL DEF Spec

\* scheduledTasksRef always holds the timers that are queued and not cancelled:
\* stopEvent can find every timer that could still run, and no id stays behind.
THEOREM RefsExactHolds == Spec => []RefsExact
  <1>1. TypeOK /\ TimersInv /\ RunningMerged => RefsExact
    BY DEF TimersInv
  <1> QED
    BY TimersInvariant, <1>1, PTL

\* After stopEvent(k) the function of k is never called again: a stopped timer
\* that is still queued is cancelled, so execute() returns false.
THEOREM StoppedNeverRunsHolds == Spec => StoppedNeverRuns
  <1>1. ASSUME TypeOK, TimersInv, RunningMerged, [Next]_vars
        PROVE  [\A k \in stopped : running # k /\ running' = k => ~ran']_vars
    <2> SUFFICES ASSUME NEW k \in stopped, running # k, running' = k
                 PROVE  ~ran'
      BY DEF vars
    <2>1. k # NoTimer
      BY <1>1 DEF TimersInv, TimersCreated, NoTimer
    <2>2. RunTimer
      BY <1>1, <2>1 DEF Next, DispatcherStep, UpdateTime, MergeThread, EndMerge, ExecuteSerial,
         ExecuteParallel, EndGroup, FinishTimer, EndTimers, Decide, Sleep, TimeoutWake,
         SpuriousWake, OtherThread, vars, loopVars
    <2>3. k \in scheduledTasks /\ (k \in cancelled => ran' = FALSE)
      BY <2>2 DEF RunTimer
    <2>4. k \in cancelled
      BY <1>1, <2>3 DEF TimersInv, StoppedCancelled, Queued
    <2> QED
      BY <2>3, <2>4
  <1> QED
    BY TimersInvariant, <1>1, PTL DEF Spec, StoppedNeverRuns

-----------------------------------------------------------------------------
(* Sequences without repetition, and the sets of what they hold.           *)

LEMMA EmptyOnce == IsInjective(<< >>) /\ ToSet(<< >>) = {}
  BY DEF IsInjective, ToSet

LEMMA AppendOnce ==
  ASSUME NEW S, NEW q \in Seq(S), NEW e \in S
  PROVE  /\ ToSet(Append(q, e)) = ToSet(q) \union {e}
         /\ IsInjective(q) /\ e \notin ToSet(q) => IsInjective(Append(q, e))
  <1> DEFINE longer == Append(q, e)
  <1>1. /\ DOMAIN longer = 1 .. Len(q) + 1 /\ DOMAIN q = 1 .. Len(q) /\ Len(q) \in Nat
        /\ \A i \in 1 .. Len(q) : longer[i] = q[i]
        /\ longer[Len(q) + 1] = e
    OBVIOUS
  <1> HIDE DEF longer
  <1>2. ToSet(longer) = ToSet(q) \union {e}
    BY <1>1 DEF ToSet
  <1>3. ASSUME IsInjective(q), e \notin ToSet(q) PROVE IsInjective(longer)
    BY <1>1, <1>3 DEF IsInjective, ToSet
  <1> QED
    BY <1>2, <1>3 DEF longer

LEMMA ConcatOnce ==
  ASSUME NEW S, NEW q \in Seq(S), NEW r \in Seq(S)
  PROVE  /\ ToSet(q \o r) = ToSet(q) \union ToSet(r)
         /\ IsInjective(q) /\ IsInjective(r) /\ ToSet(q) \intersect ToSet(r) = {}
              => IsInjective(q \o r)
  <1> DEFINE both == q \o r
  <1>1. /\ Len(q) \in Nat /\ Len(r) \in Nat
        /\ DOMAIN both = 1 .. Len(q) + Len(r) /\ DOMAIN q = 1 .. Len(q) /\ DOMAIN r = 1 .. Len(r)
        /\ \A i \in 1 .. Len(q) : both[i] = q[i]
        /\ \A i \in Len(q) + 1 .. Len(q) + Len(r) :
             i - Len(q) \in 1 .. Len(r) /\ both[i] = r[i - Len(q)]
        /\ \A j \in 1 .. Len(r) : j + Len(q) \in DOMAIN both /\ both[j + Len(q)] = r[j]
    OBVIOUS
  <1> HIDE DEF both
  <1>2. \A i \in DOMAIN both :
          /\ i \in Int
          /\ \/ i \in DOMAIN q /\ both[i] = q[i]
             \/ i - Len(q) \in DOMAIN r /\ both[i] = r[i - Len(q)]
    BY <1>1
  <1>3. \A i \in 1 .. Len(q) : i \in DOMAIN both
    BY <1>1
  <1>4. ToSet(both) = ToSet(q) \union ToSet(r)
    <2>1. ASSUME NEW i \in DOMAIN both PROVE both[i] \in ToSet(q) \union ToSet(r)
      BY <1>1, <1>2 DEF ToSet
    <2>2. ASSUME NEW i \in DOMAIN q PROVE q[i] \in ToSet(both)
      BY <1>1, <1>3 DEF ToSet
    <2>3. ASSUME NEW j \in DOMAIN r PROVE r[j] \in ToSet(both)
      BY <1>1 DEF ToSet
    <2> QED
      BY <2>1, <2>2, <2>3 DEF ToSet
  <1>5. ASSUME IsInjective(q), IsInjective(r), ToSet(q) \intersect ToSet(r) = {}
        PROVE  IsInjective(both)
    <2> SUFFICES ASSUME NEW i \in DOMAIN both, NEW j \in DOMAIN both, both[i] = both[j]
                 PROVE  i = j
      BY DEF IsInjective
    <2>1. CASE i \in DOMAIN q /\ both[i] = q[i] /\ j \in DOMAIN q /\ both[j] = q[j]
      BY <1>5, <2>1 DEF IsInjective
    <2>2. CASE /\ i - Len(q) \in DOMAIN r /\ both[i] = r[i - Len(q)]
               /\ j - Len(q) \in DOMAIN r /\ both[j] = r[j - Len(q)]
      <3>1. i - Len(q) = j - Len(q)
        BY <1>5, <2>2 DEF IsInjective
      <3>2. i \in Int /\ j \in Int /\ Len(q) \in Int
        BY <1>1, <1>2
      <3> QED
        BY <3>1, <3>2
    <2>3. CASE both[i] \in ToSet(q) /\ both[j] \in ToSet(r)
      BY <1>5, <2>3
    <2>4. CASE both[j] \in ToSet(q) /\ both[i] \in ToSet(r)
      BY <1>5, <2>4
    <2> QED
      BY <1>2, <2>1, <2>2, <2>3, <2>4 DEF ToSet
  <1> QED
    BY <1>4, <1>5 DEF both

LEMMA RemoveOnce ==
  ASSUME NEW S, NEW q \in Seq(S), NEW i \in 1 .. Len(q), IsInjective(q)
  PROVE  /\ IsInjective(RemoveAt(q, i))
         /\ ToSet(RemoveAt(q, i)) = ToSet(q) \ {q[i]}
         /\ q[i] \in ToSet(q)
  <1> DEFINE front == SubSeq(q, 1, i - 1)
             back  == SubSeq(q, i + 1, Len(q))
  <1>1. /\ front \in Seq(S) /\ DOMAIN front = 1 .. i - 1
        /\ \A j \in 1 .. i - 1 : front[j] = q[j] /\ j \in DOMAIN q
    OBVIOUS
  <1>2. /\ back \in Seq(S) /\ DOMAIN back = 1 .. Len(q) - i
        /\ \A j \in 1 .. Len(q) - i : back[j] = q[i + j] /\ i + j \in DOMAIN q
    OBVIOUS
  <1>3. i \in Nat /\ Len(q) \in Nat /\ DOMAIN q = 1 .. Len(q)
    OBVIOUS
  <1> HIDE DEF front, back
  <1>4. IsInjective(front) /\ \A x \in ToSet(front) : \E j \in 1 .. i - 1 : x = q[j]
    BY <1>1 DEF IsInjective, ToSet
  <1>5. IsInjective(back)
    <2> SUFFICES ASSUME NEW j \in DOMAIN back, NEW k \in DOMAIN back, back[j] = back[k]
                 PROVE  j = k
      BY DEF IsInjective
    <2>1. i + j = i + k
      BY <1>2 DEF IsInjective
    <2> QED
      BY <1>2, <1>3, <2>1
  <1>6. \A x \in ToSet(back) : \E j \in i + 1 .. Len(q) : x = q[j]
    <2> SUFFICES ASSUME NEW j \in DOMAIN back PROVE \E k \in i + 1 .. Len(q) : back[j] = q[k]
      BY DEF ToSet
    <2>1. i + j \in i + 1 .. Len(q)
      BY <1>2, <1>3
    <2> QED
      BY <1>2, <2>1
  <1>7. ToSet(front) \intersect ToSet(back) = {}
    <2> SUFFICES ASSUME NEW x \in ToSet(front), x \in ToSet(back) PROVE FALSE
      OBVIOUS
    <2>1. PICK j \in 1 .. i - 1 : x = q[j]
      BY <1>4
    <2>2. PICK k \in i + 1 .. Len(q) : x = q[k]
      BY <1>6
    <2>3. j \in DOMAIN q /\ k \in DOMAIN q /\ j # k
      BY <1>3
    <2> QED
      BY <2>1, <2>2, <2>3 DEF IsInjective
  <1>8. ToSet(front) \union ToSet(back) = ToSet(q) \ {q[i]}
    <2>1. ASSUME NEW x \in ToSet(front) \union ToSet(back) PROVE x \in ToSet(q) \ {q[i]}
      <3>1. PICK j \in DOMAIN q : j # i /\ x = q[j]
        BY <1>3, <1>4, <1>6
      <3> QED
        BY <1>3, <3>1 DEF IsInjective, ToSet
    <2>2. ASSUME NEW j \in DOMAIN q, j # i PROVE q[j] \in ToSet(front) \union ToSet(back)
      <3>1. CASE j < i
        BY <1>1, <1>3, <2>2, <3>1 DEF ToSet
      <3>2. CASE j > i
        <4>1. j - i \in DOMAIN back /\ i + (j - i) = j
          BY <1>2, <1>3, <3>2
        <4> QED
          BY <1>2, <4>1 DEF ToSet
      <3> QED
        BY <1>3, <2>2, <3>1, <3>2
    <2> QED
      BY <2>1, <2>2 DEF ToSet
  <1>9. RemoveAt(q, i) = front \o back
    BY DEF RemoveAt, front, back
  <1>10. q[i] \in ToSet(q)
    BY <1>3 DEF ToSet
  <1> QED
    BY <1>1, <1>2, <1>4, <1>5, <1>7, <1>8, <1>9, <1>10, ConcatOnce

\* executeSerialEvents takes the front.
LEMMA TailIsRemoveAt ==
  ASSUME NEW S, NEW q \in Seq(S), q # << >>
  PROVE  Tail(q) = RemoveAt(q, 1) /\ Head(q) = q[1] /\ 1 \in 1 .. Len(q)
  <1>1. SubSeq(q, 1, 0) = << >> /\ SubSeq(q, 2, Len(q)) = Tail(q) /\ Tail(q) \in Seq(S)
    OBVIOUS
  <1> QED
    BY <1>1 DEF RemoveAt

LEMMA MergedOnce ==
  ASSUME NEW main \in Seq(Events), NEW mine \in Seq(Events), IsInjective(main), IsInjective(mine),
         ToSet(main) \intersect ToSet(mine) = {}
  PROVE  /\ IsInjective(MergedQueue(main, mine))
         /\ ToSet(MergedQueue(main, mine)) = ToSet(main) \union ToSet(mine)
  <1>1. /\ IsInjective(main \o mine) /\ ToSet(main \o mine) = ToSet(main) \union ToSet(mine)
        /\ IsInjective(mine \o main) /\ ToSet(mine \o main) = ToSet(main) \union ToSet(mine)
    BY ConcatOnce
  <1> QED
    BY <1>1 DEF MergedQueue

-----------------------------------------------------------------------------
(* Every pending event in one place.                                       *)

Queues(main, mine) == [h \in QueueIds |-> IF h[1] = 0 THEN main[h[2]] ELSE mine[h[1]][h[2]]]
QueueFamilies == [QueueIds -> Seq(Events)]

\* The events of P, and no others, are in the queues, each once and in one queue.
Placed(Q, P) ==
  /\ \A h \in QueueIds : IsInjective(Q[h]) /\ ToSet(Q[h]) \subseteq P
  /\ \A h, k \in QueueIds : h # k => ToSet(Q[h]) \intersect ToSet(Q[k]) = {}
  /\ \A e \in P : \E h \in QueueIds : e \in ToSet(Q[h])

LEMMA PlacedRemove ==
  ASSUME NEW Q \in QueueFamilies, NEW P, Placed(Q, P),
         NEW h \in QueueIds, NEW i \in 1 .. Len(Q[h])
  PROVE  /\ Q[h][i] \in P
         /\ Placed([Q EXCEPT ![h] = RemoveAt(@, i)], P \ {Q[h][i]})
  <1> DEFINE R == [Q EXCEPT ![h] = RemoveAt(@, i)]
             e == Q[h][i]
  <1>1. Q[h] \in Seq(Events) /\ IsInjective(Q[h])
    BY DEF QueueFamilies, Placed
  <1>2. /\ IsInjective(RemoveAt(Q[h], i))
        /\ ToSet(RemoveAt(Q[h], i)) = ToSet(Q[h]) \ {e}
        /\ e \in ToSet(Q[h])
    BY <1>1, RemoveOnce
  <1>3. R[h] = RemoveAt(Q[h], i) /\ \A k \in QueueIds : k # h => R[k] = Q[k]
    BY DEF QueueFamilies
  <1> HIDE DEF R, e
  <1>4. \A k \in QueueIds : ToSet(R[k]) = ToSet(Q[k]) \ {e} /\ IsInjective(R[k])
    BY <1>2, <1>3 DEF Placed
  <1>5. e \in P
    BY <1>2 DEF Placed
  <1>6. Placed(R, P \ {e})
    <2>1. \A k \in QueueIds : IsInjective(R[k]) /\ ToSet(R[k]) \subseteq P \ {e}
      BY <1>4 DEF Placed
    <2>2. \A j, k \in QueueIds : j # k => ToSet(R[j]) \intersect ToSet(R[k]) = {}
      BY <1>4 DEF Placed
    <2>3. \A o \in P \ {e} : \E k \in QueueIds : o \in ToSet(R[k])
      BY <1>4 DEF Placed
    <2> QED
      BY <2>1, <2>2, <2>3 DEF Placed
  <1> QED
    BY <1>5, <1>6 DEF R, e

LEMMA PlacedAdd ==
  ASSUME NEW Q \in QueueFamilies, NEW P, Placed(Q, P),
         NEW h \in QueueIds, NEW e \in Events, e \notin P
  PROVE  Placed([Q EXCEPT ![h] = Append(@, e)], P \union {e})
  <1> DEFINE R == [Q EXCEPT ![h] = Append(@, e)]
  <1>1. Q[h] \in Seq(Events) /\ IsInjective(Q[h]) /\ e \notin ToSet(Q[h])
    BY DEF QueueFamilies, Placed
  <1>2. /\ IsInjective(Append(Q[h], e))
        /\ ToSet(Append(Q[h], e)) = ToSet(Q[h]) \union {e}
    BY <1>1, AppendOnce
  <1>3. R[h] = Append(Q[h], e) /\ \A k \in QueueIds : k # h => R[k] = Q[k]
    BY DEF QueueFamilies
  <1> HIDE DEF R
  <1>4. \A k \in QueueIds : /\ IsInjective(R[k])
                            /\ ToSet(R[k]) = IF k = h THEN ToSet(Q[k]) \union {e} ELSE ToSet(Q[k])
    BY <1>2, <1>3 DEF Placed
  <1>5. \A k \in QueueIds : ToSet(Q[k]) \subseteq P /\ e \notin ToSet(Q[k])
    BY DEF Placed
  <1>6. \A k, l \in QueueIds : k # l => ToSet(R[k]) \intersect ToSet(R[l]) = {}
    <2> SUFFICES ASSUME NEW k \in QueueIds, NEW l \in QueueIds, k # l,
                        NEW x \in ToSet(R[k]), x \in ToSet(R[l])
                 PROVE  FALSE
      OBVIOUS
    <2>1. ToSet(Q[k]) \intersect ToSet(Q[l]) = {}
      BY DEF Placed
    <2> QED
      BY <1>4, <1>5, <2>1
  <1>7. \A k \in QueueIds : IsInjective(R[k]) /\ ToSet(R[k]) \subseteq P \union {e}
    BY <1>4, <1>5
  <1>8. \A x \in P \union {e} : \E k \in QueueIds : x \in ToSet(R[k])
    BY <1>4 DEF Placed
  <1>9. Placed(R, P \union {e})
    BY <1>6, <1>7, <1>8 DEF Placed
  <1> QED
    BY <1>9 DEF R

\* The queues of thread t of the groups gs are merged into the main ones.
Merges(Q, R, t, gs) ==
  \A h \in QueueIds :
    R[h] = IF h[2] \in gs /\ h[1] = 0
           THEN MergedQueue(Q[<<0, h[2]>>], Q[<<t, h[2]>>])
           ELSE IF h[2] \in gs /\ h[1] = t THEN << >> ELSE Q[h]

LEMMA PlacedMerge ==
  ASSUME NEW Q \in QueueFamilies, NEW P, Placed(Q, P), NEW t \in Threads, NEW gs, NEW R,
         Merges(Q, R, t, gs)
  PROVE  Placed(R, P)
  <1> USE DEF Merges
  <1>1. t # 0
    BY ThreadsAssumption DEF Threads
  <1>2. \A g \in Groups : <<0, g>> \in QueueIds /\ <<t, g>> \in QueueIds /\ <<0, g>> # <<t, g>>
    BY <1>1 DEF QueueIds
  <1>3. \A h \in QueueIds : h[2] \in Groups /\ h = <<h[1], h[2]>>
    BY DEF QueueIds
  <1>4. ASSUME NEW g \in Groups, g \in gs
        PROVE  /\ IsInjective(R[<<0, g>>])
               /\ ToSet(R[<<0, g>>]) = ToSet(Q[<<0, g>>]) \union ToSet(Q[<<t, g>>])
               /\ IsInjective(R[<<t, g>>]) /\ ToSet(R[<<t, g>>]) = {}
    <2>1. Q[<<0, g>>] \in Seq(Events) /\ Q[<<t, g>>] \in Seq(Events)
      BY <1>2 DEF QueueFamilies
    <2>2. /\ IsInjective(Q[<<0, g>>]) /\ IsInjective(Q[<<t, g>>])
          /\ ToSet(Q[<<0, g>>]) \intersect ToSet(Q[<<t, g>>]) = {}
      BY <1>2 DEF Placed
    <2>3. R[<<0, g>>] = MergedQueue(Q[<<0, g>>], Q[<<t, g>>]) /\ R[<<t, g>>] = << >>
      BY <1>1, <1>2, <1>4
    <2>4. /\ IsInjective(MergedQueue(Q[<<0, g>>], Q[<<t, g>>]))
          /\ ToSet(MergedQueue(Q[<<0, g>>], Q[<<t, g>>])) = ToSet(Q[<<0, g>>]) \union ToSet(Q[<<t, g>>])
      <3>1. PICK main \in Seq(Events), mine \in Seq(Events) :
              main = Q[<<0, g>>] /\ mine = Q[<<t, g>>]
        BY <2>1
      <3>2. /\ IsInjective(MergedQueue(main, mine))
            /\ ToSet(MergedQueue(main, mine)) = ToSet(main) \union ToSet(mine)
        <4>1. IsInjective(main) /\ IsInjective(mine) /\ ToSet(main) \intersect ToSet(mine) = {}
          BY <2>2, <3>1
        <4> QED
          BY <4>1, MergedOnce
      <3> QED
        BY <3>1, <3>2
    <2> QED
      BY <2>3, <2>4, EmptyOnce
  <1>5. \A h \in QueueIds : ~(h[2] \in gs /\ h[1] \in {0, t}) => R[h] = Q[h]
    OBVIOUS
  <1>6. ASSUME NEW h \in QueueIds
        PROVE  /\ IsInjective(R[h])
               /\ \A e \in ToSet(R[h]) :
                    \/ e \in ToSet(Q[h]) /\ ~(h[2] \in gs /\ h[1] = t)
                    \/ h[1] = 0 /\ h[2] \in gs /\ e \in ToSet(Q[<<t, h[2]>>])
               /\ \A e \in ToSet(Q[h]) :
                    IF h[2] \in gs /\ h[1] = t THEN e \in ToSet(R[<<0, h[2]>>]) ELSE e \in ToSet(R[h])
    <2> DEFINE g == h[2]
    <2>1. CASE ~(g \in gs /\ h[1] \in {0, t})
      BY <1>5, <2>1 DEF Placed
    <2>2. CASE g \in gs /\ h[1] = 0
      <3>1. h = <<0, g>> /\ g \in Groups
        BY <1>3, <2>2
      <3>2. IsInjective(R[h]) /\ ToSet(R[h]) = ToSet(Q[h]) \union ToSet(Q[<<t, g>>])
        BY <1>4, <2>2, <3>1
      <3> QED
        BY <1>1, <2>2, <3>2
    <2>3. CASE g \in gs /\ h[1] = t
      <3>1. h = <<t, g>> /\ g \in Groups
        BY <1>3, <2>3
      <3>2. /\ IsInjective(R[h]) /\ ToSet(R[h]) = {}
            /\ ToSet(R[<<0, g>>]) = ToSet(Q[<<0, g>>]) \union ToSet(Q[h])
        BY <1>4, <2>3, <3>1
      <3> QED
        BY <2>3, <3>2
    <2> QED
      BY <2>1, <2>2, <2>3
  <1>9. ASSUME NEW h \in QueueIds, NEW e \in ToSet(R[h]) PROVE e \in P
    <2>1. CASE e \in ToSet(Q[h])
      BY <2>1 DEF Placed
    <2>2. CASE e \in ToSet(Q[<<t, h[2]>>])
      BY <1>2, <1>3, <2>2 DEF Placed
    <2> QED
      BY <1>6, <2>1, <2>2
  <1>10. ASSUME NEW h \in QueueIds, NEW k \in QueueIds, NEW e, e \in ToSet(R[h]), e \in ToSet(R[k])
         PROVE  h = k
    <2>1. CASE e \in ToSet(Q[h]) /\ e \in ToSet(Q[k])
      BY <2>1 DEF Placed
    <2>2. CASE h[1] = 0 /\ h[2] \in gs /\ e \in ToSet(Q[<<t, h[2]>>]) /\ e \in ToSet(Q[k])
      <3>1. k = <<t, h[2]>>
        BY <1>2, <1>3, <2>2 DEF Placed
      <3> QED
        BY <1>1, <1>2, <1>3, <1>4, <1>10, <2>2, <3>1
    <2>3. CASE k[1] = 0 /\ k[2] \in gs /\ e \in ToSet(Q[<<t, k[2]>>]) /\ e \in ToSet(Q[h])
      <3>1. h = <<t, k[2]>>
        BY <1>2, <1>3, <2>3 DEF Placed
      <3> QED
        BY <1>1, <1>2, <1>3, <1>4, <1>10, <2>3, <3>1
    <2>4. CASE /\ h[1] = 0 /\ h[2] \in gs /\ e \in ToSet(Q[<<t, h[2]>>])
               /\ k[1] = 0 /\ k[2] \in gs /\ e \in ToSet(Q[<<t, k[2]>>])
      <3>1. <<t, h[2]>> = <<t, k[2]>>
        BY <1>2, <1>3, <2>4 DEF Placed
      <3> QED
        BY <1>3, <2>4, <3>1
    <2> QED
      BY <1>6, <1>10, <2>1, <2>2, <2>3, <2>4
  <1>11. \A e \in P : \E h \in QueueIds : e \in ToSet(R[h])
    BY <1>2, <1>3, <1>6 DEF Placed
  <1> QED
    BY <1>6, <1>9, <1>10, <1>11 DEF Placed

-----------------------------------------------------------------------------
(* The invariant of the queues.                                            *)

Pending == Created \ Handled

QueueInv ==
  /\ executed \intersect dropped = {}
  /\ Handled \subseteq Created
  /\ Placed(Queues(mTasks, threadTasks), Pending)

\* An event is in a queue of its group, and of its thread until it is merged; if
\* it waits in its thread's queue, so do the later ones of that thread and group.
InOrder(main, mine, o) ==
  /\ \A g \in Groups : \A e \in ToSet(main[g]) : o[e].group = g
  /\ \A t \in Threads, g \in Groups : \A e \in ToSet(mine[t][g]) :
       /\ o[e] = [thread |-> t, group |-> g]
       /\ \A later \in 1 .. Len(o) :
            e < later /\ o[later] = o[e] => later \in ToSet(mine[t][g])

OrderInv == InOrder(mTasks, threadTasks, origin)

LEMMA QueuesType ==
  ASSUME NEW main \in [Groups -> Seq(Events)],
         NEW mine \in [Threads -> [Groups -> Seq(Events)]]
  PROVE  /\ Queues(main, mine) \in QueueFamilies
         /\ \A g \in Groups : <<0, g>> \in QueueIds /\ Queues(main, mine)[<<0, g>>] = main[g]
         /\ \A t \in Threads, g \in Groups :
              <<t, g>> \in QueueIds /\ Queues(main, mine)[<<t, g>>] = mine[t][g]
  BY ThreadsAssumption DEF Queues, QueueFamilies, QueueIds, Threads

LEMMA AddEventQueues ==
  ASSUME TypeOK, NEW t \in Threads, AddEvent(t),
         NEW main \in [Groups -> Seq(Events)], NEW D, D \subseteq Created,
         Placed(Queues(main, threadTasks), Created \ D), InOrder(main, threadTasks, origin)
  PROVE  /\ Placed(Queues(main, threadTasks'), Created' \ D)
         /\ InOrder(main, threadTasks', origin')
         /\ D \subseteq Created'
  <1> DEFINE e == Len(origin) + 1
             mine == threadTasks'
  <1>1. PICK g \in Groups, x \in BOOLEAN : AddTo(t, g, x)
    BY DEF AddEvent, Groups
  <1>2. /\ e \in Events
        /\ origin' = Append(origin, [thread |-> t, group |-> g])
        /\ mine = [threadTasks EXCEPT ![t][g] = Append(@, e)]
    BY <1>1 DEF AddTo
  <1>3. Len(origin) \in Nat /\ Created' = Created \union {e} /\ e \notin Created
    BY <1>2 DEF Created, TypeOK, SharedTypes
  <1>4. /\ origin'[e] = [thread |-> t, group |-> g]
        /\ \A o \in Created : origin'[o] = origin[o]
    BY <1>2 DEF Created, TypeOK, SharedTypes
  <1>5. /\ threadTasks[t][g] \in Seq(Events)
        /\ mine \in [Threads -> [Groups -> Seq(Events)]]
        /\ mine[t][g] = Append(threadTasks[t][g], e)
        /\ \A u \in Threads, f \in Groups : <<u, f>> # <<t, g>> => mine[u][f] = threadTasks[u][f]
    <2>1. threadTasks[t][g] \in Seq(Events) /\ Append(threadTasks[t][g], e) \in Seq(Events)
      BY <1>2 DEF TypeOK, SharedTypes
    <2> QED
      BY <1>2, <2>1 DEF TypeOK, SharedTypes
  <1> HIDE DEF mine, e
  <1>6. /\ Queues(main, threadTasks) \in QueueFamilies
        /\ <<t, g>> \in QueueIds
        /\ \A f \in Groups : <<0, f>> \in QueueIds /\ Queues(main, threadTasks)[<<0, f>>] = main[f]
        /\ \A u \in Threads, f \in Groups :
             <<u, f>> \in QueueIds /\ Queues(main, threadTasks)[<<u, f>>] = threadTasks[u][f]
    BY QueuesType DEF TypeOK, SharedTypes
  <1> DEFINE Q == Queues(main, threadTasks)
             R == Queues(main, mine)
  <1>7. R = [Q EXCEPT ![<<t, g>>] = Append(@, e)]
    <2>1. R[<<t, g>>] = Append(Q[<<t, g>>], e)
      BY <1>5, <1>6, QueuesType
    <2>2. ASSUME NEW h \in QueueIds, h # <<t, g>> PROVE R[h] = Q[h]
      <3>1. h[1] # 0 => h[1] \in Threads /\ h[2] \in Groups /\ <<h[1], h[2]>> # <<t, g>>
        BY <2>2 DEF QueueIds
      <3>2. h[1] # 0 => mine[h[1]][h[2]] = threadTasks[h[1]][h[2]]
        BY <1>5, <3>1
      <3> QED
        BY <3>2 DEF Queues
    <2>3. R = [h \in QueueIds |-> R[h]] /\ Q = [h \in QueueIds |-> Q[h]]
      BY DEF Queues
    <2> HIDE DEF Q, R
    <2> QED
      BY <1>6, <2>1, <2>2, <2>3
  <1>8. Placed(R, Created' \ D)
    <2>1. Created' \ D = (Created \ D) \union {e} /\ e \notin Created \ D
      BY <1>3
    <2>2. Q \in QueueFamilies /\ Placed(Q, Created \ D)
      BY <1>6
    <2> HIDE DEF Q, R
    <2>3. e \in Events
      BY <1>2 DEF e
    <2>4. Placed([Q EXCEPT ![<<t, g>>] = Append(@, e)], (Created \ D) \union {e})
      BY <1>6, <2>1, <2>2, <2>3, PlacedAdd
    <2> QED
      BY <1>7, <2>1, <2>4
  <1>9. /\ \A f \in Groups : ToSet(main[f]) \subseteq Created
        /\ \A u \in Threads, f \in Groups : ToSet(threadTasks[u][f]) \subseteq Created
    <2>1. \A h \in QueueIds : ToSet(Q[h]) \subseteq Created
      BY DEF Placed
    <2> QED
      BY <1>6, <2>1
  <1>10. /\ ToSet(mine[t][g]) = ToSet(threadTasks[t][g]) \union {e}
         /\ \A u \in Threads, f \in Groups :
              <<u, f>> # <<t, g>> => ToSet(mine[u][f]) = ToSet(threadTasks[u][f])
    BY <1>2, <1>5, AppendOnce DEF e
  <1>11. InOrder(main, mine, origin')
    <2>1. ASSUME NEW f \in Groups, NEW o \in ToSet(main[f]) PROVE origin'[o].group = f
      BY <1>4, <1>9 DEF InOrder
    <2>2. ASSUME NEW u \in Threads, NEW f \in Groups, NEW o \in ToSet(mine[u][f])
          PROVE  /\ origin'[o] = [thread |-> u, group |-> f]
                 /\ \A later \in 1 .. Len(origin') :
                      o < later /\ origin'[later] = origin'[o] => later \in ToSet(mine[u][f])
      <3>1. CASE o = e
        <4>1. u = t /\ f = g
          BY <1>3, <1>9, <1>10, <2>2, <3>1
        <4>2. \A later \in Created' : ~(o < later)
          BY <1>3, <3>1 DEF Created, e
        <4> QED
          BY <1>4, <3>1, <4>1, <4>2 DEF Created
      <3>2. CASE o # e
        <4>1. o \in ToSet(threadTasks[u][f]) /\ o \in Created
          <5>1. CASE u = t /\ f = g
            <6>1. o \in ToSet(threadTasks[t][g]) \union {e}
              BY <1>10, <2>2, <5>1
            <6> HIDE DEF e
            <6>2. o \in ToSet(threadTasks[u][f])
              BY <3>2, <5>1, <6>1
            <6> QED
              BY <1>9, <2>2, <6>2
          <5>2. CASE ~(u = t /\ f = g)
            <6>1. <<u, f>> # <<t, g>>
              BY <5>2
            <6>2. ToSet(mine[u][f]) = ToSet(threadTasks[u][f])
              BY <1>10, <2>2, <6>1
            <6>3. o \in ToSet(threadTasks[u][f])
              BY <2>2, <6>2
            <6> QED
              BY <1>9, <2>2, <6>3
          <5> QED
            BY <5>1, <5>2
        <4>2. origin'[o] = [thread |-> u, group |-> f] /\ origin[o] = origin'[o]
          BY <1>4, <4>1 DEF InOrder
        <4>3. ASSUME NEW later \in Created', o < later, origin'[later] = origin'[o]
              PROVE  later \in ToSet(mine[u][f])
          <5>1. CASE later = e
            <6>1. [thread |-> t, group |-> g] = [thread |-> u, group |-> f]
              BY <1>4, <4>2, <4>3, <5>1
            <6>2. u = t /\ f = g
              BY <6>1
            <6> QED
              BY <1>10, <5>1, <6>2
          <5>2. CASE later # e
            <6>1. later \in Created /\ origin[later] = origin[o]
              BY <1>3, <1>4, <4>2, <4>3, <5>2
            <6>2. later \in ToSet(threadTasks[u][f])
              BY <4>1, <4>3, <6>1 DEF InOrder, Created
            <6> QED
              BY <1>10, <6>2
          <5> QED
            BY <5>1, <5>2
        <4> QED
          BY <4>2, <4>3 DEF Created
      <3> QED
        BY <3>1, <3>2
    <2> QED
      BY <2>1, <2>2 DEF InOrder
  <1> QED
    BY <1>3, <1>8, <1>11 DEF mine

LEMMA EffectQueues ==
  ASSUME TypeOK, NEW t \in Threads, Effect(t),
         NEW main \in [Groups -> Seq(Events)], NEW D, D \subseteq Created,
         Placed(Queues(main, threadTasks), Created \ D), InOrder(main, threadTasks, origin)
  PROVE  /\ Placed(Queues(main, threadTasks'), Created' \ D)
         /\ InOrder(main, threadTasks', origin')
         /\ D \subseteq Created'
  <1>1. CASE AddEvent(t)
    BY <1>1, AddEventQueues
  <1>2. CASE UNCHANGED <<threadTasks, origin>>
    BY <1>2 DEF Created
  <1> QED
    BY <1>1, <1>2 DEF Effect, ScheduleEvent, StopEvent, eventVars

\* Event i of group g leaves the main queue, and thread t runs or drops it.
LEMMA ExecuteEventQueues ==
  ASSUME TypeOK, QueueInv, OrderInv, NEW t \in Threads, NEW g \in Groups,
         NEW i \in 1 .. Len(mTasks[g]),
         mTasks' = [mTasks EXCEPT ![g] = RemoveAt(@, i)],
         ExecuteEvent(t, mTasks[g][i])
  PROVE  QueueInv' /\ OrderInv'
  <1> DEFINE e == mTasks[g][i]
             main == mTasks'
             Q == Queues(mTasks, threadTasks)
             R == Queues(main, threadTasks)
             D == Handled \union {e}
  <1>1. mTasks \in [Groups -> Seq(Events)] /\ mTasks[g] \in Seq(Events)
    BY DEF TypeOK, LoopTypes
  <1>2. main \in [Groups -> Seq(Events)]
    BY <1>1, RemoveAtType
  <1>3. /\ Q \in QueueFamilies
        /\ <<0, g>> \in QueueIds /\ Q[<<0, g>>] = mTasks[g]
    BY <1>1, QueuesType DEF TypeOK, SharedTypes
  <1>4. R = [Q EXCEPT ![<<0, g>>] = RemoveAt(@, i)]
    <2>1. R[<<0, g>>] = RemoveAt(Q[<<0, g>>], i)
      <3>1. main[g] = RemoveAt(mTasks[g], i)
        BY <1>1
      <3>2. R[<<0, g>>] = main[g]
        <4> HIDE DEF main
        <4> QED
          BY <1>2, QueuesType DEF TypeOK, SharedTypes
      <3> QED
        BY <1>3, <3>1, <3>2
    <2>2. ASSUME NEW h \in QueueIds, h # <<0, g>> PROVE R[h] = Q[h]
      <3>1. h[1] = 0 => h[2] \in Groups /\ h[2] # g
        BY <2>2 DEF QueueIds
      <3>2. h[1] = 0 => main[h[2]] = mTasks[h[2]]
        BY <1>1, <3>1
      <3> QED
        BY <3>2 DEF Queues
    <2>3. R = [h \in QueueIds |-> R[h]] /\ Q = [h \in QueueIds |-> Q[h]]
      BY DEF Queues
    <2> HIDE DEF Q, R
    <2> QED
      BY <1>3, <2>1, <2>2, <2>3
  <1>5. e \in Pending /\ Placed(R, Pending \ {e})
    <2>1. Placed(Q, Pending)
      BY DEF QueueInv
    <2> HIDE DEF Q, R
    <2>2. Q[<<0, g>>][i] \in Pending /\ Placed([Q EXCEPT ![<<0, g>>] = RemoveAt(@, i)], Pending \ {Q[<<0, g>>][i]})
      BY <1>3, <2>1, PlacedRemove
    <2> QED
      BY <1>3, <1>4, <2>2
  <1>6. Pending \ {e} = Created \ D /\ D \subseteq Created
    BY <1>5 DEF Pending, QueueInv
  <1>7. InOrder(main, threadTasks, origin)
    <2>1. IsInjective(Q[<<0, g>>])
      BY <1>3 DEF QueueInv, Placed
    <2>2. ToSet(RemoveAt(mTasks[g], i)) \subseteq ToSet(mTasks[g])
      <3>1. IsInjective(mTasks[g])
        BY <1>3, <2>1
      <3> QED
        BY <1>1, <3>1, RemoveOnce
    <2>3. \A f \in Groups : ToSet(main[f]) \subseteq ToSet(mTasks[f])
      BY <1>1, <2>2
    <2> HIDE DEF main
    <2> QED
      BY <2>3 DEF OrderInv, InOrder
  <1>8. Handled' = D /\ executed' \intersect dropped' = {}
    BY <1>5 DEF ExecuteEvent, Handled, QueueInv, Pending
  <1>9. /\ Placed(Queues(main, threadTasks'), Created' \ D)
        /\ InOrder(main, threadTasks', origin')
        /\ D \subseteq Created'
    <2>1. CASE Effect(t)
      <3>1. Placed(Queues(main, threadTasks), Created \ D)
        BY <1>5, <1>6
      <3> HIDE DEF main, D, Q, R
      <3> QED
        BY <1>2, <1>6, <1>7, <2>1, <3>1, EffectQueues
    <2>2. CASE UNCHANGED <<threadTasks, origin>>
      BY <1>5, <1>6, <1>7, <2>2 DEF Created
    <2> QED
      BY <2>1, <2>2 DEF ExecuteEvent, eventVars
  <1> QED
    BY <1>8, <1>9 DEF QueueInv, OrderInv, Pending

LEMMA MergeThreadQueues ==
  ASSUME TypeOK, QueueInv, OrderInv, MergeThread
  PROVE  QueueInv' /\ OrderInv'
  <1> DEFINE t  == mergeNext
             gs == Loop[step].groups
             Q == Queues(mTasks, threadTasks)
             R == Queues(mTasks', threadTasks')
  <1>1. t \in Threads
    BY ThreadsAssumption DEF MergeThread, TypeOK, LoopTypes, Threads
  <1>2. /\ mTasks \in [Groups -> Seq(Events)]
        /\ threadTasks \in [Threads -> [Groups -> Seq(Events)]]
    BY DEF TypeOK, SharedTypes, LoopTypes
  <1>3. /\ \A g \in Groups : mTasks'[g] = IF g \in gs THEN MergedQueue(mTasks[g], threadTasks[t][g])
                                          ELSE mTasks[g]
        /\ \A g \in Groups : threadTasks'[t][g] = IF g \in gs THEN << >> ELSE threadTasks[t][g]
        /\ \A u \in Threads : u # t => threadTasks'[u] = threadTasks[u]
    BY <1>1, <1>2 DEF MergeThread
  <1>4. UNCHANGED <<origin, executed, dropped>>
    BY DEF MergeThread, eventVars, doneVars
  <1>5. Q \in QueueFamilies /\ Placed(Q, Pending)
    BY <1>2, QueuesType DEF QueueInv
  <1>6. /\ \A g \in Groups : <<0, g>> \in QueueIds /\ Q[<<0, g>>] = mTasks[g]
        /\ \A u \in Threads, g \in Groups : <<u, g>> \in QueueIds /\ Q[<<u, g>>] = threadTasks[u][g]
    BY <1>2, QueuesType
  <1>7. ASSUME NEW h \in QueueIds
        PROVE  R[h] = IF h[2] \in gs /\ h[1] = 0
                      THEN MergedQueue(Q[<<0, h[2]>>], Q[<<t, h[2]>>])
                      ELSE IF h[2] \in gs /\ h[1] = t THEN << >> ELSE Q[h]
    <2>1. h[2] \in Groups /\ h[1] \in Threads \union {0} /\ t # 0
      BY <1>1, ThreadsAssumption DEF QueueIds, Threads
    <2>2. R[h] = (IF h[1] = 0 THEN mTasks'[h[2]] ELSE threadTasks'[h[1]][h[2]])
      BY DEF Queues
    <2>3. Q[h] = (IF h[1] = 0 THEN mTasks[h[2]] ELSE threadTasks[h[1]][h[2]])
      BY DEF Queues
    <2>4. CASE h[1] = 0
      BY <1>1, <1>3, <1>6, <2>1, <2>2, <2>3, <2>4
    <2>5. CASE h[1] = t
      BY <1>3, <2>1, <2>2, <2>3, <2>5
    <2>6. CASE h[1] \notin {0, t}
      BY <1>3, <2>1, <2>2, <2>3, <2>6
    <2> QED
      BY <2>4, <2>5, <2>6
  <1>8. Placed(R, Pending)
    <2>1. Merges(Q, R, t, gs)
      BY <1>7 DEF Merges
    <2> HIDE DEF Q, R, t, gs
    <2> QED
      BY <1>1, <1>5, <2>1, PlacedMerge
  <1>9. QueueInv'
    BY <1>4, <1>8 DEF QueueInv, Pending, Handled, Created
  <1>10. \A g \in Groups : /\ ToSet(mTasks'[g]) \subseteq ToSet(mTasks[g]) \union ToSet(threadTasks[t][g])
                           /\ \A u \in Threads : \/ ToSet(threadTasks'[u][g]) = {}
                                                 \/ threadTasks'[u][g] = threadTasks[u][g]
    <2> SUFFICES ASSUME NEW g \in Groups
                 PROVE  /\ ToSet(mTasks'[g]) \subseteq ToSet(mTasks[g]) \union ToSet(threadTasks[t][g])
                        /\ \A u \in Threads : \/ ToSet(threadTasks'[u][g]) = {}
                                              \/ threadTasks'[u][g] = threadTasks[u][g]
      OBVIOUS
    <2>1. /\ IsInjective(Q[<<0, g>>]) /\ IsInjective(Q[<<t, g>>]) /\ <<0, g>> # <<t, g>>
          /\ <<0, g>> \in QueueIds /\ <<t, g>> \in QueueIds
      BY <1>1, <1>5, <1>6, ThreadsAssumption DEF Placed, Threads
    <2>2. ToSet(Q[<<0, g>>]) \intersect ToSet(Q[<<t, g>>]) = {}
      BY <1>5, <2>1 DEF Placed
    <2>3. /\ IsInjective(mTasks[g]) /\ IsInjective(threadTasks[t][g])
          /\ ToSet(mTasks[g]) \intersect ToSet(threadTasks[t][g]) = {}
          /\ mTasks[g] \in Seq(Events) /\ threadTasks[t][g] \in Seq(Events)
      BY <1>1, <1>2, <1>6, <2>1, <2>2
    <2>4. ToSet(MergedQueue(mTasks[g], threadTasks[t][g])) = ToSet(mTasks[g]) \union ToSet(threadTasks[t][g])
      BY <2>3, MergedOnce
    <2>5. ToSet(mTasks'[g]) \subseteq ToSet(mTasks[g]) \union ToSet(threadTasks[t][g])
      BY <1>3, <2>4
    <2>6. ASSUME NEW u \in Threads
          PROVE  ToSet(threadTasks'[u][g]) = {} \/ threadTasks'[u][g] = threadTasks[u][g]
      BY <1>3, EmptyOnce
    <2> QED
      BY <2>5, <2>6
  <1>11. OrderInv'
    <2>1. ASSUME NEW g \in Groups, NEW e \in ToSet(mTasks'[g]) PROVE origin[e].group = g
      <3>1. CASE e \in ToSet(mTasks[g])
        BY <3>1 DEF OrderInv, InOrder
      <3>2. CASE e \in ToSet(threadTasks[t][g])
        <4>1. origin[e] = [thread |-> t, group |-> g]
          BY <1>1, <3>2 DEF OrderInv, InOrder
        <4> QED
          BY <4>1
      <3> QED
        BY <1>10, <3>1, <3>2
    <2>2. ASSUME NEW u \in Threads, NEW g \in Groups, NEW e \in ToSet(threadTasks'[u][g])
          PROVE  /\ origin[e] = [thread |-> u, group |-> g]
                 /\ \A later \in 1 .. Len(origin) :
                      e < later /\ origin[later] = origin[e] => later \in ToSet(threadTasks'[u][g])
      <3>1. threadTasks'[u][g] = threadTasks[u][g]
        BY <1>10, <2>2
      <3> QED
        BY <2>2, <3>1 DEF OrderInv, InOrder
    <2> QED
      BY <1>4, <2>1, <2>2 DEF OrderInv, InOrder
  <1> QED
    BY <1>9, <1>11

LEMMA InitQueues == Init => QueueInv /\ OrderInv
  <1> SUFFICES ASSUME Init PROVE QueueInv /\ OrderInv
    OBVIOUS
  <1>1. Created = {} /\ Handled = {}
    BY DEF Init, Created, Handled
  <1>2. \A h \in QueueIds : Queues(mTasks, threadTasks)[h] = << >>
    BY DEF Init, Queues, QueueIds
  <1>3. Placed(Queues(mTasks, threadTasks), Pending)
    BY <1>1, <1>2, EmptyOnce DEF Placed, Pending
  <1>4. QueueInv
    BY <1>1, <1>3 DEF Init, QueueInv
  <1>5. /\ \A g \in Groups : ToSet(mTasks[g]) = {}
        /\ \A t \in Threads, g \in Groups : ToSet(threadTasks[t][g]) = {}
    BY EmptyOnce DEF Init
  <1> QED
    BY <1>4, <1>5 DEF OrderInv, InOrder

QueueStep == UNCHANGED <<mTasks, threadTasks, origin, executed, dropped>>

LEMMA UnchangedQueues ==
  ASSUME QueueInv, OrderInv, QueueStep
  PROVE  QueueInv' /\ OrderInv'
  BY DEF QueueStep, QueueInv, OrderInv, Pending, Handled, Created

\* Another thread, or a timer, may only add an event.
LEMMA AddOnlyQueues ==
  ASSUME TypeOK, QueueInv, OrderInv, NEW t \in Threads, Effect(t),
         UNCHANGED <<mTasks, executed, dropped>>
  PROVE  QueueInv' /\ OrderInv'
  <1>1. /\ mTasks \in [Groups -> Seq(Events)]
        /\ Handled \subseteq Created
        /\ Placed(Queues(mTasks, threadTasks), Created \ Handled)
        /\ InOrder(mTasks, threadTasks, origin)
    BY DEF TypeOK, LoopTypes, QueueInv, OrderInv, Pending
  <1>2. /\ Placed(Queues(mTasks, threadTasks'), Created' \ Handled)
        /\ InOrder(mTasks, threadTasks', origin')
        /\ Handled \subseteq Created'
    BY <1>1, EffectQueues
  <1> QED
    BY <1>2 DEF QueueInv, OrderInv, Pending, Handled

LEMMA NextQueues ==
  ASSUME TypeOK, QueueInv, OrderInv, [Next]_vars
  PROVE  QueueInv' /\ OrderInv'
  <1>1. CASE MergeThread
    BY <1>1, MergeThreadQueues
  <1>2. CASE ExecuteSerial
    <2>1. PICK g \in Loop[step].groups :
            /\ mTasks[g] # << >>
            /\ mTasks' = [mTasks EXCEPT ![g] = Tail(@)]
            /\ ExecuteEvent(DThread, Head(mTasks[g]))
      BY <1>2 DEF ExecuteSerial
    <2>2. g \in Groups /\ mTasks \in [Groups -> Seq(Events)]
      BY LoopShape DEF TypeOK, SharedTypes, LoopTypes
    <2>3. /\ 1 \in 1 .. Len(mTasks[g]) /\ Head(mTasks[g]) = mTasks[g][1]
          /\ Tail(mTasks[g]) = RemoveAt(mTasks[g], 1)
      BY <2>1, <2>2, TailIsRemoveAt
    <2>4. mTasks' = [mTasks EXCEPT ![g] = RemoveAt(@, 1)] /\ ExecuteEvent(DThread, mTasks[g][1])
      BY <2>1, <2>3
    <2> QED
      BY <2>2, <2>3, <2>4, ExecuteEventQueues, ThreadsAssumption
  <1>3. CASE ExecuteParallel
    <2>1. PICK g \in Loop[step].groups, t \in PoolThreads \union {DThread} :
          \E i \in 1 .. Len(mTasks[g]) :
            /\ mTasks' = [mTasks EXCEPT ![g] = RemoveAt(@, i)]
            /\ ExecuteEvent(t, mTasks[g][i])
      BY <1>3 DEF ExecuteParallel
    <2>2. g \in Groups /\ t \in Threads
      BY LoopShape, ThreadsAssumption DEF TypeOK, SharedTypes
    <2> QED
      BY <2>1, <2>2, ExecuteEventQueues
  <1>4. CASE RunTimer
    <2>1. UNCHANGED <<mTasks, executed, dropped>>
      BY <1>4 DEF RunTimer, doneVars
    <2>2. Effect(DThread) \/ QueueStep
      BY <1>4, <2>1 DEF RunTimer, QueueStep, eventVars
    <2> QED
      BY <2>1, <2>2, AddOnlyQueues, UnchangedQueues, ThreadsAssumption
  <1>5. CASE OtherThread
    <2>1. UNCHANGED <<mTasks, executed, dropped>>
      BY <1>5 DEF OtherThread, doneVars
    <2>2. PICK t \in Threads : Effect(t)
      BY <1>5 DEF OtherThread, Effect
    <2> QED
      BY <2>1, <2>2, AddOnlyQueues
  <1>6. CASE QueueStep
    BY <1>6, UnchangedQueues
  <1>7. \/ MergeThread \/ ExecuteSerial \/ ExecuteParallel \/ RunTimer \/ OtherThread
        \/ QueueStep
    BY DEF Next, DispatcherStep, UpdateTime, EndMerge, EndGroup, FinishTimer, EndTimers, Decide,
           Sleep, TimeoutWake, SpuriousWake, vars, queueVars, eventVars, doneVars, QueueStep
  <1> QED
    BY <1>1, <1>2, <1>3, <1>4, <1>5, <1>6, <1>7

LEMMA QueuesInvariant == Spec => [](TypeOK /\ QueueInv /\ OrderInv)
  <1>1. Init => TypeOK /\ QueueInv /\ OrderInv
    BY InitType, InitQueues
  <1>2. TypeOK /\ QueueInv /\ OrderInv /\ [Next]_vars => (TypeOK /\ QueueInv /\ OrderInv)'
    BY NextType, NextQueues
  <1> QED
    BY <1>1, <1>2, PTL DEF Spec

\* No event is lost, run twice or left in two queues: __mergeEvents moves whole
\* queues, executing takes one event out of one, and ids are never used again.
THEOREM OneHomeHolds == Spec => []OneHome
  <1>1. ASSUME TypeOK, QueueInv, OrderInv PROVE OneHome
    <2> DEFINE Q == Queues(mTasks, threadTasks)
    <2>1. \A h \in QueueIds : QueueOf(h) = Q[h]
      BY DEF Queues, QueueOf
    <2>2. Placed(Q, Pending)
      BY <1>1 DEF QueueInv
    <2>3. \A h \in QueueIds : IsInjective(QueueOf(h))
      BY <2>1, <2>2 DEF Placed
    <2>4. ASSUME NEW e \in Pending
          PROVE  \E h \in QueueIds : {k \in QueueIds : e \in ToSet(QueueOf(k))} = {h}
      <3>1. PICK h \in QueueIds : e \in ToSet(Q[h])
        BY <2>2 DEF Placed
      <3>2. \A k \in QueueIds : e \in ToSet(Q[k]) => k = h
        BY <2>2, <3>1 DEF Placed
      <3> HIDE DEF Q
      <3>3. {k \in QueueIds : e \in ToSet(QueueOf(k))} = {h}
        BY <2>1, <3>1, <3>2
      <3> QED
        BY <3>3
    <2>5. ASSUME NEW e \in Events, e \notin Pending
          PROVE  {k \in QueueIds : e \in ToSet(QueueOf(k))} = {}
      BY <2>1, <2>2, <2>5 DEF Placed
    <2> QED
      BY <1>1, <2>3, <2>4, <2>5 DEF OneHome, Pending, QueueInv
  <1> QED
    BY QueuesInvariant, <1>1, PTL

\* Merging and its swap reorder the events of a thread only within a batch: an
\* event that still waits for the merge keeps the later ones waiting too.
THEOREM BatchOrderHolds == Spec => []BatchOrder
  <1>1. ASSUME TypeOK, QueueInv, OrderInv PROVE BatchOrder
    <2> SUFFICES ASSUME NEW e1 \in Created, NEW e2 \in Created,
                        e1 < e2, origin[e1] = origin[e2],
                        e2 \in Handled \union ToSet(mTasks[origin[e1].group]),
                        e1 \notin Handled
                 PROVE  e1 \in ToSet(mTasks[origin[e1].group])
      BY DEF BatchOrder
    <2> DEFINE Q == Queues(mTasks, threadTasks)
    <2>1. Placed(Q, Pending) /\ e1 \in Pending
      BY <1>1 DEF QueueInv, Pending
    <2>2. PICK h \in QueueIds : e1 \in ToSet(Q[h])
      BY <2>1 DEF Placed
    <2>3. h[1] \in Threads \union {0} /\ h[2] \in Groups
      BY DEF QueueIds
    <2>4. Q[h] = IF h[1] = 0 THEN mTasks[h[2]] ELSE threadTasks[h[1]][h[2]]
      BY DEF Queues
    <2> HIDE DEF Q
    <2>5. CASE h[1] = 0
      BY <1>1, <2>2, <2>3, <2>4, <2>5 DEF OrderInv, InOrder
    <2>6. CASE h[1] # 0
      <3>1. h[1] \in Threads /\ e1 \in ToSet(threadTasks[h[1]][h[2]])
        BY <2>2, <2>3, <2>4, <2>6
      <3>2. origin[e1] = [thread |-> h[1], group |-> h[2]]
        BY <1>1, <2>3, <3>1 DEF OrderInv, InOrder
      <3>3. e2 \in ToSet(threadTasks[h[1]][h[2]])
        BY <1>1, <2>3, <3>1 DEF OrderInv, InOrder, Created
      <3>4. e2 \in ToSet(Q[h]) /\ origin[e1].group = h[2]
        BY <2>4, <2>6, <3>2, <3>3
      <3>5. e2 \notin Handled
        BY <2>1, <3>4 DEF Placed, Pending
      <3>6. <<0, h[2]>> \in QueueIds /\ <<0, h[2]>> # h /\ Q[<<0, h[2]>>] = mTasks[h[2]]
        BY <2>3, <2>6 DEF QueueIds, Q, Queues
      <3>7. ToSet(Q[<<0, h[2]>>]) \intersect ToSet(Q[h]) = {}
        BY <2>1, <3>6 DEF Placed
      <3> QED
        BY <3>4, <3>5, <3>6, <3>7
    <2> QED
      BY <2>5, <2>6
  <1> QED
    BY QueuesInvariant, <1>1, PTL

=============================================================================
