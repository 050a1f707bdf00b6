-------------------------- MODULE SchedulerProofs ---------------------------
(***************************************************************************)
(* Proofs about Scheduler: its safety properties for any tasks, callers,   *)
(* delays and clock, and that it implements the timer of EventTimer; about *)
(* Raids, whose chains of tasks the timer runs, for any raids, files and   *)
(* numbers; and about StepEvents, for any tiles, items, scripts and depth. *)
(*                                                                         *)
(* The inductive invariant says of each fate what goes with it: the list   *)
(* holds the pending tasks, the thread holds the popped one, a call under  *)
(* way holds a task that exists; and of the thread's wait that the event   *)
(* it waits for is still in the list when it is over.                      *)
(*                                                                         *)
(* Of the raids it says what is consistent while none was run that is      *)
(* deleted, that a handed number has a task, and that the number chosen    *)
(* for a new task is that of no other.                                     *)
(*                                                                         *)
(* Of the events of tiles it says, in the midst of the calls too, that the *)
(* cache has what the loop that fills it has come past, or all there is    *)
(* but what a call on the stack is still to tell it of.                    *)
(***************************************************************************)
EXTENDS Scheduler, Raids, StepEvents, SequenceTheorems, FiniteSetTheorems, WellFoundedInduction, TLAPS

\* Ids tell events apart, and every pending event has one.
IdsInv ==
  /\ \A t \in Tasks : fate[t] = "pending" => id[t] # 0
  /\ \A t, u \in Tasks : id[t] # 0 /\ id[t] = id[u] => t = u

\* Only the scheduler thread takes a single event out of the list, so what it
\* waits for is there at the end of the wait, unless a shutdown took them all.
ThreadInv ==
  /\ \A t \in Tasks : t \in eventList <=> fate[t] = "pending"
  /\ pc \in {"run", "delete"} <=> task # NoTask
  /\ \A t \in Tasks : fate[t] = "popped" <=> task = t
  /\ pc \in {"timed", "expired"} =>
       threadState = "TERMINATED" \/ \E t \in eventList : cycle[t] = deadline
  /\ pc = "expired" => deadline <= now

\* A task that is being added is nobody else's, and due no earlier than
\* SCHEDULER_MINTICKS after the call began.
CallsInv ==
  /\ \A c \in Callers : call[c].task # NoTask =>
       /\ fate[call[c].task] # "new"
       /\ call[c].at = "add" => fate[call[c].task] = "created"
       /\ call[c].since + MinTicks <= cycle[call[c].task]
  /\ \A c, d \in Callers : call[c].task # NoTask /\ call[c].task = call[d].task => c = d

\* A task has a time once it is created, and it has come when the task is popped.
TimeInv ==
  \A t \in Tasks :
    /\ fate[t] = "new" <=> cycle[t] = 0
    /\ fate[t] \in {"popped", "handed", "ran"} => cycle[t] <= now

IInv == TypeOK /\ IdsInv /\ ThreadInv /\ CallsInv /\ TimeInv /\ NoOversleep

-----------------------------------------------------------------------------
(* Types.                                                                  *)

LEMMA InitType == Init => TypeOK
BY SchedulerAssumption
DEF Init, TypeOK, NoCall, ThreadStates, PCs, Places, Fates

LEMMA NextIdType == TypeOK => NextId \in 1..IdMax
BY SchedulerAssumption DEF TypeOK, NextId

LEMMA CallerType ==
  ASSUME TypeOK, NEW c \in Callers, Caller(c)
  PROVE  TypeOK'
<1>1. ASSUME NEW t \in Tasks, NEW d \in Delays, Create(c, t, d)
      PROVE  TypeOK'
  BY <1>1, SchedulerAssumption
  DEF Create, TypeOK, Places, Fates, eventVars, threadVars
<1>2. CASE AddEvent(c)
  <2>1. call[c].task \in Tasks
    BY <1>2 DEF AddEvent, TypeOK
  <2>2. CASE threadState = "RUNNING"
    BY <1>2, <2>1, <2>2, NextIdType, SchedulerAssumption
    DEF AddEvent, TypeOK, Places, Fates, threadVars
  <2>3. CASE threadState # "RUNNING"
    BY <1>2, <2>1, <2>3 DEF AddEvent, TypeOK, Places, Fates, eventVars, threadVars
  <2>. QED
    BY <2>2, <2>3
<1>3. CASE Notify(c)
  BY <1>3 DEF Notify, TypeOK, Places, PCs, eventVars
<1>4. CASE Return(c)
  BY <1>4 DEF Return, TypeOK, Places, NoCall, eventVars, threadVars
<1>5. ASSUME NEW t \in Tasks, StopEvent(c, t)
      PROVE  TypeOK'
  BY <1>5 DEF StopEvent, TypeOK, threadVars
<1>6. CASE Stop(c)
  BY <1>6 DEF Stop, TypeOK, ThreadStates, eventVars, threadVars
<1>7. CASE Shutdown(c)
  BY <1>7 DEF Shutdown, TypeOK, ThreadStates, Fates, threadVars
<1>. QED
  BY <1>1, <1>2, <1>3, <1>4, <1>5, <1>6, <1>7 DEF Caller

LEMMA NextType == TypeOK /\ [Next]_vars => TypeOK'
<1>. SUFFICES ASSUME TypeOK, [Next]_vars PROVE TypeOK'
  OBVIOUS
<1>1. CASE Tick
  BY <1>1 DEF Tick, TypeOK, eventVars, threadVars
<1>2. CASE LoopTest
  BY <1>2 DEF LoopTest, TypeOK, PCs, eventVars
<1>3. CASE Wait
  BY <1>3 DEF Wait, Earliest, TypeOK, PCs, eventVars
<1>4. CASE TimeOut \/ Woken \/ SpuriousWakeup
  BY <1>4 DEF TimeOut, Woken, SpuriousWakeup, TypeOK, PCs, eventVars
<1>5. CASE Expired
  BY <1>5 DEF Expired, Earliest, TypeOK, PCs, Fates
<1>6. CASE Dispatch
  BY <1>6 DEF Dispatch, TypeOK, PCs, Fates, eventVars
<1>7. ASSUME NEW c \in Callers, Caller(c) PROVE TypeOK'
  BY <1>7, CallerType
<1>8. ASSUME NEW t \in Tasks, DispatcherDeletes(t) PROVE TypeOK'
  BY <1>8 DEF DispatcherDeletes, TypeOK, Fates, eventVars, threadVars
<1>9. CASE UNCHANGED vars
  BY <1>9 DEF vars, TypeOK, eventVars, threadVars
<1>. QED
  BY <1>1, <1>2, <1>3, <1>4, <1>5, <1>6, <1>7, <1>8, <1>9
  DEF Next, SchedulerThread

\* The variables keep their types.
THEOREM TypeCorrect == Spec => []TypeOK
BY InitType, NextType, PTL DEF Spec

-----------------------------------------------------------------------------
(* The steps of callers.                                                   *)

LEMMA CreateKeeps ==
  ASSUME IInv, NEW c \in Callers, NEW t \in Tasks, NEW d \in Delays, Create(c, t, d)
  PROVE  IInv'
<1>. DEFINE at == now + IF d < MinTicks THEN MinTicks ELSE d
<1>1. at \in Nat /\ at >= now + MinTicks /\ at > 0 /\ cycle' = [cycle EXCEPT ![t] = at]
  <2>1. now \in Nat /\ d \in Nat /\ MinTicks \in Nat \ {0}
    BY SchedulerAssumption DEF IInv, TypeOK
  <2>2. at \in Nat /\ at >= now + MinTicks /\ at > 0
    BY <2>1
  <2>3. cycle' = [cycle EXCEPT ![t] = at]
    BY DEF Create
  <2>. QED BY <2>2, <2>3
<1>. HIDE DEF at
<1>2. /\ fate[t] = "new" /\ fate' = [fate EXCEPT ![t] = "created"]
      /\ call[c].task = NoTask
      /\ call' = [call EXCEPT ![c] = [task |-> t, at |-> "add", since |-> now]]
      /\ UNCHANGED <<now, eventList, eventIds, lastEventId, id, threadState, pc, deadline, task>>
  BY DEF Create, NoCall, eventVars, threadVars
<1>3. TypeOK'
  BY CallerType DEF IInv, Caller
<1>4. \A e \in Callers : call[e].task # t
  BY <1>2, SchedulerAssumption DEF IInv, CallsInv
<1>5. IdsInv'
  BY <1>2 DEF IInv, IdsInv, TypeOK
<1>6. ThreadInv'
  <2>1. \A u \in eventList : cycle'[u] = cycle[u]
    BY <1>1, <1>2 DEF IInv, ThreadInv, TypeOK
  <2>. QED
    BY <1>2, <2>1 DEF IInv, ThreadInv, TypeOK
<1>7. CallsInv'
  BY <1>1, <1>2, <1>4, SchedulerAssumption DEF IInv, CallsInv, TypeOK
<1>8. TimeInv'
  BY <1>1, <1>2 DEF IInv, TimeInv, TypeOK
<1>9. NoOversleep'
  <2>1. \A u \in eventList : cycle'[u] = cycle[u]
    BY <1>1, <1>2 DEF IInv, ThreadInv, TypeOK
  <2>2. Notifying => Notifying'
    BY <1>2 DEF Notifying, IInv, TypeOK
  <2>. QED
    BY <1>2, <2>1, <2>2 DEF IInv, NoOversleep
<1>. QED
  BY <1>3, <1>5, <1>6, <1>7, <1>8, <1>9 DEF IInv

\* An event that is not the first one comes after one that somebody is about to
\* notify of, if the thread waits for a later one.
LEMMA AddEventKeeps ==
  ASSUME IInv, NEW c \in Callers, AddEvent(c)
  PROVE  IInv'
<1>. DEFINE t == call[c].task
<1>1. /\ t \in Tasks /\ call[c].at = "add" /\ fate[t] = "created"
      /\ UNCHANGED <<now, cycle, threadState, pc, deadline, task>>
  BY DEF AddEvent, IInv, TypeOK, CallsInv, threadVars
<1>2. TypeOK'
  BY CallerType DEF IInv, Caller
<1>3. \A e \in Callers : e # c => call'[e] = call[e] /\ (call[e].task # t \/ call[e].task = NoTask)
  BY <1>1 DEF AddEvent, IInv, TypeOK, CallsInv
<1>4. call'[c].task = t /\ call'[c].since = call[c].since /\ call'[c].at \in {"notify", "return"}
  BY DEF AddEvent, IInv, TypeOK
<1>5. CASE threadState = "RUNNING"
  <2>1. /\ NextId \notin {id[u] : u \in Tasks} \ {0} /\ NextId # 0
        /\ id' = [id EXCEPT ![t] = NextId]
        /\ eventList' = eventList \cup {t}
        /\ fate' = [fate EXCEPT ![t] = "pending"]
    BY <1>5, NextIdType DEF AddEvent, IInv
  <2>2. IdsInv'
    BY <1>1, <2>1 DEF IInv, IdsInv, TypeOK
  <2>3. ThreadInv'
    BY <1>1, <2>1, SchedulerAssumption DEF IInv, ThreadInv, TypeOK
  <2>4. CallsInv'
    BY <1>1, <1>2, <1>3, <1>4, <2>1, SMTT(30) DEF IInv, CallsInv, TypeOK
  <2>5. TimeInv'
    BY <1>1, <2>1 DEF IInv, TimeInv, TypeOK
  <2>6. (\A u \in eventList : cycle[t] < cycle[u]) => Notifying'
    BY <1>1, <1>4, <1>5, SchedulerAssumption DEF AddEvent, Notifying, IInv, TypeOK
  <2>7. Notifying => Notifying'
    BY <1>1, <1>3 DEF Notifying
  <2>8. NoOversleep'
    <3>1. CASE \A u \in eventList : cycle[t] < cycle[u]
      BY <2>6, <3>1 DEF NoOversleep
    <3>2. CASE ~ \A u \in eventList : cycle[t] < cycle[u]
      <4>1. PICK u \in eventList : cycle[u] <= cycle[t]
        BY <1>1, <3>2 DEF IInv, TypeOK
      <4>2. u \in Tasks /\ cycle[u] \in Nat /\ cycle[t] \in Nat /\ deadline \in Nat
        BY <1>1 DEF IInv, TypeOK
      <4>. QED
        BY <1>1, <2>1, <2>7, <4>1, <4>2 DEF IInv, NoOversleep
    <3>. QED
      BY <3>1, <3>2
  <2>. QED
    BY <1>2, <2>2, <2>3, <2>4, <2>5, <2>8 DEF IInv
<1>6. CASE threadState # "RUNNING"
  <2>1. fate' = [fate EXCEPT ![t] = "refused"] /\ UNCHANGED <<eventList, eventIds, lastEventId, id>>
    BY <1>6 DEF AddEvent, eventVars
  <2>2. IdsInv' /\ ThreadInv' /\ TimeInv'
    BY <1>1, <2>1 DEF IInv, IdsInv, ThreadInv, TimeInv, TypeOK
  <2>3. CallsInv'
    BY <1>1, <1>2, <1>3, <1>4, <2>1, SMTT(30) DEF IInv, CallsInv, TypeOK
  <2>4. Notifying => Notifying'
    BY <1>1, <1>3 DEF Notifying
  <2>5. NoOversleep'
    BY <1>1, <2>1, <2>4 DEF IInv, NoOversleep
  <2>. QED
    BY <1>2, <2>2, <2>3, <2>5 DEF IInv
<1>. QED
  BY <1>5, <1>6

LEMMA CallerKeeps ==
  ASSUME IInv, NEW c \in Callers, Caller(c)
  PROVE  IInv'
<1>. TypeOK'
  BY CallerType DEF IInv
<1>1. ASSUME NEW t \in Tasks, NEW d \in Delays, Create(c, t, d)
      PROVE  IInv'
  BY <1>1, CreateKeeps
<1>2. CASE AddEvent(c)
  BY <1>2, AddEventKeeps
<1>3. CASE Notify(c)
  <2>1. IdsInv' /\ TimeInv'
    BY <1>3 DEF Notify, IInv, IdsInv, TimeInv, eventVars
  <2>2. ThreadInv'
    BY <1>3 DEF Notify, IInv, ThreadInv, eventVars
  <2>3. CallsInv'
    BY <1>3 DEF Notify, IInv, CallsInv, TypeOK
  <2>4. NoOversleep'
    BY <1>3 DEF Notify, IInv, NoOversleep
  <2>. QED
    BY <2>1, <2>2, <2>3, <2>4 DEF IInv
<1>4. CASE Return(c)
  <2>1. IdsInv' /\ TimeInv' /\ ThreadInv'
    BY <1>4 DEF Return, IInv, IdsInv, TimeInv, ThreadInv, eventVars, threadVars
  <2>2. CallsInv'
    BY <1>4 DEF Return, IInv, CallsInv, TypeOK, NoCall
  <2>3. Notifying => Notifying'
    BY <1>4 DEF Return, Notifying, IInv, TypeOK, NoCall
  <2>4. NoOversleep'
    BY <1>4, <2>3 DEF Return, IInv, NoOversleep, eventVars, threadVars
  <2>. QED
    BY <2>1, <2>2, <2>4 DEF IInv
<1>5. ASSUME NEW t \in Tasks, StopEvent(c, t)
      PROVE  IInv'
  BY <1>5 DEF StopEvent, IInv, IdsInv, ThreadInv, CallsInv, TimeInv, NoOversleep, Notifying, threadVars
<1>6. CASE Stop(c)
  BY <1>6 DEF Stop, IInv, IdsInv, ThreadInv, CallsInv, TimeInv, NoOversleep, Notifying,
              eventVars, threadVars
<1>7. CASE Shutdown(c)
  <2>1. IdsInv' /\ TimeInv'
    BY <1>7 DEF Shutdown, IInv, IdsInv, TimeInv, ThreadInv, TypeOK
  <2>2. ThreadInv'
    BY <1>7 DEF Shutdown, IInv, ThreadInv, TypeOK, threadVars
  <2>3. CallsInv'
    BY <1>7 DEF Shutdown, IInv, CallsInv, ThreadInv, TypeOK
  <2>4. NoOversleep'
    BY <1>7 DEF Shutdown, NoOversleep
  <2>. QED
    BY <2>1, <2>2, <2>3, <2>4 DEF IInv
<1>. QED
  BY <1>1, <1>2, <1>3, <1>4, <1>5, <1>6, <1>7 DEF Caller

-----------------------------------------------------------------------------
(* The steps of the thread.                                                *)

\* The top of the heap is no later than the event the thread waited for.
LEMMA TopIsDue ==
  ASSUME IInv, pc = "expired", threadState # "TERMINATED", NEW t \in Earliest
  PROVE  t \in Tasks /\ fate[t] = "pending" /\ cycle[t] <= now
<1>1. PICK u \in eventList : cycle[u] = deadline
  BY DEF IInv, ThreadInv
<1>2. cycle[t] <= cycle[u] /\ t \in eventList
  BY DEF Earliest
<1>3. t \in Tasks /\ cycle[t] \in Nat /\ cycle[u] \in Nat /\ now \in Nat /\ deadline \in Nat
  BY <1>2 DEF IInv, TypeOK
<1>4. deadline <= now
  BY DEF IInv, ThreadInv
<1>5. cycle[t] <= now
  BY <1>1, <1>2, <1>3, <1>4
<1>. QED
  BY <1>2, <1>3, <1>5 DEF IInv, ThreadInv

LEMMA ExpiredKeeps ==
  ASSUME IInv, Expired
  PROVE  IInv'
<1>. TypeOK'
  BY NextType DEF IInv, Next, SchedulerThread
<1>1. CASE threadState = "TERMINATED"
  BY <1>1 DEF Expired, IInv, IdsInv, ThreadInv, CallsInv, TimeInv, NoOversleep, Notifying
<1>2. CASE threadState # "TERMINATED"
  <2>1. PICK t \in Earliest :
          /\ task' = t
          /\ eventList' = eventList \ {t}
          /\ fate' = [fate EXCEPT ![t] = "popped"]
          /\ pc' = IF id[t] \in eventIds THEN "run" ELSE "delete"
    BY <1>2 DEF Expired
  <2>2. t \in Tasks /\ t # NoTask /\ fate[t] = "pending" /\ cycle[t] <= now
    BY <1>2, TopIsDue, SchedulerAssumption DEF Expired
  <2>3. UNCHANGED <<now, cycle, id, threadState, deadline, call>> /\ pc = "expired"
    BY DEF Expired
  <2>4. task = NoTask
    BY <2>3 DEF IInv, ThreadInv
  <2>5. IdsInv' /\ TimeInv'
    BY <2>1, <2>2, <2>3 DEF IInv, IdsInv, TimeInv, TypeOK
  <2>6. ThreadInv'
    BY <2>1, <2>2, <2>3, <2>4, SchedulerAssumption DEF IInv, ThreadInv, TypeOK
  <2>7. CallsInv'
    BY <2>1, <2>2, <2>3 DEF IInv, CallsInv, TypeOK
  <2>8. NoOversleep'
    BY <2>1 DEF NoOversleep
  <2>. QED
    BY <2>5, <2>6, <2>7, <2>8 DEF IInv
<1>. QED
  BY <1>1, <1>2

LEMMA NextKeeps == IInv /\ [Next]_vars => IInv'
<1>. SUFFICES ASSUME IInv, [Next]_vars PROVE IInv'
  OBVIOUS
<1>. TypeOK'
  BY NextType DEF IInv
<1>1. CASE Tick
  BY <1>1 DEF Tick, IInv, TypeOK, IdsInv, ThreadInv, CallsInv, TimeInv, NoOversleep, Notifying,
              eventVars, threadVars
<1>2. CASE LoopTest
  BY <1>2 DEF LoopTest, IInv, IdsInv, ThreadInv, CallsInv, TimeInv, NoOversleep, Notifying,
              eventVars
<1>3. CASE Wait
  <2>1. IdsInv' /\ CallsInv' /\ TimeInv'
    BY <1>3 DEF Wait, IInv, IdsInv, CallsInv, TimeInv, eventVars
  <2>2. CASE eventList = {}
    BY <1>3, <2>1, <2>2 DEF Wait, IInv, ThreadInv, NoOversleep, eventVars
  <2>3. CASE eventList # {}
    <3>1. PICK t \in eventList : deadline' = cycle[t] /\ \A u \in eventList : cycle[t] <= cycle[u]
      BY <1>3, <2>3 DEF Wait, Earliest
    <3>2. pc' = "timed" /\ UNCHANGED <<now, cycle, eventList, threadState, task, fate>> /\ pc = "lock"
      BY <1>3, <2>3 DEF Wait, eventVars
    <3>3. ThreadInv'
      BY <3>1, <3>2 DEF IInv, ThreadInv
    <3>4. NoOversleep'
      BY <3>1, <3>2 DEF IInv, NoOversleep, TypeOK
    <3>. QED
      BY <2>1, <3>3, <3>4 DEF IInv
  <2>. QED
    BY <2>2, <2>3
<1>4. CASE TimeOut \/ Woken \/ SpuriousWakeup
  BY <1>4 DEF TimeOut, Woken, SpuriousWakeup, IInv, IdsInv, ThreadInv, CallsInv, TimeInv,
              NoOversleep, eventVars
<1>5. CASE Expired
  BY <1>5, ExpiredKeeps
<1>6. CASE Dispatch
  <2>1. task \in Tasks /\ fate[task] = "popped"
    BY <1>6 DEF Dispatch, IInv, ThreadInv, TypeOK
  <2>2. IdsInv' /\ TimeInv' /\ CallsInv'
    BY <1>6, <2>1 DEF Dispatch, IInv, IdsInv, TimeInv, CallsInv, TypeOK, eventVars
  <2>3. ThreadInv'
    BY <1>6, <2>1, SchedulerAssumption DEF Dispatch, IInv, ThreadInv, TypeOK, eventVars
  <2>4. NoOversleep'
    BY <1>6 DEF Dispatch, NoOversleep
  <2>. QED
    BY <2>2, <2>3, <2>4 DEF IInv
<1>7. ASSUME NEW c \in Callers, Caller(c) PROVE IInv'
  BY <1>7, CallerKeeps
<1>8. ASSUME NEW t \in Tasks, DispatcherDeletes(t) PROVE IInv'
  BY <1>8 DEF DispatcherDeletes, IInv, TypeOK, IdsInv, ThreadInv, CallsInv, TimeInv,
              NoOversleep, Notifying, eventVars, threadVars
<1>9. CASE UNCHANGED vars
  BY <1>9 DEF vars, IInv, IdsInv, ThreadInv, CallsInv, TimeInv, NoOversleep, Notifying,
              eventVars, threadVars
<1>. QED
  BY <1>1, <1>2, <1>3, <1>4, <1>5, <1>6, <1>7, <1>8, <1>9
  DEF Next, SchedulerThread

LEMMA InitIInv == Init => IInv
<1>. SUFFICES ASSUME Init PROVE IInv
  OBVIOUS
<1>1. IdsInv /\ ThreadInv /\ TimeInv /\ NoOversleep
  BY SchedulerAssumption DEF Init, IdsInv, ThreadInv, TimeInv, NoOversleep
<1>2. CallsInv
  BY DEF Init, CallsInv, NoCall
<1>. QED
  BY <1>1, <1>2, InitType DEF IInv

LEMMA Inductive == Spec => []IInv
BY InitIInv, NextKeeps, PTL DEF Spec

\* The thread never sleeps past the time of an event: while it waits for a later
\* one, or for none, somebody is about to notify it.
THEOREM NeverSleepsPast == Spec => []NoOversleep
BY Inductive, PTL DEF IInv

\* No event is popped or handed to the dispatcher before its time.
THEOREM NeverFiresEarly == Spec => []NeverEarly
<1>1. IInv => NeverEarly
  BY DEF IInv, TimeInv, NeverEarly
<1>. QED
  BY <1>1, Inductive, PTL

\* addEvent reads the id of its task after the unlock; within SCHEDULER_MINTICKS
\* of its start the task has not been deleted.
THEOREM ReadsLiveTasks == Spec => []ReturnReadsLive
<1>1. IInv => ReturnReadsLive
  <2>. SUFFICES ASSUME IInv, NEW c \in Callers, call[c].task # NoTask,
                       now < call[c].since + MinTicks, fate[call[c].task] = "ran"
                PROVE  FALSE
    BY DEF ReturnReadsLive
  <2>1. call[c].task \in Tasks /\ call[c].since \in Nat /\ now \in Nat
    BY DEF IInv, TypeOK
  <2>2. cycle[call[c].task] \in Nat /\ cycle[call[c].task] <= now
    BY <2>1 DEF IInv, TypeOK, TimeInv
  <2>3. call[c].since + MinTicks <= cycle[call[c].task]
    BY DEF IInv, CallsInv
  <2>. QED
    BY <2>1, <2>2, <2>3, SchedulerAssumption
<1>. QED
  BY <1>1, Inductive, PTL

\* What the run scheduler checks of its events, for any tasks, callers, delays
\* and clock.
THEOREM EventsAlwaysLive == Spec => []EventsLive
BY TypeCorrect, ReadsLiveTasks, NeverSleepsPast, NeverFiresEarly, PTL DEF EventsLive

-----------------------------------------------------------------------------
(* The scheduler implements the timer.                                     *)

\* The state of one event of the timer, as TimerState has it.
StateOf(t) ==
  CASE fate[t] \in {"new", "created"} -> "idle"
    [] fate[t] = "pending" -> IF id[t] \in eventIds THEN "pending" ELSE "cancelled"
    [] fate[t] = "popped" -> IF pc = "run" THEN "fired" ELSE "cancelled"
    [] fate[t] \in {"handed", "ran"} -> "fired"
    [] fate[t] = "stopped" -> "cancelled"
    [] fate[t] \in {"refused", "lost"} -> fate[t]

LEMMA TimerStateIs ==
  /\ TimerState = [t \in Tasks |-> StateOf(t)]
  /\ TimerState' = [t \in Tasks |-> StateOf(t)']
<1>1. TimerState = [t \in Tasks |-> StateOf(t)]
  BY DEF TimerState, StateOf
<1>2. TimerState' = [t \in Tasks |-> StateOf(t)']
  BY DEF TimerState, StateOf
<1>. QED
  BY <1>1, <1>2

\* A step that changes the state of one event, or of none.
LEMMA OneChanges ==
  ASSUME NEW t \in Tasks, NEW s, StateOf(t)' = s,
         \A u \in Tasks : u # t => StateOf(u)' = StateOf(u)
  PROVE  TimerState' = [TimerState EXCEPT ![t] = s]
BY TimerStateIs

LEMMA NoneChanges ==
  ASSUME \A u \in Tasks : StateOf(u)' = StateOf(u)
  PROVE  TimerState' = TimerState
BY TimerStateIs

\* A popped task is the thread's: as long as it holds none there is none.
LEMMA NonePopped ==
  ASSUME IInv, pc \notin {"run", "delete"}, NEW t \in Tasks
  PROVE  fate[t] # "popped"
BY SchedulerAssumption DEF IInv, ThreadInv

LEMMA InitTimer == Init => Timer!Init
BY DEF Init, Timer!Init, TimerState

LEMMA CreateIsCreate ==
  ASSUME IInv, NEW c \in Callers, NEW t \in Tasks, NEW d \in Delays, Create(c, t, d)
  PROVE  Timer!Create(t)
<1>. DEFINE at == now + IF d < MinTicks THEN MinTicks ELSE d
<1>1. at \in Nat /\ at >= now + MinTicks /\ cycle' = [cycle EXCEPT ![t] = at]
  BY SchedulerAssumption DEF IInv, TypeOK, Create
<1>. HIDE DEF at
<1>2. cycle[t] = 0 /\ cycle'[t] = at
  BY <1>1 DEF Create, IInv, TimeInv, TypeOK
<1>3. fate[t] = "new" /\ fate' = [fate EXCEPT ![t] = "created"] /\ UNCHANGED <<now, id, eventIds, pc>>
  BY DEF Create, eventVars, threadVars
<1>4. \A u \in Tasks : StateOf(u)' = StateOf(u)
  BY <1>3 DEF StateOf, IInv, TypeOK
<1>. QED
  BY <1>1, <1>2, <1>3, <1>4, NoneChanges DEF Timer!Create

LEMMA AddEventIsAccept ==
  ASSUME IInv, NEW c \in Callers, AddEvent(c)
  PROVE  \E t \in Tasks : Timer!Accept(t) \/ Timer!Refuse(t)
<1>1. PICK t \in Tasks : t = call[c].task
  BY DEF AddEvent, IInv, TypeOK
<1>2. fate[t] = "created" /\ UNCHANGED <<now, cycle, pc>>
  BY <1>1 DEF AddEvent, IInv, CallsInv, threadVars
<1>3. cycle[t] # 0 /\ TimerState[t] = "idle"
  BY <1>2, TimerStateIs DEF IInv, TimeInv, StateOf
<1>4. CASE threadState = "RUNNING"
  <2>1. /\ NextId \notin {id[u] : u \in Tasks} \ {0} /\ NextId # 0
        /\ id' = [id EXCEPT ![t] = NextId]
        /\ eventIds' = eventIds \cup {NextId}
        /\ fate' = [fate EXCEPT ![t] = "pending"]
    BY <1>1, <1>4, NextIdType DEF AddEvent, IInv
  <2>2. fate'[t] = "pending" /\ id'[t] \in eventIds'
    BY <2>1 DEF IInv, TypeOK
  <2>3. ASSUME NEW u \in Tasks, u # t PROVE StateOf(u)' = StateOf(u)
    <3>1. fate'[u] = fate[u] /\ id'[u] = id[u]
      BY <2>1, <2>3 DEF IInv, TypeOK
    <3>2. fate[u] = "pending" => (id'[u] \in eventIds' <=> id[u] \in eventIds)
      BY <2>1, <3>1 DEF IInv, IdsInv
    <3>. QED
      BY <1>2, <3>1, <3>2 DEF StateOf
  <2>4. StateOf(t)' = "pending"
    BY <2>2 DEF StateOf
  <2>. QED
    BY <1>2, <1>3, <2>3, <2>4, OneChanges DEF Timer!Accept, Timer!Becomes
<1>5. CASE threadState # "RUNNING"
  <2>1. fate' = [fate EXCEPT ![t] = "refused"] /\ UNCHANGED <<eventIds, id>>
    BY <1>1, <1>5 DEF AddEvent, eventVars
  <2>2. StateOf(t)' = "refused" /\ \A u \in Tasks : u # t => StateOf(u)' = StateOf(u)
    BY <1>2, <2>1 DEF StateOf, IInv, TypeOK
  <2>. QED
    BY <1>2, <1>3, <2>2, OneChanges DEF Timer!Refuse, Timer!Becomes
<1>. QED
  BY <1>4, <1>5

LEMMA StopEventIsCancel ==
  ASSUME IInv, NEW c \in Callers, NEW t \in Tasks, StopEvent(c, t)
  PROVE  Timer!Cancel(t) \/ UNCHANGED <<now, cycle, TimerState>>
<1>1. eventIds' = eventIds \ {id[t]} /\ id[t] # 0 /\ UNCHANGED <<now, cycle, id, fate, pc>>
  BY DEF StopEvent, threadVars
<1>2. \A u \in Tasks : u # t => StateOf(u)' = StateOf(u)
  BY <1>1 DEF StateOf, IInv, IdsInv
<1>3. CASE fate[t] = "pending" /\ id[t] \in eventIds
  <2>1. TimerState[t] = "pending" /\ StateOf(t)' = "cancelled"
    BY <1>1, <1>3, TimerStateIs DEF StateOf
  <2>. QED
    BY <1>1, <1>2, <2>1, OneChanges DEF Timer!Cancel, Timer!Becomes
<1>4. CASE ~ (fate[t] = "pending" /\ id[t] \in eventIds)
  <2>1. StateOf(t)' = StateOf(t)
    BY <1>1, <1>4 DEF StateOf
  <2>. QED
    BY <1>1, <1>2, <2>1, NoneChanges
<1>. QED
  BY <1>3, <1>4

LEMMA ShutdownIsClose ==
  ASSUME IInv, NEW c \in Callers, Shutdown(c)
  PROVE  Timer!Close
<1>1. /\ fate' = [t \in Tasks |-> IF t \notin eventList THEN fate[t]
                                 ELSE IF id[t] \in eventIds THEN "lost" ELSE "stopped"]
      /\ UNCHANGED <<now, cycle, pc>>
  BY DEF Shutdown, threadVars
<1>2. \A t \in Tasks : StateOf(t)' = IF StateOf(t) = "pending" THEN "lost" ELSE StateOf(t)
  <2>. SUFFICES ASSUME NEW t \in Tasks
                PROVE  StateOf(t)' = IF StateOf(t) = "pending" THEN "lost" ELSE StateOf(t)
    OBVIOUS
  <2>1. CASE t \in eventList
    BY <1>1, <2>1 DEF StateOf, IInv, ThreadInv
  <2>2. CASE t \notin eventList
    BY <1>1, <2>2 DEF StateOf, IInv, ThreadInv, TypeOK, Fates
  <2>. QED
    BY <2>1, <2>2
<1>. QED
  BY <1>1, <1>2, TimerStateIs DEF Timer!Close

LEMMA ExpiredIsFire ==
  ASSUME IInv, Expired
  PROVE  (\E t \in Tasks : Timer!Fire(t)) \/ UNCHANGED <<now, cycle, TimerState>>
<1>1. UNCHANGED <<now, cycle, id>> /\ pc = "expired"
  BY DEF Expired
<1>2. CASE threadState = "TERMINATED"
  <2>1. \A u \in Tasks : StateOf(u)' = StateOf(u)
    BY <1>1, <1>2, NonePopped DEF Expired, StateOf
  <2>. QED
    BY <1>1, <2>1, NoneChanges
<1>3. CASE threadState # "TERMINATED"
  <2>1. PICK t \in Earliest :
          /\ eventIds' = eventIds \ {id[t]}
          /\ fate' = [fate EXCEPT ![t] = "popped"]
          /\ pc' = IF id[t] \in eventIds THEN "run" ELSE "delete"
    BY <1>3 DEF Expired
  <2>2. t \in Tasks /\ fate[t] = "pending" /\ cycle[t] <= now
    BY <1>1, <1>3, TopIsDue
  <2>3. \A u \in Tasks : u # t => StateOf(u)' = StateOf(u)
    <3>. SUFFICES ASSUME NEW u \in Tasks, u # t PROVE StateOf(u)' = StateOf(u)
      OBVIOUS
    <3>1. fate[u] # "popped" /\ fate'[u] = fate[u]
      BY <1>1, <2>1, NonePopped DEF IInv, TypeOK
    <3>2. fate[u] = "pending" => id[u] # id[t]
      BY <2>2 DEF IInv, IdsInv
    <3>3. fate[u] = "pending" => (id'[u] \in eventIds' <=> id[u] \in eventIds)
      BY <1>1, <2>1, <3>2
    <3>. QED
      BY <3>1, <3>3 DEF StateOf
  <2>4. CASE id[t] \in eventIds
    <3>1. TimerState[t] = "pending" /\ StateOf(t)' = "fired"
      BY <2>1, <2>2, <2>4, TimerStateIs DEF StateOf, IInv, TypeOK
    <3>. QED
      BY <1>1, <2>2, <2>3, <3>1, OneChanges DEF Timer!Fire, Timer!Becomes
  <2>5. CASE id[t] \notin eventIds
    <3>1. StateOf(t)' = StateOf(t)
      BY <2>1, <2>2, <2>5 DEF StateOf, IInv, TypeOK
    <3>. QED
      BY <1>1, <2>3, <3>1, NoneChanges
  <2>. QED
    BY <2>4, <2>5
<1>. QED
  BY <1>2, <1>3

LEMMA NextTimer == IInv /\ [Next]_vars => [Timer!Next]_(Timer!vars)
<1>. SUFFICES ASSUME IInv, [Next]_vars
              PROVE  Timer!Next \/ UNCHANGED <<now, cycle, TimerState>>
  BY DEF Timer!vars
<1>1. CASE Tick
  <2>1. \A u \in Tasks : StateOf(u)' = StateOf(u)
    BY <1>1 DEF Tick, StateOf, eventVars, threadVars
  <2>. QED
    BY <1>1, <2>1, NoneChanges DEF Tick, Timer!Next, Timer!Tick
<1>2. CASE LoopTest \/ Wait \/ TimeOut \/ Woken \/ SpuriousWakeup
  <2>1. UNCHANGED <<now, cycle, id, eventIds, fate>> /\ pc \notin {"run", "delete"}
    BY <1>2 DEF LoopTest, Wait, TimeOut, Woken, SpuriousWakeup, eventVars
  <2>2. \A u \in Tasks : StateOf(u)' = StateOf(u)
    BY <2>1, NonePopped DEF StateOf
  <2>. QED
    BY <2>1, <2>2, NoneChanges
<1>3. CASE Expired
  BY <1>3, ExpiredIsFire DEF Timer!Next
<1>4. CASE Dispatch
  <2>1. PICK t \in Tasks : t = task
    BY <1>4 DEF Dispatch, IInv, ThreadInv, TypeOK
  <2>2. /\ fate[t] = "popped" /\ UNCHANGED <<now, cycle, id, eventIds>>
        /\ fate' = [fate EXCEPT ![t] = IF pc = "run" THEN "handed" ELSE "stopped"]
    BY <1>4, <2>1 DEF Dispatch, IInv, ThreadInv, eventVars
  <2>3. ASSUME NEW u \in Tasks PROVE StateOf(u)' = StateOf(u)
    <3>1. CASE u = t
      BY <2>2, <3>1 DEF StateOf, IInv, TypeOK
    <3>2. CASE u # t
      <4>1. /\ fate[u] # "popped" /\ fate'[u] = fate[u]
            /\ id' = id /\ eventIds' = eventIds
        BY <2>1, <2>2, <3>2 DEF IInv, ThreadInv, TypeOK
      <4>. QED
        BY <4>1 DEF StateOf
    <3>. QED
      BY <3>1, <3>2
  <2>. QED
    BY <2>2, <2>3, NoneChanges
<1>5. ASSUME NEW c \in Callers, Caller(c)
      PROVE  Timer!Next \/ UNCHANGED <<now, cycle, TimerState>>
  <2>1. ASSUME NEW t \in Tasks, NEW d \in Delays, Create(c, t, d) PROVE Timer!Next
    BY <2>1, CreateIsCreate DEF Timer!Next
  <2>2. CASE AddEvent(c)
    BY <2>2, AddEventIsAccept DEF Timer!Next
  <2>3. CASE Notify(c)
    <3>1. UNCHANGED <<now, cycle, id, eventIds, fate>> /\ (pc' = "run" <=> pc = "run")
      BY <2>3 DEF Notify, eventVars
    <3>. QED
      BY <3>1, NoneChanges DEF StateOf
  <2>4. CASE Return(c) \/ Stop(c)
    <3>1. UNCHANGED <<now, cycle, id, eventIds, fate, pc>>
      BY <2>4 DEF Return, Stop, eventVars, threadVars
    <3>. QED
      BY <3>1, NoneChanges DEF StateOf
  <2>5. ASSUME NEW t \in Tasks, StopEvent(c, t)
        PROVE  Timer!Next \/ UNCHANGED <<now, cycle, TimerState>>
    BY <2>5, StopEventIsCancel DEF Timer!Next
  <2>6. CASE Shutdown(c)
    BY <2>6, ShutdownIsClose DEF Timer!Next
  <2>. QED
    BY <1>5, <2>1, <2>2, <2>3, <2>4, <2>5, <2>6 DEF Caller
<1>6. ASSUME NEW t \in Tasks, DispatcherDeletes(t)
      PROVE  UNCHANGED <<now, cycle, TimerState>>
  <2>1. \A u \in Tasks : StateOf(u)' = StateOf(u)
    BY <1>6 DEF DispatcherDeletes, StateOf, IInv, TypeOK, eventVars, threadVars
  <2>. QED
    BY <1>6, <2>1, NoneChanges DEF DispatcherDeletes
<1>7. CASE UNCHANGED vars
  BY <1>7, NoneChanges DEF vars, StateOf, eventVars, threadVars
<1>. QED
  BY <1>1, <1>2, <1>3, <1>4, <1>5, <1>6, <1>7 DEF Next, SchedulerThread

\* The scheduler implements the timer its callers count on: an event fires at
\* most once, not before its time, and never after a stopEvent that returned
\* true, whatever the threads do.
THEOREM ImplementsTimer == Spec => TimerSpec
<1>1. Spec => Timer!Init
  BY InitTimer DEF Spec
<1>2. Spec => [][Timer!Next]_(Timer!vars)
  BY Inductive, NextTimer, PTL DEF Spec
<1>. QED
  BY <1>1, <1>2, PTL DEF TimerSpec, Timer!Spec

-----------------------------------------------------------------------------
(* Raids.                                                                  *)

\* Before the game is initialised there is nothing.
Fresh ==
  ~up => /\ raidList = {} /\ running = NoRaid /\ executing = {} /\ handed = {}
         /\ \A i \in EventId : tasks[i] = Idle
         /\ \A r \in Raid : nextEvent[r] = 0

\* Every event to come of a raid of the list but its first is of a kept number.
Numbered ==
  \A i \in Live : LET r == tasks[i].raid
                  IN r \in raidList => nextEventEvent[r] = i \/ tasks[i].event = GetNextRaidEvent(r, 0)

RaidsInv ==
  /\ RaidsTypeOK
  /\ ~wild => OneCheck /\ OneRaid /\ NoneLeft /\ Fresh /\ Numbered /\ handed \subseteq Live

\* A raid's events are places of nodes.
LEMMA EventsAreNodes ==
  ASSUME NEW r \in Raid, NEW o \in Orders(r)
  PROVE  o \in Seq(Nat \ {0})
<1> DEFINE nodes == {k \in DOMAIN Files[r] : Right(Files[r][k])}
<1> DEFINE n == Len(Files[r])
<1>1. n \in Nat /\ DOMAIN Files[r] = 1..n
  BY RaidsAssumption
<1>2. IsFiniteSet(1..n)
  BY <1>1, FS_Interval
<1>3. IsFiniteSet(nodes) /\ nodes \subseteq Nat \ {0}
  <2>1. nodes \subseteq 1..n
    BY <1>1
  <2> QED
    BY <2>1, <1>1, <1>2, FS_Subset
<1>4. Cardinality(nodes) \in Nat
  BY <1>3, FS_CardinalityType
<1>5. o \in [1..Cardinality(nodes) -> nodes]
  BY DEF Orders
<1>6. o \in [1..Cardinality(nodes) -> Nat \ {0}]
  BY <1>3, <1>5
<1> HIDE DEF nodes
<1>7. QED
  BY <1>4, <1>6

\* Numbers that nobody has, two of them.
LEMMA NumbersAreNew ==
  ASSUME Roomy
  PROVE  /\ NewId \in EventId \ InUse /\ OtherId \in EventId \ InUse
         /\ OtherId # NewId
<1>1. NewId \in EventId \ InUse
  BY DEF Roomy, NewId
<1>2. \E j \in EventId : j \notin InUse \cup {NewId}
  BY DEF Roomy
<1>3. QED
  BY <1>1, <1>2 DEF OtherId

\* What is to be run next is a node of the raid, or nothing.
LEMMA NextIsNode ==
  ASSUME RaidsTypeOK, NEW r \in Raid, NEW k \in Nat
  PROVE  /\ GetNextRaidEvent(r, k) \in Nat
         /\ GetNextRaidEvent(r, 0) # 0 <=> raidEvents[r] # << >>
<1>1. raidEvents[r] \in Seq(Nat \ {0})
  BY DEF RaidsTypeOK
<1>2. QED
  BY <1>1 DEF GetNextRaidEvent

\* The first state.
LEMMA RaidsInitInv == RaidsInit => RaidsInv
<1> SUFFICES ASSUME RaidsInit PROVE RaidsInv
  OBVIOUS
<1>1. Live = {}
  BY DEF RaidsInit, Live
<1>2. RaidsTypeOK
  <2>1. << >> \in Seq(Nat \ {0})
    OBVIOUS
  <2>2. Idle \in [raid : Raid \cup {NoRaid}, event : Nat]
    BY DEF Idle, RaidTask
  <2>3. raidEvents \in [Raid -> Seq(Nat \ {0})]
    BY <2>1 DEF RaidsInit
  <2>4. QED
    BY <2>2, <2>3 DEF RaidsInit, RaidsTypeOK
<1>3. OneCheck /\ Fresh /\ Numbered
  BY <1>1 DEF RaidsInit, OneCheck, Fresh, Numbered
<1>4. OneRaid
  BY <1>1 DEF RaidsInit, OneRaid
<1>5. NoneLeft
  BY <1>1, RaidsAssumption DEF RaidsInit, NoneLeft
<1>6. QED
  BY <1>1, <1>2, <1>3, <1>4, <1>5 DEF RaidsInit, RaidsInv

\* HandOver: only who has the task changes.
LEMMA HandOverKeeps ==
  ASSUME RaidsInv, ~wild, NEW i \in EventId, HandOver(i)
  PROVE  RaidsInv'
<1>1. RaidsTypeOK'
  BY DEF RaidsInv, RaidsTypeOK, HandOver
<1>2. Live' = Live /\ i \in Live
  BY DEF Live, HandOver
<1>3. OneCheck' /\ OneRaid' /\ NoneLeft'
  BY <1>2 DEF RaidsInv, HandOver, OneCheck, OneRaid, NoneLeft, GetNextRaidEvent
<1>4. Fresh' /\ Numbered' /\ handed' \subseteq Live'
  BY <1>2 DEF RaidsInv, HandOver, Fresh, Numbered, GetNextRaidEvent, Live
<1>5. QED
  BY <1>1, <1>3, <1>4 DEF RaidsInv

\* GameInit: the first check, if anything is loaded.
LEMMA GameInitKeeps ==
  ASSUME RaidsInv, ~wild, Roomy, GameInit
  PROVE  RaidsInv'
<1>0. NewId \in EventId
  BY NumbersAreNew
<1>1. /\ raidList = {} /\ running = NoRaid /\ executing = {} /\ handed = {}
      /\ \A i \in EventId : tasks[i] = Idle
      /\ \A r \in Raid : nextEvent[r] = 0
  BY DEF RaidsInv, Fresh, GameInit
<1>2. RaidsTypeOK
  BY DEF RaidsInv
<1>3. CASE UNCHANGED <<raidList, raidEvents, raidsLoaded, raidsStarted, checkRaidsEvent, tasks>>
  <2>1. RaidsTypeOK'
    BY <1>2, <1>3 DEF RaidsTypeOK, GameInit
  <2>2. Live = {} /\ Live' = {}
    BY <1>1, <1>3 DEF Live
  <2>3. UNCHANGED <<running, nextEvent, executing, nextEventEvent, handed, wild>> /\ up'
    BY DEF GameInit
  <2>4. OneCheck' /\ OneRaid' /\ NoneLeft' /\ Fresh' /\ Numbered'
    BY <1>3, <2>2, <2>3 DEF RaidsInv, OneCheck, OneRaid, NoneLeft, Fresh, Numbered, GetNextRaidEvent
  <2>5. QED
    BY <2>1, <2>2, <2>3, <2>4, <1>1 DEF RaidsInv
<1>4. CASE ~UNCHANGED <<raidList, raidEvents, raidsLoaded, raidsStarted, checkRaidsEvent, tasks>>
  <2>1. /\ raidList' \in SUBSET Listed
        /\ \E o \in [Raid -> UNION {Orders(r) : r \in Raid}] :
             (\A r \in Raid : o[r] \in Orders(r)) /\ raidEvents' = o
        /\ raidsLoaded' = TRUE /\ raidsStarted' = TRUE
        /\ checkRaidsEvent' = NewId /\ tasks' = [tasks EXCEPT ![NewId] = Check]
    BY <1>4 DEF GameInit
  <2>2. UNCHANGED <<running, nextEvent, executing, nextEventEvent, handed, wild>> /\ up'
    BY DEF GameInit
  <2>3. raidEvents' \in [Raid -> Seq(Nat \ {0})]
    BY <2>1, EventsAreNodes
  <2>4. Check \in [raid : Raid \cup {NoRaid}, event : Nat] /\ Check # Idle
    BY DEF Check, Idle, RaidTask
  <2>5. RaidsTypeOK'
    BY <1>0, <1>2, <2>1, <2>2, <2>3, <2>4 DEF RaidsTypeOK, Listed
  <2>6. tasks'[NewId] = Check /\ Live' = {NewId}
    BY <1>0, <1>1, <1>2, <2>1, <2>4 DEF Live, RaidsTypeOK
  <2>7. OneCheck' /\ OneRaid' /\ Fresh' /\ Numbered'
    BY <1>1, <2>1, <2>2, <2>5, <2>6, RaidsAssumption
       DEF OneCheck, OneRaid, Fresh, Numbered, Check, RaidTask, RaidsTypeOK
  <2>8. NoneLeft'
    BY <1>0, <2>1, <2>2, <2>6, NumbersAreNew, RaidsAssumption
       DEF NoneLeft, Check, RaidTask, InUse
  <2>9. QED
    BY <1>1, <2>2, <2>5, <2>7, <2>8 DEF RaidsInv
<1>5. QED
  BY <1>3, <1>4

\* CheckRaids: the check gives way to the next, and perhaps to a raid.
LEMMA CheckRaidsKeeps ==
  ASSUME RaidsInv, ~wild, Roomy, NEW i \in EventId, CheckRaids(i)
  PROVE  RaidsInv'
<1>0. /\ NewId \in EventId \ InUse /\ OtherId \in EventId \ InUse /\ OtherId # NewId
  BY NumbersAreNew
<1>1. RaidsTypeOK /\ OneCheck /\ OneRaid /\ NoneLeft /\ Fresh /\ Numbered /\ handed \subseteq Live
  BY DEF RaidsInv
<1>2. /\ i \in handed /\ tasks[i] = Check /\ i \in Live
      /\ checkRaidsEvent' = OtherId /\ handed' = handed \ {i}
      /\ UNCHANGED <<up, raidsLoaded, raidsStarted, raidList, raidEvents, nextEvent, wild>>
  BY <1>1 DEF CheckRaids
<1>3. i # NewId /\ i # OtherId /\ NewId \notin Live /\ OtherId \notin Live
  BY <1>0, <1>2 DEF InUse, Live
<1>4. Check # Idle /\ Check.raid = NoRaid /\ Check \in [raid : Raid \cup {NoRaid}, event : Nat]
  BY DEF Check, Idle, RaidTask
<1>5. up
  BY <1>1, <1>2 DEF Fresh
<1>6. PICK r \in raidList \cup {NoRaid} :
        /\ running # NoRaid => r = NoRaid
        /\ running' = IF r = NoRaid THEN running ELSE r
        /\ IF r # NoRaid /\ GetNextRaidEvent(r, nextEvent[r]) # 0
           THEN /\ executing' = executing \cup {r}
                /\ nextEventEvent' = [nextEventEvent EXCEPT ![r] = NewId]
                /\ tasks' = [tasks EXCEPT ![i] = Idle, ![OtherId] = Check,
                              ![NewId] = RaidTask(r, GetNextRaidEvent(r, nextEvent[r]))]
           ELSE /\ tasks' = [tasks EXCEPT ![i] = Idle, ![OtherId] = Check]
                /\ UNCHANGED <<executing, nextEventEvent>>
  BY DEF CheckRaids
<1>7. CASE r # NoRaid /\ GetNextRaidEvent(r, nextEvent[r]) # 0
  <2> DEFINE e == GetNextRaidEvent(r, nextEvent[r])
             t == RaidTask(r, e)
  <2>1. /\ r \in raidList /\ r \in Raid /\ running = NoRaid /\ nextEvent[r] = 0
        /\ r # NoRaid
    BY <1>1, <1>6, <1>7, RaidsAssumption DEF RaidsTypeOK, OneRaid
  <2>2. e \in Nat /\ e # 0 /\ e = GetNextRaidEvent(r, 0)
    BY <1>1, <1>7, <2>1, NextIsNode
  <2>3. t \in [raid : Raid \cup {NoRaid}, event : Nat] /\ t.raid = r /\ t.event = e /\ t # Idle /\ t # Check
    BY <2>1, <2>2 DEF RaidTask, Idle, Check
  <2>4. /\ executing' = executing \cup {r}
        /\ nextEventEvent' = [nextEventEvent EXCEPT ![r] = NewId]
        /\ tasks' = [tasks EXCEPT ![i] = Idle, ![OtherId] = Check, ![NewId] = t]
        /\ running' = r
    BY <1>6, <1>7
  <2> HIDE DEF e, t
  <2>5. /\ \A k \in EventId : tasks'[k] = IF k = NewId THEN t ELSE IF k = OtherId THEN Check
                                          ELSE IF k = i THEN Idle ELSE tasks[k]
        /\ tasks' \in [EventId -> [raid : Raid \cup {NoRaid}, event : Nat]]
    BY <1>0, <1>1, <1>2, <1>3, <1>4, <2>3, <2>4 DEF RaidsTypeOK, Idle, RaidTask
  <2>6. Live' = (Live \ {i}) \cup {NewId, OtherId}
    BY <1>0, <1>2, <1>3, <1>4, <2>3, <2>5 DEF Live
  <2>6a. \A k \in Live' :
            \/ k = NewId /\ tasks'[k] = t
            \/ k = OtherId /\ tasks'[k] = Check
            \/ k \in Live /\ k # i /\ k # NewId /\ k # OtherId /\ tasks'[k] = tasks[k]
    BY <1>0, <1>3, <2>5, <2>6 DEF Live
  <2>7. RaidsTypeOK'
    BY <1>0, <1>1, <1>2, <2>1, <2>4, <2>5 DEF RaidsTypeOK
  <2>8. OneCheck'
    <3>1. \A k \in Live' : tasks'[k] = Check => k = OtherId
      BY <1>1, <1>2, <2>3, <2>6a DEF OneCheck
    <3>2. OtherId \in Live' /\ tasks'[OtherId] = Check
      BY <1>0, <2>5, <2>6
    <3>3. QED
      BY <1>2, <3>1, <3>2 DEF OneCheck
  <2>9. \A k \in Live : tasks[k].raid \notin raidList
    BY <1>1, <2>1, RaidsAssumption DEF OneRaid, RaidsTypeOK
  <2>10. OneRaid'
    <3>1. NoRaid \notin raidList
      BY <1>1, RaidsAssumption DEF RaidsTypeOK
    <3>2. \A k \in Live' : tasks'[k].raid \in raidList => k = NewId
      BY <1>2, <1>4, <2>6a, <2>9, <3>1
    <3>3. GetNextRaidEvent(running, nextEvent[running])' = e
      BY <1>2, <2>4 DEF GetNextRaidEvent, e
    <3>4. executing = {} \/ executing = {NoRaid}
      BY <1>1, <2>1 DEF OneRaid
    <3>5. executing' \subseteq {running'}
      BY <1>1, <2>1, <2>4, <3>4, RaidsAssumption DEF RaidsTypeOK
    <3>6. NewId \in Live' /\ tasks'[NewId] = t
      BY <1>0, <2>5, <2>6
    <3>7. running' = r /\ raidList' = raidList /\ nextEvent' = nextEvent
      BY <1>2, <2>4
    <3>8. \A k \in Live' : tasks'[k].raid \in raidList' =>
            tasks'[k].raid = running' /\ tasks'[k].event = GetNextRaidEvent(running, nextEvent[running])'
      BY <2>3, <3>2, <3>3, <3>6, <3>7
    <3>9. \A q \in raidList' : nextEvent'[q] # 0 => q = running'
      BY <1>1, <2>1, <3>1, <3>7 DEF OneRaid
    <3>10. QED
      BY <2>1, <2>3, <3>2, <3>5, <3>6, <3>7, <3>8, <3>9 DEF OneRaid
  <2>11. NoneLeft'
    <3>1. \A q \in Raid : nextEventEvent'[q] = IF q = r THEN NewId ELSE nextEventEvent[q]
      BY <1>1, <2>4 DEF RaidsTypeOK
    <3>2. \A q \in Raid : nextEventEvent[q] # NewId /\ nextEventEvent[q] # OtherId
      BY <1>0 DEF InUse
    <3>3. \A q \in Raid : nextEventEvent'[q] \in Live' => tasks'[nextEventEvent'[q]].raid = q
      BY <1>0, <1>1, <2>3, <2>5, <2>6, <3>1, <3>2 DEF NoneLeft, RaidsTypeOK, Live
    <3>4. \A k \in Live' \ handed' : LET q == tasks'[k].raid
            IN q # NoRaid /\ q \notin raidList => tasks'[k].event = GetNextRaidEvent(q, 0)
      BY <1>1, <1>2, <1>4, <2>1, <2>3, <2>6a DEF NoneLeft
    <3>5. \A q : GetNextRaidEvent(q, 0)' = GetNextRaidEvent(q, 0)
      BY <1>2 DEF GetNextRaidEvent
    <3>6. tasks'[checkRaidsEvent'] = Check
      BY <1>0, <1>2, <2>5
    <3>7. QED
      BY <1>2, <3>3, <3>4, <3>5, <3>6 DEF NoneLeft
  <2>12. Fresh' /\ Numbered' /\ handed' \subseteq Live'
    <3>1. Numbered'
      <4>1. NoRaid \notin raidList
        BY <1>1, RaidsAssumption DEF RaidsTypeOK
      <4>2. \A k \in Live' : tasks'[k].raid \in raidList => k = NewId /\ tasks'[k] = t
        BY <1>4, <2>6a, <2>9, <4>1
      <4>3. nextEventEvent'[r] = NewId
        BY <1>1, <2>1, <2>4 DEF RaidsTypeOK
      <4>4. QED
        BY <1>2, <2>3, <4>2, <4>3 DEF Numbered
    <3>2. QED
      BY <1>1, <1>2, <1>5, <2>6, <3>1 DEF Fresh
  <2>13. QED
    BY <2>7, <2>8, <2>10, <2>11, <2>12 DEF RaidsInv
<1>8. CASE ~(r # NoRaid /\ GetNextRaidEvent(r, nextEvent[r]) # 0)
  <2>1. tasks' = [tasks EXCEPT ![i] = Idle, ![OtherId] = Check] /\ UNCHANGED <<executing, nextEventEvent>>
    BY <1>6, <1>8
  <2>2. /\ \A k \in EventId : tasks'[k] = IF k = OtherId THEN Check
                                          ELSE IF k = i THEN Idle ELSE tasks[k]
        /\ tasks' \in [EventId -> [raid : Raid \cup {NoRaid}, event : Nat]]
    BY <1>0, <1>1, <1>2, <1>3, <1>4, <2>1 DEF RaidsTypeOK, Idle, RaidTask
  <2>3. Live' = (Live \ {i}) \cup {OtherId}
    BY <1>0, <1>2, <1>3, <1>4, <2>2 DEF Live
  <2>3a. \A k \in Live' :
            \/ k = OtherId /\ tasks'[k] = Check
            \/ k \in Live /\ k # i /\ k # OtherId /\ tasks'[k] = tasks[k]
    BY <1>0, <1>3, <2>2, <2>3 DEF Live
  <2>3b. \A k \in Live : k # i => k \in Live' /\ tasks'[k] = tasks[k]
    BY <1>3, <2>2, <2>3 DEF Live
  <2>4. RaidsTypeOK'
    BY <1>0, <1>1, <1>2, <1>6, <2>1, <2>2 DEF RaidsTypeOK
  <2>5. OneCheck'
    <3>1. \A k \in Live' : tasks'[k] = Check => k = OtherId
      BY <1>1, <1>2, <2>3a DEF OneCheck
    <3>2. OtherId \in Live' /\ tasks'[OtherId] = Check
      BY <1>0, <2>2, <2>3
    <3>3. QED
      BY <1>2, <3>1, <3>2 DEF OneCheck
  <2>6. NoRaid \notin raidList
    BY <1>1, RaidsAssumption DEF RaidsTypeOK
  <2>7. \A q, k : GetNextRaidEvent(q, k)' = GetNextRaidEvent(q, k)
    BY <1>2 DEF GetNextRaidEvent
  <2>8. OneRaid'
    <3>1. CASE r = NoRaid
      <4>1. running' = running /\ raidList' = raidList /\ executing' = executing
            /\ nextEvent' = nextEvent /\ raidEvents' = raidEvents
        BY <1>2, <1>6, <2>1, <3>1
      <4>2. \A k \in Live' : tasks'[k].raid \in raidList => k \in Live /\ tasks'[k] = tasks[k]
        BY <1>4, <2>3a, <2>6
      <4>3. running # NoRaid /\ raidEvents[running] # << >> => \E k \in Live' : tasks'[k].raid = running
        <5>1. SUFFICES ASSUME running # NoRaid, raidEvents[running] # << >>
                       PROVE  \E k \in Live' : tasks'[k].raid = running
          OBVIOUS
        <5>2. PICK k \in Live : tasks[k].raid = running
          BY <1>1, <5>1 DEF OneRaid
        <5>3. k # i
          BY <1>2, <1>4, <5>1, <5>2
        <5>4. QED
          BY <2>3b, <5>2, <5>3
      <4>4. GetNextRaidEvent(running, nextEvent[running])' = GetNextRaidEvent(running, nextEvent[running])
        BY <4>1 DEF GetNextRaidEvent
      <4>5. QED
        BY <1>1, <4>1, <4>2, <4>3, <4>4 DEF OneRaid
    <3>2. CASE r # NoRaid
      <4>1. r \in raidList /\ r \in Raid /\ running = NoRaid /\ running' = r /\ nextEvent[r] = 0
        BY <1>1, <1>6, <3>2, RaidsAssumption DEF RaidsTypeOK, OneRaid
      <4>2. raidEvents[r] = << >>
        BY <1>1, <1>8, <3>2, <4>1, NextIsNode
      <4>3. \A k \in Live : tasks[k].raid \notin raidList
        BY <1>1, <2>6, <4>1 DEF OneRaid
      <4>4. \A k \in Live' : tasks'[k].raid \notin raidList'
        BY <1>2, <1>4, <2>3a, <2>6, <4>3
      <4>5. executing' \subseteq {running'}
        BY <1>1, <2>1, <4>1, RaidsAssumption DEF OneRaid, RaidsTypeOK
      <4>6. \A q \in raidList : nextEvent[q] # 0 => q = running'
        BY <1>1, <2>6, <4>1 DEF OneRaid
      <4>7. QED
        BY <1>2, <4>1, <4>2, <4>4, <4>5, <4>6 DEF OneRaid
    <3>3. QED
      BY <3>1, <3>2
  <2>9. NoneLeft'
    <3>1. \A q \in Raid : nextEventEvent[q] # OtherId
      BY <1>0 DEF InUse
    <3>2. \A q \in Raid : nextEventEvent[q] \in Live' => tasks'[nextEventEvent[q]].raid = q
      BY <1>0, <1>1, <2>2, <2>3, <3>1 DEF NoneLeft, RaidsTypeOK, Live
    <3>3. \A k \in Live' \ handed' : LET q == tasks'[k].raid
            IN q # NoRaid /\ q \notin raidList => tasks'[k].event = GetNextRaidEvent(q, 0)
      BY <1>1, <1>2, <1>4, <2>3a DEF NoneLeft
    <3>4. tasks'[checkRaidsEvent'] = Check
      BY <1>0, <1>2, <2>2
    <3>5. QED
      BY <1>2, <2>1, <2>7, <3>2, <3>3, <3>4 DEF NoneLeft
  <2>10. Fresh' /\ Numbered' /\ handed' \subseteq Live'
    <3>1. Numbered'
      <4>1. \A k \in Live' : tasks'[k].raid \in raidList => k \in Live /\ tasks'[k] = tasks[k]
        BY <1>4, <2>3a, <2>6
      <4>2. nextEventEvent' = nextEventEvent /\ raidList' = raidList
        BY <1>2, <2>1
      <4>3. QED
        BY <1>1, <2>7, <4>1, <4>2 DEF Numbered
    <3>2. QED
      BY <1>1, <1>2, <1>5, <2>3, <3>1 DEF Fresh
  <2>11. QED
    BY <2>4, <2>5, <2>8, <2>9, <2>10 DEF RaidsInv
<1>9. QED
  BY <1>7, <1>8

\* ForceRaid: the first event of a raid, when none is running.
LEMMA ForceRaidKeeps ==
  ASSUME RaidsInv, ~wild, Roomy, NEW r \in Raid, ForceRaid(r)
  PROVE  RaidsInv'
<1>0. NewId \in EventId \ InUse
  BY NumbersAreNew
<1>1. RaidsTypeOK /\ OneCheck /\ OneRaid /\ NoneLeft /\ Fresh /\ Numbered /\ handed \subseteq Live
  BY DEF RaidsInv
<1>2. /\ r \in raidList /\ running = NoRaid /\ running' = r
      /\ UNCHANGED <<up, raidsLoaded, raidsStarted, raidList, checkRaidsEvent, raidEvents,
                     nextEvent, nextEventEvent, handed, wild>>
  BY DEF ForceRaid
<1>3. NoRaid \notin raidList /\ r # NoRaid
  BY <1>1, RaidsAssumption DEF RaidsTypeOK
<1>4. nextEvent[r] = 0 /\ \A q \in raidList : nextEvent[q] = 0
  BY <1>1, <1>2, <1>3 DEF OneRaid
<1>5. \A k \in Live : tasks[k].raid \notin raidList
  BY <1>1, <1>2, <1>3 DEF OneRaid
<1>6. up
  BY <1>1, <1>2 DEF Fresh
<1>7. \A q, k : GetNextRaidEvent(q, k)' = GetNextRaidEvent(q, k)
  BY <1>2 DEF GetNextRaidEvent
<1>8. executing' \subseteq executing \cup {r} => executing' \subseteq {r}
  BY <1>1, <1>2, RaidsAssumption DEF OneRaid, RaidsTypeOK, ForceRaid
<1>9. CASE GetNextRaidEvent(r, nextEvent[r]) # 0
  <2> DEFINE e == GetNextRaidEvent(r, 0)
             t == RaidTask(r, e)
  <2>1. e \in Nat /\ raidEvents[r] # << >>
    BY <1>1, <1>4, <1>9, NextIsNode
  <2>2. t \in [raid : Raid \cup {NoRaid}, event : Nat] /\ t.raid = r /\ t.event = e /\ t # Idle /\ t # Check
    BY <1>3, <2>1 DEF RaidTask, Idle, Check
  <2>3. executing' = executing \cup {r} /\ tasks' = [tasks EXCEPT ![NewId] = t]
    BY <1>4, <1>9 DEF ForceRaid
  <2> HIDE DEF e, t
  <2>4. /\ \A k \in EventId : tasks'[k] = IF k = NewId THEN t ELSE tasks[k]
        /\ tasks' \in [EventId -> [raid : Raid \cup {NoRaid}, event : Nat]]
    BY <1>0, <1>1, <2>2, <2>3 DEF RaidsTypeOK
  <2>5. Live' = Live \cup {NewId} /\ NewId \notin Live
    BY <1>0, <2>2, <2>4 DEF Live, InUse
  <2>6. \A k \in Live' :
            \/ k = NewId /\ tasks'[k] = t
            \/ k \in Live /\ k # NewId /\ tasks'[k] = tasks[k]
    BY <1>0, <2>4, <2>5 DEF Live
  <2>7. \A k \in Live : k \in Live' /\ tasks'[k] = tasks[k]
    BY <2>4, <2>5 DEF Live
  <2>8. RaidsTypeOK'
    BY <1>1, <1>2, <2>3, <2>4 DEF RaidsTypeOK
  <2>9. OneCheck'
    <3>1. \A k \in Live' : tasks'[k] = Check => k \in Live /\ tasks[k] = Check
      BY <2>2, <2>6
    <3>2. QED
      BY <1>1, <1>2, <2>7, <3>1 DEF OneCheck
  <2>10. OneRaid'
    <3>1. \A k \in Live' : tasks'[k].raid \in raidList => k = NewId /\ tasks'[k] = t
      BY <1>5, <2>6
    <3>2. NewId \in Live' /\ tasks'[NewId] = t
      BY <1>0, <2>4, <2>5
    <3>3. GetNextRaidEvent(running, nextEvent[running])' = e
      BY <1>2, <1>4 DEF GetNextRaidEvent, e
    <3>4. QED
      BY <1>2, <1>4, <1>8, <2>2, <2>3, <3>1, <3>2, <3>3 DEF OneRaid
  <2>11. NoneLeft'
    <3>1. \A q \in Raid : nextEventEvent[q] # NewId
      BY <1>0 DEF InUse
    <3>2. checkRaidsEvent # NewId
      BY <1>0 DEF InUse
    <3>3. \A q \in Raid : nextEventEvent[q] \in Live' => tasks'[nextEventEvent[q]].raid = q
      BY <1>1, <2>6, <3>1 DEF NoneLeft
    <3>4. checkRaidsEvent \in Live' => tasks'[checkRaidsEvent] = Check
      BY <1>1, <2>6, <3>2 DEF NoneLeft
    <3>5. \A k \in Live' \ handed' : LET q == tasks'[k].raid
            IN q # NoRaid /\ q \notin raidList => tasks'[k].event = GetNextRaidEvent(q, 0)
      BY <1>1, <1>2, <2>2, <2>6 DEF NoneLeft
    <3>6. QED
      BY <1>2, <1>7, <3>3, <3>4, <3>5 DEF NoneLeft
  <2>12. Numbered'
    <3>1. \A k \in Live' : tasks'[k].raid \in raidList => k = NewId /\ tasks'[k] = t
      BY <1>5, <2>6
    <3>2. QED
      BY <1>2, <1>7, <2>2, <3>1 DEF Numbered, e
  <2>13. QED
    BY <1>1, <1>2, <1>6, <2>5, <2>8, <2>9, <2>10, <2>11, <2>12 DEF RaidsInv, Fresh
<1>10. CASE ~(GetNextRaidEvent(r, nextEvent[r]) # 0)
  <2>1. UNCHANGED <<executing, tasks>>
    BY <1>10 DEF ForceRaid
  <2>2. raidEvents[r] = << >>
    BY <1>1, <1>4, <1>10, NextIsNode
  <2>3. Live' = Live
    BY <2>1 DEF Live
  <2>4. RaidsTypeOK'
    BY <1>1, <1>2, <2>1 DEF RaidsTypeOK
  <2>5. OneCheck' /\ NoneLeft' /\ Numbered'
    BY <1>1, <1>2, <1>7, <2>1, <2>3 DEF OneCheck, NoneLeft, Numbered
  <2>6. OneRaid'
    BY <1>2, <1>4, <1>5, <1>8, <2>1, <2>2, <2>3 DEF OneRaid
  <2>7. QED
    BY <1>1, <1>2, <1>6, <2>3, <2>4, <2>5, <2>6 DEF RaidsInv, Fresh
<1>11. QED
  BY <1>9, <1>10

\* ExecuteRaidEvent of a raid of the list: the next event, or the end.
LEMMA ExecuteKeeps ==
  ASSUME RaidsInv, ~wild, Roomy, NEW i \in EventId, ExecuteRaidEvent(i)
  PROVE  RaidsInv'
<1>0. NewId \in EventId \ InUse
  BY NumbersAreNew
<1>1. RaidsTypeOK /\ OneCheck /\ OneRaid /\ NoneLeft /\ Fresh /\ Numbered /\ handed \subseteq Live
  BY DEF RaidsInv
<1> DEFINE r == tasks[i].raid
           e == GetNextRaidEvent(r, nextEvent[r] + 1)
<1>2. /\ i \in handed /\ r # NoRaid /\ handed' = handed \ {i} /\ i \in Live /\ r \in Raid
      /\ UNCHANGED <<up, raidsLoaded, raidsStarted, raidList, checkRaidsEvent, raidEvents>>
  BY <1>1 DEF ExecuteRaidEvent, RaidsTypeOK
<1>3. NoRaid \notin raidList /\ Idle \in [raid : Raid \cup {NoRaid}, event : Nat] /\ tasks[i] # Check
  BY <1>1, <1>2, RaidsAssumption DEF RaidsTypeOK, Idle, RaidTask, Check
<1>4. CASE r \notin raidList
  <2>1. wild' = TRUE /\ tasks' = [tasks EXCEPT ![i] = Idle]
        /\ UNCHANGED <<nextEvent, nextEventEvent, executing, running>>
    BY <1>4 DEF ExecuteRaidEvent
  <2>2. RaidsTypeOK'
    BY <1>1, <1>2, <1>3, <2>1 DEF RaidsTypeOK
  <2>3. QED
    BY <2>1, <2>2 DEF RaidsInv
<1>5. CASE r \in raidList
  <2>1. /\ \E ok \in ExecuteEvent(Files[r][tasks[i].event]) :
              IF ok /\ e # 0
              THEN GoOn(r) /\ tasks' = [tasks EXCEPT ![i] = Idle, ![NewId] = RaidTask(r, e)]
              ELSE /\ ResetRaid(r) /\ tasks' = [tasks EXCEPT ![i] = Idle]
                   /\ UNCHANGED nextEventEvent
        /\ UNCHANGED wild
    BY <1>5 DEF ExecuteRaidEvent
  <2>2. running = r /\ up /\ executing \subseteq {r}
    BY <1>1, <1>2, <1>5 DEF OneRaid, Fresh
  <2>3. \A k \in Live : tasks[k].raid \in raidList => k = i
    BY <1>1, <1>2, <1>5 DEF OneRaid
  <2>4. \A q, k : GetNextRaidEvent(q, k)' = GetNextRaidEvent(q, k)
    BY <1>2 DEF GetNextRaidEvent
  <2>5. \A q \in raidList : q # r => nextEvent[q] = 0
    BY <1>1, <2>2 DEF OneRaid
  <2>6. e \in Nat
    <3>1. nextEvent[r] + 1 \in Nat
      BY <1>1, <1>2 DEF RaidsTypeOK
    <3>2. QED
      BY <1>1, <1>2, <3>1, NextIsNode
  <2> HIDE DEF r, e
  <2>7. CASE e # 0 /\ GoOn(r) /\ tasks' = [tasks EXCEPT ![i] = Idle, ![NewId] = RaidTask(r, e)]
    <3> DEFINE t == RaidTask(r, e)
    <3>1. t \in [raid : Raid \cup {NoRaid}, event : Nat] /\ t.raid = r /\ t.event = e /\ t # Idle /\ t # Check
      BY <1>2, <2>6 DEF RaidTask, Idle, Check
    <3>2. tasks' = [tasks EXCEPT ![i] = Idle, ![NewId] = t]
      BY <2>7
    <3> HIDE DEF t
    <3>3. NewId \notin Live /\ i # NewId
      BY <1>0, <1>2 DEF InUse, Live
    <3>4. /\ \A k \in EventId : tasks'[k] = IF k = NewId THEN t ELSE IF k = i THEN Idle ELSE tasks[k]
          /\ tasks' \in [EventId -> [raid : Raid \cup {NoRaid}, event : Nat]]
      BY <1>0, <1>1, <1>2, <1>3, <3>1, <3>2, <3>3 DEF RaidsTypeOK
    <3>5. Live' = (Live \ {i}) \cup {NewId}
      BY <1>0, <1>2, <3>1, <3>3, <3>4 DEF Live
    <3>6. \A k \in Live' :
              \/ k = NewId /\ tasks'[k] = t
              \/ k \in Live /\ k # i /\ k # NewId /\ tasks'[k] = tasks[k]
      BY <1>0, <3>3, <3>4, <3>5 DEF Live
    <3>7. \A k \in Live : k # i => k \in Live' /\ tasks'[k] = tasks[k]
      BY <3>3, <3>4, <3>5 DEF Live
    <3>8. /\ nextEvent' = [nextEvent EXCEPT ![r] = @ + 1]
          /\ nextEventEvent' = [nextEventEvent EXCEPT ![r] = NewId]
          /\ UNCHANGED <<executing, running, wild>>
      BY <2>1, <2>7 DEF GoOn
    <3>9. RaidsTypeOK'
      BY <1>0, <1>1, <1>2, <3>4, <3>8, SMTT(30) DEF RaidsTypeOK
    <3>10. NewId \in Live' /\ tasks'[NewId] = t
      BY <1>0, <3>4, <3>5
    <3>11. OneCheck'
      <4>1. \A k \in Live' : tasks'[k] = Check => k \in Live /\ tasks[k] = Check
        BY <3>1, <3>6
      <4>2. \A k \in Live : tasks[k] = Check => k \in Live' /\ tasks'[k] = Check
        BY <1>3, <3>7
      <4>3. \A k \in Live' \ handed' : tasks'[k] = Check => k \in Live \ handed
        BY <1>2, <1>3, <4>1
      <4>4. QED
        BY <1>1, <1>2, <4>1, <4>2, <4>3 DEF OneCheck
    <3>12. \A k \in Live' : tasks'[k].raid \in raidList => k = NewId /\ tasks'[k] = t
      BY <2>3, <3>6
    <3>13. nextEvent'[r] = nextEvent[r] + 1 /\ nextEventEvent'[r] = NewId
      BY <1>1, <1>2, <3>8 DEF RaidsTypeOK
    <3>14. OneRaid'
      <4>1. GetNextRaidEvent(running, nextEvent[running])' = e
        BY <1>2, <2>2, <3>8, <3>13 DEF GetNextRaidEvent, e
      <4>2. \A q \in raidList : nextEvent'[q] # 0 => q = r
        BY <1>1, <2>5, <3>8 DEF RaidsTypeOK
      <4>3. QED
        BY <1>2, <1>5, <2>2, <3>1, <3>8, <3>10, <3>12, <4>1, <4>2 DEF OneRaid
    <3>15. NoneLeft'
      <4>1. \A q \in Raid : nextEventEvent[q] # NewId
        BY <1>0 DEF InUse
      <4>2. checkRaidsEvent # NewId
        BY <1>0 DEF InUse
      <4>3. \A q \in Raid : nextEventEvent'[q] = IF q = r THEN NewId ELSE nextEventEvent[q]
        BY <1>1, <3>8 DEF RaidsTypeOK
      <4>4. \A q \in Raid : nextEventEvent'[q] \in Live' => tasks'[nextEventEvent'[q]].raid = q
        BY <1>1, <3>1, <3>6, <4>1, <4>3 DEF NoneLeft
      <4>5. checkRaidsEvent \in Live' => tasks'[checkRaidsEvent] = Check
        BY <1>1, <3>6, <4>2 DEF NoneLeft
      <4>6. \A k \in Live' \ handed' : LET q == tasks'[k].raid
              IN q # NoRaid /\ q \notin raidList => tasks'[k].event = GetNextRaidEvent(q, 0)
        BY <1>1, <1>2, <1>5, <3>1, <3>6 DEF NoneLeft
      <4>7. QED
        BY <1>2, <2>4, <4>4, <4>5, <4>6 DEF NoneLeft
    <3>16. Numbered'
      BY <1>2, <2>4, <3>1, <3>12, <3>13 DEF Numbered
    <3>17. QED
      BY <1>1, <1>2, <2>2, <3>5, <3>8, <3>9, <3>11, <3>14, <3>15, <3>16 DEF RaidsInv, Fresh
  <2>8. CASE ResetRaid(r) /\ tasks' = [tasks EXCEPT ![i] = Idle] /\ UNCHANGED nextEventEvent
    <3>1. /\ \A k \in EventId : tasks'[k] = IF k = i THEN Idle ELSE tasks[k]
          /\ tasks' \in [EventId -> [raid : Raid \cup {NoRaid}, event : Nat]]
      BY <1>1, <1>3, <2>8 DEF RaidsTypeOK
    <3>2. Live' = Live \ {i}
      BY <3>1 DEF Live
    <3>3. \A k \in Live' : k \in Live /\ k # i /\ tasks'[k] = tasks[k]
      BY <3>1, <3>2 DEF Live
    <3>4. /\ nextEvent' = [nextEvent EXCEPT ![r] = 0]
          /\ executing' = executing \ {r} /\ running' = NoRaid
      BY <2>8 DEF ResetRaid
    <3>5. RaidsTypeOK'
      BY <1>1, <1>2, <2>1, <2>8, <3>1, <3>4 DEF RaidsTypeOK
    <3>6. OneCheck'
      <4>1. \A k \in Live : tasks[k] = Check => k \in Live' /\ tasks'[k] = Check
        BY <1>3, <3>2, <3>3
      <4>2. \A k \in Live' \ handed' : tasks'[k] = Check => k \in Live \ handed
        BY <1>2, <3>3
      <4>3. QED
        BY <1>1, <1>2, <3>3, <4>1, <4>2 DEF OneCheck
    <3>7. OneRaid'
      <4>1. \A k \in Live' : tasks'[k].raid \notin raidList
        BY <2>3, <3>3
      <4>2. \A q \in raidList : nextEvent'[q] = 0
        BY <1>1, <2>5, <3>4 DEF RaidsTypeOK
      <4>3. executing' = {}
        BY <2>2, <3>4
      <4>4. QED
        BY <1>2, <3>4, <4>1, <4>2, <4>3 DEF OneRaid
    <3>8. NoneLeft'
      <4>1. \A k \in Live' \ handed' : k \in Live \ handed
        BY <1>2, <3>3
      <4>2. QED
        BY <1>1, <1>2, <2>4, <2>8, <3>3, <4>1 DEF NoneLeft
    <3>9. Numbered'
      BY <1>1, <1>2, <2>4, <2>8, <3>3 DEF Numbered
    <3>10. QED
      BY <1>1, <1>2, <2>2, <3>2, <3>5, <3>6, <3>7, <3>8, <3>9 DEF RaidsInv, Fresh
  <2>9. QED
    BY <2>1, <2>7, <2>8
<1>6. QED
  BY <1>4, <1>5

\* Reload: what can be stopped is, and no raid is left.
LEMMA ReloadKeeps ==
  ASSUME RaidsInv, ~wild, Reload
  PROVE  RaidsInv'
<1>1. RaidsTypeOK /\ OneCheck /\ OneRaid /\ NoneLeft /\ Fresh /\ Numbered /\ handed \subseteq Live
  BY DEF RaidsInv
<1> DEFINE ids == {checkRaidsEvent} \cup {nextEventEvent[r] : r \in raidList}
<1>2. /\ up /\ tasks' = Stopped(ids) /\ StopEvents
      /\ checkRaidsEvent' = NoId /\ raidList' = {} /\ raidsLoaded' = FALSE
      /\ raidsStarted' = FALSE /\ running' = NoRaid /\ executing' = executing \ raidList
      /\ UNCHANGED <<up, raidEvents, nextEvent, handed, wild>>
  BY DEF Reload, Clear
<1>3. /\ \A k \in EventId : tasks'[k] = IF k \in ids \ handed THEN Idle ELSE tasks[k]
      /\ tasks' \in [EventId -> [raid : Raid \cup {NoRaid}, event : Nat]]
  BY <1>1, <1>2 DEF Stopped, RaidsTypeOK, Idle, RaidTask
<1>4. \A k \in Live' : k \in Live /\ tasks'[k] = tasks[k] /\ (k \in ids => k \in handed)
  BY <1>3 DEF Live
<1>5. handed \subseteq Live'
  BY <1>1, <1>3 DEF Live
<1>6. \A q, k : GetNextRaidEvent(q, k)' = GetNextRaidEvent(q, k)
  BY <1>2 DEF GetNextRaidEvent
<1>7. \A q \in Raid : nextEventEvent'[q] = IF q \in raidList THEN NoId ELSE nextEventEvent[q]
  BY <1>2 DEF StopEvents
<1>8. nextEventEvent' \in [Raid -> EventId \cup {NoId}]
  BY <1>1, <1>2 DEF StopEvents, RaidsTypeOK
<1>9. RaidsTypeOK'
  BY <1>1, <1>2, <1>3, <1>8 DEF RaidsTypeOK
<1>10. checkRaidsEvent \in ids /\ \A q \in raidList : nextEventEvent[q] \in ids
  OBVIOUS
<1> HIDE DEF ids
<1>11. OneCheck'
  <2>1. \A k \in Live' \ handed' : tasks'[k] # Check
    BY <1>1, <1>2, <1>4, <1>10 DEF OneCheck
  <2>2. QED
    BY <1>1, <1>2, <1>4, <2>1 DEF OneCheck
<1>12. OneRaid'
  <2>1. executing' = {}
    BY <1>1, <1>2, RaidsAssumption DEF OneRaid, RaidsTypeOK
  <2>2. QED
    BY <1>2, <2>1 DEF OneRaid
<1>13. NoneLeft'
  <2>1. NoId \notin Live'
    BY RaidsAssumption DEF Live
  <2>2. \A k \in Live' \ handed : LET q == tasks[k].raid
          IN q # NoRaid => tasks[k].event = GetNextRaidEvent(q, 0)
    <3> SUFFICES ASSUME NEW k \in Live' \ handed, tasks[k].raid # NoRaid
                 PROVE  tasks[k].event = GetNextRaidEvent(tasks[k].raid, 0)
      OBVIOUS
    <3>1. k \in Live \ handed /\ k \notin ids
      BY <1>4
    <3>2. CASE tasks[k].raid \in raidList
      BY <1>1, <1>10, <3>1, <3>2 DEF Numbered
    <3>3. CASE tasks[k].raid \notin raidList
      BY <1>1, <3>1, <3>3 DEF NoneLeft
    <3>4. QED
      BY <3>2, <3>3
  <2>3. \A q \in Raid : nextEventEvent'[q] \in Live' => tasks'[nextEventEvent'[q]].raid = q
    BY <1>1, <1>4, <1>7, <2>1 DEF NoneLeft
  <2>4. QED
    BY <1>2, <1>4, <1>6, <2>1, <2>2, <2>3 DEF NoneLeft
<1>14. Numbered' /\ Fresh'
  BY <1>2 DEF Numbered, Fresh
<1>15. QED
  BY <1>2, <1>5, <1>9, <1>11, <1>12, <1>13, <1>14 DEF RaidsInv

\* Whatever is loaded, forced, run and loaded again: there is one check and at
\* most one event of one raid to come, each by the number that is kept, and of
\* a deleted raid only what could not be stopped, or the first event of a raid
\* that was forced.
THEOREM RaidsAlwaysConsistent == RaidsSpec => []RaidsConsistent
<1>1. RaidsInit => RaidsInv
  BY RaidsInitInv
<1>2. RaidsInv /\ [RaidsNext]_raidVars => RaidsInv'
  <2> SUFFICES ASSUME RaidsInv, [RaidsNext]_raidVars PROVE RaidsInv'
    OBVIOUS
  <2>1. CASE RaidsNext
    <3>1. ~wild /\ Roomy
      BY <2>1 DEF RaidsNext
    <3>2. CASE GameInit
      BY <3>1, <3>2, GameInitKeeps
    <3>3. CASE Reload
      BY <3>1, <3>3, ReloadKeeps
    <3>4. CASE \E r \in Raid : ForceRaid(r)
      BY <3>1, <3>4, ForceRaidKeeps
    <3>5. CASE \E i \in EventId : HandOver(i)
      BY <3>1, <3>5, HandOverKeeps
    <3>6. CASE \E i \in EventId : CheckRaids(i)
      BY <3>1, <3>6, CheckRaidsKeeps
    <3>7. CASE \E i \in EventId : ExecuteRaidEvent(i)
      BY <3>1, <3>7, ExecuteKeeps
    <3>8. QED
      BY <2>1, <3>2, <3>3, <3>4, <3>5, <3>6, <3>7 DEF RaidsNext
  <2>2. CASE UNCHANGED raidVars
    BY <2>2 DEF raidVars, RaidsInv, RaidsTypeOK, OneCheck, OneRaid, NoneLeft, Fresh, Numbered,
                Live, GetNextRaidEvent
  <2>3. QED
    BY <2>1, <2>2
<1>3. RaidsInv => RaidsConsistent
  BY DEF RaidsInv, RaidsConsistent
<1>4. QED
  BY <1>1, <1>2, <1>3, PTL DEF RaidsSpec

-----------------------------------------------------------------------------
(* Least numbers, and functions by recursion on positions.                 *)

\* Among numbers there is a least one.
LEMMA LeastOne ==
  ASSUME NEW S \in SUBSET Nat, S # {}
  PROVE  \E n \in S : \A m \in S : n <= m
<1>. DEFINE R == {q \in Nat \X Nat : q[1] < q[2]}
<1>1. IsWellFoundedOn(R, Nat)
  BY NatLessThanWellFounded DEF OpToRel
<1>2. \A m, n \in Nat : m < n => <<m, n>> \in R
  OBVIOUS
<1>. HIDE DEF R
<1>3. PICK n \in S : \A y \in S : ~(<<y, n>> \in R)
  BY <1>1, WFMin
<1>4. \A m \in S : n <= m
  <2>. SUFFICES ASSUME NEW m \in S PROVE n <= m
    OBVIOUS
  <2>1. m \in Nat /\ n \in Nat
    OBVIOUS
  <2>2. ~(m < n)
    BY <1>2, <1>3, <2>1
  <2>. QED BY <2>1, <2>2
<1>. QED BY <1>4

\* What holds at zero and is handed on up to N holds up to N.
LEMMA HandedOn ==
  ASSUME NEW N \in Nat, NEW T, 0 \in T, \A n \in Nat : n \in T /\ n < N => n + 1 \in T
  PROVE  \A n \in 0..N : n \in T
<1>. DEFINE B == (0..N) \ T
<1>. SUFFICES ASSUME B # {} PROVE FALSE
  OBVIOUS
<1>1. B \subseteq Nat
  OBVIOUS
<1>. HIDE DEF B
<1>2. PICK m \in B : \A j \in B : m <= j
  BY <1>1, LeastOne
<1>3. m \in 0..N /\ m \notin T
  BY DEF B
<1>4. m # 0 /\ m - 1 \in Nat /\ m - 1 < N
  BY <1>3
<1>5. m - 1 \in T
  <2>. SUFFICES ASSUME m - 1 \notin T PROVE FALSE
    OBVIOUS
  <2>1. m - 1 \in B
    BY <1>4 DEF B
  <2>. QED BY <1>2, <1>3, <2>1
<1>6. (m - 1) + 1 = m
  BY <1>3
<1>. QED BY <1>3, <1>4, <1>5, <1>6

\* What is left of the first places of a sequence.
IsThose(s, S, m, f) ==
  f = [n \in 0..m |-> IF n = 0 THEN <<>>
                      ELSE IF s[n] \in S THEN Append(f[n - 1], s[n]) ELSE f[n - 1]]

\* There is such a function: one step after the other.
LEMMA ThoseExists ==
  ASSUME NEW s, NEW S, Len(s) \in Nat
  PROVE  \E f : IsThose(s, S, Len(s), f)
<1>. DEFINE B == {m \in Nat : ~\E f : IsThose(s, S, m, f)}
<1>1. B = {}
  <2>. SUFFICES ASSUME B # {} PROVE FALSE
    OBVIOUS
  <2>0. B \subseteq Nat
    OBVIOUS
  <2>. HIDE DEF B
  <2>1. PICK m \in B : \A j \in B : m <= j
    BY <2>0, LeastOne
  <2>2. m \in Nat /\ ~\E f : IsThose(s, S, m, f)
    BY DEF B
  <2>3. CASE m = 0
    <3>. DEFINE f == [n \in 0..0 |-> <<>>]
    <3>1. IsThose(s, S, 0, f)
      BY DEF IsThose
    <3>. QED BY <2>2, <2>3, <3>1
  <2>4. CASE m # 0
    <3>1. m - 1 \in Nat /\ m - 1 \notin B
      BY <2>1, <2>2, <2>4
    <3>2. PICK g : IsThose(s, S, m - 1, g)
      BY <3>1 DEF B
    <3>. DEFINE f == [n \in 0..m |-> IF n = 0 THEN <<>>
                       ELSE IF s[n] \in S THEN Append(g[n - 1], s[n]) ELSE g[n - 1]]
    <3>3. \A n \in 0..(m - 1) : f[n] = g[n]
      <4>. SUFFICES ASSUME NEW n \in 0..(m - 1) PROVE f[n] = g[n]
        OBVIOUS
      <4>1. n \in 0..m
        BY <2>2
      <4>. QED BY <3>2, <4>1 DEF IsThose
    <3>4. \A n \in 0..m : n # 0 => n - 1 \in 0..(m - 1)
      BY <2>2
    <3>5. \A n \in 0..m : n # 0 => f[n - 1] = g[n - 1]
      BY <3>3, <3>4
    <3>6. IsThose(s, S, m, f)
      BY <3>5 DEF IsThose
    <3>. QED BY <2>2, <3>6
  <2>. QED BY <2>3, <2>4
<1>2. \E f : IsThose(s, S, Len(s), f)
  BY <1>1
<1>. QED BY <1>2

\* What is left of a sequence: its things in the set, each as often as before.
LEMMA ThoseLeft ==
  ASSUME NEW X, NEW s \in Seq(X), NEW S, NEW v, v = Those(s, S)
  PROVE  /\ v \in Seq(X) /\ ToSet(v) = ToSet(s) \cap S
         /\ IsInjective(s) => IsInjective(v)
<1>. DEFINE kept == CHOOSE f : IsThose(s, S, Len(s), f)
<1>0. Len(s) \in Nat /\ DOMAIN s = 1..Len(s) /\ \A n \in 1..Len(s) : s[n] \in X
  OBVIOUS
<1>1. IsThose(s, S, Len(s), kept)
  <2>1. \E f : IsThose(s, S, Len(s), f)
    BY <1>0, ThoseExists
  <2>. QED BY <2>1
<1>2. v = kept[Len(s)]
  BY DEF Those, IsThose
<1>. HIDE DEF kept
<1>3. kept[0] = <<>>
  BY <1>0, <1>1 DEF IsThose
<1>4. \A n \in 1..Len(s) : kept[n] = IF s[n] \in S THEN Append(kept[n - 1], s[n]) ELSE kept[n - 1]
  <2>. SUFFICES ASSUME NEW n \in 1..Len(s)
                PROVE  kept[n] = IF s[n] \in S THEN Append(kept[n - 1], s[n]) ELSE kept[n - 1]
    OBVIOUS
  <2>1. n \in 0..Len(s) /\ n # 0
    BY <1>0
  <2>. QED BY <1>1, <2>1 DEF IsThose
<1>. DEFINE Has(r, n) == /\ r \in Seq(X)
                         /\ \A x : (\E k \in DOMAIN r : r[k] = x) <=> (x \in S /\ \E k \in 1..n : s[k] = x)
                         /\ IsInjective(s) => IsInjective(r)
            T == {n \in 0..Len(s) : Has(kept[n], n)}
<1>5. 0 \in T
  <2>1. <<>> \in Seq(X) /\ DOMAIN <<>> = {} /\ 1..0 = {}
    OBVIOUS
  <2>2. Has(<<>>, 0)
    BY <2>1 DEF IsInjective
  <2>. HIDE DEF Has
  <2>3. 0 \in 0..Len(s)
    BY <1>0
  <2>. QED BY <1>3, <2>2, <2>3
<1>6. ASSUME NEW n \in Nat, n \in T, n < Len(s) PROVE n + 1 \in T
  <2>. DEFINE r == kept[n]
              t == kept[n + 1]
  <2>1. n + 1 \in 1..Len(s) /\ (n + 1) - 1 = n /\ s[n + 1] \in X
    BY <1>0, <1>6
  <2>2. t = IF s[n + 1] \in S THEN Append(r, s[n + 1]) ELSE r
    BY <1>4, <2>1
  <2>3. Has(r, n)
    BY <1>6
  <2>. HIDE DEF r, t
  <2>4. \A k \in 1..(n + 1) : k \in 1..n \/ k = n + 1
    BY <1>6
  <2>5. \A k \in 1..n : k \in 1..(n + 1) /\ k # n + 1
    BY <1>6
  <2>6. n + 1 \in 1..(n + 1)
    BY <1>6
  <2>7. Has(t, n + 1)
    <3>1. CASE s[n + 1] \notin S
      BY <2>2, <2>3, <2>4, <2>5, <3>1
    <3>2. CASE s[n + 1] \in S
      <4>1. t = Append(r, s[n + 1])
        BY <2>2, <3>2
      <4>2. r \in Seq(X) /\ Len(r) \in Nat /\ DOMAIN r = 1..Len(r)
        BY <2>3
      <4>3. t \in Seq(X) /\ DOMAIN t = 1..(Len(r) + 1) /\ t[Len(r) + 1] = s[n + 1]
            /\ \A k \in 1..Len(r) : t[k] = r[k]
        BY <2>1, <4>1, <4>2
      <4>4. \A k \in DOMAIN t : k \in DOMAIN r \/ k = Len(r) + 1
        BY <4>2, <4>3
      <4>5. \A k \in DOMAIN r : k \in DOMAIN t /\ k # Len(r) + 1
        BY <4>2, <4>3
      <4>6. Len(r) + 1 \in DOMAIN t
        BY <4>2, <4>3
      <4>7. \A x : (\E k \in DOMAIN t : t[k] = x) <=> (x \in S /\ \E k \in 1..(n + 1) : s[k] = x)
        <5>. SUFFICES ASSUME NEW x
                      PROVE  (\E k \in DOMAIN t : t[k] = x) <=> (x \in S /\ \E k \in 1..(n + 1) : s[k] = x)
          OBVIOUS
        <5>1. (\E k \in DOMAIN t : t[k] = x) <=> (\E k \in DOMAIN r : r[k] = x) \/ x = s[n + 1]
          BY <4>2, <4>3, <4>4, <4>5, <4>6
        <5>2. (\E k \in 1..(n + 1) : s[k] = x) <=> (\E k \in 1..n : s[k] = x) \/ x = s[n + 1]
          BY <2>4, <2>5, <2>6
        <5>. QED BY <2>3, <3>2, <5>1, <5>2
      <4>8. IsInjective(s) => IsInjective(t)
        <5>. SUFFICES ASSUME IsInjective(s), NEW a \in DOMAIN t, NEW b \in DOMAIN t, t[a] = t[b]
                      PROVE  a = b
          BY DEF IsInjective
        <5>1. \A k \in DOMAIN r : r[k] # s[n + 1]
          <6>. SUFFICES ASSUME NEW k \in DOMAIN r, r[k] = s[n + 1] PROVE FALSE
            OBVIOUS
          <6>1. PICK m \in 1..n : s[m] = s[n + 1]
            BY <2>3
          <6>2. m \in DOMAIN s /\ n + 1 \in DOMAIN s /\ m # n + 1
            BY <1>0, <2>1, <2>5
          <6>. QED BY <6>1, <6>2 DEF IsInjective
        <5>2. IsInjective(r)
          BY <2>3
        <5>. QED BY <4>2, <4>3, <4>4, <5>1, <5>2 DEF IsInjective
      <4>. QED BY <4>3, <4>7, <4>8
    <3>. QED BY <3>1, <3>2
  <2>. HIDE DEF Has
  <2>. QED BY <2>1, <2>7 DEF t
<1>. HIDE DEF T
<1>7. Len(s) \in T
  <2>1. \A n \in 0..Len(s) : n \in T
    BY <1>0, <1>5, <1>6, HandedOn
  <2>. QED BY <1>0, <2>1
<1>8. Has(v, Len(s))
  BY <1>2, <1>7 DEF T
<1>9. ToSet(v) = ToSet(s) \cap S
  BY <1>0, <1>8 DEF ToSet
<1>. QED BY <1>8, <1>9
-----------------------------------------------------------------------------
(* What holds of every state on the way: where the things are, and what    *)
(* the cache has of its tile, filled or half filled.                       *)

Calls == {j \in [do: {"ask", "start", "came", "change", "use", "fill"}, tile: Tiles, item: Things,
                 of: {"step", "tile", "none"}, i: Nat, last: Nat] :
            /\ j.do \in {"came", "change"} => j.item \in TileItems
            /\ j.do \notin {"use", "fill"} => j.i = 0}

StepWorlds ==
  [things: [Tiles -> Seq(Things)], kind: [TileItems -> {"step", "tile", "none", "freed"}],
   cacheTile: Tiles \cup {NoTile}, cache: Seq(TileItems \cup {NoItem}), jobs: Seq(Calls),
   scripts: Nat, disturbed: BOOLEAN, skipped: Things \cup {NoItem}, danger: BOOLEAN]

OnTile(w, t) == ToSet(w.things[t])

\* A thing lies on one tile, once; the walker stands somewhere; what was freed lies nowhere.
Placed(w) == /\ \A t \in Tiles : IsInjective(w.things[t])
             /\ \A t, u \in Tiles : OnTile(w, t) \cap OnTile(w, u) # {} => t = u
Settled(w) == /\ \E t \in Tiles : Walker \in OnTile(w, t)
              /\ \A t \in Tiles : \A x \in OnTile(w, t) \cap TileItems : w.kind[x] # "freed"

\* The calls that fill the cache, and the items of which the cache of c is
\* still to be told; none of these is above the filling of the cache.
IsFill(j) == j.do = "fill"
Waits(j, c) == j.do \in {"came", "change"} /\ j.tile = c
FillCalls(q)  == {q[k] : k \in {n \in DOMAIN q : IsFill(q[n])}}
Pend(q, c) == {q[k].item : k \in {n \in DOMAIN q : Waits(q[n], c)}}
OneFill(q) == \A k, n \in DOMAIN q : IsFill(q[k]) /\ IsFill(q[n]) => k = n
InTurn(q, c) == \A k, n \in DOMAIN q : IsFill(q[n]) /\ k < n => ~Waits(q[k], c)

Kept(w) == ToSet(w.cache) \ {NoItem}
Owed(w) == {x \in OnTile(w, w.cacheTile) \cap TileItems : w.kind[x] # "none"}
Once(s) == \A j, k \in DOMAIN s : s[j] = s[k] => j = k \/ s[j] = NoItem

\* The first i things of the tile are in the cache, and no others.
Half(w, i) ==
  \A n \in DOMAIN w.things[w.cacheTile] :
    LET x == w.things[w.cacheTile][n]
    IN /\ n <= i /\ x \in Owed(w) /\ x # w.skipped => x \in Kept(w)
       /\ x \in Kept(w) => n <= i

FillsUp(w, f) == /\ f.tile = w.cacheTile /\ f.last = Len(w.things[w.cacheTile]) /\ f.i <= f.last
                 /\ w.skipped \in {NoItem, f.item} /\ Half(w, f.i)

Unfilled(w) == w.cacheTile = NoTile /\ w.cache = <<>> /\ FillCalls(w.jobs) = {}
Filled(w) ==
  /\ w.cacheTile \in Tiles /\ Once(w.cache) /\ Kept(w) \subseteq OnTile(w, w.cacheTile)
  /\ OneFill(w.jobs) /\ InTurn(w.jobs, w.cacheTile)
  /\ \A f \in FillCalls(w.jobs) : FillsUp(w, f)
  /\ FillCalls(w.jobs) = {} => Owed(w) \subseteq Kept(w) \cup Pend(w.jobs, w.cacheTile) \cup {w.skipped}

Cached(w) == w.disturbed \/ Unfilled(w) \/ Filled(w)

StepSound(w) == w \in StepWorlds /\ Placed(w) /\ Settled(w) /\ Cached(w) /\ ~w.danger

-----------------------------------------------------------------------------
(* The stack of calls.                                                     *)

OnTopOf(q, j, r) == q = <<j>> \o r
IsStack(q) == q \in Seq(Calls)

\* A call on top of others: what it adds to the fillings and to what waits.
TopAdds(q, j, r, c) ==
  /\ IsStack(q) /\ q # <<>> /\ Head(q) = j /\ q[1] = j /\ Tail(q) = r
  /\ FillCalls(q) = FillCalls(r) \cup (IF IsFill(j) THEN {j} ELSE {})
  /\ Pend(q, c) = Pend(r, c) \cup (IF Waits(j, c) THEN {j.item} ELSE {})
  /\ OneFill(q) <=> OneFill(r) /\ (IsFill(j) => FillCalls(r) = {})
  /\ InTurn(q, c) <=> InTurn(r, c) /\ (Waits(j, c) => FillCalls(r) = {})

\* So does every call on top of others.
LEMMA OnTop ==
  ASSUME NEW j \in Calls, NEW r, IsStack(r), NEW q, OnTopOf(q, j, r), NEW c
  PROVE  TopAdds(q, j, r, c)
<1>0. r \in Seq(Calls) /\ q = <<j>> \o r
  BY DEF IsStack, OnTopOf
<1>1. q \in Seq(Calls) /\ q # <<>> /\ Head(q) = j /\ q[1] = j /\ Tail(q) = r
  BY <1>0
<1>2. Len(r) \in Nat /\ DOMAIN r = 1..Len(r) /\ DOMAIN q = 1..(Len(r) + 1)
  BY <1>0, <1>1
<1>3. \A k \in DOMAIN r : k + 1 \in DOMAIN q /\ k + 1 # 1 /\ q[k + 1] = r[k]
  BY <1>0, <1>1, <1>2
<1>4. \A k \in DOMAIN q : k # 1 => k - 1 \in DOMAIN r /\ q[k] = r[k - 1] /\ 1 < k
  BY <1>0, <1>1, <1>2
<1>5. 1 \in DOMAIN q /\ \A k \in DOMAIN q : k = 1 \/ \E n \in DOMAIN r : k = n + 1
  <2>1. 1 \in DOMAIN q
    BY <1>2
  <2>2. \A k \in DOMAIN q : (k - 1) + 1 = k
    BY <1>2
  <2>. QED BY <1>4, <2>1, <2>2
<1>6. FillCalls(q) = FillCalls(r) \cup (IF IsFill(j) THEN {j} ELSE {})
  <2>0. \A p : \A f : f \in FillCalls(p) <=> \E k \in DOMAIN p : IsFill(p[k]) /\ f = p[k]
    BY DEF FillCalls
  <2>1. ASSUME NEW f \in FillCalls(q) PROVE f \in FillCalls(r) \/ (IsFill(j) /\ f = j)
    <3>1. PICK k \in DOMAIN q : IsFill(q[k]) /\ f = q[k]
      BY <2>0
    <3>2. CASE k = 1
      BY <1>1, <3>1, <3>2
    <3>3. CASE k # 1
      <4>1. k - 1 \in DOMAIN r /\ q[k] = r[k - 1]
        BY <1>4, <3>3
      <4>. QED BY <2>0, <3>1, <4>1, Zenon
    <3>. QED BY <3>2, <3>3
  <2>2. ASSUME NEW f \in FillCalls(r) PROVE f \in FillCalls(q)
    <3>1. PICK k \in DOMAIN r : IsFill(r[k]) /\ f = r[k]
      BY <2>0
    <3>2. k + 1 \in DOMAIN q /\ q[k + 1] = r[k]
      BY <1>3
    <3>. QED BY <2>0, <3>1, <3>2, Zenon
  <2>3. IsFill(j) => j \in FillCalls(q)
    BY <1>1, <1>5, <2>0
  <2>. QED BY <2>1, <2>2, <2>3
<1>7. Pend(q, c) = Pend(r, c) \cup (IF Waits(j, c) THEN {j.item} ELSE {})
  <2>0. \A p : \A x : x \in Pend(p, c) <=> \E k \in DOMAIN p : Waits(p[k], c) /\ x = p[k].item
    BY DEF Pend
  <2>1. ASSUME NEW x \in Pend(q, c) PROVE x \in Pend(r, c) \/ (Waits(j, c) /\ x = j.item)
    <3>1. PICK k \in DOMAIN q : Waits(q[k], c) /\ x = q[k].item
      BY <2>0, SMTT(30)
    <3>2. CASE k = 1
      BY <1>1, <3>1, <3>2
    <3>3. CASE k # 1
      <4>1. k - 1 \in DOMAIN r /\ q[k] = r[k - 1]
        BY <1>4, <3>3
      <4>. QED BY <2>0, <3>1, <4>1, Zenon
    <3>. QED BY <3>2, <3>3
  <2>2. ASSUME NEW x \in Pend(r, c) PROVE x \in Pend(q, c)
    <3>1. PICK k \in DOMAIN r : Waits(r[k], c) /\ x = r[k].item
      BY <2>0
    <3>2. k + 1 \in DOMAIN q /\ q[k + 1] = r[k]
      BY <1>3
    <3>. QED BY <2>0, <3>1, <3>2, Zenon
  <2>3. Waits(j, c) => j.item \in Pend(q, c)
    BY <1>1, <1>5, <2>0
  <2>. QED BY <2>1, <2>2, <2>3
<1>8. FillCalls(r) = {} <=> \A k \in DOMAIN r : ~IsFill(r[k])
  BY DEF FillCalls
<1>9. OneFill(q) <=> OneFill(r) /\ (IsFill(j) => FillCalls(r) = {})
  <2>1. ASSUME OneFill(q) PROVE OneFill(r) /\ (IsFill(j) => FillCalls(r) = {})
    <3>1. \A k, n \in DOMAIN r : k + 1 = n + 1 => k = n
      BY <1>2
    <3>2. OneFill(r)
      BY <1>3, <2>1, <3>1 DEF OneFill
    <3>3. IsFill(j) => \A k \in DOMAIN r : ~IsFill(r[k])
      BY <1>1, <1>3, <1>5, <2>1 DEF OneFill
    <3>. QED BY <1>8, <3>2, <3>3
  <2>2. ASSUME OneFill(r), IsFill(j) => FillCalls(r) = {} PROVE OneFill(q)
    <3>1. IsFill(j) => \A k \in DOMAIN r : ~IsFill(r[k])
      BY <1>8, <2>2
    <3>. SUFFICES ASSUME NEW k \in DOMAIN q, NEW n \in DOMAIN q, IsFill(q[k]), IsFill(q[n])
                  PROVE  k = n
      BY DEF OneFill
    <3>2. CASE k = 1
      BY <1>1, <1>4, <3>1, <3>2
    <3>3. CASE n = 1
      BY <1>1, <1>4, <3>1, <3>3
    <3>4. CASE k # 1 /\ n # 1
      <4>1. k - 1 = n - 1
        BY <1>4, <2>2, <3>4 DEF OneFill
      <4>. QED BY <1>2, <4>1
    <3>. QED BY <3>2, <3>3, <3>4
  <2>. QED BY <2>1, <2>2
<1>10. InTurn(q, c) <=> InTurn(r, c) /\ (Waits(j, c) => FillCalls(r) = {})
  <2>1. ASSUME InTurn(q, c) PROVE InTurn(r, c) /\ (Waits(j, c) => FillCalls(r) = {})
    <3>1. \A k, n \in DOMAIN r : k < n => k + 1 < n + 1
      BY <1>2
    <3>2. InTurn(r, c)
      BY <1>3, <2>1, <3>1 DEF InTurn
    <3>3. Waits(j, c) => \A k \in DOMAIN r : ~IsFill(r[k])
      <4>1. \A k \in DOMAIN r : 1 < k + 1
        BY <1>2
      <4>. QED BY <1>1, <1>3, <1>5, <2>1, <4>1 DEF InTurn
    <3>. QED BY <1>8, <3>2, <3>3
  <2>2. ASSUME InTurn(r, c), Waits(j, c) => FillCalls(r) = {} PROVE InTurn(q, c)
    <3>1. Waits(j, c) => \A k \in DOMAIN r : ~IsFill(r[k])
      BY <1>8, <2>2
    <3>. SUFFICES ASSUME NEW k \in DOMAIN q, NEW n \in DOMAIN q, IsFill(q[n]), k < n
                  PROVE  ~Waits(q[k], c)
      BY DEF InTurn
    <3>0. n # 1
      BY <1>2
    <3>2. CASE k = 1
      BY <1>1, <1>4, <3>0, <3>1, <3>2
    <3>3. CASE k # 1
      <4>1. k - 1 < n - 1
        BY <1>2
      <4>. QED BY <1>4, <2>2, <3>0, <3>3, <4>1 DEF InTurn
    <3>. QED BY <3>2, <3>3
  <2>. QED BY <2>1, <2>2
<1>11. /\ OneFill(q) <=> OneFill(r) /\ (IsFill(j) => FillCalls(r) = {})
       /\ InTurn(q, c) <=> InTurn(r, c) /\ (Waits(j, c) => FillCalls(r) = {})
  BY <1>9, <1>10, Zenon
<1>. QED BY <1>1, <1>6, <1>7, <1>11, Zenon DEF TopAdds, IsStack

\* A stack that is not empty has a top; to change the top is to put another on
\* what lies below.
LEMMA TopOf ==
  ASSUME NEW q, IsStack(q), q # <<>>
  PROVE  /\ Head(q) \in Calls /\ Head(q) = q[1] /\ IsStack(Tail(q)) /\ OnTopOf(q, Head(q), Tail(q))
         /\ 1 \in DOMAIN q /\ \A j : OnTopOf([q EXCEPT ![1] = j], j, Tail(q))
<1>0. q \in Seq(Calls)
  BY DEF IsStack
<1>1. Len(q) \in Nat /\ Len(q) # 0 /\ DOMAIN q = 1..Len(q)
  BY <1>0
<1>2. Head(q) \in Calls /\ Head(q) = q[1] /\ Tail(q) \in Seq(Calls) /\ q = <<Head(q)>> \o Tail(q)
  BY <1>0, <1>1
<1>3. ASSUME NEW j PROVE [q EXCEPT ![1] = j] = <<j>> \o Tail(q)
  <2>. DEFINE p == [q EXCEPT ![1] = j]
              r == <<j>> \o Tail(q)
  <2>1. Len(Tail(q)) = Len(q) - 1 /\ \A k \in 1..(Len(q) - 1) : Tail(q)[k] = q[k + 1]
    BY <1>0, <1>1
  <2>2. DOMAIN p = 1..Len(q) /\ p[1] = j /\ \A k \in 1..Len(q) : k # 1 => p[k] = q[k]
    BY <1>0, <1>1
  <2>3. r \in Seq(Calls \cup {j}) /\ Len(r) = Len(q) /\ r[1] = j
    BY <1>0, <1>1, <1>2, <2>1
  <2>4. \A k \in 1..Len(q) : k # 1 => r[k] = q[k]
    <3>. SUFFICES ASSUME NEW k \in 1..Len(q), k # 1 PROVE r[k] = q[k]
      OBVIOUS
    <3>1. k - 1 \in 1..(Len(q) - 1) /\ (k - 1) + 1 = k
      BY <1>0, <1>1
    <3>2. r[k] = Tail(q)[k - 1]
      BY <1>0, <1>1, <1>2, <2>1, <3>1
    <3>. QED BY <2>1, <3>1, <3>2
  <2>5. p \in Seq(Calls \cup {j})
    BY <1>0, <1>1, <2>2
  <2>6. Len(p) = Len(q)
    BY <1>1, <2>2, <2>5
  <2>. HIDE DEF p, r
  <2>7. p = r
    BY <1>1, <2>2, <2>3, <2>4, <2>5, <2>6, SeqEqual
  <2>. QED BY <2>7 DEF p, r
<1>4. 1 \in DOMAIN q
  BY <1>1
<1>. QED BY <1>2, <1>3, <1>4 DEF IsStack, OnTopOf

-----------------------------------------------------------------------------
(* Things on tiles.                                                        *)

Distinct(X, s) == s \in Seq(X) /\ IsInjective(s)
Apart(a, b) == ToSet(a) \cap ToSet(b) = {}
IsJoin(v, a, b) == v = a \o b

\* Two sequences, one after the other.
LEMMA Joined ==
  ASSUME NEW X, NEW a, NEW b, Distinct(X, a), Distinct(X, b), Apart(a, b), NEW v, IsJoin(v, a, b)
  PROVE  Distinct(X, v) /\ ToSet(v) = ToSet(a) \cup ToSet(b)
<1>0. a \in Seq(X) /\ b \in Seq(X) /\ IsInjective(a) /\ IsInjective(b) /\ ToSet(a) \cap ToSet(b) = {} /\ v = a \o b
  BY DEF Distinct, Apart, IsJoin
<1>1. /\ v \in Seq(X) /\ Len(a) \in Nat /\ Len(b) \in Nat /\ DOMAIN a = 1..Len(a)
      /\ DOMAIN b = 1..Len(b) /\ DOMAIN v = 1..(Len(a) + Len(b))
  BY <1>0
<1>2. \A k \in DOMAIN a : k \in DOMAIN v /\ v[k] = a[k]
  BY <1>0, <1>1
<1>3. \A k \in DOMAIN b : Len(a) + k \in DOMAIN v /\ v[Len(a) + k] = b[k]
  BY <1>0, <1>1
<1>4. \A k \in DOMAIN v : (k \in DOMAIN a /\ v[k] = a[k])
                          \/ (k \notin DOMAIN a /\ k - Len(a) \in DOMAIN b /\ v[k] = b[k - Len(a)])
  BY <1>0, <1>1
<1>5. \A q : \A x : x \in ToSet(q) <=> \E k \in DOMAIN q : x = q[k]
  BY DEF ToSet
<1>6. ToSet(v) = ToSet(a) \cup ToSet(b)
  <2>1. ASSUME NEW x \in ToSet(v) PROVE x \in ToSet(a) \cup ToSet(b)
    <3>1. PICK k \in DOMAIN v : x = v[k]
      BY DEF ToSet
    <3>. QED BY <1>4, <1>5, <3>1
  <2>2. ASSUME NEW x \in ToSet(a) PROVE x \in ToSet(v)
    <3>1. PICK k \in DOMAIN a : x = a[k]
      BY <1>5, Zenon
    <3>. QED BY <1>2, <1>5, <3>1
  <2>3. ASSUME NEW x \in ToSet(b) PROVE x \in ToSet(v)
    <3>1. PICK k \in DOMAIN b : x = b[k]
      BY <1>5, Zenon
    <3>2. Len(a) + k \in DOMAIN v /\ v[Len(a) + k] = x
      BY <1>3, <3>1
    <3>. QED BY <1>5, <3>2
  <2>. QED BY <2>1, <2>2, <2>3
<1>7. IsInjective(v)
  <2>0. \A i \in DOMAIN a, j \in DOMAIN b : a[i] # b[j]
    <3>. SUFFICES ASSUME NEW i \in DOMAIN a, NEW j \in DOMAIN b, a[i] = b[j] PROVE FALSE
      OBVIOUS
    <3>1. a[i] \in ToSet(a) /\ a[i] \in ToSet(b)
      BY <1>5
    <3>. QED BY <1>0, <3>1
  <2>. SUFFICES ASSUME NEW i \in DOMAIN v, NEW j \in DOMAIN v, v[i] = v[j] PROVE i = j
    BY DEF IsInjective
  <2>1. CASE i \in DOMAIN a /\ j \in DOMAIN a
    BY <1>0, <1>2, <2>1 DEF IsInjective
  <2>2. CASE i \notin DOMAIN a /\ j \notin DOMAIN a
    <3>1. i - Len(a) = j - Len(a)
      BY <1>0, <1>4, <2>2 DEF IsInjective
    <3>. QED BY <1>1, <3>1
  <2>3. CASE ~(i \in DOMAIN a <=> j \in DOMAIN a)
    BY <1>4, <2>0, <2>3
  <2>. QED BY <2>1, <2>2, <2>3
<1>. QED BY <1>1, <1>6, <1>7 DEF Distinct

\* A thing between two sequences.
LEMMA Between ==
  ASSUME NEW X, NEW a, NEW b, NEW x \in X,
         Distinct(X, a), Distinct(X, b), Apart(a, b), x \notin ToSet(a) \cup ToSet(b),
         NEW y, y = <<x>>, NEW m, IsJoin(m, a, y), NEW v, IsJoin(v, m, b)
  PROVE  Distinct(X, v) /\ ToSet(v) = ToSet(a) \cup ToSet(b) \cup {x}
<1>1. Distinct(X, y) /\ ToSet(y) = {x}
  BY DEF ToSet, IsInjective, Distinct
<1>2. Apart(a, y)
  BY <1>1 DEF Apart
<1>3. Distinct(X, m) /\ ToSet(m) = ToSet(a) \cup ToSet(y)
  BY <1>1, <1>2, Joined
<1>4. Apart(m, b)
  BY <1>1, <1>3 DEF Apart
<1>5. Distinct(X, v) /\ ToSet(v) = ToSet(m) \cup ToSet(b)
  BY <1>3, <1>4, Joined
<1>. QED BY <1>1, <1>3, <1>5

\* A thing put among the things of a tile.
LEMMA Inserted ==
  ASSUME NEW s, Distinct(Things, s), NEW x \in Things, x \notin ToSet(s), NEW v, v = Insert(s, x)
  PROVE  Distinct(Things, v) /\ ToSet(v) = ToSet(s) \cup {x}
<1>. DEFINE low == IF x \in Tops THEN Tops ELSE Things \ Downs
            a == Those(s, low)
            b == Those(s, Things \ low)
            y == <<x>>
            m == a \o y
<1>1. low \subseteq Things
  BY DEF Things, TileItems
<1>2. v = m \o b
  BY <1>1 DEF Insert
<1>. HIDE DEF low
<1>3. Distinct(Things, a) /\ ToSet(a) = ToSet(s) \cap low
  BY ThoseLeft DEF Distinct
<1>4. Distinct(Things, b) /\ ToSet(b) = ToSet(s) \cap (Things \ low)
  BY ThoseLeft DEF Distinct
<1>. HIDE DEF a, b
<1>5. Apart(a, b) /\ x \notin ToSet(a) \cup ToSet(b)
  BY <1>3, <1>4 DEF Apart
<1>6. y = <<x>> /\ IsJoin(m, a, y) /\ IsJoin(v, m, b)
  BY <1>2 DEF IsJoin
<1>. HIDE DEF y, m
<1>7. Distinct(Things, v) /\ ToSet(v) = ToSet(a) \cup ToSet(b) \cup {x}
  BY <1>3, <1>4, <1>5, <1>6, Between
<1>8. ToSet(s) \subseteq Things
  BY DEF ToSet, Distinct
<1>. QED BY <1>1, <1>3, <1>4, <1>7, <1>8

-----------------------------------------------------------------------------
(* The world of the events, and what each helper does with it.             *)

\* The parts of a world.
LEMMA PartsOf ==
  ASSUME NEW w \in StepWorlds
  PROVE  /\ w.things \in [Tiles -> Seq(Things)] /\ w.kind \in [TileItems -> {"step", "tile", "none", "freed"}]
         /\ w.cacheTile \in Tiles \cup {NoTile} /\ w.cache \in Seq(TileItems \cup {NoItem})
         /\ w.jobs \in Seq(Calls) /\ IsStack(w.jobs) /\ w.scripts \in Nat /\ w.disturbed \in BOOLEAN
         /\ w.skipped \in Things \cup {NoItem} /\ w.danger \in BOOLEAN
BY DEF StepWorlds, IsStack

\* What a world says besides the things of the tiles.
SameElse(w, v) == /\ v.kind = w.kind /\ v.cacheTile = w.cacheTile /\ v.cache = w.cache /\ v.jobs = w.jobs
                  /\ v.skipped = w.skipped /\ v.danger = w.danger

\* Worlds of which one part is another.
WithThings(w, T, b) == [w EXCEPT !.things = T, !.disturbed = b]
WithCache(w, s) == [w EXCEPT !.cache = s]
WithCalls(w, q) == [w EXCEPT !.jobs = q]
WithKinds(w, K) == [w EXCEPT !.kind = K]

\* Other things on the tiles.
LEMMA OtherThings ==
  ASSUME NEW w \in StepWorlds, NEW T \in [Tiles -> Seq(Things)], NEW b \in BOOLEAN,
         NEW v, v = WithThings(w, T, b)
  PROVE  v \in StepWorlds /\ SameElse(w, v) /\ v.things = T /\ v.disturbed = b
BY DEF StepWorlds, WithThings, SameElse

\* Another cache.
LEMMA OtherCache ==
  ASSUME NEW w \in StepWorlds, NEW s \in Seq(TileItems \cup {NoItem}), NEW v, v = WithCache(w, s)
  PROVE  /\ v \in StepWorlds /\ v.cache = s
         /\ v.things = w.things /\ v.kind = w.kind /\ v.cacheTile = w.cacheTile /\ v.jobs = w.jobs
         /\ v.skipped = w.skipped /\ v.danger = w.danger /\ v.disturbed = w.disturbed
BY DEF StepWorlds, WithCache

\* Other calls.
LEMMA OtherCalls ==
  ASSUME NEW w \in StepWorlds, NEW q, IsStack(q), NEW v, v = WithCalls(w, q)
  PROVE  /\ v \in StepWorlds /\ v.jobs = q
         /\ v.things = w.things /\ v.kind = w.kind /\ v.cacheTile = w.cacheTile /\ v.cache = w.cache
         /\ v.skipped = w.skipped /\ v.danger = w.danger /\ v.disturbed = w.disturbed
BY DEF StepWorlds, WithCalls, IsStack

\* Other kinds.
LEMMA OtherKinds ==
  ASSUME NEW w \in StepWorlds, NEW K \in [TileItems -> {"step", "tile", "none", "freed"}],
         NEW v, v = WithKinds(w, K)
  PROVE  /\ v \in StepWorlds /\ v.kind = K
         /\ v.things = w.things /\ v.jobs = w.jobs /\ v.cacheTile = w.cacheTile /\ v.cache = w.cache
         /\ v.skipped = w.skipped /\ v.danger = w.danger /\ v.disturbed = w.disturbed
BY DEF StepWorlds, WithKinds

\* A change of the things of t, of which a filling of its cache is told.
Touched(w, v, t) ==
  /\ v \in StepWorlds /\ Placed(v) /\ SameElse(w, v)
  /\ \A u \in Tiles : u # t => v.things[u] = w.things[u]
  /\ ~v.disturbed => ~w.disturbed /\ ~Filling(w, t)

\* Disturb.
LEMMA Disturbs ==
  ASSUME NEW w \in StepWorlds, Placed(w), NEW t \in Tiles, NEW v, v = Disturb(w, t)
  PROVE  Touched(w, v, t) /\ v.things = w.things
<1>. DEFINE b == w.disturbed \/ Filling(w, t)
<1>1. b \in BOOLEAN /\ w.things \in [Tiles -> Seq(Things)]
  BY PartsOf
<1>2. v = WithThings(w, w.things, b)
  BY DEF Disturb, WithThings, StepWorlds
<1>3. v \in StepWorlds /\ SameElse(w, v) /\ v.things = w.things /\ v.disturbed = b
  <2>. HIDE DEF b
  <2>. QED BY <1>1, <1>2, OtherThings
<1>4. Placed(v)
  BY <1>3 DEF Placed, OnTile
<1>. QED BY <1>3, <1>4 DEF Touched

\* Lift.
LEMMA Lifted ==
  ASSUME NEW w \in StepWorlds, Placed(w), NEW t \in Tiles, NEW x \in Things, NEW v, v = Lift(w, t, x)
  PROVE  Touched(w, v, t) /\ OnTile(v, t) = OnTile(w, t) \ {x}
<1>. DEFINE s == Those(w.things[t], Things \ {x})
            T == [w.things EXCEPT ![t] = s]
            b == w.disturbed \/ Filling(w, t)
<1>0. w.things \in [Tiles -> Seq(Things)] /\ w.things[t] \in Seq(Things) /\ w.disturbed \in BOOLEAN
  BY PartsOf
<1>1. s \in Seq(Things) /\ ToSet(s) = ToSet(w.things[t]) \cap (Things \ {x}) /\ IsInjective(s)
  BY <1>0, ThoseLeft DEF Placed
<1>. HIDE DEF s
<1>2. T \in [Tiles -> Seq(Things)] /\ T[t] = s /\ \A u \in Tiles : u # t => T[u] = w.things[u]
  BY <1>0, <1>1
<1>3. v = WithThings(w, T, b)
  <2>. DEFINE u == [w EXCEPT !.things = T]
  <2>1. v = Disturb(u, t)
    BY DEF Lift, s
  <2>2. u.disturbed = w.disturbed /\ u.jobs = w.jobs /\ u.things = T
    BY DEF StepWorlds
  <2>3. Filling(u, t) <=> Filling(w, t)
    BY <2>2 DEF Filling
  <2>4. v = [u EXCEPT !.disturbed = b]
    BY <1>0, <2>1, <2>2, <2>3 DEF Disturb
  <2>. QED BY <2>4 DEF StepWorlds, WithThings
<1>. HIDE DEF T
<1>4. b \in BOOLEAN
  BY <1>0
<1>6. v \in StepWorlds /\ SameElse(w, v) /\ v.things = T /\ v.disturbed = b
  <2>. HIDE DEF b
  <2>. QED BY <1>2, <1>3, <1>4, OtherThings
<1>7. ToSet(w.things[t]) \subseteq Things
  BY <1>0 DEF ToSet
<1>8. OnTile(v, t) = OnTile(w, t) \ {x} /\ \A u \in Tiles : u # t => OnTile(v, u) = OnTile(w, u)
  BY <1>1, <1>2, <1>6, <1>7 DEF OnTile
<1>9. Placed(v)
  <2>1. \A u \in Tiles : IsInjective(v.things[u])
    BY <1>1, <1>2, <1>6 DEF Placed
  <2>2. \A u \in Tiles : OnTile(v, u) \subseteq OnTile(w, u)
    BY <1>8
  <2>. QED BY <2>1, <2>2 DEF Placed
<1>. QED BY <1>2, <1>6, <1>8, <1>9 DEF Touched

\* Put: of something that lies nowhere; fields may go.
LEMMA PutThere ==
  ASSUME NEW w \in StepWorlds, Placed(w), NEW t \in Tiles, NEW x \in Things,
         \A u \in Tiles : x \notin OnTile(w, u), NEW v, v = Put(w, t, x)
  PROVE  /\ Touched(w, v, t)
         /\ \E old \in SUBSET TileItems :
              /\ OnTile(v, t) = (OnTile(w, t) \ old) \cup {x}
              /\ ~v.disturbed /\ w.cacheTile = t => old \cap ToSet(w.cache) = {}
<1>. DEFINE old == IF x \in Fields THEN Fields \cap Layer(x) \cap ToSet(w.things[t]) ELSE {}
            r == Those(w.things[t], Things \ old)
            s == Insert(r, x)
            T == [w.things EXCEPT ![t] = s]
            c == w.cacheTile = t /\ old \cap ToSet(w.cache) # {}
            b == (w.disturbed \/ Filling(w, t)) \/ c
<1>0. w.things \in [Tiles -> Seq(Things)] /\ w.things[t] \in Seq(Things) /\ w.disturbed \in BOOLEAN
  BY PartsOf
<1>12. old \in SUBSET TileItems
  BY StepAssumption DEF TileItems
<1>3. v = WithThings(w, T, b)
  <2>. DEFINE e == w.disturbed \/ Filling(w, t)
              u == [w EXCEPT !.disturbed = e]
  <2>1. u = Disturb(w, t)
    BY DEF Disturb
  <2>2. u.things = w.things /\ u.disturbed = e /\ e \in BOOLEAN
    BY <1>0 DEF StepWorlds
  <2>3. v = [u EXCEPT !.things[t] = s, !.disturbed = @ \/ c]
    BY <2>1 DEF Put
  <2>4. v = [u EXCEPT !.things = T, !.disturbed = b]
    BY <2>2, <2>3
  <2>. QED BY <2>4 DEF StepWorlds, WithThings
<1>. HIDE DEF old
<1>1. Distinct(Things, r) /\ ToSet(r) = ToSet(w.things[t]) \cap (Things \ old)
  BY <1>0, ThoseLeft DEF Placed, Distinct
<1>. HIDE DEF r
<1>13. x \notin ToSet(r)
  BY <1>1 DEF OnTile
<1>14. Distinct(Things, s) /\ ToSet(s) = ToSet(r) \cup {x}
  BY <1>1, <1>13, Inserted
<1>15. s \in Seq(Things) /\ IsInjective(s)
  BY <1>14 DEF Distinct
<1>. HIDE DEF s
<1>2. T \in [Tiles -> Seq(Things)] /\ T[t] = s /\ \A u \in Tiles : u # t => T[u] = w.things[u]
  BY <1>0, <1>15
<1>. HIDE DEF T
<1>4. b \in BOOLEAN
  BY <1>0
<1>6. v \in StepWorlds /\ SameElse(w, v) /\ v.things = T /\ v.disturbed = b
  <2>. HIDE DEF b
  <2>. QED BY <1>2, <1>3, <1>4, OtherThings
<1>7. ToSet(w.things[t]) \subseteq Things
  BY <1>0 DEF ToSet
<1>8. OnTile(v, t) = (OnTile(w, t) \ old) \cup {x} /\ \A u \in Tiles : u # t => OnTile(v, u) = OnTile(w, u)
  BY <1>1, <1>14, <1>2, <1>6, <1>7 DEF OnTile
<1>9. Placed(v)
  <2>1. \A u \in Tiles : IsInjective(v.things[u])
    BY <1>15, <1>2, <1>6 DEF Placed
  <2>2. \A u \in Tiles : OnTile(v, u) \subseteq OnTile(w, u) \cup (IF u = t THEN {x} ELSE {})
    BY <1>8
  <2>3. ASSUME NEW u1 \in Tiles, NEW u2 \in Tiles, OnTile(v, u1) \cap OnTile(v, u2) # {} PROVE u1 = u2
    <3>1. PICK y : y \in OnTile(v, u1) /\ y \in OnTile(v, u2)
      BY <2>3
    <3>2. CASE y = x
      BY <2>2, <3>1, <3>2
    <3>3. CASE y # x
      <4>1. y \in OnTile(w, u1) \cap OnTile(w, u2)
        BY <2>2, <3>1, <3>3
      <4>. QED BY <4>1 DEF Placed
    <3>. QED BY <3>2, <3>3
  <2>. QED BY <2>1, <2>3 DEF Placed
<1>10. Touched(w, v, t)
  BY <1>2, <1>6, <1>9 DEF Touched
<1>. QED BY <1>12, <1>6, <1>8, <1>10

\* What a world says besides the cache.
SameButCache(w, v) == /\ v \in StepWorlds /\ v.things = w.things /\ v.kind = w.kind
                      /\ v.cacheTile = w.cacheTile /\ v.jobs = w.jobs /\ v.skipped = w.skipped
                      /\ v.danger = w.danger /\ v.disturbed = w.disturbed

\* The things of a sequence are those it contains.
LEMMA ContainedIn ==
  ASSUME NEW X, NEW s \in Seq(X), NEW x
  PROVE  Contains(s, x) <=> x \in ToSet(s)
<1>1. Len(s) \in Nat /\ DOMAIN s = 1..Len(s)
  OBVIOUS
<1>. QED BY <1>1 DEF Contains, ToSet

\* OnAddTileItem: the item is in the cache of its tile, if it has an event.
LEMMA OnAdded ==
  ASSUME NEW w \in StepWorlds, NEW t \in Tiles, NEW x \in TileItems, NEW v, v = OnAddTileItem(w, t, x)
  PROVE  /\ SameButCache(w, v) /\ (w.cacheTile # t => v.cache = w.cache)
         /\ Once(w.cache) => Once(v.cache)
         /\ Kept(w) \subseteq Kept(v) /\ Kept(v) \subseteq Kept(w) \cup {x}
         /\ w.cacheTile = t /\ w.kind[x] # "none" => x \in Kept(v)
<1>. DEFINE s == w.cache
            n == Len(w.cache) + 1
            q == Append(w.cache, x)
<1>1. s \in Seq(TileItems \cup {NoItem}) /\ x # NoItem
  BY PartsOf, StepAssumption DEF TileItems
<1>2. Contains(s, x) <=> x \in ToSet(s)
  BY <1>1, ContainedIn
<1>3. CASE w.cacheTile = t /\ x \notin ToSet(s) /\ w.kind[x] # "none"
  <2>1. v = WithCache(w, q)
    BY <1>2, <1>3 DEF OnAddTileItem, HasTileEvent, WithCache
  <2>2. q \in Seq(TileItems \cup {NoItem}) /\ DOMAIN q = 1..n /\ q[n] = x /\ DOMAIN s = 1..(n - 1) /\ n \in Nat
        /\ \A k \in 1..(n - 1) : q[k] = s[k]
    BY <1>1
  <2>3. \A k \in DOMAIN q : (k = n /\ q[k] = x) \/ (k \in DOMAIN s /\ q[k] = s[k])
    BY <2>2
  <2>4. n \in DOMAIN q /\ \A k \in DOMAIN s : k \in DOMAIN q
    BY <2>2
  <2>. HIDE DEF q, n
  <2>5. SameButCache(w, v) /\ v.cache = q
    BY <2>1, <2>2, OtherCache DEF SameButCache
  <2>6. \A k \in DOMAIN s : s[k] # x
    BY <1>3 DEF ToSet
  <2>7. ToSet(q) = ToSet(s) \cup {x}
    <3>1. \A y \in ToSet(q) : y \in ToSet(s) \cup {x}
      BY <2>3 DEF ToSet
    <3>2. \A y \in ToSet(s) : y \in ToSet(q)
      BY <2>2, <2>4 DEF ToSet
    <3>3. x \in ToSet(q)
      BY <2>2, <2>4 DEF ToSet
    <3>. QED BY <3>1, <3>2, <3>3
  <2>8. Once(s) => Once(q)
    BY <2>3, <2>6 DEF Once
  <2>. QED BY <1>1, <1>3, <2>5, <2>7, <2>8 DEF Kept
<1>4. CASE ~(w.cacheTile = t /\ x \notin ToSet(s) /\ w.kind[x] # "none")
  <2>1. v = w
    BY <1>2, <1>4 DEF OnAddTileItem, HasTileEvent
  <2>. QED BY <1>1, <1>4, <2>1 DEF SameButCache, Kept
<1>. QED BY <1>3, <1>4

\* OnRemoveTileItem: the item is no longer in the cache of its tile.
LEMMA OnRemoved ==
  ASSUME NEW w \in StepWorlds, NEW t \in Tiles, NEW x \in TileItems, NEW v, v = OnRemoveTileItem(w, t, x)
  PROVE  /\ SameButCache(w, v) /\ (w.cacheTile # t => v.cache = w.cache)
         /\ Once(w.cache) => Once(v.cache)
         /\ Once(w.cache) /\ w.cacheTile = t => Kept(v) = Kept(w) \ {x}
<1>. DEFINE s == w.cache
            First(k) == s[k] = x /\ \A j \in 1..(k - 1) : s[j] # x
            k == CHOOSE m \in DOMAIN s : First(m)
            q == [s EXCEPT ![k] = NoItem]
<1>1. s \in Seq(TileItems \cup {NoItem}) /\ x # NoItem
  BY PartsOf, StepAssumption DEF TileItems
<1>2. Contains(s, x) <=> x \in ToSet(s)
  BY <1>1, ContainedIn
<1>3. CASE w.cacheTile = t /\ x \in ToSet(s)
  <2>0. Len(s) \in Nat /\ DOMAIN s = 1..Len(s)
    BY <1>1
  <2>1. v = WithCache(w, q)
    BY <1>2, <1>3 DEF OnRemoveTileItem, WithCache
  <2>2. \E m \in DOMAIN s : First(m)
    <3>. DEFINE K == {m \in DOMAIN s : s[m] = x}
    <3>1. K \in SUBSET Nat /\ K # {}
      BY <1>3, <2>0 DEF ToSet
    <3>2. PICK m \in K : \A j \in K : m <= j
      BY <3>1, LeastOne
    <3>3. \A j \in 1..(m - 1) : s[j] # x
      BY <2>0, <3>2
    <3>. QED BY <3>2, <3>3
  <2>3. k \in DOMAIN s /\ s[k] = x
    BY <2>2
  <2>. HIDE DEF k
  <2>4. q \in Seq(TileItems \cup {NoItem}) /\ DOMAIN q = DOMAIN s /\ q[k] = NoItem
        /\ \A m \in DOMAIN s : m # k => q[m] = s[m]
    BY <1>1, <2>0, <2>3
  <2>. HIDE DEF q
  <2>5. SameButCache(w, v) /\ v.cache = q
    BY <2>1, <2>4, OtherCache DEF SameButCache
  <2>6. Once(s) => Once(q)
    BY <2>3, <2>4 DEF Once
  <2>7. Once(s) => ToSet(q) \ {NoItem} = (ToSet(s) \ {NoItem}) \ {x}
    <3>. SUFFICES ASSUME Once(s) PROVE ToSet(q) \ {NoItem} = (ToSet(s) \ {NoItem}) \ {x}
      OBVIOUS
    <3>1. \A m \in DOMAIN s : s[m] = x => m = k
      BY <1>1, <2>3 DEF Once
    <3>2. ASSUME NEW y \in ToSet(q), y # NoItem PROVE y \in ToSet(s) /\ y # x
      <4>1. PICK m \in DOMAIN q : y = q[m]
        BY DEF ToSet
      <4>. QED BY <2>4, <3>1, <3>2, <4>1 DEF ToSet
    <3>3. ASSUME NEW y \in ToSet(s), y # x PROVE y \in ToSet(q)
      <4>1. PICK m \in DOMAIN s : y = s[m]
        BY DEF ToSet
      <4>. QED BY <2>3, <2>4, <3>3, <4>1 DEF ToSet
    <3>. QED BY <3>2, <3>3
  <2>. QED BY <1>3, <2>5, <2>6, <2>7 DEF Kept
<1>4. CASE ~(w.cacheTile = t /\ x \in ToSet(s))
  <2>1. v = w
    BY <1>2, <1>4 DEF OnRemoveTileItem
  <2>2. w.cacheTile = t => Kept(w) = Kept(w) \ {x}
    BY <1>4 DEF Kept
  <2>. QED BY <2>1, <2>2 DEF SameButCache
<1>. QED BY <1>3, <1>4

\* What a world says besides the calls.
SameButCalls(w, v) == /\ v \in StepWorlds /\ v.things = w.things /\ v.kind = w.kind
                      /\ v.cacheTile = w.cacheTile /\ v.cache = w.cache /\ v.skipped = w.skipped
                      /\ v.danger = w.danger /\ v.disturbed = w.disturbed

\* More calls than before, none of which fills; what waits is for the tiles in S.
Grown(q, r, S) ==
  /\ FillCalls(q) = FillCalls(r) /\ (OneFill(r) => OneFill(q)) /\ (r # <<>> => q # <<>>)
  /\ \A c : /\ Pend(r, c) \subseteq Pend(q, c)
            /\ InTurn(r, c) /\ (c \notin S \/ FillCalls(r) = {}) => InTurn(q, c)

\* A call that does not fill, put on top.
LEMMA GrownByOne ==
  ASSUME NEW j \in Calls, ~IsFill(j), NEW r, IsStack(r), NEW q, OnTopOf(q, j, r)
  PROVE  IsStack(q) /\ Grown(q, r, {j.tile}) /\ (j.do \notin {"came", "change"} => Grown(q, r, {}))
<1>0. \A c : TopAdds(q, j, r, c)
  BY OnTop, Zenon
<1>1. IsStack(q) /\ FillCalls(q) = FillCalls(r) /\ (OneFill(r) => OneFill(q)) /\ q # <<>>
  BY <1>0 DEF TopAdds
<1>2. \A c : Pend(r, c) \subseteq Pend(q, c)
  BY <1>0 DEF TopAdds
<1>3. \A c : InTurn(r, c) /\ (Waits(j, c) => FillCalls(r) = {}) => InTurn(q, c)
  BY <1>0 DEF TopAdds
<1>4. \A c : Waits(j, c) => c \in {j.tile} /\ j.do \in {"came", "change"}
  BY DEF Waits
<1>. QED BY <1>1, <1>2, <1>3, <1>4 DEF Grown

\* A job is a call.
LEMMA JobIsCall ==
  ASSUME NEW do \in {"ask", "came", "change"}, NEW t \in Tiles, NEW x \in Things,
         NEW k \in {"step", "tile", "none"}, do \in {"came", "change"} => x \in TileItems,
         NEW j, j = Job(do, t, x, k)
  PROVE  j \in Calls /\ ~IsFill(j) /\ j.do = do /\ j.tile = t /\ j.item = x
BY DEF Job, Calls, IsFill

\* Push of one call that asks.
LEMMA PushesOne ==
  ASSUME NEW w \in StepWorlds, NEW t \in Tiles, NEW x \in Things, NEW k \in {"step", "tile", "none"},
         NEW v, v = Push(w, <<Job("ask", t, x, k)>>)
  PROVE  SameButCalls(w, v) /\ Grown(v.jobs, w.jobs, {})
<1>. DEFINE j == Job("ask", t, x, k)
            q == <<j>> \o w.jobs
<1>1. j \in Calls /\ ~IsFill(j) /\ j.do = "ask"
  BY JobIsCall
<1>2. v = WithCalls(w, q)
  BY DEF Push, WithCalls
<1>3. OnTopOf(q, j, w.jobs) /\ IsStack(w.jobs)
  BY PartsOf DEF OnTopOf
<1>. HIDE DEF j, q
<1>4. IsStack(q) /\ Grown(q, w.jobs, {})
  BY <1>1, <1>3, GrownByOne
<1>5. SameButCalls(w, v) /\ v.jobs = q
  BY <1>2, <1>4, OtherCalls DEF SameButCalls
<1>. QED BY <1>4, <1>5

\* Push of two calls, the first of which asks.
LEMMA PushesTwo ==
  ASSUME NEW w \in StepWorlds, NEW t \in Tiles, NEW x \in Things, NEW k \in {"step", "tile", "none"},
         NEW do \in {"ask", "came", "change"}, NEW u \in Tiles, NEW y \in Things,
         do \in {"came", "change"} => y \in TileItems, NEW m \in {"step", "tile", "none"},
         NEW v, v = Push(w, <<Job("ask", t, x, k), Job(do, u, y, m)>>)
  PROVE  /\ SameButCalls(w, v) /\ Grown(v.jobs, w.jobs, {u})
         /\ do \in {"came", "change"} => y \in Pend(v.jobs, u)
<1>. DEFINE i == Job("ask", t, x, k)
            j == Job(do, u, y, m)
            p == <<j>> \o w.jobs
            q == <<i>> \o p
<1>1. i \in Calls /\ ~IsFill(i) /\ i.do = "ask"
  BY JobIsCall
<1>2. j \in Calls /\ ~IsFill(j) /\ j.do = do /\ j.tile = u /\ j.item = y
  BY JobIsCall
<1>3. v = WithCalls(w, <<i, j>> \o w.jobs)
  BY DEF Push, WithCalls
<1>4. w.jobs \in Seq(Calls) /\ IsStack(w.jobs)
  BY PartsOf
<1>. HIDE DEF i, j
<1>5. <<i, j>> \o w.jobs = q
  <2>1. <<i>> \in Seq(Calls) /\ <<j>> \in Seq(Calls)
    BY <1>1, <1>2
  <2>3. <<i, j>> = <<i>> \o <<j>>
    <3>. DEFINE a == <<i, j>>
                b == <<i>> \o <<j>>
    <3>1. a \in Seq(Calls) /\ Len(a) = 2 /\ a[1] = i /\ a[2] = j
      BY <1>1, <1>2
    <3>2. b \in Seq(Calls) /\ Len(b) = 2 /\ b[1] = i /\ b[2] = j
      BY <1>1, <1>2
    <3>. HIDE DEF a, b
    <3>3. \A n \in 1..2 : a[n] = b[n]
      BY <3>1, <3>2
    <3>4. a = b
      BY <3>1, <3>2, <3>3, SeqEqual
    <3>. QED BY <3>4 DEF a, b
  <2>2. (<<i>> \o <<j>>) \o w.jobs = <<i>> \o (<<j>> \o w.jobs)
    BY <1>4, <2>1, ConcatAssociative
  <2>. QED BY <2>2, <2>3
<1>6. OnTopOf(p, j, w.jobs) /\ OnTopOf(q, i, p)
  BY DEF OnTopOf
<1>. HIDE DEF p, q
<1>7. IsStack(p) /\ Grown(p, w.jobs, {u}) /\ Pend(p, u) = Pend(w.jobs, u) \cup (IF Waits(j, u) THEN {y} ELSE {})
  <2>1. IsStack(p) /\ Grown(p, w.jobs, {j.tile})
    BY <1>2, <1>4, <1>6, GrownByOne
  <2>3. TopAdds(p, j, w.jobs, u)
    BY <1>2, <1>4, <1>6, OnTop, Zenon
  <2>2. Pend(p, u) = Pend(w.jobs, u) \cup (IF Waits(j, u) THEN {j.item} ELSE {})
    BY <2>3, Zenon DEF TopAdds
  <2>. QED BY <1>2, <2>1, <2>2
<1>8. IsStack(q) /\ Grown(q, p, {})
  <2>1. IsStack(p) /\ OnTopOf(q, i, p)
    BY <1>6, <1>7
  <2>2. IsStack(q) /\ (i.do \notin {"came", "change"} => Grown(q, p, {}))
    BY <1>1, <2>1, GrownByOne
  <2>. QED BY <1>1, <2>2
<1>9. SameButCalls(w, v) /\ v.jobs = q
  <2>1. v = WithCalls(w, q) /\ IsStack(q)
    BY <1>3, <1>5, <1>8
  <2>. QED BY <2>1, OtherCalls DEF SameButCalls
<1>10. Grown(q, w.jobs, {u})
  BY <1>7, <1>8 DEF Grown
<1>11. do \in {"came", "change"} => y \in Pend(q, u)
  BY <1>2, <1>7, <1>8 DEF Grown, Waits
<1>. QED BY <1>9, <1>10, <1>11

\* The cache that is complete but for what waits and what was passed over.
Complete(w) == /\ Once(w.cache) /\ Kept(w) \subseteq OnTile(w, w.cacheTile)
               /\ Owed(w) \subseteq Kept(w) \cup Pend(w.jobs, w.cacheTile) \cup {w.skipped}

\* When only the tiles in S change, which no filling is at, what the cache says of
\* another tile stays right; what it says of one of them has to be shown.
LEMMA CacheFollows ==
  ASSUME NEW w \in StepWorlds, Cached(w), NEW v \in StepWorlds, NEW S \in SUBSET Tiles,
         v.cacheTile = w.cacheTile, v.skipped = w.skipped,
         ~v.disturbed => ~w.disturbed /\ \A t \in S : ~Filling(w, t),
         \A t \in Tiles \ S : v.things[t] = w.things[t],
         \A t \in Tiles \ S : \A y \in OnTile(w, t) \cap TileItems : v.kind[y] = w.kind[y],
         w.cacheTile \notin S => v.cache = w.cache,
         Grown(v.jobs, w.jobs, S),
         ~v.disturbed /\ w.cacheTile \in S /\ Complete(w) => Complete(v)
  PROVE  Cached(v)
<1>. SUFFICES ASSUME ~v.disturbed PROVE Unfilled(v) \/ Filled(v)
  BY DEF Cached
<1>1. ~w.disturbed /\ \A t \in S : ~Filling(w, t)
  OBVIOUS
<1>2. FillCalls(v.jobs) = FillCalls(w.jobs)
  BY DEF Grown
<1>3. CASE Unfilled(w)
  <2>1. NoTile \notin S
    BY StepAssumption
  <2>. QED BY <1>2, <1>3, <2>1 DEF Unfilled
<1>4. CASE Filled(w) /\ w.cacheTile \notin S
  <2>. DEFINE c == w.cacheTile
  <2>1. c \in Tiles \ S /\ v.things[c] = w.things[c] /\ v.cache = w.cache
    BY <1>4 DEF Filled
  <2>2. OnTile(v, c) = OnTile(w, c) /\ Kept(v) = Kept(w)
    BY <2>1 DEF OnTile, Kept
  <2>3. Owed(v) = Owed(w)
    BY <2>1, <2>2 DEF Owed
  <2>4. \A f : FillsUp(w, f) => FillsUp(v, f)
    BY <2>1, <2>2, <2>3 DEF FillsUp, Half
  <2>5. OneFill(v.jobs) /\ InTurn(v.jobs, c) /\ Pend(w.jobs, c) \subseteq Pend(v.jobs, c)
    BY <1>4, <2>1 DEF Filled, Grown
  <2>. HIDE DEF c
  <2>6. Filled(v)
    BY <1>2, <1>4, <2>1, <2>2, <2>3, <2>4, <2>5 DEF Filled, c
  <2>. QED BY <2>6
<1>5. CASE Filled(w) /\ w.cacheTile \in S
  <2>1. FillCalls(w.jobs) = {}
    <3>. SUFFICES ASSUME NEW f \in FillCalls(w.jobs) PROVE FALSE
      OBVIOUS
    <3>1. f.tile = w.cacheTile
      BY <1>5 DEF Filled, FillsUp
    <3>2. PICK k \in DOMAIN w.jobs : IsFill(w.jobs[k]) /\ f = w.jobs[k]
      BY DEF FillCalls
    <3>3. Filling(w, w.cacheTile)
      BY <3>1, <3>2 DEF Filling, IsFill
    <3>. QED BY <1>1, <1>5, <3>3
  <2>2. Complete(w)
    BY <1>5, <2>1 DEF Filled, Complete
  <2>3. Complete(v)
    BY <1>5, <2>2
  <2>4. OneFill(v.jobs) /\ InTurn(v.jobs, w.cacheTile)
    BY <1>5, <2>1 DEF Filled, Grown
  <2>5. w.cacheTile \in Tiles
    BY <1>5
  <2>. QED BY <1>2, <2>1, <2>3, <2>4, <2>5 DEF Filled, Complete
<1>. QED BY <1>1, <1>3, <1>4, <1>5 DEF Cached

-----------------------------------------------------------------------------
(* What a script, or one who throws or walks, does.                        *)

\* Items are things, and the walker is none of them.
LEMMA ThingsAre ==
  TileItems \subseteq Things /\ Walker \in Things /\ Walker \notin TileItems /\ NoItem \notin TileItems
BY StepAssumption DEF Things, TileItems

\* ItemGoes.
LEMMA GoesSound ==
  ASSUME NEW w, StepSound(w), NEW t \in Tiles, NEW x \in OnTile(w, t) \cap TileItems,
         NEW v, v = ItemGoes(w, t, x)
  PROVE  StepSound(v) /\ (w.jobs # <<>> => v.jobs # <<>>)
<1>. DEFINE a == Lift(w, t, x)
            b == OnRemoveTileItem(a, t, x)
<1>1. w \in StepWorlds /\ Placed(w) /\ Settled(w) /\ Cached(w) /\ ~w.danger
  BY DEF StepSound
<1>2. Touched(w, a, t) /\ OnTile(a, t) = OnTile(w, t) \ {x}
  BY <1>1, ThingsAre, Lifted
<1>. HIDE DEF a
<1>3. a \in StepWorlds /\ Placed(a) /\ SameElse(w, a)
  BY <1>2 DEF Touched
<1>4. /\ SameButCache(a, b) /\ (a.cacheTile # t => b.cache = a.cache)
      /\ Once(a.cache) => Once(b.cache)
      /\ Once(a.cache) /\ a.cacheTile = t => Kept(b) = Kept(a) \ {x}
  BY <1>3, OnRemoved
<1>5. v = Push(b, <<Job("ask", t, x, "tile")>>)
  BY DEF ItemGoes, a, b
<1>. HIDE DEF b
<1>6. SameButCalls(b, v) /\ Grown(v.jobs, b.jobs, {})
  BY <1>4, <1>5, ThingsAre, PushesOne DEF SameButCache
<1>7. /\ v \in StepWorlds /\ v.things = a.things /\ v.kind = w.kind /\ v.cacheTile = w.cacheTile
      /\ v.cache = b.cache /\ v.skipped = w.skipped /\ ~v.danger /\ v.disturbed = a.disturbed
      /\ a.cache = w.cache /\ a.cacheTile = w.cacheTile /\ b.jobs = w.jobs
  BY <1>1, <1>3, <1>4, <1>6 DEF SameElse, SameButCache, SameButCalls
<1>8. \A u \in Tiles : OnTile(v, u) = IF u = t THEN OnTile(w, t) \ {x} ELSE OnTile(w, u)
  BY <1>2, <1>7 DEF OnTile, Touched
<1>9. Placed(v)
  BY <1>3, <1>7 DEF Placed, OnTile
<1>10. Settled(v)
  BY <1>1, <1>7, <1>8, ThingsAre DEF Settled
<1>11. Grown(v.jobs, w.jobs, {t})
  BY <1>6, <1>7 DEF Grown
<1>12. ASSUME w.cacheTile = t, Complete(w) PROVE Complete(v)
  <2>1. Kept(v) = Kept(w) \ {x} /\ Once(v.cache)
    BY <1>4, <1>7, <1>12 DEF Kept, Complete
  <2>2. Owed(v) = Owed(w) \ {x}
    BY <1>7, <1>8, <1>12 DEF Owed
  <2>3. Pend(w.jobs, t) \subseteq Pend(v.jobs, t)
    BY <1>11 DEF Grown
  <2>. QED BY <1>7, <1>8, <1>12, <2>1, <2>2, <2>3 DEF Complete
<1>13. /\ \A u \in Tiles \ {t} : v.things[u] = w.things[u]
       /\ ~v.disturbed => ~w.disturbed /\ ~Filling(w, t)
       /\ w.cacheTile # t => v.cache = w.cache
  BY <1>2, <1>4, <1>7 DEF Touched
<1>14. Cached(v)
  <2>. DEFINE S == {t}
  <2>1. S \in SUBSET Tiles /\ \A u : u \in S <=> u = t
    OBVIOUS
  <2>2. Grown(v.jobs, w.jobs, S)
    BY <1>11
  <2>. HIDE DEF S
  <2>. QED BY <1>1, <1>7, <1>12, <1>13, <2>1, <2>2, CacheFollows
<1>. QED BY <1>11, <1>7, <1>9, <1>10, <1>14 DEF StepSound, Grown

\* ItemComes, of an item that lies nowhere and is not freed.
LEMMA ComesSound ==
  ASSUME NEW w, StepSound(w), NEW t \in Tiles, NEW x \in TileItems, w.kind[x] # "freed",
         \A u \in Tiles : x \notin OnTile(w, u), NEW v, v = ItemComes(w, t, x)
  PROVE  StepSound(v) /\ (w.jobs # <<>> => v.jobs # <<>>)
<1>. DEFINE a == Put(w, t, x)
            b == OnAddTileItem(a, t, x)
<1>1. w \in StepWorlds /\ Placed(w) /\ Settled(w) /\ Cached(w) /\ ~w.danger
  BY DEF StepSound
<1>2. Touched(w, a, t) /\ \E old \in SUBSET TileItems :
        /\ OnTile(a, t) = (OnTile(w, t) \ old) \cup {x}
        /\ ~a.disturbed /\ w.cacheTile = t => old \cap ToSet(w.cache) = {}
  BY <1>1, ThingsAre, PutThere
<1>. HIDE DEF a
<1>3. PICK old \in SUBSET TileItems : /\ OnTile(a, t) = (OnTile(w, t) \ old) \cup {x}
                                      /\ ~a.disturbed /\ w.cacheTile = t => old \cap ToSet(w.cache) = {}
  BY <1>2
<1>4. a \in StepWorlds /\ Placed(a) /\ SameElse(w, a)
  BY <1>2 DEF Touched
<1>5. /\ SameButCache(a, b) /\ (a.cacheTile # t => b.cache = a.cache)
      /\ Once(a.cache) => Once(b.cache)
      /\ Kept(a) \subseteq Kept(b) /\ Kept(b) \subseteq Kept(a) \cup {x}
      /\ a.cacheTile = t /\ a.kind[x] # "none" => x \in Kept(b)
  BY <1>4, OnAdded
<1>6. v = Push(b, <<Job("ask", t, x, "tile")>>)
  BY DEF ItemComes, a, b
<1>. HIDE DEF b
<1>7. SameButCalls(b, v) /\ Grown(v.jobs, b.jobs, {})
  BY <1>5, <1>6, ThingsAre, PushesOne DEF SameButCache
<1>8. /\ v \in StepWorlds /\ v.things = a.things /\ v.kind = w.kind /\ v.cacheTile = w.cacheTile
      /\ v.cache = b.cache /\ v.skipped = w.skipped /\ ~v.danger /\ v.disturbed = a.disturbed
      /\ a.cache = w.cache /\ a.kind = w.kind /\ a.cacheTile = w.cacheTile /\ b.jobs = w.jobs
  BY <1>1, <1>4, <1>5, <1>7 DEF SameElse, SameButCache, SameButCalls
<1>9. \A u \in Tiles : OnTile(v, u) = IF u = t THEN (OnTile(w, t) \ old) \cup {x} ELSE OnTile(w, u)
  BY <1>2, <1>3, <1>8 DEF OnTile, Touched
<1>10. Placed(v)
  BY <1>4, <1>8 DEF Placed, OnTile
<1>11. Settled(v)
  BY <1>1, <1>8, <1>9, ThingsAre DEF Settled
<1>12. Grown(v.jobs, w.jobs, {t})
  BY <1>7, <1>8 DEF Grown
<1>13. ASSUME ~v.disturbed, w.cacheTile = t, Complete(w) PROVE Complete(v)
  <2>1. Once(v.cache) /\ x \in OnTile(v, t)
    BY <1>5, <1>8, <1>9, <1>13 DEF Complete
  <2>2. Kept(w) \subseteq Kept(v) /\ Kept(v) \subseteq Kept(w) \cup {x} /\ (w.kind[x] # "none" => x \in Kept(v))
    BY <1>5, <1>8, <1>13 DEF Kept
  <2>3. old \cap Kept(w) = {}
    BY <1>3, <1>8, <1>13 DEF Kept
  <2>4. Kept(v) \subseteq OnTile(v, t)
    BY <1>9, <1>13, <2>1, <2>2, <2>3 DEF Complete
  <2>5. Owed(v) \subseteq Owed(w) \cup (IF w.kind[x] # "none" THEN {x} ELSE {})
    BY <1>8, <1>9, <1>13 DEF Owed
  <2>6. Pend(w.jobs, t) \subseteq Pend(v.jobs, t)
    BY <1>12 DEF Grown
  <2>7. Owed(v) \subseteq Kept(v) \cup Pend(v.jobs, t) \cup {v.skipped}
    BY <1>8, <1>13, <2>2, <2>5, <2>6 DEF Complete
  <2>. QED BY <1>8, <1>13, <2>1, <2>4, <2>7 DEF Complete
<1>14. /\ \A u \in Tiles \ {t} : v.things[u] = w.things[u]
       /\ ~v.disturbed => ~w.disturbed /\ ~Filling(w, t)
       /\ w.cacheTile # t => v.cache = w.cache
  BY <1>2, <1>5, <1>8 DEF Touched
<1>15. Cached(v)
  <2>. DEFINE S == {t}
  <2>1. S \in SUBSET Tiles /\ \A u : u \in S <=> u = t
    OBVIOUS
  <2>2. Grown(v.jobs, w.jobs, S)
    BY <1>12
  <2>. HIDE DEF S
  <2>. QED BY <1>1, <1>8, <1>13, <1>14, <2>1, <2>2, CacheFollows
<1>. QED BY <1>12, <1>8, <1>10, <1>11, <1>15 DEF StepSound, Grown

\* ItemChanges.
LEMMA ChangesSound ==
  ASSUME NEW w, StepSound(w), NEW t \in Tiles, NEW x \in OnTile(w, t) \cap TileItems,
         NEW k \in {"step", "tile", "none"}, NEW v, v = ItemChanges(w, t, x, k)
  PROVE  StepSound(v) /\ (w.jobs # <<>> => v.jobs # <<>>)
<1>. DEFINE a == Disturb(w, t)
            b == OnRemoveTileItem(a, t, x)
<1>1. w \in StepWorlds /\ Placed(w) /\ Settled(w) /\ Cached(w) /\ ~w.danger
  BY DEF StepSound
<1>2. Touched(w, a, t) /\ a.things = w.things
  BY <1>1, Disturbs
<1>. HIDE DEF a
<1>3. a \in StepWorlds /\ Placed(a) /\ SameElse(w, a)
  BY <1>2 DEF Touched
<1>4. /\ SameButCache(a, b) /\ (a.cacheTile # t => b.cache = a.cache)
      /\ Once(a.cache) => Once(b.cache)
      /\ Once(a.cache) /\ a.cacheTile = t => Kept(b) = Kept(a) \ {x}
  BY <1>3, OnRemoved
<1>5. v = Push(b, <<Job("ask", t, x, "tile"), Job("change", t, x, k)>>)
  BY DEF ItemChanges, a, b
<1>. HIDE DEF b
<1>6. SameButCalls(b, v) /\ Grown(v.jobs, b.jobs, {t}) /\ x \in Pend(v.jobs, t)
  <2>1. b \in StepWorlds /\ x \in Things
    BY <1>4, ThingsAre DEF SameButCache
  <2>2. /\ SameButCalls(b, v) /\ Grown(v.jobs, b.jobs, {t})
        /\ "change" \in {"came", "change"} => x \in Pend(v.jobs, t)
    BY <1>5, <2>1, PushesTwo
  <2>. QED BY <2>2
<1>7. /\ v \in StepWorlds /\ v.things = w.things /\ v.kind = w.kind /\ v.cacheTile = w.cacheTile
      /\ v.cache = b.cache /\ v.skipped = w.skipped /\ ~v.danger /\ v.disturbed = a.disturbed
      /\ a.cache = w.cache /\ a.cacheTile = w.cacheTile /\ b.jobs = w.jobs
  BY <1>1, <1>2, <1>3, <1>4, <1>6 DEF SameElse, SameButCache, SameButCalls
<1>8. \A u \in Tiles : OnTile(v, u) = OnTile(w, u)
  BY <1>7 DEF OnTile
<1>9. Placed(v)
  BY <1>1, <1>7 DEF Placed, OnTile
<1>10. Settled(v)
  BY <1>1, <1>7, <1>8 DEF Settled
<1>11. Grown(v.jobs, w.jobs, {t})
  BY <1>6, <1>7
<1>12. ASSUME w.cacheTile = t, Complete(w) PROVE Complete(v)
  <2>1. Kept(v) = Kept(w) \ {x} /\ Once(v.cache)
    BY <1>4, <1>7, <1>12 DEF Kept, Complete
  <2>2. Owed(v) = Owed(w)
    BY <1>7, <1>8, <1>12 DEF Owed
  <2>3. Pend(w.jobs, t) \subseteq Pend(v.jobs, t)
    BY <1>11 DEF Grown
  <2>. QED BY <1>6, <1>7, <1>8, <1>12, <2>1, <2>2, <2>3 DEF Complete
<1>13. /\ ~v.disturbed => ~w.disturbed /\ ~Filling(w, t)
       /\ w.cacheTile # t => v.cache = w.cache
  BY <1>2, <1>4, <1>7 DEF Touched
<1>14. Cached(v)
  <2>. DEFINE S == {t}
  <2>1. S \in SUBSET Tiles /\ \A u : u \in S <=> u = t
    OBVIOUS
  <2>2. Grown(v.jobs, w.jobs, S)
    BY <1>11
  <2>. HIDE DEF S
  <2>. QED BY <1>1, <1>7, <1>12, <1>13, <2>1, <2>2, CacheFollows
<1>. QED BY <1>11, <1>7, <1>9, <1>10, <1>14 DEF StepSound, Grown

\* SetActionId.
LEMMA ActionIdSound ==
  ASSUME NEW w, StepSound(w), NEW t \in Tiles, NEW x \in OnTile(w, t) \cap TileItems,
         NEW k \in {"step", "tile", "none"}, NEW v, v = SetActionId(w, t, x, k)
  PROVE  StepSound(v) /\ (w.jobs # <<>> => v.jobs # <<>>)
<1>. DEFINE a == Disturb(w, t)
            b == OnRemoveTileItem(a, t, x)
            K == [b.kind EXCEPT ![x] = k]
            d == WithKinds(b, K)
<1>1. w \in StepWorlds /\ Placed(w) /\ Settled(w) /\ Cached(w) /\ ~w.danger
  BY DEF StepSound
<1>2. Touched(w, a, t) /\ a.things = w.things
  BY <1>1, Disturbs
<1>0. v = OnAddTileItem(d, t, x)
  BY DEF SetActionId, WithKinds, a, b, d
<1>. HIDE DEF a
<1>3. a \in StepWorlds /\ Placed(a) /\ SameElse(w, a)
  BY <1>2 DEF Touched
<1>4. /\ SameButCache(a, b) /\ (a.cacheTile # t => b.cache = a.cache)
      /\ Once(a.cache) => Once(b.cache)
      /\ Once(a.cache) /\ a.cacheTile = t => Kept(b) = Kept(a) \ {x}
  BY <1>3, OnRemoved
<1>. HIDE DEF b
<1>5. /\ b \in StepWorlds /\ b.kind = w.kind /\ K \in [TileItems -> {"step", "tile", "none", "freed"}]
      /\ K[x] = k /\ \A y \in TileItems : y # x => K[y] = w.kind[y]
  <2>1. b \in StepWorlds /\ b.kind = w.kind
    BY <1>3, <1>4 DEF SameButCache, SameElse
  <2>2. b.kind \in [TileItems -> {"step", "tile", "none", "freed"}]
    BY <2>1, PartsOf
  <2>. QED BY <2>1, <2>2
<1>. HIDE DEF K
<1>6. /\ d \in StepWorlds /\ d.kind = K
      /\ d.things = b.things /\ d.jobs = b.jobs /\ d.cacheTile = b.cacheTile /\ d.cache = b.cache
      /\ d.skipped = b.skipped /\ d.danger = b.danger /\ d.disturbed = b.disturbed
  BY <1>5, OtherKinds
<1>. HIDE DEF d
<1>7. /\ SameButCache(d, v) /\ (d.cacheTile # t => v.cache = d.cache)
      /\ Once(d.cache) => Once(v.cache)
      /\ Kept(d) \subseteq Kept(v) /\ Kept(v) \subseteq Kept(d) \cup {x}
      /\ d.cacheTile = t /\ d.kind[x] # "none" => x \in Kept(v)
  BY <1>0, <1>6, OnAdded
<1>8. /\ v \in StepWorlds /\ v.things = w.things /\ v.kind = K /\ v.cacheTile = w.cacheTile
      /\ v.skipped = w.skipped /\ ~v.danger /\ v.disturbed = a.disturbed /\ v.jobs = w.jobs
      /\ a.cache = w.cache /\ a.cacheTile = w.cacheTile /\ d.cacheTile = w.cacheTile /\ d.cache = b.cache
  BY <1>1, <1>2, <1>3, <1>4, <1>6, <1>7 DEF SameElse, SameButCache
<1>9. \A u \in Tiles : OnTile(v, u) = OnTile(w, u)
  BY <1>8 DEF OnTile
<1>10. Placed(v)
  BY <1>1, <1>8 DEF Placed, OnTile
<1>11. Settled(v)
  BY <1>1, <1>5, <1>8, <1>9 DEF Settled
<1>12. ASSUME w.cacheTile = t, Complete(w) PROVE Complete(v)
  <2>1. Kept(d) = Kept(w) \ {x} /\ Once(d.cache)
    BY <1>4, <1>8, <1>12 DEF Kept, Complete
  <2>2. Owed(v) \subseteq Owed(w) \cup {x} /\ (k = "none" => x \notin Owed(v))
    BY <1>5, <1>8, <1>9, <1>12 DEF Owed
  <2>3. k # "none" => x \in Kept(v)
    BY <1>5, <1>6, <1>7, <1>8, <1>12
  <2>4. Once(v.cache) /\ Kept(v) \subseteq Kept(w) \cup {x} /\ Kept(w) \ {x} \subseteq Kept(v)
    BY <1>7, <2>1
  <2>. QED BY <1>8, <1>9, <1>12, <2>2, <2>3, <2>4 DEF Complete
<1>13. /\ ~v.disturbed => ~w.disturbed /\ ~Filling(w, t)
       /\ w.cacheTile # t => v.cache = w.cache
  BY <1>2, <1>4, <1>7, <1>8 DEF Touched
<1>14. ASSUME NEW u \in Tiles, u # t, NEW y \in OnTile(w, u) \cap TileItems PROVE v.kind[y] = w.kind[y]
  <2>1. y # x
    BY <1>1, <1>14 DEF Placed
  <2>. QED BY <1>5, <1>8, <2>1
<1>15. Cached(v)
  <2>. DEFINE S == {t}
  <2>1. S \in SUBSET Tiles /\ \A u : u \in S <=> u = t
    OBVIOUS
  <2>2. Grown(v.jobs, w.jobs, S)
    BY <1>8 DEF Grown
  <2>. HIDE DEF S
  <2>. QED BY <1>1, <1>8, <1>12, <1>13, <1>14, <2>1, <2>2, CacheFollows
<1>. QED BY <1>8, <1>10, <1>11, <1>15 DEF StepSound

\* What is in the cache are items.
LEMMA LiveAreItems ==
  ASSUME NEW w \in StepWorlds
  PROVE  Kept(w) \subseteq TileItems
<1>1. w.cache \in Seq(TileItems \cup {NoItem})
  BY PartsOf
<1>. QED BY <1>1 DEF Kept, ToSet

\* CreatureMoves, of the walker to another tile.
LEMMA WalkSound ==
  ASSUME NEW w, StepSound(w), NEW t \in Tiles, Walker \in OnTile(w, t), NEW u \in Tiles, u # t,
         NEW v, v = CreatureMoves(w, t, u)
  PROVE  StepSound(v) /\ (w.jobs # <<>> => v.jobs # <<>>)
<1>. DEFINE a == Lift(w, t, Walker)
            b == Put(a, u, Walker)
<1>1. w \in StepWorlds /\ Placed(w) /\ Settled(w) /\ Cached(w) /\ ~w.danger
  BY DEF StepSound
<1>0. v = Push(b, <<Job("ask", t, Walker, "step"), Job("ask", u, Walker, "step")>>) /\ Walker \in Things
  BY ThingsAre DEF CreatureMoves
<1>2. Touched(w, a, t) /\ OnTile(a, t) = OnTile(w, t) \ {Walker}
  BY <1>1, ThingsAre, Lifted
<1>. HIDE DEF a
<1>3. a \in StepWorlds /\ Placed(a) /\ SameElse(w, a)
  BY <1>2 DEF Touched
<1>4. \A n \in Tiles : n # t => OnTile(a, n) = OnTile(w, n)
  BY <1>2 DEF Touched, OnTile
<1>5. \A n \in Tiles : Walker \notin OnTile(a, n)
  BY <1>1, <1>2, <1>4 DEF Placed
<1>6. Touched(a, b, u) /\ \E old \in SUBSET TileItems :
        /\ OnTile(b, u) = (OnTile(a, u) \ old) \cup {Walker}
        /\ ~b.disturbed /\ a.cacheTile = u => old \cap ToSet(a.cache) = {}
  BY <1>0, <1>3, <1>5, PutThere
<1>. HIDE DEF b
<1>7. PICK old \in SUBSET TileItems :
        /\ OnTile(b, u) = (OnTile(a, u) \ old) \cup {Walker}
        /\ ~b.disturbed /\ a.cacheTile = u => old \cap ToSet(a.cache) = {}
  BY <1>6
<1>8. b \in StepWorlds /\ Placed(b) /\ SameElse(a, b) /\ Walker \in Things
  BY <1>6, ThingsAre DEF Touched
<1>9. SameButCalls(b, v) /\ Grown(v.jobs, b.jobs, {u})
  BY <1>0, <1>8, PushesTwo
<1>10. /\ v \in StepWorlds /\ v.things = b.things /\ v.kind = w.kind /\ v.cacheTile = w.cacheTile
       /\ v.cache = w.cache /\ v.skipped = w.skipped /\ ~v.danger /\ v.disturbed = b.disturbed
       /\ a.cache = w.cache /\ a.cacheTile = w.cacheTile /\ b.jobs = w.jobs
  BY <1>1, <1>3, <1>8, <1>9 DEF SameElse, SameButCalls
<1>11. /\ OnTile(v, t) = OnTile(w, t) \ {Walker} /\ OnTile(v, u) = (OnTile(w, u) \ old) \cup {Walker}
       /\ \A n \in Tiles : n \notin {t, u} => OnTile(v, n) = OnTile(w, n)
  BY <1>2, <1>4, <1>6, <1>7, <1>10 DEF OnTile, Touched
<1>12. Placed(v)
  BY <1>8, <1>10 DEF Placed, OnTile
<1>13. Settled(v)
  <2>1. Walker \in OnTile(v, u)
    BY <1>11
  <2>2. \A n \in Tiles : OnTile(v, n) \cap TileItems \subseteq OnTile(w, n) \cap TileItems
    BY <1>11, ThingsAre
  <2>. QED BY <1>1, <1>10, <2>1, <2>2 DEF Settled
<1>14. Grown(v.jobs, w.jobs, {t, u})
  BY <1>9, <1>10 DEF Grown
<1>15. /\ \A n \in Tiles : n \notin {t, u} => v.things[n] = w.things[n]
       /\ ~v.disturbed => ~w.disturbed /\ ~Filling(w, t) /\ ~Filling(w, u)
  <2>1. Filling(a, u) <=> Filling(w, u)
    BY <1>3 DEF Filling, SameElse
  <2>. QED BY <1>2, <1>6, <1>10, <2>1 DEF Touched
<1>16. ASSUME ~v.disturbed, w.cacheTile \in {t, u}, Complete(w) PROVE Complete(v)
  <2>1. Kept(v) = Kept(w) /\ Kept(w) \subseteq TileItems /\ Walker \notin TileItems
    BY <1>1, <1>10, LiveAreItems, ThingsAre DEF Kept
  <2>2. Kept(v) \subseteq OnTile(v, v.cacheTile)
    <3>1. w.cacheTile = u => old \cap Kept(w) = {}
      BY <1>7, <1>10, <1>16 DEF Kept
    <3>. QED BY <1>10, <1>11, <1>16, <2>1, <3>1 DEF Complete
  <2>3. Owed(v) \subseteq Owed(w)
    BY <1>10, <1>11, <1>16, ThingsAre DEF Owed
  <2>4. Pend(w.jobs, w.cacheTile) \subseteq Pend(v.jobs, w.cacheTile)
    BY <1>14 DEF Grown
  <2>. QED BY <1>10, <1>16, <2>1, <2>2, <2>3, <2>4 DEF Complete
<1>17. Cached(v)
  <2>. DEFINE S == {t, u}
  <2>1. S \in SUBSET Tiles /\ \A n : n \in S <=> n = t \/ n = u
    OBVIOUS
  <2>2. Grown(v.jobs, w.jobs, S)
    BY <1>14
  <2>3. \A n \in Tiles \ S : v.things[n] = w.things[n]
    BY <1>15, <2>1
  <2>4. w.cacheTile \in S /\ ~v.disturbed /\ Complete(w) => Complete(v)
    BY <1>16, <2>1
  <2>. HIDE DEF S
  <2>. QED BY <1>1, <1>10, <1>15, <2>1, <2>2, <2>3, <2>4, CacheFollows
<1>. QED BY <1>14, <1>10, <1>12, <1>13, <1>17 DEF StepSound, Grown

\* ItemMoves, to another tile.
LEMMA MovesSound ==
  ASSUME NEW w, StepSound(w), NEW t \in Tiles, NEW x \in OnTile(w, t) \cap TileItems,
         NEW u \in Tiles, u # t, NEW v, v = ItemMoves(w, t, u, x)
  PROVE  StepSound(v) /\ (w.jobs # <<>> => v.jobs # <<>>)
<1>. DEFINE a == Lift(w, t, x)
            b == Put(a, u, x)
            d == OnRemoveTileItem(b, t, x)
<1>1. w \in StepWorlds /\ Placed(w) /\ Settled(w) /\ Cached(w) /\ ~w.danger
  BY DEF StepSound
<1>0. v = Push(d, <<Job("ask", t, x, "tile"), Job("came", u, x, "tile")>>) /\ x \in Things
  BY ThingsAre DEF ItemMoves
<1>2. Touched(w, a, t) /\ OnTile(a, t) = OnTile(w, t) \ {x}
  BY <1>0, <1>1, Lifted
<1>. HIDE DEF a
<1>3. a \in StepWorlds /\ Placed(a) /\ SameElse(w, a)
  BY <1>2 DEF Touched
<1>4. \A n \in Tiles : n # t => OnTile(a, n) = OnTile(w, n)
  BY <1>2 DEF Touched, OnTile
<1>5. \A n \in Tiles : x \notin OnTile(a, n)
  BY <1>1, <1>2, <1>4 DEF Placed
<1>6. Touched(a, b, u) /\ \E old \in SUBSET TileItems :
        /\ OnTile(b, u) = (OnTile(a, u) \ old) \cup {x}
        /\ ~b.disturbed /\ a.cacheTile = u => old \cap ToSet(a.cache) = {}
  BY <1>0, <1>3, <1>5, PutThere
<1>. HIDE DEF b
<1>7. PICK old \in SUBSET TileItems :
        /\ OnTile(b, u) = (OnTile(a, u) \ old) \cup {x}
        /\ ~b.disturbed /\ a.cacheTile = u => old \cap ToSet(a.cache) = {}
  BY <1>6
<1>8. b \in StepWorlds /\ Placed(b) /\ SameElse(a, b)
  BY <1>6 DEF Touched
<1>9. /\ SameButCache(b, d) /\ (b.cacheTile # t => d.cache = b.cache)
      /\ Once(b.cache) => Once(d.cache)
      /\ Once(b.cache) /\ b.cacheTile = t => Kept(d) = Kept(b) \ {x}
  BY <1>8, OnRemoved
<1>. HIDE DEF d
<1>10. SameButCalls(d, v) /\ Grown(v.jobs, d.jobs, {u}) /\ x \in Pend(v.jobs, u)
  <2>1. d \in StepWorlds
    BY <1>9 DEF SameButCache
  <2>2. /\ SameButCalls(d, v) /\ Grown(v.jobs, d.jobs, {u})
        /\ "came" \in {"came", "change"} => x \in Pend(v.jobs, u)
    BY <1>0, <2>1, PushesTwo
  <2>. QED BY <2>2
<1>11. /\ v \in StepWorlds /\ v.things = b.things /\ v.kind = w.kind /\ v.cacheTile = w.cacheTile
       /\ v.cache = d.cache /\ v.skipped = w.skipped /\ ~v.danger /\ v.disturbed = b.disturbed
       /\ a.cache = w.cache /\ b.cache = w.cache /\ a.cacheTile = w.cacheTile /\ b.cacheTile = w.cacheTile
       /\ d.jobs = w.jobs
  BY <1>1, <1>3, <1>8, <1>9, <1>10 DEF SameElse, SameButCache, SameButCalls
<1>12. /\ OnTile(v, t) = OnTile(w, t) \ {x} /\ OnTile(v, u) = (OnTile(w, u) \ old) \cup {x}
       /\ \A n \in Tiles : n \notin {t, u} => OnTile(v, n) = OnTile(w, n)
  BY <1>2, <1>4, <1>6, <1>7, <1>11 DEF OnTile, Touched
<1>13. Placed(v)
  BY <1>8, <1>11 DEF Placed, OnTile
<1>14. Settled(v)
  <2>1. \A n \in Tiles : Walker \in OnTile(w, n) => Walker \in OnTile(v, n)
    BY <1>12, ThingsAre
  <2>2. w.kind[x] # "freed"
    BY <1>1 DEF Settled
  <2>3. \A n \in Tiles : OnTile(v, n) \subseteq OnTile(w, n) \cup {x}
    BY <1>12
  <2>. QED BY <1>1, <1>11, <2>1, <2>2, <2>3 DEF Settled
<1>15. Grown(v.jobs, w.jobs, {t, u})
  BY <1>10, <1>11 DEF Grown
<1>16. /\ \A n \in Tiles : n \notin {t, u} => v.things[n] = w.things[n]
       /\ ~v.disturbed => ~w.disturbed /\ ~Filling(w, t) /\ ~Filling(w, u)
       /\ w.cacheTile # t => v.cache = w.cache
  <2>1. Filling(a, u) <=> Filling(w, u)
    BY <1>3 DEF Filling, SameElse
  <2>. QED BY <1>2, <1>6, <1>9, <1>11, <2>1 DEF Touched
<1>17. Pend(w.jobs, w.cacheTile) \subseteq Pend(v.jobs, w.cacheTile)
  BY <1>15 DEF Grown
<1>18. ASSUME w.cacheTile = t, Complete(w) PROVE Complete(v)
  <2>1. Kept(v) = Kept(w) \ {x} /\ Once(v.cache)
    BY <1>9, <1>11, <1>18 DEF Kept, Complete
  <2>2. Owed(v) = Owed(w) \ {x}
    BY <1>11, <1>12, <1>18 DEF Owed
  <2>. QED BY <1>11, <1>12, <1>17, <1>18, <2>1, <2>2 DEF Complete
<1>19. ASSUME ~v.disturbed, w.cacheTile = u, Complete(w) PROVE Complete(v)
  <2>1. Kept(v) = Kept(w) /\ v.cache = w.cache
    BY <1>16, <1>19 DEF Kept
  <2>2. old \cap Kept(w) = {}
    BY <1>7, <1>11, <1>19 DEF Kept
  <2>3. Kept(v) \subseteq OnTile(v, u)
    BY <1>12, <1>19, <2>1, <2>2 DEF Complete
  <2>4. Owed(v) \subseteq Owed(w) \cup {x}
    BY <1>11, <1>12, <1>19 DEF Owed
  <2>. QED BY <1>10, <1>11, <1>17, <1>19, <2>1, <2>3, <2>4 DEF Complete
<1>20. Cached(v)
  <2>. DEFINE S == {t, u}
  <2>1. S \in SUBSET Tiles /\ \A n : n \in S <=> n = t \/ n = u
    OBVIOUS
  <2>2. Grown(v.jobs, w.jobs, S)
    BY <1>15
  <2>3. \A n \in Tiles \ S : v.things[n] = w.things[n]
    BY <1>16, <2>1
  <2>4. w.cacheTile \in S /\ ~v.disturbed /\ Complete(w) => Complete(v)
    BY <1>18, <1>19, <2>1
  <2>. HIDE DEF S
  <2>. QED BY <1>1, <1>11, <1>16, <2>1, <2>2, <2>3, <2>4, CacheFollows
<1>. QED BY <1>15, <1>11, <1>13, <1>14, <1>20 DEF StepSound, Grown

-----------------------------------------------------------------------------
(* The loops.                                                              *)

\* Other calls: the fillings, and what waits, are as they have to be.
LEMMA CallsSound ==
  ASSUME NEW w, StepSound(w), NEW v, SameButCalls(w, v), FillCalls(v.jobs) = FillCalls(w.jobs),
         OneFill(w.jobs) => OneFill(v.jobs),
         w.cacheTile \in Tiles /\ InTurn(w.jobs, w.cacheTile) => InTurn(v.jobs, w.cacheTile),
         w.cacheTile \in Tiles => Owed(w) \cap Pend(w.jobs, w.cacheTile) \subseteq Kept(w) \cup Pend(v.jobs, w.cacheTile)
  PROVE  StepSound(v)
<1>1. /\ v.things = w.things /\ v.kind = w.kind /\ v.cacheTile = w.cacheTile /\ v.cache = w.cache
      /\ v.skipped = w.skipped /\ v.danger = w.danger /\ v.disturbed = w.disturbed /\ v \in StepWorlds
  BY DEF SameButCalls
<1>2. w \in StepWorlds /\ Placed(w) /\ Settled(w) /\ Cached(w) /\ ~w.danger
  BY DEF StepSound
<1>3. Placed(v) /\ Settled(v)
  BY <1>1, <1>2 DEF Placed, Settled, OnTile
<1>4. Kept(v) = Kept(w) /\ Owed(v) = Owed(w) /\ \A t : OnTile(v, t) = OnTile(w, t)
  BY <1>1 DEF Kept, Owed, OnTile
<1>5. \A f : FillsUp(w, f) => FillsUp(v, f)
  BY <1>1, <1>4 DEF FillsUp, Half
<1>6. Cached(v)
  <2>1. CASE w.disturbed
    BY <1>1, <2>1 DEF Cached
  <2>2. CASE Unfilled(w)
    BY <1>1, <2>2 DEF Cached, Unfilled
  <2>3. CASE Filled(w)
    <3>1. \A f \in FillCalls(v.jobs) : FillsUp(v, f)
      BY <1>5, <2>3 DEF Filled
    <3>2. FillCalls(v.jobs) = {} => Owed(v) \subseteq Kept(v) \cup Pend(v.jobs, v.cacheTile) \cup {v.skipped}
      BY <1>1, <1>4, <2>3 DEF Filled
    <3>3. Filled(v)
      BY <1>1, <1>4, <2>3, <3>1, <3>2 DEF Filled
    <3>. QED BY <3>3 DEF Cached
  <2>. QED BY <1>2, <2>1, <2>2, <2>3 DEF Cached
<1>. QED BY <1>1, <1>2, <1>3, <1>6 DEF StepSound

\* Neither fills the cache nor tells it of an item.
Plain(j) == ~IsFill(j) /\ j.do \notin {"came", "change"}

\* Such a call on top of others changes nothing.
LEMMA PlainOnTop ==
  ASSUME NEW j \in Calls, Plain(j), NEW r, IsStack(r), NEW q, OnTopOf(q, j, r)
  PROVE  /\ IsStack(q) /\ q # <<>> /\ Head(q) = j
         /\ FillCalls(q) = FillCalls(r) /\ (OneFill(q) <=> OneFill(r))
         /\ \A c : Pend(q, c) = Pend(r, c) /\ (InTurn(q, c) <=> InTurn(r, c))
<1>1. ~IsFill(j) /\ \A c : ~Waits(j, c)
  BY DEF Plain, Waits
<1>0. \A c : TopAdds(q, j, r, c)
  BY OnTop, Zenon
<1>2. IsStack(q) /\ q # <<>> /\ Head(q) = j
  BY <1>0 DEF TopAdds
<1>3. FillCalls(q) = FillCalls(r) /\ (OneFill(q) <=> OneFill(r))
  BY <1>0, <1>1 DEF TopAdds
<1>4. ASSUME NEW c PROVE Pend(q, c) = Pend(r, c) /\ (InTurn(q, c) <=> InTurn(r, c))
  <2>1. Pend(q, c) = Pend(r, c) \cup (IF Waits(j, c) THEN {j.item} ELSE {})
    BY <1>0, Zenon DEF TopAdds
  <2>2. InTurn(q, c) <=> InTurn(r, c) /\ (Waits(j, c) => FillCalls(r) = {})
    BY <1>0, Zenon DEF TopAdds
  <2>. QED BY <1>1, <2>1, <2>2
<1>. QED BY <1>2, <1>3, <1>4

\* Another call on top: neither fills nor is waited for.
LEMMA Retopped ==
  ASSUME NEW w, StepSound(w), w.jobs # <<>>, Plain(Head(w.jobs)), NEW j \in Calls, Plain(j),
         NEW v, v = WithCalls(w, [w.jobs EXCEPT ![1] = j])
  PROVE  StepSound(v) /\ SameButCalls(w, v) /\ v.jobs # <<>> /\ Head(v.jobs) = j
<1>. DEFINE h == Head(w.jobs)
            r == Tail(w.jobs)
            q == [w.jobs EXCEPT ![1] = j]
<1>1. w \in StepWorlds /\ IsStack(w.jobs)
  BY PartsOf DEF StepSound
<1>2. h \in Calls /\ IsStack(r) /\ OnTopOf(w.jobs, h, r) /\ OnTopOf(q, j, r)
  BY <1>1, TopOf
<1>. HIDE DEF q, r
<1>3. /\ FillCalls(w.jobs) = FillCalls(r) /\ (OneFill(w.jobs) <=> OneFill(r))
      /\ \A c : Pend(w.jobs, c) = Pend(r, c) /\ (InTurn(w.jobs, c) <=> InTurn(r, c))
  BY <1>2, PlainOnTop
<1>4. /\ FillCalls(q) = FillCalls(r) /\ (OneFill(q) <=> OneFill(r)) /\ IsStack(q) /\ q # <<>> /\ Head(q) = j
      /\ \A c : Pend(q, c) = Pend(r, c) /\ (InTurn(q, c) <=> InTurn(r, c))
  BY <1>2, PlainOnTop
<1>5. v.jobs = q /\ SameButCalls(w, v)
  <2>1. v = WithCalls(w, q)
    BY DEF q
  <2>. QED BY <1>1, <1>4, <2>1, OtherCalls DEF SameButCalls
<1>6. StepSound(v)
  BY <1>3, <1>4, <1>5, CallsSound
<1>. QED BY <1>4, <1>5, <1>6

\* Pop, of a call that neither fills nor is waited for.
LEMMA Popped ==
  ASSUME NEW w, StepSound(w), w.jobs # <<>>, Plain(Head(w.jobs)), NEW v, v = Pop(w)
  PROVE  StepSound(v)
<1>. DEFINE h == Head(w.jobs)
            r == Tail(w.jobs)
<1>1. w \in StepWorlds /\ IsStack(w.jobs)
  BY PartsOf DEF StepSound
<1>2. h \in Calls /\ IsStack(r) /\ OnTopOf(w.jobs, h, r)
  BY <1>1, TopOf
<1>3. v = WithCalls(w, r)
  BY DEF Pop, WithCalls
<1>. HIDE DEF r
<1>4. /\ FillCalls(w.jobs) = FillCalls(r) /\ (OneFill(w.jobs) <=> OneFill(r))
      /\ \A c : Pend(w.jobs, c) = Pend(r, c) /\ (InTurn(w.jobs, c) <=> InTurn(r, c))
  BY <1>2, PlainOnTop
<1>5. v.jobs = r /\ SameButCalls(w, v)
  BY <1>1, <1>2, <1>3, OtherCalls DEF SameButCalls
<1>. QED BY <1>4, <1>5, CallsSound

\* Turn, of a loop that uses the cache.
LEMMA Turned ==
  ASSUME NEW w, StepSound(w), w.jobs # <<>>, Head(w.jobs).do = "use", NEW v, v = Turn(w)
  PROVE  StepSound(v) /\ v.jobs # <<>>
<1>. DEFINE h == Head(w.jobs)
            j == [h EXCEPT !.i = h.i + 1]
<1>1. w \in StepWorlds /\ IsStack(w.jobs)
  BY PartsOf DEF StepSound
<1>2. h \in Calls /\ h = w.jobs[1] /\ 1 \in DOMAIN w.jobs
  BY <1>1, TopOf
<1>3. j \in Calls /\ j.do = h.do
  BY <1>2 DEF Calls
<1>4. Plain(j) /\ Plain(Head(w.jobs))
  BY <1>3 DEF Plain, IsFill
<1>5. v = WithCalls(w, [w.jobs EXCEPT ![1] = j])
  BY <1>1, <1>2 DEF Turn, WithCalls, StepWorlds
<1>. HIDE DEF j
<1>. QED BY <1>3, <1>4, <1>5, Retopped

\* A world that differs in what scripts have done.
LEMMA ScriptsSound ==
  ASSUME NEW w, StepSound(w), NEW n \in Nat, NEW v, v = [w EXCEPT !.scripts = n]
  PROVE  StepSound(v) /\ SameButCalls(w, v) /\ v.jobs = w.jobs
<1>1. w \in StepWorlds
  BY DEF StepSound
<1>2. SameButCalls(w, v) /\ v.jobs = w.jobs
  BY <1>1 DEF SameButCalls, StepWorlds
<1>3. StepSound(v)
  BY <1>2, CallsSound
<1>. QED BY <1>2, <1>3

\* Where a thing is found it lies; where it is not found it does not.
LEMMA FoundThere ==
  ASSUME NEW w \in StepWorlds, NEW x, NEW t, t = TileOf(w, x)
  PROVE  /\ t # NoTile => t \in Tiles /\ x \in OnTile(w, t)
         /\ t = NoTile => \A u \in Tiles : x \notin OnTile(w, u)
<1>1. \A u \in Tiles : Contains(w.things[u], x) <=> x \in OnTile(w, u)
  <2>. SUFFICES ASSUME NEW u \in Tiles PROVE Contains(w.things[u], x) <=> x \in OnTile(w, u)
    OBVIOUS
  <2>1. w.things[u] \in Seq(Things)
    BY PartsOf
  <2>. QED BY <2>1, ContainedIn DEF OnTile
<1>2. CASE \E u \in Tiles : Contains(w.things[u], x)
  <2>1. t \in Tiles /\ Contains(w.things[t], x)
    BY <1>2 DEF TileOf
  <2>. QED BY <1>1, <2>1, StepAssumption
<1>3. CASE ~\E u \in Tiles : Contains(w.things[u], x)
  BY <1>1, <1>3 DEF TileOf
<1>. QED BY <1>2, <1>3

\* Runs: a script does one thing or nothing.
LEMMA RunsSound ==
  ASSUME NEW w, StepSound(w), NEW v, v \in Runs(w)
  PROVE  StepSound(v) /\ (w.jobs # <<>> => v.jobs # <<>>)
<1>. DEFINE n == w.scripts + 1
            did == [w EXCEPT !.scripts = n]
<1>1. w \in StepWorlds
  BY DEF StepSound
<1>2. n \in Nat
  BY <1>1, PartsOf
<1>3. \/ v = w
      \/ \E x \in TileItems : TileOf(w, x) # NoTile /\ v = ItemGoes(did, TileOf(w, x), x)
      \/ \E t \in Tiles, x \in TileItems : TileOf(w, x) = NoTile /\ w.kind[x] # "freed" /\ v = ItemComes(did, t, x)
      \/ \E x \in TileItems : TileOf(w, x) # NoTile
           /\ v = ItemChanges(did, TileOf(w, x), x, IF w.kind[x] = "step" THEN "none" ELSE "step")
      \/ \E x \in TileItems : TileOf(w, x) # NoTile
           /\ v = SetActionId(did, TileOf(w, x), x, IF w.kind[x] = "tile" THEN "none" ELSE "tile")
      \/ \E t \in Tiles \ {TileOf(w, Walker)} : v = CreatureMoves(did, TileOf(w, Walker), t)
  BY DEF Runs
<1>4. StepSound(did) /\ SameButCalls(w, did) /\ did.jobs = w.jobs
  <2>. HIDE DEF n
  <2>. QED BY <1>2, ScriptsSound
<1>. HIDE DEF did
<1>5. did.kind = w.kind /\ (\A t : OnTile(did, t) = OnTile(w, t))
  BY <1>4 DEF SameButCalls, OnTile
<1>6. CASE v = w
  BY <1>6
<1>7. ASSUME NEW x \in TileItems, TileOf(w, x) # NoTile, v = ItemGoes(did, TileOf(w, x), x)
      PROVE  StepSound(v) /\ (w.jobs # <<>> => v.jobs # <<>>)
  <2>1. TileOf(w, x) \in Tiles /\ x \in OnTile(did, TileOf(w, x)) \cap TileItems
    BY <1>1, <1>5, <1>7, FoundThere
  <2>. QED BY <1>4, <1>7, <2>1, GoesSound
<1>8. ASSUME NEW t \in Tiles, NEW x \in TileItems, TileOf(w, x) = NoTile, w.kind[x] # "freed",
             v = ItemComes(did, t, x)
      PROVE  StepSound(v) /\ (w.jobs # <<>> => v.jobs # <<>>)
  <2>1. did.kind[x] # "freed" /\ \A u \in Tiles : x \notin OnTile(did, u)
    BY <1>1, <1>5, <1>8, FoundThere
  <2>. QED BY <1>4, <1>8, <2>1, ComesSound
<1>9. ASSUME NEW x \in TileItems, TileOf(w, x) # NoTile,
             v = ItemChanges(did, TileOf(w, x), x, IF w.kind[x] = "step" THEN "none" ELSE "step")
      PROVE  StepSound(v) /\ (w.jobs # <<>> => v.jobs # <<>>)
  <2>1. TileOf(w, x) \in Tiles /\ x \in OnTile(did, TileOf(w, x)) \cap TileItems
    BY <1>1, <1>5, <1>9, FoundThere
  <2>. DEFINE k == IF w.kind[x] = "step" THEN "none" ELSE "step"
  <2>2. k \in {"step", "tile", "none"} /\ v = ItemChanges(did, TileOf(w, x), x, k)
    BY <1>9
  <2>. HIDE DEF k
  <2>. QED BY <1>4, <2>1, <2>2, ChangesSound
<1>10. ASSUME NEW x \in TileItems, TileOf(w, x) # NoTile,
              v = SetActionId(did, TileOf(w, x), x, IF w.kind[x] = "tile" THEN "none" ELSE "tile")
       PROVE  StepSound(v) /\ (w.jobs # <<>> => v.jobs # <<>>)
  <2>1. TileOf(w, x) \in Tiles /\ x \in OnTile(did, TileOf(w, x)) \cap TileItems
    BY <1>1, <1>5, <1>10, FoundThere
  <2>. DEFINE k == IF w.kind[x] = "tile" THEN "none" ELSE "tile"
  <2>2. k \in {"step", "tile", "none"} /\ v = SetActionId(did, TileOf(w, x), x, k)
    BY <1>10
  <2>. HIDE DEF k
  <2>. QED BY <1>4, <2>1, <2>2, ActionIdSound
<1>11. ASSUME NEW t \in Tiles \ {TileOf(w, Walker)}, v = CreatureMoves(did, TileOf(w, Walker), t)
       PROVE  StepSound(v) /\ (w.jobs # <<>> => v.jobs # <<>>)
  <2>1. \E u \in Tiles : Walker \in OnTile(w, u)
    BY DEF StepSound, Settled
  <2>2. TileOf(w, Walker) \in Tiles /\ Walker \in OnTile(did, TileOf(w, Walker))
    BY <1>1, <1>5, <2>1, FoundThere
  <2>3. t \in Tiles /\ t # TileOf(w, Walker)
    OBVIOUS
  <2>. QED BY <1>4, <1>11, <2>2, <2>3, WalkSound
<1>. QED BY <1>3, <1>6, <1>7, <1>8, <1>9, <1>10, <1>11

\* Where nothing fills.
LEMMA NoFills ==
  ASSUME NEW q, FillCalls(q) = {}
  PROVE  OneFill(q) /\ \A c : InTurn(q, c)
<1>1. \A k \in DOMAIN q : ~IsFill(q[k])
  BY DEF FillCalls
<1>. QED BY <1>1 DEF OneFill, InTurn

\* A cache that is complete and that nothing fills.
LEMMA CompleteSound ==
  ASSUME NEW v \in StepWorlds, Placed(v), Settled(v), ~v.danger, v.cacheTile \in Tiles,
         FillCalls(v.jobs) = {}, Complete(v)
  PROVE  StepSound(v)
<1>1. Filled(v)
  BY NoFills DEF Filled, Complete
<1>. QED BY <1>1 DEF StepSound, Cached

\* A world that begins to fill the cache.
WithFilling(w, t, b, q) ==
  [w EXCEPT !.cacheTile = t, !.cache = <<>>, !.skipped = NoItem, !.disturbed = b, !.jobs = q]

\* The call on top fills it, as far as the place L.
TopFills(q, L) == [q EXCEPT ![1].do = "fill", ![1].last = L]
FillStarts(w, t, d, L) ==
  [w EXCEPT !.cacheTile = t, !.cache = <<>>, !.skipped = NoItem, !.disturbed = d,
            !.jobs[1].do = "fill", !.jobs[1].last = L]

LEMMA FillingIs ==
  ASSUME NEW w \in StepWorlds, NEW t, NEW d, NEW L
  PROVE  FillStarts(w, t, d, L) = WithFilling(w, t, d, TopFills(w.jobs, L))
<1>1. PICK a : a = [w.jobs EXCEPT ![1].do = "fill"]
  OBVIOUS
<1>2. PICK b : b = [a EXCEPT ![1].last = L]
  OBVIOUS
<1>3. [w.jobs EXCEPT ![1].do = "fill", ![1].last = L] = b
  BY <1>1, <1>2
<1>4. PICK x : x = [w EXCEPT !.cacheTile = t, !.cache = <<>>, !.skipped = NoItem, !.disturbed = d]
  OBVIOUS
<1>5. x = [w EXCEPT !.cacheTile = t, !.cache = <<>>, !.skipped = NoItem, !.disturbed = d] /\ x.jobs = w.jobs
  BY <1>4 DEF StepWorlds
<1>6. [x EXCEPT !.jobs[1].do = "fill"] = [x EXCEPT !.jobs = a]
  BY <1>1, <1>5
<1>7. PICK y : y = [x EXCEPT !.jobs = a]
  OBVIOUS
<1>8. y.jobs = a
  BY <1>4, <1>7 DEF StepWorlds
<1>9. [y EXCEPT !.jobs[1].last = L] = [y EXCEPT !.jobs = b]
  BY <1>2, <1>8
<1>10. [y EXCEPT !.jobs = b] = [w EXCEPT !.cacheTile = t, !.cache = <<>>, !.skipped = NoItem, !.disturbed = d, !.jobs = b]
  BY <1>4, <1>7 DEF StepWorlds
<1>11. [w EXCEPT !.cacheTile = t, !.cache = <<>>, !.skipped = NoItem, !.disturbed = d,
                 !.jobs[1].do = "fill", !.jobs[1].last = L] = [y EXCEPT !.jobs[1].last = L]
  BY <1>4, <1>6, <1>7, Zenon
<1>12. FillStarts(w, t, d, L) = [y EXCEPT !.jobs = b]
  BY <1>9, <1>11, Zenon DEF FillStarts
<1>13. TopFills(w.jobs, L) = b
  BY <1>3, Zenon DEF TopFills
<1>. QED BY <1>10, <1>12, <1>13, Zenon DEF WithFilling

\* The parts of such a world.
LEMMA OtherFilling ==
  ASSUME NEW w \in StepWorlds, NEW t \in Tiles, NEW b \in BOOLEAN, NEW q, IsStack(q),
         NEW v, v = WithFilling(w, t, b, q)
  PROVE  /\ v \in StepWorlds /\ v.things = w.things /\ v.kind = w.kind /\ v.cacheTile = t /\ v.cache = <<>>
         /\ v.skipped = NoItem /\ v.disturbed = b /\ v.jobs = q /\ v.danger = w.danger
<1>1. <<>> \in Seq(TileItems \cup {NoItem}) /\ q \in Seq(Calls)
  BY DEF IsStack
<1>. HIDE DEF TileItems
<1>. QED BY <1>1 DEF StepWorlds, WithFilling

\* StartLoop: with the cache of the tile, or filling it.
LEMMA StartSound ==
  ASSUME NEW w, StepSound(w), w.jobs # <<>>, Head(w.jobs).do = "start", NEW v, v = StartLoop(w)
  PROVE  StepSound(v)
<1>. DEFINE h == Head(w.jobs)
            r == Tail(w.jobs)
            t == h.tile
            u == [h EXCEPT !.do = "use"]
            g == [h EXCEPT !.do = "fill", !.last = Len(w.things[t])]
            q == [w.jobs EXCEPT ![1] = g]
            d == \E k \in DOMAIN w.jobs : w.jobs[k].do = "fill"
<1>1. /\ w \in StepWorlds /\ Placed(w) /\ Settled(w) /\ Cached(w) /\ ~w.danger
      /\ w.jobs \in Seq(Calls) /\ IsStack(w.jobs) /\ w.things \in [Tiles -> Seq(Things)]
  BY PartsOf DEF StepSound
<1>2. /\ h \in Calls /\ h = w.jobs[1] /\ 1 \in DOMAIN w.jobs /\ IsStack(r) /\ OnTopOf(w.jobs, h, r)
      /\ OnTopOf(q, g, r)
  BY <1>1, TopOf
<1>3. t \in Tiles /\ h.i = 0
  BY <1>2 DEF Calls
<1>4. Len(w.things[t]) \in Nat
  BY <1>1, <1>3
<1>5. Plain(h)
  BY DEF Plain, IsFill
<1>6. CASE w.cacheTile # t
  <2>1. g \in Calls /\ IsFill(g) /\ ~Waits(g, t) /\ g.tile = t /\ g.i = 0 /\ g.last = Len(w.things[t])
    BY <1>2, <1>3, <1>4 DEF Calls, IsFill, Waits
  <2>2. v = WithFilling(w, t, d, q)
    <3>. DEFINE L == Len(w.things[t])
    <3>0. g = [h EXCEPT !.do = "fill", !.last = L] /\ h \in Calls /\ h = w.jobs[1] /\ 1 \in DOMAIN w.jobs
          /\ w.jobs \in Seq(Calls)
      BY <1>1, <1>2
    <3>1. v = FillStarts(w, t, d, L)
      BY <1>6 DEF StartLoop, FillStarts
    <3>. HIDE DEF L, d, t
    <3>2. q = TopFills(w.jobs, L)
      BY <3>0 DEF TopFills
    <3>. HIDE DEF q, g
    <3>3. v = WithFilling(w, t, d, TopFills(w.jobs, L))
      BY <1>1, <3>1, FillingIs, Zenon
    <3>. QED BY <3>2, <3>3, Zenon
  <2>. HIDE DEF g, q, r, d, h
  <2>3. IsStack(q) /\ q # <<>> /\ FillCalls(q) = FillCalls(r) \cup {g}
        /\ (OneFill(q) <=> OneFill(r) /\ FillCalls(r) = {}) /\ (InTurn(q, t) <=> InTurn(r, t))
    <3>1. TopAdds(q, g, r, t)
      BY <1>2, <2>1, OnTop, Zenon
    <3>. QED BY <2>1, <3>1 DEF TopAdds
  <2>4. FillCalls(w.jobs) = FillCalls(r)
    BY <1>2, <1>5, PlainOnTop
  <2>5. d <=> FillCalls(w.jobs) # {}
    BY DEF d, FillCalls, IsFill
  <2>6. d \in BOOLEAN
    BY DEF d
  <2>7. /\ v \in StepWorlds /\ v.things = w.things /\ v.kind = w.kind /\ v.cacheTile = t /\ v.cache = <<>>
        /\ v.skipped = NoItem /\ v.disturbed = d /\ v.jobs = q /\ ~v.danger
    BY <1>1, <1>3, <2>2, <2>3, <2>6, OtherFilling
  <2>8. Placed(v) /\ Settled(v)
    BY <1>1, <2>7 DEF Placed, Settled, OnTile
  <2>9. Kept(v) = {} /\ Once(v.cache)
    BY <2>7 DEF Kept, Once, ToSet
  <2>10. ASSUME ~d PROVE Filled(v)
    <3>1. FillCalls(r) = {} /\ FillCalls(q) = {g}
      BY <2>3, <2>4, <2>5, <2>10
    <3>2. OneFill(q) /\ InTurn(q, t)
      BY <2>3, <3>1, NoFills
    <3>3. \A n \in DOMAIN v.things[t] : ~(n <= 0)
      BY <1>1, <1>3, <2>7
    <3>4. Half(v, 0)
      BY <2>7, <2>9, <3>3 DEF Half
    <3>5. FillsUp(v, g)
      BY <1>4, <2>1, <2>7, <3>4 DEF FillsUp
    <3>. QED BY <1>3, <2>7, <2>9, <3>1, <3>2, <3>5 DEF Filled
  <2>. QED BY <2>7, <2>8, <2>10 DEF StepSound, Cached
<1>7. CASE w.cacheTile = t /\ w.cache = <<>>
  <2>1. v = Pop(w)
    BY <1>7 DEF StartLoop
  <2>. QED BY <1>5, <2>1, Popped
<1>8. CASE w.cacheTile = t /\ w.cache # <<>>
  <2>1. u \in Calls /\ Plain(u)
    BY <1>2, <1>3 DEF Calls, Plain, IsFill
  <2>2. v = WithCalls(w, [w.jobs EXCEPT ![1] = u])
    BY <1>1, <1>2, <1>8 DEF StartLoop, StepWorlds, WithCalls
  <2>. HIDE DEF u
  <2>. QED BY <1>5, <2>1, <2>2, Retopped
<1>. QED BY <1>6, <1>7, <1>8

\* A call on top of others that does not fill.
LEMMA WaitOnTop ==
  ASSUME NEW h \in Calls, ~IsFill(h), NEW r, IsStack(r), NEW p, OnTopOf(p, h, r), NEW c
  PROVE  /\ FillCalls(p) = FillCalls(r) /\ (OneFill(p) <=> OneFill(r))
         /\ Pend(p, c) = Pend(r, c) \cup (IF Waits(h, c) THEN {h.item} ELSE {})
         /\ InTurn(p, c) <=> InTurn(r, c) /\ (Waits(h, c) => FillCalls(r) = {})
<1>0. TopAdds(p, h, r, c)
  BY OnTop, Zenon
<1>1. FillCalls(p) = FillCalls(r) /\ (OneFill(p) <=> OneFill(r))
  BY <1>0 DEF TopAdds
<1>2. Pend(p, c) = Pend(r, c) \cup (IF Waits(h, c) THEN {h.item} ELSE {})
  BY <1>0, Zenon DEF TopAdds
<1>3. InTurn(p, c) <=> InTurn(r, c) /\ (Waits(h, c) => FillCalls(r) = {})
  BY <1>0, Zenon DEF TopAdds
<1>. QED BY <1>1, <1>2, <1>3

\* The call on top asks; and whether the cache is disturbed.
Asks(w) == [w EXCEPT !.jobs[1].do = "ask"]
WithDisturbed(w, b) == [w EXCEPT !.disturbed = b]

\* Otherwise the world is as it was.
LEMMA OtherDisturbed ==
  ASSUME NEW w \in StepWorlds, NEW b \in BOOLEAN, NEW v, v = WithDisturbed(w, b)
  PROVE  /\ v \in StepWorlds /\ v.disturbed = b /\ v.cache = w.cache
         /\ v.things = w.things /\ v.kind = w.kind /\ v.cacheTile = w.cacheTile /\ v.jobs = w.jobs
         /\ v.skipped = w.skipped /\ v.danger = w.danger
BY DEF StepWorlds, WithDisturbed

\* The cache is told of an item that came, if it is still there.
LEMMA CameSound ==
  ASSUME NEW w, StepSound(w), w.jobs # <<>>, NEW h, h = Head(w.jobs), h.do = "came",
         NEW b, b = OnAddTileItem(Asks(w), h.tile, h.item), NEW e \in BOOLEAN,
         e <=> b.disturbed \/ (b.cache # w.cache /\ TileOf(w, h.item) # h.tile),
         NEW v, v = WithDisturbed(b, e)
  PROVE  StepSound(v)
<1>. DEFINE a == Asks(w)
            r == Tail(w.jobs)
            t == h.tile
            x == h.item
            j == [h EXCEPT !.do = "ask"]
            q == [w.jobs EXCEPT ![1] = j]
            c == w.cacheTile
<1>1. /\ w \in StepWorlds /\ Placed(w) /\ Settled(w) /\ Cached(w) /\ ~w.danger
      /\ w.jobs \in Seq(Calls) /\ IsStack(w.jobs)
  BY PartsOf DEF StepSound
<1>2. /\ h \in Calls /\ h = w.jobs[1] /\ 1 \in DOMAIN w.jobs /\ IsStack(r) /\ OnTopOf(w.jobs, h, r)
      /\ OnTopOf(q, j, r)
  BY <1>1, TopOf
<1>3. t \in Tiles /\ x \in TileItems
  BY <1>2 DEF Calls
<1>4. a = WithCalls(w, q)
  BY <1>1, <1>2 DEF WithCalls, StepWorlds, Asks
<1>5. j \in Calls /\ Plain(j) /\ ~IsFill(h)
  BY <1>2 DEF Calls, Plain, IsFill
<1>16. b = OnAddTileItem(a, t, x)
  OBVIOUS
<1>. HIDE DEF a, r, j, q
<1>6. /\ IsStack(q) /\ q # <<>> /\ FillCalls(q) = FillCalls(r) /\ (OneFill(q) <=> OneFill(r))
      /\ Pend(q, c) = Pend(r, c) /\ (InTurn(q, c) <=> InTurn(r, c))
  BY <1>2, <1>5, PlainOnTop
<1>7. /\ FillCalls(w.jobs) = FillCalls(r) /\ (OneFill(w.jobs) <=> OneFill(r))
      /\ Pend(w.jobs, c) = Pend(r, c) \cup (IF Waits(h, c) THEN {h.item} ELSE {})
      /\ InTurn(w.jobs, c) <=> InTurn(r, c) /\ (Waits(h, c) => FillCalls(r) = {})
  BY <1>2, <1>5, WaitOnTop
<1>8. SameButCalls(w, a) /\ a.jobs = q
  BY <1>1, <1>4, <1>6, OtherCalls DEF SameButCalls
<1>9. /\ SameButCache(a, b) /\ (a.cacheTile # t => b.cache = a.cache)
      /\ Once(a.cache) => Once(b.cache)
      /\ Kept(a) \subseteq Kept(b) /\ Kept(b) \subseteq Kept(a) \cup {x}
      /\ a.cacheTile = t /\ a.kind[x] # "none" => x \in Kept(b)
  BY <1>3, <1>8, <1>16, OnAdded DEF SameButCalls
<1>10. b \in StepWorlds /\ e \in BOOLEAN
  BY <1>9, PartsOf DEF SameButCache
<1>11. /\ v \in StepWorlds /\ v.disturbed = e /\ v.cache = b.cache
       /\ v.things = w.things /\ v.kind = w.kind /\ v.cacheTile = c /\ v.jobs = q
       /\ v.skipped = w.skipped /\ v.danger = w.danger /\ ~v.danger
  <2>2. /\ v \in StepWorlds /\ v.disturbed = e /\ v.cache = b.cache
        /\ v.things = b.things /\ v.kind = b.kind /\ v.cacheTile = b.cacheTile /\ v.jobs = b.jobs
        /\ v.skipped = b.skipped /\ v.danger = b.danger
    BY <1>10, OtherDisturbed
  <2>. QED BY <1>1, <1>8, <1>9, <2>2 DEF SameButCalls, SameButCache
<1>12. a.cache = w.cache /\ a.cacheTile = c /\ a.kind = w.kind /\ b.disturbed = w.disturbed
  BY <1>8, <1>9 DEF SameButCalls, SameButCache
<1>13. Placed(v) /\ Settled(v) /\ \A u : OnTile(v, u) = OnTile(w, u)
  <2>. HIDE DEF t, x, c
  <2>1. v.things = w.things /\ v.kind = w.kind
    BY <1>11
  <2>2. \A u : OnTile(v, u) = OnTile(w, u)
    BY <2>1 DEF OnTile
  <2>3. Placed(v)
    BY <1>1, <2>1, <2>2 DEF Placed
  <2>4. Settled(v)
    BY <1>1, <2>1, <2>2 DEF Settled
  <2>. QED BY <2>2, <2>3, <2>4
<1>14. CASE v.disturbed
  BY <1>11, <1>13, <1>14 DEF StepSound, Cached
<1>15. CASE c # t
  <2>0. b.cache = w.cache
    BY <1>9, <1>12, <1>15
  <2>1. v.cache = w.cache /\ v.disturbed = w.disturbed
    <3>1. e <=> b.disturbed
      BY <2>0
    <3>2. b.disturbed \in BOOLEAN
      BY <1>10, PartsOf
    <3>3. e = b.disturbed
      BY <3>1, <3>2
    <3>. QED BY <1>11, <1>12, <2>0, <3>3
  <2>2. SameButCalls(w, v)
    BY <1>1, <1>11, <2>1 DEF SameButCalls
  <2>3. ~Waits(h, c)
    BY <1>15 DEF Waits
  <2>. QED BY <1>6, <1>7, <1>11, <2>2, <2>3, CallsSound
<1>17. CASE c = t /\ ~v.disturbed
  <2>1. ~w.disturbed /\ (v.cache # w.cache => TileOf(w, x) = t)
    BY <1>11, <1>12, <1>17
  <2>2. Filled(w)
    BY <1>1, <1>3, <1>17, <2>1, StepAssumption DEF Cached, Unfilled
  <2>3. Waits(h, c)
    BY <1>17 DEF Waits
  <2>4. FillCalls(r) = {} /\ Complete(w)
    BY <1>7, <2>2, <2>3, Zenon DEF Filled, Complete
  <2>5. Once(v.cache) /\ Kept(w) \subseteq Kept(v) /\ Kept(v) \subseteq Kept(w) \cup {x}
        /\ (w.kind[x] # "none" => x \in Kept(v))
    BY <1>9, <1>11, <1>12, <1>17, <2>4 DEF Kept, Complete
  <2>6. Kept(v) \subseteq OnTile(v, c)
    <3>1. CASE v.cache = w.cache
      BY <1>13, <2>4, <3>1 DEF Kept, Complete
    <3>2. CASE v.cache # w.cache
      <4>1. x \in OnTile(w, t)
        BY <1>1, <1>3, <2>1, <3>2, FoundThere, StepAssumption, Zenon
      <4>. QED BY <1>13, <1>17, <2>4, <2>5, <4>1 DEF Complete
    <3>. QED BY <3>1, <3>2
  <2>7. Owed(v) = Owed(w) /\ (x \in Owed(w) => w.kind[x] # "none")
    BY <1>11, <1>13, SMTT(30) DEF Owed
  <2>8. Owed(v) \subseteq Kept(v) \cup Pend(v.jobs, c) \cup {v.skipped}
    BY <1>6, <1>7, <1>11, <2>4, <2>5, <2>7, SMTT(30) DEF Complete
  <2>9. Complete(v)
    BY <1>11, <2>5, <2>6, <2>8 DEF Complete
  <2>. QED BY <1>3, <1>6, <1>11, <1>13, <1>17, <2>4, <2>9, CompleteSound
<1>. QED BY <1>14, <1>15, <1>17

\* An item that is no longer there is not changed.
LEMMA NotChanged ==
  ASSUME NEW w, StepSound(w), w.jobs # <<>>, NEW h, h = Head(w.jobs), h.do = "change",
         TileOf(w, h.item) # h.tile, NEW v, v = Pop(w)
  PROVE  StepSound(v)
<1>. DEFINE r == Tail(w.jobs)
            c == w.cacheTile
<1>1. w \in StepWorlds /\ IsStack(w.jobs) /\ Placed(w)
  BY PartsOf DEF StepSound
<1>2. h \in Calls /\ IsStack(r) /\ OnTopOf(w.jobs, h, r)
  BY <1>1, TopOf
<1>3. v = WithCalls(w, r) /\ ~IsFill(h)
  BY DEF Pop, WithCalls, IsFill
<1>. HIDE DEF r
<1>4. /\ FillCalls(w.jobs) = FillCalls(r) /\ (OneFill(w.jobs) <=> OneFill(r))
      /\ Pend(w.jobs, c) = Pend(r, c) \cup (IF Waits(h, c) THEN {h.item} ELSE {})
      /\ InTurn(w.jobs, c) <=> InTurn(r, c) /\ (Waits(h, c) => FillCalls(r) = {})
  BY <1>2, <1>3, WaitOnTop
<1>5. v.jobs = r /\ SameButCalls(w, v)
  BY <1>1, <1>2, <1>3, OtherCalls DEF SameButCalls
<1>6. c \in Tiles /\ Waits(h, c) => h.item \notin Owed(w)
  <2>. SUFFICES ASSUME c \in Tiles, Waits(h, c), h.item \in OnTile(w, c) PROVE FALSE
    BY DEF Owed
  <2>1. h.tile = c
    BY DEF Waits
  <2>. DEFINE t == TileOf(w, h.item)
  <2>2. t # NoTile => t \in Tiles /\ h.item \in OnTile(w, t)
    BY <1>1, FoundThere
  <2>3. t # NoTile
    BY <1>1, FoundThere
  <2>4. t = c
    BY <1>1, <2>2, <2>3 DEF Placed
  <2>. QED BY <2>1, <2>4
<1>. QED BY <1>4, <1>5, <1>6, CallsSound

\* The item is of another type, and the call on top asks.
Renews(w, x, k) == [w EXCEPT !.kind[x] = k, !.jobs[1].do = "ask", !.jobs[1].of = "tile"]

\* What a filled and a complete cache are, said of the tile of the cache.
LEMMA FilledIs ==
  ASSUME NEW v, NEW c \in Tiles, v.cacheTile = c, Once(v.cache), Kept(v) \subseteq OnTile(v, c),
         OneFill(v.jobs), InTurn(v.jobs, c), \A f \in FillCalls(v.jobs) : FillsUp(v, f),
         FillCalls(v.jobs) = {} => Owed(v) \subseteq Kept(v) \cup Pend(v.jobs, c) \cup {v.skipped}
  PROVE  Filled(v)
BY DEF Filled

LEMMA CompleteIs ==
  ASSUME NEW v, NEW c, v.cacheTile = c, Once(v.cache), Kept(v) \subseteq OnTile(v, c),
         Owed(v) \subseteq Kept(v) \cup Pend(v.jobs, c) \cup {v.skipped}
  PROVE  Complete(v)
BY DEF Complete

\* Where the things are and what they are is all that counts for both.
LEMMA StaysPut ==
  ASSUME NEW w, Placed(w), Settled(w), NEW v, v.things = w.things, v.kind = w.kind
  PROVE  Placed(v) /\ Settled(v)
<1>1. \A t : OnTile(v, t) = OnTile(w, t)
  BY DEF OnTile
<1>2. Placed(v)
  BY <1>1 DEF Placed
<1>3. Settled(v)
  BY <1>1 DEF Settled
<1>. QED BY <1>2, <1>3

\* A cache fills up in a world where nothing it depends on is different.
LEMMA SameFills ==
  ASSUME NEW w, NEW v, v.things = w.things, v.cacheTile = w.cacheTile, v.skipped = w.skipped,
         Kept(v) = Kept(w), Owed(v) = Owed(w)
  PROVE  \A f : FillsUp(w, f) => FillsUp(v, f)
BY DEF FillsUp, Half

\* Where nothing moved, every tile holds what it held.
LEMMA SameThings ==
  ASSUME NEW w, NEW v, v.things = w.things
  PROVE  \A u : OnTile(v, u) = OnTile(w, u)
BY Zenon DEF OnTile

\* An item that is still there is changed.
LEMMA ChangeSound ==
  ASSUME NEW w, StepSound(w), w.jobs # <<>>, NEW h, h = Head(w.jobs), h.do = "change",
         TileOf(w, h.item) = h.tile, NEW v, v = OnAddTileItem(Renews(w, h.item, h.of), h.tile, h.item)
  PROVE  StepSound(v)
<1>. DEFINE r == Tail(w.jobs)
            t == h.tile
            x == h.item
            k == h.of
            j == [h EXCEPT !.do = "ask", !.of = "tile"]
            q == [w.jobs EXCEPT ![1] = j]
            c == w.cacheTile
            K == [w.kind EXCEPT ![x] = k]
            m == WithKinds(w, K)
            a == WithCalls(m, q)
<1>1. /\ w \in StepWorlds /\ Placed(w) /\ Settled(w) /\ Cached(w) /\ ~w.danger
      /\ w.jobs \in Seq(Calls) /\ IsStack(w.jobs)
      /\ w.kind \in [TileItems -> {"step", "tile", "none", "freed"}]
  BY PartsOf DEF StepSound
<1>2. /\ h \in Calls /\ h = w.jobs[1] /\ 1 \in DOMAIN w.jobs /\ IsStack(r) /\ OnTopOf(w.jobs, h, r)
      /\ OnTopOf(q, j, r)
  BY <1>1, TopOf
<1>3. t \in Tiles /\ x \in TileItems /\ k \in {"step", "tile", "none"}
  BY <1>2 DEF Calls
<1>4. v = OnAddTileItem(a, t, x)
  <2>1. Renews(w, x, k) = a
    BY <1>1, <1>2 DEF WithCalls, WithKinds, StepWorlds, Renews
  <2>. QED BY <2>1
<1>5. j \in Calls /\ Plain(j) /\ ~IsFill(h)
  BY <1>2 DEF Calls, Plain, IsFill
<1>6. K \in [TileItems -> {"step", "tile", "none", "freed"}] /\ K[x] = k
      /\ \A y \in TileItems : y # x => K[y] = w.kind[y]
  BY <1>1, <1>3
<1>. HIDE DEF a, r, j, q, K, m
<1>7. /\ IsStack(q) /\ q # <<>> /\ FillCalls(q) = FillCalls(r) /\ (OneFill(q) <=> OneFill(r))
      /\ \A u : Pend(q, u) = Pend(r, u) /\ (InTurn(q, u) <=> InTurn(r, u))
  BY <1>2, <1>5, PlainOnTop
<1>8. /\ FillCalls(w.jobs) = FillCalls(r) /\ (OneFill(w.jobs) <=> OneFill(r))
      /\ Pend(w.jobs, c) = Pend(r, c) \cup (IF Waits(h, c) THEN {h.item} ELSE {})
      /\ InTurn(w.jobs, c) <=> InTurn(r, c) /\ (Waits(h, c) => FillCalls(r) = {})
  BY <1>2, <1>5, WaitOnTop
<1>9. /\ m \in StepWorlds /\ m.kind = K
      /\ m.things = w.things /\ m.jobs = w.jobs /\ m.cacheTile = c /\ m.cache = w.cache
      /\ m.skipped = w.skipped /\ m.danger = w.danger /\ m.disturbed = w.disturbed
  BY <1>1, <1>6, OtherKinds DEF m
<1>10. /\ a \in StepWorlds /\ a.jobs = q
       /\ a.things = m.things /\ a.kind = m.kind /\ a.cacheTile = m.cacheTile /\ a.cache = m.cache
       /\ a.skipped = m.skipped /\ a.danger = m.danger /\ a.disturbed = m.disturbed
  BY <1>7, <1>9, OtherCalls DEF a
<1>11. /\ SameButCache(a, v) /\ (a.cacheTile # t => v.cache = a.cache)
       /\ Once(a.cache) => Once(v.cache)
       /\ Kept(a) \subseteq Kept(v) /\ Kept(v) \subseteq Kept(a) \cup {x}
       /\ a.cacheTile = t /\ a.kind[x] # "none" => x \in Kept(v)
  BY <1>3, <1>4, <1>10, OnAdded
<1>12. /\ v \in StepWorlds /\ v.things = w.things /\ v.kind = K /\ v.cacheTile = c /\ v.jobs = q
       /\ v.skipped = w.skipped /\ v.danger = w.danger /\ ~v.danger /\ v.disturbed = w.disturbed
       /\ a.cache = w.cache /\ a.cacheTile = c /\ a.kind = K
  BY <1>1, <1>9, <1>10, <1>11 DEF SameButCache
<1>13. \A u : OnTile(v, u) = OnTile(w, u)
  <2>1. v.things = w.things
    BY <1>12
  <2>. HIDE DEF t, x, c, k
  <2>. QED BY <2>1, SameThings
<1>14. Placed(v)
  BY <1>1, <1>12, <1>13 DEF Placed
<1>15. Settled(v)
  <2>1. x \in TileItems /\ k # "freed"
    BY <1>3
  <2>. HIDE DEF t, x, c, k
  <2>2. v.kind = K
    BY <1>12
  <2>3. \A y \in TileItems : w.kind[y] # "freed" => v.kind[y] # "freed"
    BY <1>6, <2>1, <2>2
  <2>. QED BY <1>1, <1>13, <2>3 DEF Settled
<1>16. x \in OnTile(w, t)
  BY <1>1, <1>3, FoundThere, StepAssumption, Zenon
<1>17. CASE v.disturbed
  BY <1>12, <1>14, <1>15, <1>17 DEF StepSound, Cached
<1>18. CASE Unfilled(w)
  <2>1. c # t
    BY <1>3, <1>18, StepAssumption, Zenon DEF Unfilled
  <2>3. c = NoTile /\ w.cache = <<>> /\ FillCalls(w.jobs) = {}
    BY <1>18, Zenon DEF Unfilled
  <2>4. v.cacheTile = NoTile
    BY <1>12, <2>3, Zenon
  <2>5. v.cache = <<>>
    BY <1>11, <1>12, <2>1, <2>3, Zenon
  <2>6. FillCalls(v.jobs) = {}
    BY <1>7, <1>8, <1>12, <2>3, Zenon
  <2>2. Unfilled(v)
    BY <2>4, <2>5, <2>6, Zenon DEF Unfilled
  <2>. QED BY <1>12, <1>14, <1>15, <2>2 DEF StepSound, Cached
<1>19. CASE ~v.disturbed /\ Filled(w) /\ c # t
  <2>1. v.cache = w.cache /\ c \in Tiles
    BY <1>11, <1>12, <1>19 DEF Filled
  <2>2. x \notin OnTile(w, c)
    BY <1>1, <1>3, <1>16, <1>19, <2>1 DEF Placed
  <2>4. ~Waits(h, c)
    BY <1>19 DEF Waits
  <2>12. v.kind = K /\ v.cacheTile = c /\ w.cacheTile = c /\ v.things = w.things
    BY <1>12
  <2>. HIDE DEF x, t, c, k
  <2>3. \A y \in OnTile(w, c) \cap TileItems : v.kind[y] = w.kind[y]
    <3>. SUFFICES ASSUME NEW y \in OnTile(w, c) \cap TileItems PROVE v.kind[y] = w.kind[y]
      OBVIOUS
    <3>1. y # x
      BY <2>2
    <3>. QED BY <1>6, <2>12, <3>1
  <2>13. Kept(v) = Kept(w)
    BY <2>1 DEF Kept
  <2>14. OnTile(v, c) = OnTile(w, c)
    BY <1>13
  <2>15. Owed(v) = Owed(w)
    BY <2>3, <2>12, <2>14 DEF Owed
  <2>5. Kept(v) = Kept(w) /\ Owed(v) = Owed(w)
    BY <2>13, <2>15
  <2>6. \A f : FillsUp(w, f) => FillsUp(v, f)
    BY <1>12, <2>5, <2>12, SameFills, SMTT(30)
  <2>7. FillCalls(v.jobs) = FillCalls(w.jobs) /\ OneFill(v.jobs) /\ InTurn(v.jobs, c)
        /\ Pend(v.jobs, c) = Pend(w.jobs, c)
    BY <1>7, <1>8, <1>12, <1>19, <2>4 DEF Filled
  <2>8. \A f \in FillCalls(v.jobs) : FillsUp(v, f)
    BY <1>19, <2>6, <2>7 DEF Filled
  <2>9. Once(v.cache) /\ Kept(v) \subseteq OnTile(v, c)
    BY <1>13, <1>19, <2>1, <2>5, <2>12, Zenon DEF Filled
  <2>10. FillCalls(v.jobs) = {} => Owed(v) \subseteq Kept(v) \cup Pend(v.jobs, c) \cup {v.skipped}
    BY <1>12, <1>19, <2>5, <2>7, <2>12, Zenon DEF Filled
  <2>11. Filled(v)
    BY <2>1, <2>7, <2>8, <2>9, <2>10, <2>12, FilledIs, Zenon
  <2>. QED BY <1>12, <1>14, <1>15, <2>11, Zenon DEF StepSound, Cached
<1>20. CASE ~v.disturbed /\ Filled(w) /\ c = t
  <2>1. Waits(h, c)
    BY <1>20 DEF Waits
  <2>2. FillCalls(r) = {} /\ Complete(w)
    BY <1>8, <1>20, <2>1 DEF Filled, Complete
  <2>3. Once(v.cache) /\ Kept(w) \subseteq Kept(v) /\ Kept(v) \subseteq Kept(w) \cup {x}
        /\ (k # "none" => x \in Kept(v))
    <3>1. Once(w.cache) /\ Kept(a) = Kept(w)
      BY <1>12, <2>2, Zenon DEF Kept, Complete
    <3>2. k # "none" => a.cacheTile = t /\ a.kind[x] # "none"
      BY <1>6, <1>12, <1>20
    <3>. QED BY <1>11, <1>12, <3>1, <3>2, Zenon
  <2>8. v.kind = K /\ v.cacheTile = c /\ w.cacheTile = c
    BY <1>12
  <2>. HIDE DEF x, t, c, k
  <2>4. Kept(v) \subseteq OnTile(v, c)
    BY <1>13, <1>16, <1>20, <2>2, <2>3, <2>8 DEF Complete
  <2>5. Owed(v) \subseteq Owed(w) \cup {x} /\ (k = "none" => x \notin Owed(v))
    <3>1. OnTile(v, c) = OnTile(w, c)
      BY <1>13
    <3>. QED BY <1>6, <2>8, <3>1 DEF Owed
  <2>9. Pend(w.jobs, c) = Pend(r, c) \cup {x}
    BY <1>8, <2>1, Zenon DEF x
  <2>10. Pend(v.jobs, c) = Pend(r, c) /\ v.skipped = w.skipped
    BY <1>7, <1>12, Zenon
  <2>11. Owed(w) \subseteq Kept(w) \cup (Pend(r, c) \cup {x}) \cup {w.skipped}
    BY <2>2, <2>8, <2>9, Zenon DEF Complete
  <2>12. x \in Owed(v) => x \in Kept(v)
    BY <2>3, <2>5, Zenon
  <2>6. Owed(v) \subseteq Kept(v) \cup Pend(v.jobs, c) \cup {v.skipped}
    <3>. SUFFICES ASSUME NEW y \in Owed(v)
                  PROVE  y \in Kept(v) \/ y \in Pend(r, c) \/ y = w.skipped
      BY <2>10
    <3>1. CASE y = x
      BY <2>12, <3>1, Zenon
    <3>2. CASE y # x
      <4>1. y \in Owed(w)
        BY <2>5, <3>2, Zenon
      <4>2. y \in Kept(w) \/ y \in Pend(r, c) \/ y = w.skipped
        BY <2>11, <3>2, <4>1, Zenon
      <4>. QED BY <2>3, <4>2, Zenon
    <3>. QED BY <3>1, <3>2, Zenon
  <2>7. Complete(v)
    BY <2>3, <2>4, <2>6, <2>8, CompleteIs, Zenon
  <2>. QED BY <1>3, <1>7, <1>12, <1>14, <1>15, <1>20, <2>2, <2>7, CompleteSound
<1>. QED BY <1>1, <1>12, <1>17, <1>18, <1>19, <1>20 DEF Cached

\* The call on top fills the cache: no other does.
LEMMA FillOnTop ==
  ASSUME NEW w, StepSound(w), w.jobs # <<>>, NEW h, h = Head(w.jobs), h.do = "fill",
         NEW r, r = Tail(w.jobs)
  PROVE  /\ w \in StepWorlds /\ IsStack(w.jobs) /\ h \in Calls /\ h = w.jobs[1] /\ 1 \in DOMAIN w.jobs
         /\ IsStack(r) /\ \A j : OnTopOf([w.jobs EXCEPT ![1] = j], j, r)
         /\ Placed(w) /\ Settled(w) /\ ~w.danger
         /\ ~w.disturbed => /\ w.cacheTile \in Tiles /\ Once(w.cache) /\ Kept(w) \subseteq OnTile(w, w.cacheTile)
                            /\ FillsUp(w, h) /\ FillCalls(r) = {}
<1>1. w \in StepWorlds /\ IsStack(w.jobs) /\ Placed(w) /\ Settled(w) /\ ~w.danger /\ Cached(w)
  BY PartsOf DEF StepSound
<1>2. h \in Calls /\ h = w.jobs[1] /\ 1 \in DOMAIN w.jobs /\ IsStack(r) /\ OnTopOf(w.jobs, h, r)
  BY <1>1, TopOf
<1>3. \A j : OnTopOf([w.jobs EXCEPT ![1] = j], j, r)
  BY <1>1, TopOf
<1>4. IsFill(h)
  BY DEF IsFill
<1>5. FillCalls(w.jobs) = FillCalls(r) \cup {h} /\ (OneFill(w.jobs) => FillCalls(r) = {})
  <2>1. TopAdds(w.jobs, h, r, NoTile)
    BY <1>2, OnTop, Zenon
  <2>. QED BY <1>4, <2>1 DEF TopAdds
<1>6. ~w.disturbed => Filled(w)
  BY <1>1, <1>5 DEF Cached, Unfilled
<1>7. ~w.disturbed => /\ w.cacheTile \in Tiles /\ Once(w.cache) /\ Kept(w) \subseteq OnTile(w, w.cacheTile)
                      /\ FillsUp(w, h) /\ FillCalls(r) = {}
  BY <1>5, <1>6 DEF Filled
<1>. QED BY <1>1, <1>2, <1>3, <1>7

\* The loop that filled the cache is over: the cache is complete.
LEMMA FillEnds ==
  ASSUME NEW w, StepSound(w), w.jobs # <<>>, NEW h, h = Head(w.jobs), h.do = "fill", h.i >= h.last,
         NEW v, v = Pop(w)
  PROVE  StepSound(v)
<1>. DEFINE r == Tail(w.jobs)
            c == w.cacheTile
<1>1. /\ w \in StepWorlds /\ IsStack(w.jobs) /\ h \in Calls /\ IsStack(r)
      /\ Placed(w) /\ Settled(w) /\ ~w.danger
      /\ ~w.disturbed => /\ c \in Tiles /\ Once(w.cache) /\ Kept(w) \subseteq OnTile(w, c)
                         /\ FillsUp(w, h) /\ FillCalls(r) = {}
  BY FillOnTop
<1>2. v = WithCalls(w, r)
  BY DEF Pop, WithCalls
<1>. HIDE DEF r
<1>3. /\ v \in StepWorlds /\ v.jobs = r
      /\ v.things = w.things /\ v.kind = w.kind /\ v.cacheTile = w.cacheTile /\ v.cache = w.cache
      /\ v.skipped = w.skipped /\ v.danger = w.danger /\ v.disturbed = w.disturbed
  BY <1>1, <1>2, OtherCalls
<1>4. Placed(v) /\ Settled(v)
  BY <1>1, <1>3, StaysPut, Zenon
<1>5. CASE w.disturbed
  BY <1>1, <1>3, <1>4, <1>5 DEF StepSound, Cached
<1>6. CASE ~w.disturbed
  <2>1. Kept(v) = Kept(w) /\ Owed(v) = Owed(w) /\ OnTile(v, c) = OnTile(w, c)
    BY <1>3 DEF Kept, Owed, OnTile
  <2>2. h.last = Len(w.things[c]) /\ Half(w, h.i)
    BY <1>1, <1>6 DEF FillsUp
  <2>3. w.things[c] \in Seq(Things)
    BY <1>1, <1>6, PartsOf
  <2>4. h.i \in Nat /\ h.last \in Nat
    BY <1>1 DEF Calls
  <2>5. ASSUME NEW y \in Owed(w), y # w.skipped PROVE y \in Kept(w)
    <3>1. y \in OnTile(w, c)
      BY DEF Owed
    <3>2. PICK n \in DOMAIN w.things[c] : y = w.things[c][n]
      BY <3>1 DEF OnTile, ToSet
    <3>3. n <= h.i
      BY <2>2, <2>3, <2>4, <3>2
    <3>. QED BY <2>2, <2>5, <3>2, <3>3 DEF Half
  <2>. HIDE DEF c
  <2>6. Owed(v) \subseteq Kept(v) \cup Pend(v.jobs, v.cacheTile) \cup {v.skipped}
    BY <1>3, <2>1, <2>5
  <2>7. Complete(v)
    BY <1>1, <1>3, <1>6, <2>1, <2>6 DEF Complete, c
  <2>. QED BY <1>1, <1>3, <1>4, <1>6, <2>7, CompleteSound DEF c
<1>. QED BY <1>5, <1>6

\* q is s and one more entry.
IsEnd(q, s, x) == q = Append(s, x)

\* What it holds.
HasOneMore(q, s, x) ==
  /\ q \in Seq(TileItems \cup {NoItem}) /\ ToSet(q) = ToSet(s) \cup {x}
  /\ Once(s) /\ x \notin ToSet(s) => Once(q)

\* One more entry at the end of the cache.
LEMMA Appended ==
  ASSUME NEW s \in Seq(TileItems \cup {NoItem}), NEW x \in TileItems, NEW q, IsEnd(q, s, x)
  PROVE  HasOneMore(q, s, x)
<1>. DEFINE E == TileItems \cup {NoItem}
<1>0. s \in Seq(E) /\ x \in E
  OBVIOUS
<1>. HIDE DEF E
<1>1. /\ q \in Seq(E) /\ Len(s) \in Nat /\ DOMAIN s = 1..Len(s) /\ DOMAIN q = 1..(Len(s) + 1)
      /\ q[Len(s) + 1] = x /\ \A k \in 1..Len(s) : q[k] = s[k]
  BY <1>0 DEF IsEnd
<1>2. \A k \in DOMAIN q : (k \in DOMAIN s /\ q[k] = s[k]) \/ (k = Len(s) + 1 /\ q[k] = x)
  BY <1>1
<1>3. Len(s) + 1 \in DOMAIN q /\ \A k \in DOMAIN s : k \in DOMAIN q /\ q[k] = s[k]
  BY <1>1
<1>4. ToSet(q) = ToSet(s) \cup {x}
  <2>1. \A p : \A y : y \in ToSet(p) <=> \E k \in DOMAIN p : y = p[k]
    BY DEF ToSet
  <2>2. ASSUME NEW y \in ToSet(q) PROVE y \in ToSet(s) \cup {x}
    BY <1>2, <2>1
  <2>3. ASSUME NEW y \in ToSet(s) PROVE y \in ToSet(q)
    BY <1>3, <2>1
  <2>4. x \in ToSet(q)
    BY <1>1, <1>3, <2>1
  <2>. QED BY <2>2, <2>3, <2>4
<1>5. ASSUME Once(s), x \notin ToSet(s) PROVE Once(q)
  <2>1. \A k \in DOMAIN s : s[k] # x
    BY <1>5 DEF ToSet
  <2>. QED BY <1>2, <1>5, <2>1 DEF Once
<1>. QED BY <1>1, <1>4, <1>5 DEF E, HasOneMore

\* A turn of the loop that fills the cache: one more thing of the tile is seen.
LEMMA FillGoesOn ==
  ASSUME NEW w, StepSound(w), w.jobs # <<>>, NEW h, h = Head(w.jobs), h.do = "fill", h.i < h.last,
         NEW x, x = w.things[h.tile][h.i + 1],
         NEW v \in StepWorlds, v.things = w.things, v.kind = w.kind, v.cacheTile = w.cacheTile,
         v.disturbed = w.disturbed, ~v.danger,
         NEW g \in Calls, g.do = "fill", g.tile = h.tile, g.item = h.item, g.last = h.last, g.i = h.i + 1,
         OnTopOf(v.jobs, g, Tail(w.jobs)),
         v.skipped \in {w.skipped, h.item},
         v.cache = w.cache \/ (x \in TileItems /\ IsEnd(v.cache, w.cache, x)),
         ~w.disturbed /\ x \in Owed(w) => x = v.skipped \/ IsEnd(v.cache, w.cache, x)
  PROVE  StepSound(v) /\ v.jobs # <<>>
<1>. DEFINE r == Tail(w.jobs)
            c == w.cacheTile
            s == w.things[c]
            i == h.i
            q == v.jobs
<1>1. /\ w \in StepWorlds /\ IsStack(w.jobs) /\ h \in Calls /\ IsStack(r)
      /\ Placed(w) /\ Settled(w)
      /\ ~w.disturbed => /\ c \in Tiles /\ Once(w.cache) /\ Kept(w) \subseteq OnTile(w, c)
                         /\ FillsUp(w, h) /\ FillCalls(r) = {}
  BY FillOnTop
<1>2. /\ i \in Nat /\ g \in Calls /\ IsFill(g) /\ ~Waits(g, c)
  BY <1>1 DEF Calls, IsFill, Waits
<1>7. OnTopOf(q, g, r)
  OBVIOUS
<1>8. w.cache \in Seq(TileItems \cup {NoItem}) /\ w.things \in [Tiles -> Seq(Things)] /\ h.last \in Nat
  BY <1>1, PartsOf DEF Calls
<1>9. v.jobs = q
  OBVIOUS
<1>. HIDE DEF q, r, c
<1>3. /\ q # <<>> /\ FillCalls(q) = FillCalls(r) \cup {g} /\ Pend(q, c) = Pend(r, c)
      /\ (FillCalls(r) = {} => OneFill(q) /\ InTurn(q, c))
  <2>0. TopAdds(q, g, r, c)
    BY <1>1, <1>2, <1>7, OnTop, Zenon
  <2>1. q # <<>> /\ FillCalls(q) = FillCalls(r) \cup {g}
    BY <1>2, <2>0 DEF TopAdds
  <2>2. Pend(q, c) = Pend(r, c)
    <3>1. Pend(q, c) = Pend(r, c) \cup (IF Waits(g, c) THEN {g.item} ELSE {})
      BY <2>0, Zenon DEF TopAdds
    <3>. QED BY <1>2, <3>1, Zenon
  <2>3. (OneFill(q) <=> OneFill(r) /\ FillCalls(r) = {}) /\ (InTurn(q, c) <=> InTurn(r, c))
    BY <1>2, <2>0 DEF TopAdds
  <2>4. FillCalls(r) = {} => OneFill(r) /\ InTurn(r, c)
    BY NoFills
  <2>. QED BY <2>1, <2>2, <2>3, <2>4
<1>4. Placed(v) /\ Settled(v)
  BY <1>1 DEF Placed, Settled, OnTile
<1>5. CASE w.disturbed
  BY <1>3, <1>4, <1>5, <1>9 DEF StepSound, Cached
<1>6. CASE ~w.disturbed
  <2>1. /\ c \in Tiles /\ Once(w.cache) /\ Kept(w) \subseteq OnTile(w, c) /\ FillCalls(r) = {}
        /\ h.tile = c /\ h.last = Len(s) /\ w.skipped \in {NoItem, h.item} /\ Half(w, i)
    BY <1>1, <1>6 DEF FillsUp, c
  <2>2. s \in Seq(Things) /\ IsInjective(s) /\ x = s[i + 1]
    BY <1>1, <1>8, <2>1, Zenon DEF Placed, c
  <2>3. /\ Owed(v) = Owed(w) /\ OnTile(v, c) = OnTile(w, c) /\ OnTile(w, c) = ToSet(s)
        /\ v.cacheTile = c /\ w.cacheTile = c /\ v.things[c] = s /\ w.things[c] = s
    BY Zenon DEF Owed, OnTile, c
  <2>14. Owed(w) \subseteq TileItems
    BY DEF Owed
  <2>15. i + 1 \in DOMAIN s /\ ~(i + 1 <= i)
    BY <1>2, <1>8, <2>1, <2>2
  <2>. HIDE DEF c, s, i
  <2>4. x \notin Kept(w)
    BY <2>1, <2>2, <2>3, <2>15 DEF Half
  <2>5. x \in ToSet(s)
    BY <2>2, <2>15, Zenon DEF ToSet
  <2>6. /\ Once(v.cache) /\ Kept(w) \subseteq Kept(v) /\ Kept(v) \subseteq Kept(w) \cup {x}
        /\ x \in Owed(w) => x = v.skipped \/ x \in Kept(v)
    <3>1. CASE IsEnd(v.cache, w.cache, x) /\ x \in TileItems
      <4>1. x # NoItem
        BY <3>1, ThingsAre
      <4>2. x \notin ToSet(w.cache)
        BY <2>4, <4>1, Zenon DEF Kept
      <4>4. HasOneMore(v.cache, w.cache, x)
        BY <1>8, <3>1, Appended, Zenon
      <4>3. ToSet(v.cache) = ToSet(w.cache) \cup {x} /\ Once(v.cache)
        BY <2>1, <4>2, <4>4, Zenon DEF HasOneMore
      <4>. QED BY <4>1, <4>3, Zenon DEF Kept
    <3>2. CASE v.cache = w.cache /\ ~(IsEnd(v.cache, w.cache, x) /\ x \in TileItems)
      <4>1. Kept(v) = Kept(w)
        BY <3>2 DEF Kept
      <4>2. x \in Owed(w) => x = v.skipped
        BY <1>6, <2>14, <3>2
      <4>. QED BY <2>1, <3>2, <4>1, <4>2, Zenon
    <3>. QED BY <3>1, <3>2, Zenon
  <2>7. \A y \in Owed(w) : y # v.skipped => y # w.skipped
    BY <2>1, <2>14, ThingsAre
  <2>8. Half(v, i + 1)
    <3>. SUFFICES ASSUME NEW n \in DOMAIN s, NEW y, y = s[n]
                  PROVE  /\ n <= i + 1 /\ y \in Owed(w) /\ y # v.skipped => y \in Kept(v)
                         /\ y \in Kept(v) => n <= i + 1
      BY <2>3 DEF Half
    <3>0. n \in Nat /\ i \in Nat
      BY <1>2, <2>2, SMTT(30) DEF i
    <3>1. ASSUME n <= i + 1, y \in Owed(w), y # v.skipped PROVE y \in Kept(v)
      <4>1. CASE n <= i
        <5>1. y \in Kept(w)
          BY <2>1, <2>3, <2>7, <3>1, <4>1 DEF Half
        <5>. QED BY <2>6, <5>1, Zenon
      <4>2. CASE n = i + 1
        BY <2>2, <2>6, <3>1, <4>2, Zenon
      <4>. QED BY <3>0, <3>1, <4>1, <4>2, SMTT(30)
    <3>2. ASSUME y \in Kept(v) PROVE n <= i + 1
      <4>1. CASE y \in Kept(w)
        <5>1. n <= i
          BY <2>1, <2>3, <4>1 DEF Half
        <5>. QED BY <3>0, <5>1
      <4>2. CASE y = x
        <5>1. s[n] = s[i + 1]
          BY <2>2, <4>2
        <5>2. n = i + 1
          BY <2>2, <2>15, <5>1, Zenon DEF IsInjective
        <5>. QED BY <3>0, <5>2
      <4>. QED BY <2>6, <3>2, <4>1, <4>2, Zenon
    <3>. QED BY <3>1, <3>2
  <2>9. FillsUp(v, g)
    <3>1. g.i = i + 1 /\ g.tile = c /\ g.last = Len(s) /\ i + 1 <= Len(s)
      <4>1. i \in Nat /\ i < h.last /\ g.i = i + 1
        BY <1>2 DEF i
      <4>. QED BY <1>2, <1>8, <2>1, <4>1
    <3>2. v.skipped \in {NoItem, g.item}
      BY <1>2, <2>1, Zenon
    <3>. QED BY <2>3, <2>8, <3>1, <3>2 DEF FillsUp
  <2>10. Kept(v) \subseteq OnTile(v, c)
    BY <2>1, <2>3, <2>5, <2>6, Zenon
  <2>11. FillCalls(v.jobs) = {g} /\ OneFill(v.jobs) /\ InTurn(v.jobs, c)
    BY <1>3, <1>9, <2>1, Zenon DEF c
  <2>12. Filled(v)
    BY <2>1, <2>3, <2>6, <2>9, <2>10, <2>11, Zenon DEF Filled
  <2>. QED BY <1>3, <1>4, <1>9, <2>12 DEF StepSound, Cached
<1>. QED BY <1>5, <1>6

\* Turn, of a loop that fills the cache.
LEMMA TurnOf ==
  ASSUME NEW u \in StepWorlds, u.jobs # <<>>, NEW h, h = Head(u.jobs), h.do = "fill", NEW v, v = Turn(u)
  PROVE  /\ v \in StepWorlds /\ v.things = u.things /\ v.kind = u.kind /\ v.cacheTile = u.cacheTile
         /\ v.cache = u.cache /\ v.skipped = u.skipped /\ v.danger = u.danger /\ v.disturbed = u.disturbed
         /\ \E g \in Calls : /\ g.do = "fill" /\ g.tile = h.tile /\ g.item = h.item /\ g.last = h.last
                             /\ g.i = h.i + 1 /\ OnTopOf(v.jobs, g, Tail(u.jobs))
<1>. DEFINE g == [h EXCEPT !.i = h.i + 1]
            q == [u.jobs EXCEPT ![1] = g]
            r == Tail(u.jobs)
<1>1. IsStack(u.jobs) /\ u.jobs \in Seq(Calls)
  BY PartsOf
<1>2. h \in Calls /\ h = u.jobs[1] /\ 1 \in DOMAIN u.jobs /\ IsStack(r) /\ OnTopOf(q, g, r)
  BY <1>1, TopOf
<1>3. /\ g \in Calls /\ g.do = "fill" /\ g.tile = h.tile /\ g.item = h.item /\ g.last = h.last
      /\ g.i = h.i + 1
  BY <1>2 DEF Calls
<1>4. v = WithCalls(u, q)
  BY <1>1, <1>2 DEF Turn, WithCalls, StepWorlds
<1>. HIDE DEF g, q, r
<1>5. IsStack(q)
  BY <1>2, <1>3, OnTop DEF TopAdds
<1>6. /\ v \in StepWorlds /\ v.jobs = q /\ v.things = u.things /\ v.kind = u.kind
      /\ v.cacheTile = u.cacheTile /\ v.cache = u.cache /\ v.skipped = u.skipped
      /\ v.danger = u.danger /\ v.disturbed = u.disturbed
  BY <1>4, <1>5, OtherCalls
<1>. QED BY <1>2, <1>3, <1>6 DEF r

\* A world of which another item is passed over.
WithSkipped(w, x) == [w EXCEPT !.skipped = x]

\* Another item is passed over.
LEMMA OtherSkipped ==
  ASSUME NEW w \in StepWorlds, NEW x \in Things, NEW v, v = WithSkipped(w, x)
  PROVE  /\ v \in StepWorlds /\ v.skipped = x /\ v.jobs = w.jobs
         /\ v.things = w.things /\ v.kind = w.kind /\ v.cacheTile = w.cacheTile /\ v.cache = w.cache
         /\ v.danger = w.danger /\ v.disturbed = w.disturbed
BY DEF StepWorlds, WithSkipped

\* A world with one more entry in its cache.
WithEnd(w, x) == [w EXCEPT !.cache = Append(w.cache, x)]

\* One more entry, and otherwise the same world.
LEMMA OtherEnd ==
  ASSUME NEW w \in StepWorlds, NEW x \in TileItems, NEW v, v = WithEnd(w, x)
  PROVE  /\ v \in StepWorlds /\ IsEnd(v.cache, w.cache, x) /\ v.jobs = w.jobs
         /\ v.things = w.things /\ v.kind = w.kind /\ v.cacheTile = w.cacheTile /\ v.skipped = w.skipped
         /\ v.danger = w.danger /\ v.disturbed = w.disturbed
<1>. DEFINE q == Append(w.cache, x)
<1>1. IsEnd(q, w.cache, x) /\ w.cache \in Seq(TileItems \cup {NoItem})
  BY PartsOf DEF IsEnd
<1>2. v = WithCache(w, q)
  BY DEF WithEnd, WithCache
<1>. HIDE DEF q
<1>3. q \in Seq(TileItems \cup {NoItem})
  BY <1>1, Appended, Zenon DEF HasOneMore
<1>4. /\ v \in StepWorlds /\ v.cache = q /\ v.jobs = w.jobs
      /\ v.things = w.things /\ v.kind = w.kind /\ v.cacheTile = w.cacheTile /\ v.skipped = w.skipped
      /\ v.danger = w.danger /\ v.disturbed = w.disturbed
  BY <1>2, <1>3, OtherCache, SMTT(30)
<1>. QED BY <1>1, <1>4

\* What one turn of the filling loop may do: pass over what is no item or has no
\* event, or is the item that comes; or keep an item.
LEMMA FillSteps ==
  ASSUME NEW w, StepSound(w), w.jobs # <<>>, NEW h, h = Head(w.jobs), h.do = "fill", h.i < h.last,
         NEW x, x = w.things[h.tile][h.i + 1],
         NEW u \in StepWorlds, u.things = w.things, u.kind = w.kind, u.cacheTile = w.cacheTile,
         u.disturbed = w.disturbed, u.danger = w.danger, u.jobs = w.jobs,
         u.skipped \in {w.skipped, h.item},
         u.cache = w.cache \/ (x \in TileItems /\ IsEnd(u.cache, w.cache, x)),
         ~w.disturbed /\ x \in Owed(w) => x = u.skipped \/ IsEnd(u.cache, w.cache, x),
         NEW v, v = Turn(u)
  PROVE  StepSound(v) /\ v.jobs # <<>>
<1>0. ~u.danger
  BY DEF StepSound
<1>1. /\ v \in StepWorlds /\ v.things = w.things /\ v.kind = w.kind /\ v.cacheTile = w.cacheTile
      /\ v.cache = u.cache /\ v.skipped = u.skipped /\ ~v.danger /\ v.disturbed = w.disturbed
  BY <1>0, TurnOf
<1>2. \E g \in Calls : /\ g.do = "fill" /\ g.tile = h.tile /\ g.item = h.item /\ g.last = h.last
                       /\ g.i = h.i + 1 /\ OnTopOf(v.jobs, g, Tail(w.jobs))
  <2>1. u.jobs # <<>> /\ h = Head(u.jobs)
    OBVIOUS
  <2>2. \E g \in Calls : /\ g.do = "fill" /\ g.tile = h.tile /\ g.item = h.item /\ g.last = h.last
                         /\ g.i = h.i + 1 /\ OnTopOf(v.jobs, g, Tail(u.jobs))
    BY <2>1, TurnOf
  <2>. QED BY <2>2
<1>3. PICK g \in Calls : /\ g.do = "fill" /\ g.tile = h.tile /\ g.item = h.item /\ g.last = h.last
                         /\ g.i = h.i + 1 /\ OnTopOf(v.jobs, g, Tail(w.jobs))
  BY <1>2
<1>4. v.cache = w.cache \/ (x \in TileItems /\ IsEnd(v.cache, w.cache, x))
  BY <1>1
<1>5. ~w.disturbed /\ x \in Owed(w) => x = v.skipped \/ IsEnd(v.cache, w.cache, x)
  BY <1>1
<1>6. v.skipped \in {w.skipped, h.item}
  BY <1>1
<1>. QED BY <1>1, <1>3, <1>4, <1>5, <1>6, FillGoesOn

\* The world that the variables say.
LEMMA StepIs ==
  ASSUME NEW w, w = Step
  PROVE  /\ w.things = things /\ w.kind = kind /\ w.cacheTile = cacheTile /\ w.cache = cache
         /\ w.jobs = jobs /\ w.scripts = scripts /\ w.disturbed = disturbed /\ w.skipped = skipped
         /\ w.danger = danger
BY DEF Step

\* FillTurn: the cache stays as complete as the loop has come.
LEMMA FillTurnSound ==
  ASSUME StepSound(Step), jobs # <<>>, Top.do = "fill", FillTurn
  PROVE  \E v : StepSound(v) /\ StepBecomes(v)
<1>. DEFINE w == Step
            h == Head(w.jobs)
            s == w.things[h.tile]
            x == s[h.i + 1]
            kept == WithEnd(w, x)
            past == WithSkipped(w, x)
<1>1. /\ w.things = things /\ w.kind = kind /\ w.cacheTile = cacheTile /\ w.cache = cache
      /\ w.jobs = jobs /\ Top = h /\ StepSound(w)
  BY StepIs DEF Top
<1>2. PICK v : /\ StepBecomes(v)
               /\ \/ h.i >= h.last /\ v = Pop(w)
                  \/ ~(h.i >= h.last) /\ (h.i >= Len(s) \/ x \notin TileItems) /\ v = Turn(w)
                  \/ ~(h.i >= h.last) /\ ~(h.i >= Len(s) \/ x \notin TileItems)
                     /\ x = h.item /\ v = Turn(past)
                  \/ ~(h.i >= h.last) /\ ~(h.i >= Len(s) \/ x \notin TileItems) /\ v \in Runs(Turn(kept))
                  \/ ~(h.i >= h.last) /\ ~(h.i >= Len(s) \/ x \notin TileItems) /\ v = Turn(kept)
                  \/ ~(h.i >= h.last) /\ ~(h.i >= Len(s) \/ x \notin TileItems)
                     /\ ~HasTileEvent(w, x) /\ v = Turn(w)
  BY <1>1 DEF FillTurn, Fire, WithEnd, WithSkipped
<1>. HIDE DEF w
<1>3. /\ w \in StepWorlds /\ h \in Calls /\ w.jobs # <<>> /\ h.do = "fill" /\ h.i \in Nat /\ h.last \in Nat
      /\ h.tile \in Tiles /\ w.things \in [Tiles -> Seq(Things)]
      /\ ~w.disturbed => FillsUp(w, h)
  <2>1. w \in StepWorlds /\ h \in Calls /\ (~w.disturbed => FillsUp(w, h))
    BY <1>1, FillOnTop
  <2>. QED BY <1>1, <2>1, PartsOf DEF Calls
<1>4. Owed(w) \subseteq TileItems /\ Owed(w) \subseteq {y \in TileItems : HasTileEvent(w, y)}
  BY DEF Owed, HasTileEvent
<1>5. ~w.disturbed /\ h.i < h.last => ~(h.i >= Len(s))
  <2>1. Len(s) \in Nat
    BY <1>3
  <2>. QED BY <1>3, <2>1, SMTT(30) DEF FillsUp
<1>6. past.skipped = x /\ (x \in TileItems => past \in StepWorlds /\ kept \in StepWorlds)
  <2>1. x \in TileItems => past \in StepWorlds /\ kept \in StepWorlds
    <3>. HIDE DEF x, past, kept
    <3>1. x \in TileItems => x \in Things
      BY ThingsAre
    <3>2. x \in TileItems => past \in StepWorlds
      BY <1>3, <3>1, OtherSkipped DEF past
    <3>3. x \in TileItems => kept \in StepWorlds
      BY <1>3, OtherEnd DEF kept
    <3>. QED BY <3>2, <3>3
  <2>2. past.skipped = x
    BY <1>3 DEF WithSkipped, StepWorlds
  <2>. QED BY <2>1, <2>2
<1>. HIDE DEF h, s, x, kept, past
<1>7. h = Head(w.jobs) /\ x = w.things[h.tile][h.i + 1]
  BY DEF h, s, x
<1>8. CASE h.i >= h.last /\ v = Pop(w)
  BY <1>1, <1>2, <1>3, <1>7, <1>8, FillEnds
<1>9. CASE ~(h.i >= h.last)
  <2>1. h.i < h.last
    BY <1>3, <1>9
  <2>2. ASSUME NEW u \in StepWorlds, u.things = w.things, u.kind = w.kind, u.cacheTile = w.cacheTile,
               u.disturbed = w.disturbed, u.danger = w.danger, u.jobs = w.jobs,
               u.skipped \in {w.skipped, h.item},
               u.cache = w.cache \/ (x \in TileItems /\ IsEnd(u.cache, w.cache, x)),
               ~w.disturbed /\ x \in Owed(w) => x = u.skipped \/ IsEnd(u.cache, w.cache, x)
        PROVE  StepSound(Turn(u)) /\ Turn(u).jobs # <<>>
    BY <1>1, <1>3, <1>7, <2>1, <2>2, FillSteps
  <2>3. CASE (h.i >= Len(s) \/ x \notin TileItems) /\ v = Turn(w)
    <3>1. ~w.disturbed => x \notin Owed(w)
      BY <1>4, <1>5, <2>1, <2>3
    <3>. QED BY <1>2, <1>3, <2>2, <2>3, <3>1
  <2>4. CASE x \in TileItems /\ ~HasTileEvent(w, x) /\ v = Turn(w)
    <3>1. x \notin Owed(w)
      BY <1>4, <2>4
    <3>. QED BY <1>2, <1>3, <2>2, <2>4, <3>1
  <2>5. CASE x \in TileItems /\ x = h.item /\ v = Turn(past)
    <3>1. /\ past.things = w.things /\ past.kind = w.kind /\ past.cacheTile = w.cacheTile
          /\ past.disturbed = w.disturbed /\ past.danger = w.danger /\ past.jobs = w.jobs
          /\ past.cache = w.cache
      <4>1. x \in Things
        BY <2>5, ThingsAre
      <4>. QED BY <1>3, <4>1, OtherSkipped DEF past
    <3>2. StepSound(Turn(past))
      BY <1>6, <2>2, <2>5, <3>1
    <3>. QED BY <1>2, <2>5, <3>2
  <2>6. ASSUME x \in TileItems PROVE StepSound(Turn(kept)) /\ Turn(kept).jobs # <<>>
    <3>1. /\ kept.things = w.things /\ kept.kind = w.kind /\ kept.cacheTile = w.cacheTile
          /\ kept.disturbed = w.disturbed /\ kept.danger = w.danger /\ kept.jobs = w.jobs
          /\ kept.skipped = w.skipped /\ IsEnd(kept.cache, w.cache, x)
      BY <1>3, <2>6, OtherEnd DEF kept
    <3>. QED BY <1>6, <2>2, <2>6, <3>1
  <2>7. CASE x \in TileItems /\ v = Turn(kept)
    BY <1>2, <2>6, <2>7
  <2>8. CASE x \in TileItems /\ v \in Runs(Turn(kept))
    <3>1. StepSound(v)
      BY <2>6, <2>8, RunsSound
    <3>. QED BY <1>2, <3>1
  <2>. QED BY <1>2, <1>9, <2>3, <2>4, <2>5, <2>7, <2>8
<1>. QED BY <1>2, <1>8, <1>9

\* What an undisturbed cache has was not freed.
LEMMA LiveNotFreed ==
  ASSUME NEW w, StepSound(w), ~w.disturbed, NEW k \in DOMAIN w.cache, NEW x, x = w.cache[k], x # NoItem
  PROVE  w.kind[x] # "freed"
<1>1. w \in StepWorlds /\ Cached(w) /\ Settled(w)
  BY DEF StepSound
<1>2. x \in Kept(w)
  BY DEF Kept, ToSet
<1>3. x \in TileItems
  BY <1>1, <1>2, LiveAreItems
<1>4. w.cache # <<>>
  <2>. SUFFICES ASSUME w.cache = <<>> PROVE FALSE
    OBVIOUS
  <2>1. DOMAIN w.cache = {}
    OBVIOUS
  <2>. QED BY <2>1
<1>5. w.cacheTile \in Tiles /\ x \in OnTile(w, w.cacheTile)
  BY <1>1, <1>2, <1>4 DEF Cached, Unfilled, Filled
<1>. QED BY <1>1, <1>3, <1>5 DEF Settled

\* A world of which danger is told or not.
WithDanger(w, e) == [w EXCEPT !.danger = e]

\* UseTurn: an item of the cache is asked, and runs its script or not.
LEMMA UseTurnSound ==
  ASSUME StepSound(Step), jobs # <<>>, Top.do = "use", UseTurn
  PROVE  \E v : StepSound(v) /\ StepBecomes(v)
<1>. DEFINE w == Step
            h == Head(w.jobs)
            x == w.cache[h.i + 1]
            e == w.danger \/ (w.kind[x] = "freed" /\ ~w.disturbed)
<1>1. /\ w.things = things /\ w.kind = kind /\ w.cacheTile = cacheTile /\ w.cache = cache
      /\ w.jobs = jobs /\ Top = h /\ StepSound(w) /\ w.danger = danger /\ w.disturbed = disturbed
  BY StepIs DEF Top
<1>2. PICK v : /\ StepBecomes(v)
               /\ \/ v = Pop(w)
                  \/ v = Turn(w)
                  \/ v \in Runs(Turn(w))
                  \/ ~(h.i >= Len(w.cache)) /\ x # NoItem /\ v = Turn(WithDanger(w, e))
  BY <1>1 DEF UseTurn, Fire, WithDanger
<1>. HIDE DEF w
<1>3. w \in StepWorlds /\ w.jobs # <<>> /\ h.do = "use" /\ Plain(h) /\ ~w.danger
  BY <1>1 DEF Plain, IsFill, StepSound
<1>4. StepSound(Turn(w)) /\ Turn(w).jobs # <<>>
  <2>. HIDE DEF h
  <2>. QED BY <1>1, <1>3, Turned DEF h
<1>5. CASE v = Pop(w)
  BY <1>1, <1>2, <1>3, <1>5, Popped
<1>6. CASE v = Turn(w)
  BY <1>2, <1>4, <1>6
<1>7. CASE v \in Runs(Turn(w))
  <2>1. StepSound(v)
    BY <1>4, <1>7, RunsSound
  <2>. QED BY <1>2, <2>1
<1>8. CASE ~(h.i >= Len(w.cache)) /\ x # NoItem /\ v = Turn(WithDanger(w, e))
  <2>1. e \in BOOLEAN
    BY DEF e
  <2>2. h.i + 1 \in DOMAIN w.cache
    <3>1. h \in Calls
      BY <1>3, PartsOf, TopOf
    <3>2. h.i \in Nat
      BY <3>1 DEF Calls
    <3>3. w.cache \in Seq(TileItems \cup {NoItem})
      BY <1>3, PartsOf
    <3>. HIDE DEF h
    <3>4. Len(w.cache) \in Nat /\ DOMAIN w.cache = 1..Len(w.cache)
      BY <3>3
    <3>. QED BY <1>8, <3>2, <3>4
  <2>3. ~w.disturbed => w.kind[x] # "freed"
    BY <1>1, <1>8, <2>2, LiveNotFreed
  <2>4. ~e
    BY <1>3, <2>3 DEF e
  <2>. HIDE DEF e
  <2>5. e = FALSE /\ w.danger = FALSE
    <3>1. w.danger \in BOOLEAN
      BY <1>3, PartsOf
    <3>. QED BY <1>3, <2>1, <2>4, <3>1
  <2>6. WithDanger(w, e) = w
    BY <1>3, <2>5 DEF WithDanger, StepWorlds
  <2>. QED BY <1>2, <1>4, <1>8, <2>6
<1>. QED BY <1>2, <1>5, <1>6, <1>7, <1>8

\* The call on top begins its loop.
Starts(w) == [w EXCEPT !.jobs[1].do = "start"]

\* The event of the item itself, and then the loop, unless a script has put other
\* calls on top.
LEMMA AskSound ==
  ASSUME NEW w, StepSound(w), w.jobs # <<>>, Head(w.jobs).do = "ask", NEW u, u \in Runs(Starts(w)),
         NEW v, v = IF u.jobs[1].do = "start" THEN StartLoop(u) ELSE u
  PROVE  StepSound(v)
<1>. DEFINE h == Head(w.jobs)
            j == [h EXCEPT !.do = "start"]
<1>1. w \in StepWorlds /\ IsStack(w.jobs)
  BY PartsOf DEF StepSound
<1>2. h \in Calls /\ h = w.jobs[1] /\ 1 \in DOMAIN w.jobs
  BY <1>1, TopOf
<1>3. j \in Calls /\ Plain(j) /\ Plain(h)
  BY <1>2 DEF Calls, Plain, IsFill
<1>4. Starts(w) = WithCalls(w, [w.jobs EXCEPT ![1] = j])
  BY <1>1, <1>2 DEF Starts, WithCalls, StepWorlds
<1>. HIDE DEF j, h
<1>5. StepSound(Starts(w)) /\ Starts(w).jobs # <<>>
  BY <1>3, <1>4, Retopped DEF h
<1>6. StepSound(u) /\ u.jobs # <<>>
  BY <1>5, RunsSound
<1>7. Head(u.jobs) = u.jobs[1]
  BY <1>6, PartsOf, TopOf DEF StepSound
<1>8. CASE u.jobs[1].do = "start"
  BY <1>6, <1>7, <1>8, StartSound
<1>9. CASE u.jobs[1].do # "start"
  BY <1>6, <1>9
<1>. QED BY <1>8, <1>9

\* Work: the call on top goes on.
LEMMA WorkSound ==
  ASSUME StepSound(Step), Work
  PROVE  \E v : StepSound(v) /\ StepBecomes(v)
<1>. DEFINE w == Step
            h == Head(w.jobs)
            b == OnAddTileItem(Asks(w), h.tile, h.item)
            e == b.disturbed \/ (b.cache # w.cache /\ TileOf(w, h.item) # h.tile)
<1>1. /\ w.cache = cache /\ w.jobs = jobs /\ Top = h /\ StepSound(w) /\ w.jobs # <<>>
  BY StepIs DEF Top, Work
<1>2. \/ h.do = "ask" /\ \E u \in Runs(Starts(w)) :
                           StepBecomes(IF u.jobs[1].do = "start" THEN StartLoop(u) ELSE u)
      \/ h.do = "start" /\ StepBecomes(StartLoop(w))
      \/ h.do = "came" /\ StepBecomes(WithDisturbed(b, e))
      \/ h.do = "change" /\ StepBecomes(
           IF TileOf(w, h.item) # h.tile THEN Pop(w)
           ELSE OnAddTileItem(Renews(w, h.item, h.of), h.tile, h.item))
      \/ h.do = "use" /\ UseTurn
      \/ h.do = "fill" /\ FillTurn
  BY <1>1 DEF Work, Starts, Asks, WithDisturbed, Renews
<1>3. CASE h.do = "use" /\ UseTurn
  BY <1>1, <1>3, UseTurnSound
<1>4. CASE h.do = "fill" /\ FillTurn
  BY <1>1, <1>4, FillTurnSound
<1>5. e \in BOOLEAN
  BY DEF e
<1>. HIDE DEF w, h, b, e
<1>6. h = Head(w.jobs) /\ b = OnAddTileItem(Asks(w), h.tile, h.item)
      /\ (e <=> b.disturbed \/ (b.cache # w.cache /\ TileOf(w, h.item) # h.tile))
  BY DEF h, b, e
<1>7. ASSUME h.do = "ask", NEW u \in Runs(Starts(w)),
             StepBecomes(IF u.jobs[1].do = "start" THEN StartLoop(u) ELSE u)
      PROVE  \E v : StepSound(v) /\ StepBecomes(v)
  <2>. DEFINE v == IF u.jobs[1].do = "start" THEN StartLoop(u) ELSE u
  <2>1. StepBecomes(v)
    BY <1>7
  <2>2. v = IF u.jobs[1].do = "start" THEN StartLoop(u) ELSE u
    OBVIOUS
  <2>. HIDE DEF v
  <2>3. StepSound(v)
    BY <1>1, <1>6, <1>7, <2>2, AskSound
  <2>. QED BY <2>1, <2>3
<1>8. CASE h.do = "start" /\ StepBecomes(StartLoop(w))
  <2>1. StepSound(StartLoop(w))
    BY <1>1, <1>6, <1>8, StartSound
  <2>. QED BY <1>8, <2>1
<1>9. CASE h.do = "came" /\ StepBecomes(WithDisturbed(b, e))
  <2>1. StepSound(WithDisturbed(b, e))
    BY <1>1, <1>5, <1>6, <1>9, CameSound
  <2>. QED BY <1>9, <2>1
<1>10. CASE h.do = "change" /\ TileOf(w, h.item) # h.tile /\ StepBecomes(Pop(w))
  <2>1. StepSound(Pop(w))
    BY <1>1, <1>6, <1>10, NotChanged
  <2>. QED BY <1>10, <2>1
<1>11. CASE h.do = "change" /\ TileOf(w, h.item) = h.tile
            /\ StepBecomes(OnAddTileItem(Renews(w, h.item, h.of), h.tile, h.item))
  <2>. DEFINE v == OnAddTileItem(Renews(w, h.item, h.of), h.tile, h.item)
  <2>0. v = OnAddTileItem(Renews(w, h.item, h.of), h.tile, h.item) /\ StepBecomes(v)
    BY <1>11
  <2>. HIDE DEF v
  <2>1. StepSound(v)
    BY <1>1, <1>6, <1>11, <2>0, ChangeSound
  <2>. QED BY <2>0, <2>1
<1>. QED BY <1>2, <1>3, <1>4, <1>7, <1>8, <1>9, <1>10, <1>11

\* The kinds of what lies on no tile are no matter.
LEMMA KindsSound ==
  ASSUME NEW w, StepSound(w), NEW K \in [TileItems -> {"step", "tile", "none", "freed"}],
         \A t \in Tiles : \A x \in OnTile(w, t) \cap TileItems : K[x] = w.kind[x],
         NEW v, v = WithKinds(w, K)
  PROVE  StepSound(v) /\ v.kind = K /\ v.things = w.things
<1>1. w \in StepWorlds /\ Placed(w) /\ Settled(w) /\ Cached(w) /\ ~w.danger
  BY DEF StepSound
<1>2. /\ v \in StepWorlds /\ v.kind = K
      /\ v.things = w.things /\ v.jobs = w.jobs /\ v.cacheTile = w.cacheTile /\ v.cache = w.cache
      /\ v.skipped = w.skipped /\ v.danger = w.danger /\ v.disturbed = w.disturbed
  BY <1>1, OtherKinds
<1>3. \A t : OnTile(v, t) = OnTile(w, t)
  BY <1>2 DEF OnTile
<1>4. Placed(v)
  BY <1>1, <1>2, <1>3 DEF Placed
<1>5. Settled(v)
  BY <1>1, <1>2, <1>3 DEF Settled
<1>6. Kept(v) = Kept(w)
  BY <1>2 DEF Kept
<1>7. CASE w.disturbed \/ Unfilled(w)
  <2>1. Cached(v)
    BY <1>2, <1>7 DEF Cached, Unfilled
  <2>. QED BY <1>1, <1>2, <1>4, <1>5, <2>1 DEF StepSound
<1>8. CASE Filled(w)
  <2>1. w.cacheTile \in Tiles
    BY <1>8 DEF Filled
  <2>2. Owed(v) = Owed(w)
    BY <1>2, <1>3, <2>1 DEF Owed
  <2>3. \A f : FillsUp(w, f) => FillsUp(v, f)
    BY <1>2, <1>6, <2>2, SameFills
  <2>4. OnTile(v, w.cacheTile) = OnTile(w, w.cacheTile)
    BY <1>3
  <2>5. Filled(v)
    BY <1>2, <1>6, <1>8, <2>2, <2>3, <2>4 DEF Filled
  <2>. QED BY <1>1, <1>2, <1>4, <1>5, <2>5 DEF StepSound, Cached
<1>. QED BY <1>1, <1>7, <1>8 DEF Cached

\* What lies nowhere is freed.
LEMMA FreedSound ==
  ASSUME StepSound(Step), NEW f, f = Freed
  PROVE  StepSound(f) /\ \A t : OnTile(f, t) = OnTile(Step, t)
<1>. DEFINE w == Step
            K == [x \in TileItems |-> IF TileOf(w, x) = NoTile THEN "freed" ELSE w.kind[x]]
            m == WithKinds(w, K)
<1>1. w \in StepWorlds /\ StepSound(w)
  BY DEF StepSound
<1>2. f = [m EXCEPT !.scripts = 0]
  <2>1. f = [w EXCEPT !.kind = K, !.scripts = 0]
    BY DEF Freed, Step
  <2>. QED BY <1>1, <2>1 DEF WithKinds, StepWorlds
<1>. HIDE DEF w
<1>3. w.kind \in [TileItems -> {"step", "tile", "none", "freed"}]
  BY <1>1, PartsOf
<1>4. K \in [TileItems -> {"step", "tile", "none", "freed"}]
  BY <1>3
<1>5. \A t \in Tiles : \A x \in OnTile(w, t) \cap TileItems : K[x] = w.kind[x]
  <2>. SUFFICES ASSUME NEW t \in Tiles, NEW x \in OnTile(w, t) \cap TileItems PROVE K[x] = w.kind[x]
    OBVIOUS
  <2>1. TileOf(w, x) # NoTile
    BY <1>1, FoundThere
  <2>. QED BY <2>1
<1>. HIDE DEF K
<1>6. StepSound(m) /\ m.things = w.things
  BY <1>1, <1>4, <1>5, KindsSound
<1>. HIDE DEF m
<1>7. StepSound(f) /\ f.things = w.things
  BY <1>2, <1>6, ScriptsSound DEF SameButCalls
<1>. QED BY <1>7 DEF OnTile, w

\* A new object where there was none.
LEMMA RemadeSound ==
  ASSUME NEW w, StepSound(w), NEW x \in TileItems, \A t \in Tiles : x \notin OnTile(w, t),
         NEW v, v = Remade(w, x)
  PROVE  StepSound(v) /\ v.kind[x] # "freed" /\ \A t : OnTile(v, t) = OnTile(w, t)
<1>. DEFINE K == [w.kind EXCEPT ![x] = FirstKinds[x]]
<1>1. w.kind \in [TileItems -> {"step", "tile", "none", "freed"}]
  BY PartsOf DEF StepSound
<1>2. FirstKinds[x] \in {"step", "tile", "none"}
  BY StepAssumption DEF TileItems
<1>3. K \in [TileItems -> {"step", "tile", "none", "freed"}] /\ K[x] # "freed"
      /\ \A y \in TileItems : y # x => K[y] = w.kind[y]
  BY <1>1, <1>2
<1>4. v = WithKinds(w, K)
  BY DEF Remade, WithKinds
<1>. HIDE DEF K
<1>5. \A t \in Tiles : \A y \in OnTile(w, t) \cap TileItems : K[y] = w.kind[y]
  BY <1>3
<1>6. StepSound(v) /\ v.kind = K /\ v.things = w.things
  BY <1>3, <1>4, <1>5, KindsSound
<1>. QED BY <1>3, <1>6 DEF OnTile

\* Between the tasks, something moves.
LEMMA MoveSound ==
  ASSUME StepSound(Step),
         \/ \E t \in Tiles : WalkerSteps(t)
         \/ \E x \in TileItems, t \in Tiles : ItemThrown(x, t)
         \/ \E x \in TileItems : ItemRemoved(x)
         \/ \E x \in TileItems, t \in Tiles : ItemCreated(x, t)
  PROVE  \E v : StepSound(v) /\ StepBecomes(v)
<1>. DEFINE w == Step
            f == Freed
<1>1. StepSound(f) /\ \A t : OnTile(f, t) = OnTile(w, t)
  BY FreedSound
<1>2. w \in StepWorlds /\ Settled(w)
  BY DEF StepSound
<1>3. ASSUME NEW t \in Tiles, WalkerSteps(t) PROVE \E v : StepSound(v) /\ StepBecomes(v)
  <2>. DEFINE u == TileOf(w, Walker)
              v == CreatureMoves(f, u, t)
  <2>1. t # u /\ StepBecomes(v)
    BY <1>3 DEF WalkerSteps, Quiet
  <2>. HIDE DEF w, f
  <2>2. u \in Tiles /\ Walker \in OnTile(f, u)
    BY <1>1, <1>2, FoundThere DEF Settled
  <2>3. v = CreatureMoves(f, u, t)
    OBVIOUS
  <2>. HIDE DEF v, u
  <2>4. StepSound(v)
    BY <1>1, <2>1, <2>2, <2>3, WalkSound
  <2>. QED BY <2>1, <2>4
<1>4. ASSUME NEW x \in TileItems, NEW t \in Tiles, ItemThrown(x, t)
      PROVE  \E v : StepSound(v) /\ StepBecomes(v)
  <2>. DEFINE u == TileOf(w, x)
              v == ItemMoves(f, u, t, x)
  <2>1. u # NoTile /\ u # t /\ StepBecomes(v)
    BY <1>4 DEF ItemThrown, Quiet
  <2>. HIDE DEF w, f
  <2>2. u \in Tiles /\ x \in OnTile(f, u)
    BY <1>1, <1>2, <2>1, FoundThere
  <2>3. v = ItemMoves(f, u, t, x)
    OBVIOUS
  <2>. HIDE DEF v, u
  <2>4. StepSound(v)
    BY <1>1, <2>1, <2>2, <2>3, MovesSound
  <2>. QED BY <2>1, <2>4
<1>5. ASSUME NEW x \in TileItems, ItemRemoved(x) PROVE \E v : StepSound(v) /\ StepBecomes(v)
  <2>. DEFINE u == TileOf(w, x)
              v == ItemGoes(f, u, x)
  <2>1. u # NoTile /\ StepBecomes(v)
    BY <1>5 DEF ItemRemoved, Quiet
  <2>. HIDE DEF w, f
  <2>2. u \in Tiles /\ x \in OnTile(f, u)
    BY <1>1, <1>2, <2>1, FoundThere
  <2>3. v = ItemGoes(f, u, x)
    OBVIOUS
  <2>. HIDE DEF v, u
  <2>4. StepSound(v)
    BY <1>1, <2>1, <2>2, <2>3, GoesSound
  <2>. QED BY <2>1, <2>4
<1>6. ASSUME NEW x \in TileItems, NEW t \in Tiles, ItemCreated(x, t)
      PROVE  \E v : StepSound(v) /\ StepBecomes(v)
  <2>. DEFINE u == TileOf(w, x)
              m == Remade(f, x)
              v == ItemComes(m, t, x)
  <2>1. u = NoTile /\ StepBecomes(v)
    BY <1>6 DEF ItemCreated, Quiet
  <2>. HIDE DEF w, f
  <2>2. \A s \in Tiles : x \notin OnTile(f, s)
    BY <1>1, <1>2, <2>1, FoundThere
  <2>3. v = ItemComes(m, t, x)
    OBVIOUS
  <2>4. StepSound(m) /\ m.kind[x] # "freed" /\ \A s : OnTile(m, s) = OnTile(f, s)
    BY <1>1, <2>2, RemadeSound
  <2>. HIDE DEF v, u, m
  <2>5. StepSound(v)
    BY <2>2, <2>3, <2>4, ComesSound
  <2>. QED BY <2>1, <2>5
<1>. QED BY <1>3, <1>4, <1>5, <1>6

\* At first the walker stands somewhere and nothing is cached.
LEMMA StepBegins ==
  ASSUME StepInit
  PROVE  StepSound(Step)
<1>. DEFINE w == Step
            o == CHOOSE u \in Tiles : TRUE
<1>1. /\ w.things = things /\ w.kind = kind /\ w.cacheTile = cacheTile /\ w.cache = cache
      /\ w.jobs = jobs /\ w.disturbed = disturbed /\ w.skipped = skipped /\ w.danger = danger
  BY StepIs
<1>2. o \in Tiles
  BY StepAssumption
<1>. HIDE DEF o
<1>3. things = [t \in Tiles |-> IF t = o THEN <<Walker>> ELSE <<>>]
  BY DEF StepInit, o
<1>4. Walker \in Things
  BY ThingsAre
<1>5. <<Walker>> \in Seq(Things) /\ <<>> \in Seq(Things)
  BY <1>4
<1>6. things \in [Tiles -> Seq(Things)]
  BY <1>3, <1>5
<1>7. w \in StepWorlds
  <2>1. kind \in [TileItems -> {"step", "tile", "none", "freed"}]
    <3>1. kind = FirstKinds /\ FirstKinds \in [TileItems -> {"step", "tile", "none"}]
      BY StepAssumption DEF StepInit, TileItems
    <3>. QED BY <3>1
  <2>2. cache \in Seq(TileItems \cup {NoItem}) /\ jobs \in Seq(Calls)
    BY DEF StepInit
  <2>3. scripts \in Nat /\ disturbed \in BOOLEAN /\ skipped \in Things \cup {NoItem} /\ danger \in BOOLEAN
        /\ cacheTile \in Tiles \cup {NoTile}
    BY DEF StepInit
  <2>. QED BY <1>6, <2>1, <2>2, <2>3 DEF StepWorlds, Step
<1>8. \A t \in Tiles : things[t] = IF t = o THEN <<Walker>> ELSE <<>>
  BY <1>3
<1>9. ToSet(<<Walker>>) = {Walker} /\ ToSet(<<>>) = {} /\ IsInjective(<<Walker>>) /\ IsInjective(<<>>)
  BY DEF ToSet, IsInjective
<1>. HIDE DEF w
<1>10. \A t \in Tiles : OnTile(w, t) = (IF t = o THEN {Walker} ELSE {}) /\ IsInjective(w.things[t])
  BY <1>1, <1>8, <1>9 DEF OnTile
<1>11. Placed(w)
  BY <1>10 DEF Placed
<1>12. Settled(w)
  BY <1>2, <1>10, ThingsAre DEF Settled
<1>13. FillCalls(w.jobs) = {}
  <2>1. w.jobs = <<>> /\ DOMAIN <<>> = {}
    BY <1>1 DEF StepInit
  <2>. QED BY <2>1 DEF FillCalls
<1>14. Unfilled(w) /\ ~w.danger
  BY <1>1, <1>13 DEF Unfilled, StepInit
<1>. QED BY <1>7, <1>11, <1>12, <1>14 DEF StepSound, Cached, w

\* What the invariant says between tasks.
LEMMA SoundIsConsistent ==
  ASSUME StepSound(Step)
  PROVE  StepConsistent
<1>. DEFINE w == Step
<1>1. /\ w.things = things /\ w.kind = kind /\ w.cacheTile = cacheTile /\ w.cache = cache
      /\ w.jobs = jobs /\ w.disturbed = disturbed /\ w.skipped = skipped /\ w.danger = danger
  BY StepIs
<1>2. w \in StepWorlds /\ Placed(w) /\ Cached(w) /\ ~w.danger /\ StepSound(w)
  BY DEF StepSound
<1>. HIDE DEF w
<1>3. /\ things \in [Tiles -> Seq(Things)] /\ cacheTile \in Tiles \cup {NoTile}
      /\ cache \in Seq(TileItems \cup {NoItem})
  BY <1>1, <1>2, PartsOf
<1>4. ToSet(cache) \subseteq TileItems \cup {NoItem}
  <2>. HIDE DEF TileItems
  <2>. QED BY <1>3 DEF ToSet
<1>5. ASSUME NEW x \in TileItems
      PROVE  Cardinality({t \in Tiles : Contains(things[t], x)}) <= 1
  <2>. DEFINE P == {t \in Tiles : Contains(things[t], x)}
  <2>1. \A t \in Tiles : Contains(things[t], x) => x \in OnTile(w, t)
    <3>. SUFFICES ASSUME NEW t \in Tiles, Contains(things[t], x) PROVE x \in OnTile(w, t)
      OBVIOUS
    <3>1. things[t] \in Seq(Things)
      BY <1>3
    <3>. QED BY <1>1, <3>1, ContainedIn DEF OnTile
  <2>2. \A t, u \in P : t = u
    BY <1>2, <2>1 DEF Placed
  <2>3. CASE P = {}
    BY <2>3, FS_EmptySet
  <2>4. CASE P # {}
    <3>1. PICK t \in P : TRUE
      BY <2>4
    <3>2. P = {t}
      BY <2>2, <3>1
    <3>. HIDE DEF P
    <3>3. Cardinality(P) = 1
      BY <3>2, FS_Singleton
    <3>. QED BY <3>3 DEF P
  <2>. QED BY <2>3, <2>4
<1>6. CacheExact
  <2>. SUFFICES ASSUME jobs = <<>>, cacheTile # NoTile, ~disturbed
                PROVE  /\ \A j, k \in DOMAIN cache : cache[j] = cache[k] => j = k \/ cache[j] = NoItem
                       /\ {x \in ToSet(things[cacheTile]) \cap TileItems : HasTileEvent(Step, x)} \ {skipped}
                            \subseteq ToSet(cache) \ {NoItem}
                       /\ ToSet(cache) \ {NoItem} \subseteq ToSet(things[cacheTile])
    BY DEF CacheExact
  <2>1. Filled(w)
    BY <1>1, <1>2 DEF Cached, Unfilled
  <2>2. DOMAIN w.jobs = {}
    BY <1>1
  <2>3. FillCalls(w.jobs) = {} /\ Pend(w.jobs, w.cacheTile) = {}
    BY <2>2 DEF FillCalls, Pend
  <2>4. Once(cache) /\ Kept(w) \subseteq OnTile(w, cacheTile) /\ Owed(w) \subseteq Kept(w) \cup {skipped}
    BY <1>1, <2>1, <2>3 DEF Filled
  <2>5. Kept(w) = ToSet(cache) \ {NoItem} /\ OnTile(w, cacheTile) = ToSet(things[cacheTile])
    BY <1>1 DEF Kept, OnTile
  <2>6. Owed(w) = {x \in ToSet(things[cacheTile]) \cap TileItems : HasTileEvent(Step, x)}
    BY <1>1, <2>5, StepIs DEF Owed, HasTileEvent
  <2>. QED BY <2>4, <2>5, <2>6 DEF Once
<1>7. NothingFreedIsAsked
  BY <1>1, <1>2 DEF NothingFreedIsAsked
<1>. QED BY <1>3, <1>4, <1>5, <1>6, <1>7 DEF StepConsistent, StepTypeOK

\* The worlds that are reached are sound.
StepInv == StepSound(Step)

\* Every step leads from a sound world to a sound one.
LEMMA StepInvKept ==
  StepInv /\ [StepNext]_stepVars => StepInv'
<1>. SUFFICES ASSUME StepSound(Step), [StepNext]_stepVars PROVE StepSound(Step')
  BY DEF StepInv
<1>1. CASE UNCHANGED stepVars
  <2>1. Step' = Step
    BY <1>1 DEF stepVars, Step
  <2>. QED BY <2>1
<1>2. CASE StepNext
  <2>1. \E v : StepSound(v) /\ StepBecomes(v)
    BY <1>2, WorkSound, MoveSound DEF StepNext
  <2>2. PICK v : StepSound(v) /\ StepBecomes(v)
    BY <2>1
  <2>3. v \in StepWorlds
    BY <2>2 DEF StepSound
  <2>4. Step' = v
    <3>1. v = [things |-> v.things, kind |-> v.kind, cacheTile |-> v.cacheTile, cache |-> v.cache,
               jobs |-> v.jobs, scripts |-> v.scripts, disturbed |-> v.disturbed,
               skipped |-> v.skipped, danger |-> v.danger]
      BY <2>3 DEF StepWorlds
    <3>. QED BY <2>2, <3>1 DEF StepBecomes, Step
  <2>. QED BY <2>2, <2>4
<1>. QED BY <1>1, <1>2

\* Between tasks the cache of the tile asked last has each item with an event
\* once, and no type of a freed item is looked up, whatever the scripts do.
THEOREM StepAlwaysConsistent == StepSpec => []StepConsistent
<1>1. StepInit => StepInv
  BY StepBegins DEF StepInv
<1>2. StepInv /\ [StepNext]_stepVars => StepInv'
  BY StepInvKept
<1>3. StepInv => StepConsistent
  BY SoundIsConsistent DEF StepInv
<1>. QED BY <1>1, <1>2, <1>3, PTL DEF StepSpec
=============================================================================
