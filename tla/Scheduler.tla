----------------------------- MODULE Scheduler ------------------------------
(***************************************************************************)
(* The scheduler of Source/scheduler.cpp: a thread that waits for the time *)
(* of the earliest event and hands its task to the dispatcher.             *)
(*                                                                         *)
(* Every section under m_eventLock is one step; notify_one() and the read  *)
(* of the event's id that addEvent returns come after the unlock, and are  *)
(* steps of their own.                                                     *)
(***************************************************************************)
EXTENDS Naturals, FiniteSets

CONSTANTS
  Tasks,        (* the SchedulerTask objects of a behaviour                *)
  Callers,      (* the threads that call addEvent and stopEvent            *)
  NoTask,       (* the null SchedulerTask*                                 *)
  Delays,       (* the delays events are created with                      *)
  MinTicks,     (* SCHEDULER_MINTICKS                                      *)
  MaxTime,      (* bound: the clock stops here                             *)
  IdMax         (* the largest event id, 0xFFFFFFFF in the code            *)

ASSUME SchedulerAssumption ==
  /\ NoTask \notin Tasks
  /\ Delays \subseteq Nat \ {0}
  /\ MinTicks \in Nat \ {0}
  /\ MaxTime \in Nat
  /\ IdMax \in Nat \ {0}

VARIABLES
  now,          (* boost::get_system_time()                                *)
  cycle,        (* m_cycle of each task, 0 before it is created            *)
  eventList,    (* m_eventList                                             *)
  eventIds,     (* m_eventIds                                              *)
  lastEventId,  (* m_lastEventId                                           *)
  id,           (* m_eventid of each task, 0 when it has none              *)
  threadState,  (* m_threadState                                           *)
  pc,           (* where the scheduler thread is                           *)
  deadline,     (* the time its timed_wait ends                            *)
  task,         (* the task it has popped, or NoTask                       *)
  call,         (* the addEvent call of each caller: task, place and start *)
  fate          (* what became of each task                                *)

threadVars == <<pc, deadline, task>>
eventVars  == <<eventList, eventIds, lastEventId, id>>
vars == <<now, cycle, eventVars, threadState, threadVars, call, fate>>

ThreadStates == {"RUNNING", "CLOSING", "TERMINATED"}
PCs    == {"top", "lock", "wait", "timed", "woken", "expired", "run", "delete", "end"}
Places == {"add", "notify", "return"}
Fates  == {"new", "created", "pending", "popped", "handed", "ran",
           "stopped", "refused", "lost"}

NoCall == [task |-> NoTask, at |-> "add", since |-> 0]

\* The server may have run for long: the last id given is any.
Init ==
  /\ now = 0
  /\ cycle = [t \in Tasks |-> 0]
  /\ eventList = {}
  /\ eventIds = {}
  /\ lastEventId \in 0..IdMax
  /\ id = [t \in Tasks |-> 0]
  /\ threadState = "RUNNING"
  /\ pc = "top"
  /\ deadline = 0
  /\ task = NoTask
  /\ call = [c \in Callers |-> NoCall]
  /\ fate = [t \in Tasks |-> "new"]

\* The tasks that m_eventList.top() may be.
Earliest == {t \in eventList : \A u \in eventList : cycle[t] <= cycle[u]}

\* Time passes.
Tick ==
  /\ now < MaxTime
  /\ now' = now + 1
  /\ UNCHANGED <<cycle, eventVars, threadState, threadVars, call, fate>>

-----------------------------------------------------------------------------
(* createSchedulerTask and Scheduler::addEvent.                            *)

\* Seeded fault: a delay below SCHEDULER_MINTICKS is kept.
CreateShort(c, t, delay) ==
  /\ call[c] = NoCall
  /\ fate[t] = "new"
  /\ cycle' = [cycle EXCEPT ![t] = now + delay]
  /\ call' = [call EXCEPT ![c] = [task |-> t, at |-> "add", since |-> now]]
  /\ fate' = [fate EXCEPT ![t] = "created"]
  /\ UNCHANGED <<now, eventVars, threadState, threadVars>>

Create(c, t, delay) ==
  /\ call[c] = NoCall
  /\ fate[t] = "new"
  /\ cycle' = [cycle EXCEPT ![t] = now + IF delay < MinTicks THEN MinTicks ELSE delay]
  /\ call' = [call EXCEPT ![c] = [task |-> t, at |-> "add", since |-> now]]
  /\ fate' = [fate EXCEPT ![t] = "created"]
  /\ UNCHANGED <<now, eventVars, threadState, threadVars>>

\* The id counter wraps to 1: 0 means no event.
NextId == IF lastEventId >= IdMax THEN 1 ELSE lastEventId + 1

\* Seeded fault: signals only when the list was empty.
AddEventLateSignal(c) ==
  LET t == call[c].task
  IN /\ t # NoTask
     /\ call[c].at = "add"
     /\ IF threadState = "RUNNING"
          THEN /\ NextId \notin {id[u] : u \in Tasks} \ {0}
               /\ lastEventId' = NextId
               /\ id' = [id EXCEPT ![t] = NextId]
               /\ eventIds' = eventIds \cup {NextId}
               /\ eventList' = eventList \cup {t}
               /\ fate' = [fate EXCEPT ![t] = "pending"]
               /\ call' = [call EXCEPT ![c].at =
                             IF eventList = {} THEN "notify" ELSE "return"]
          ELSE /\ fate' = [fate EXCEPT ![t] = "refused"]
               /\ call' = [call EXCEPT ![c].at = "return"]
               /\ UNCHANGED eventVars
     /\ UNCHANGED <<now, cycle, threadState, threadVars>>

\* The section under m_eventLock.  A new event is the top of the heap only if
\* every other is later.  No id is given again while its event, or anybody
\* who remembers it, is there: 2^32 events do not go by in that time.
AddEvent(c) ==
  LET t == call[c].task
  IN /\ t # NoTask
     /\ call[c].at = "add"
     /\ IF threadState = "RUNNING"
          THEN /\ NextId \notin {id[u] : u \in Tasks} \ {0}
               /\ lastEventId' = NextId
               /\ id' = [id EXCEPT ![t] = NextId]
               /\ eventIds' = eventIds \cup {NextId}
               /\ eventList' = eventList \cup {t}
               /\ fate' = [fate EXCEPT ![t] = "pending"]
               /\ call' = [call EXCEPT ![c].at =
                             IF \A u \in eventList : cycle[t] < cycle[u]
                               THEN "notify" ELSE "return"]
          ELSE /\ fate' = [fate EXCEPT ![t] = "refused"]
               /\ call' = [call EXCEPT ![c].at = "return"]
               /\ UNCHANGED eventVars
     /\ UNCHANGED <<now, cycle, threadState, threadVars>>

\* m_eventSignal.notify_one(): wakes the scheduler thread if it waits.
Notify(c) ==
  /\ call[c].task # NoTask
  /\ call[c].at = "notify"
  /\ pc' = IF pc \in {"wait", "timed"} THEN "woken" ELSE pc
  /\ call' = [call EXCEPT ![c].at = "return"]
  /\ UNCHANGED <<now, cycle, eventVars, threadState, deadline, task, fate>>

\* return task->getEventId()
Return(c) ==
  /\ call[c].task # NoTask
  /\ call[c].at = "return"
  /\ call' = [call EXCEPT ![c] = NoCall]
  /\ UNCHANGED <<now, cycle, eventVars, threadState, threadVars, fate>>

\* Scheduler::stopEvent of an event whose id addEvent has returned.
StopEvent(c, t) ==
  /\ call[c] = NoCall
  /\ id[t] # 0
  /\ \A d \in Callers : call[d].task # t
  /\ eventIds' = eventIds \ {id[t]}
  /\ UNCHANGED <<now, cycle, eventList, lastEventId, id, threadState,
                 threadVars, call, fate>>

\* Scheduler::stop.
Stop(c) ==
  /\ call[c] = NoCall
  /\ threadState = "RUNNING"
  /\ threadState' = "CLOSING"
  /\ UNCHANGED <<now, cycle, eventVars, threadVars, call, fate>>

\* Scheduler::shutdown, after stop: no notify; what is in the list is leaked.
Shutdown(c) ==
  /\ call[c] = NoCall
  /\ threadState = "CLOSING"
  /\ threadState' = "TERMINATED"
  /\ eventList' = {}
  /\ eventIds' = {}
  /\ fate' = [t \in Tasks |-> IF t \notin eventList THEN fate[t]
                              ELSE IF id[t] \in eventIds THEN "lost" ELSE "stopped"]
  /\ UNCHANGED <<now, cycle, lastEventId, id, threadVars, call>>

-----------------------------------------------------------------------------
(* Scheduler::schedulerThread.                                             *)

\* while (m_threadState != STATE_TERMINATED), read without the lock.
LoopTest ==
  /\ pc = "top"
  /\ pc' = IF threadState = "TERMINATED" THEN "end" ELSE "lock"
  /\ UNCHANGED <<now, cycle, eventVars, threadState, deadline, task, call, fate>>

\* lock(); wait for an event, or for the time of the first one.
Wait ==
  /\ pc = "lock"
  /\ IF eventList = {}
       THEN pc' = "wait" /\ UNCHANGED deadline
       ELSE pc' = "timed" /\ \E t \in Earliest : deadline' = cycle[t]
  /\ UNCHANGED <<now, cycle, eventVars, threadState, task, call, fate>>

\* timed_wait gives up; the lock has still to be taken again.
TimeOut ==
  /\ pc = "timed"
  /\ deadline <= now
  /\ pc' = "expired"
  /\ UNCHANGED <<now, cycle, eventVars, threadState, deadline, task, call, fate>>

\* A wait may also return without a reason, until its time is over.
SpuriousWakeup ==
  /\ pc = "wait" \/ (pc = "timed" /\ now < deadline)
  /\ pc' = "woken"
  /\ UNCHANGED <<now, cycle, eventVars, threadState, deadline, task, call, fate>>

\* Seeded fault: a wake-up is taken for a timeout.
WokenPops ==
  /\ pc = "woken"
  /\ pc' = IF eventList = {} THEN "top" ELSE "expired"
  /\ UNCHANGED <<now, cycle, eventVars, threadState, deadline, task, call, fate>>

\* Notified: the loop goes round and looks at the list again.
Woken ==
  /\ pc = "woken"
  /\ pc' = "top"
  /\ UNCHANGED <<now, cycle, eventVars, threadState, deadline, task, call, fate>>

\* Seeded fault: the popped task is run without a look at m_eventIds.
ExpiredUnchecked ==
  /\ pc = "expired"
  /\ IF threadState = "TERMINATED"
       THEN pc' = "top" /\ UNCHANGED <<eventList, eventIds, task, fate>>
       ELSE \E t \in Earliest :
              /\ task' = t
              /\ eventList' = eventList \ {t}
              /\ eventIds' = eventIds \ {id[t]}
              /\ fate' = [fate EXCEPT ![t] = "popped"]
              /\ pc' = "run"
  /\ UNCHANGED <<now, cycle, lastEventId, id, threadState, deadline, call>>

\* The lock is taken again after the timeout: pops the top of the heap, which
\* runs unless it was stopped.
Expired ==
  /\ pc = "expired"
  /\ IF threadState = "TERMINATED"
       THEN pc' = "top" /\ UNCHANGED <<eventList, eventIds, task, fate>>
       ELSE \E t \in Earliest :
              /\ task' = t
              /\ eventList' = eventList \ {t}
              /\ eventIds' = eventIds \ {id[t]}
              /\ fate' = [fate EXCEPT ![t] = "popped"]
              /\ pc' = IF id[t] \in eventIds THEN "run" ELSE "delete"
  /\ UNCHANGED <<now, cycle, lastEventId, id, threadState, deadline, call>>

\* Dispatcher::addTask(task), or delete task, without the lock.
Dispatch ==
  /\ pc \in {"run", "delete"}
  /\ fate' = [fate EXCEPT ![task] = IF pc = "run" THEN "handed" ELSE "stopped"]
  /\ task' = NoTask
  /\ pc' = "top"
  /\ UNCHANGED <<now, cycle, eventVars, threadState, deadline, call>>

\* The dispatcher has run the task and deletes it.
DispatcherDeletes(t) ==
  /\ fate[t] = "handed"
  /\ fate' = [fate EXCEPT ![t] = "ran"]
  /\ UNCHANGED <<now, cycle, eventVars, threadState, threadVars, call>>

-----------------------------------------------------------------------------
SchedulerThread ==
  LoopTest \/ Wait \/ TimeOut \/ Woken \/ Expired \/ Dispatch

Caller(c) ==
  \/ \E t \in Tasks, d \in Delays : Create(c, t, d)
  \/ AddEvent(c) \/ Notify(c) \/ Return(c)
  \/ \E t \in Tasks : StopEvent(c, t)
  \/ Stop(c) \/ Shutdown(c)

Next ==
  \/ Tick
  \/ SchedulerThread
  \/ SpuriousWakeup
  \/ \E c \in Callers : Caller(c)
  \/ \E t \in Tasks : DispatcherDeletes(t)

Spec == Init /\ [][Next]_vars

\* The operating system runs the scheduler thread, and lets a caller that has
\* released the lock go on to its notify.
Fairness ==
  /\ WF_vars(SchedulerThread)
  /\ \A c \in Callers : WF_vars(Notify(c))

FairSpec == Spec /\ Fairness

-----------------------------------------------------------------------------
\* Types of the variables.
TypeOK ==
  /\ now \in Nat
  /\ cycle \in [Tasks -> Nat]
  /\ eventList \subseteq Tasks
  /\ eventIds \subseteq 1..IdMax
  /\ lastEventId \in 0..IdMax
  /\ id \in [Tasks -> 0..IdMax]
  /\ threadState \in ThreadStates
  /\ pc \in PCs
  /\ deadline \in Nat
  /\ task \in Tasks \cup {NoTask}
  /\ call \in [Callers -> [task : Tasks \cup {NoTask}, at : Places, since : Nat]]
  /\ fate \in [Tasks -> Fates]

Notifying == \E c \in Callers : call[c].task # NoTask /\ call[c].at = "notify"

\* addEvent signals only a new first event.  That is enough: while the thread
\* waits, no event in the list is earlier than what it waits for, or somebody
\* is about to notify it.
NoOversleep ==
  /\ pc = "wait" /\ eventList # {} => Notifying
  /\ pc = "timed" /\ (\E t \in eventList : cycle[t] < deadline) => Notifying

\* The time of a popped event has come, whatever was added or stopped between
\* the end of timed_wait and the pop: the top may not be the event waited for.
NeverEarly ==
  \A t \in Tasks : fate[t] \in {"popped", "handed"} => cycle[t] <= now

\* addEvent reads the task after it has released the lock.  If the call takes
\* less than SCHEDULER_MINTICKS the task has not been deleted by then.
ReturnReadsLive ==
  \A c \in Callers :
    call[c].task # NoTask /\ now < call[c].since + MinTicks
      => fate[call[c].task] # "ran"

\* An event whose time has come does not stay in the list.
DueEventLeaves ==
  \A t \in Tasks : (fate[t] = "pending" /\ cycle[t] <= now) ~> fate[t] # "pending"

-----------------------------------------------------------------------------
(* The scheduler implements the timer its callers count on.                *)
TimerState ==
  [t \in Tasks |->
     CASE fate[t] \in {"new", "created"} -> "idle"
       [] fate[t] = "pending" -> IF id[t] \in eventIds THEN "pending" ELSE "cancelled"
       [] fate[t] = "popped" -> IF pc = "run" THEN "fired" ELSE "cancelled"
       [] fate[t] \in {"handed", "ran"} -> "fired"
       [] fate[t] = "stopped" -> "cancelled"
       [] fate[t] \in {"refused", "lost"} -> fate[t]]

Timer == INSTANCE EventTimer WITH due <- cycle, state <- TimerState

\* An event is handed to the dispatcher at most once, not before its time, and
\* never after a stopEvent that returned true.
TimerSpec == Timer!Spec

\* Types; nobody reads a task that was deleted; the thread never sleeps past the
\* time of an event, nor takes one before its time.
EventsLive == TypeOK /\ ReturnReadsLive /\ NoOversleep /\ NeverEarly
=============================================================================
