----------------------------- MODULE Dispatcher -----------------------------
(***************************************************************************)
(* The task dispatcher of Source/tasks.cpp: one thread that runs the tasks *)
(* the other threads (and the tasks themselves) hand to it.                *)
(*                                                                         *)
(* Every critical section on m_taskLock is one step, except the one of     *)
(* Dispatcher::shutdown(), which keeps the lock while it runs the tasks    *)
(* that are left (flush).  notify_one() comes after the lock is released,  *)
(* so it is a step of its own: between the two every other thread may act. *)
(***************************************************************************)
EXTENDS Naturals, Sequences

CONSTANTS
  Tasks,         (* the Task objects of a behaviour                        *)
  Producers,     (* threads other than the dispatcher that call addTask    *)
  NoTask,        (* the null Task*                                         *)
  Child,         (* Child[t]: the task that t adds when it runs, or NoTask *)
  Closer,        (* the task that runs Game::setGameState(SHUTDOWN)        *)
  ShutdownTask   (* Game::shutdown, added by Closer                        *)

Self == "dispatcher"

ASSUME DispatcherAssumption ==
  /\ NoTask \notin Tasks
  /\ Child \in [Tasks -> Tasks \cup {NoTask}]
  /\ Self \notin Producers
  /\ ShutdownTask # NoTask
  /\ Closer # NoTask

VARIABLES
  taskList,      (* m_taskList                                             *)
  threadState,   (* m_threadState                                          *)
  lockHeld,      (* m_taskLock is held by flush()                          *)
  pc,            (* where the dispatcher thread is                         *)
  running,       (* the task being run, or NoTask                          *)
  toAdd,         (* the addTask call the running task has still to make    *)
  signal,        (* threads between the unlock and the notify of addTask   *)
  fate           (* what became of each task                               *)

vars == <<taskList, threadState, lockHeld, pc, running, toAdd, signal, fate>>

ThreadStates == {"RUNNING", "CLOSING", "TERMINATED"}
PCs   == {"top", "lock", "wait", "woken", "run", "stop", "end"}
Fates == {"new", "queued", "running", "done", "dropped"}

\* The tasks that come from another thread: no task adds them.
Roots == {t \in Tasks \ {ShutdownTask} : \A u \in Tasks : Child[u] # t}

\* Seeded fault: the constructor leaves m_threadState out.
InitNoState ==
  /\ taskList = <<>>
  /\ threadState = "UNSET"
  /\ lockHeld = FALSE
  /\ pc = "top"
  /\ running = NoTask
  /\ toAdd = NoTask
  /\ signal = {}
  /\ fate = [t \in Tasks |-> "new"]

Init ==
  /\ taskList = <<>>
  /\ threadState = "RUNNING"
  /\ lockHeld = FALSE
  /\ pc = "top"
  /\ running = NoTask
  /\ toAdd = NoTask
  /\ signal = {}
  /\ fate = [t \in Tasks |-> "new"]

-----------------------------------------------------------------------------
\* Seeded fault: the signal is decided after the push, with the wrong size.
AddTaskLateSignal(caller, t, front) ==
  /\ ~lockHeld
  /\ fate[t] = "new"
  /\ IF threadState = "RUNNING"
       THEN /\ taskList' = IF front THEN <<t>> \o taskList ELSE Append(taskList, t)
            /\ signal' = IF Len(taskList) = 1 THEN signal \cup {caller} ELSE signal
            /\ fate' = [fate EXCEPT ![t] = "queued"]
       ELSE /\ fate' = [fate EXCEPT ![t] = "dropped"]
            /\ UNCHANGED <<taskList, signal>>

\* Seeded fault: the state of the dispatcher is not tested.
AddTaskUntested(caller, t, front) ==
  /\ ~lockHeld
  /\ fate[t] = "new"
  /\ taskList' = IF front THEN <<t>> \o taskList ELSE Append(taskList, t)
  /\ signal' = IF taskList = <<>> THEN signal \cup {caller} ELSE signal
  /\ fate' = [fate EXCEPT ![t] = "queued"]

(* Dispatcher::addTask(task, push_front): the section under m_taskLock.    *)
(* A task offered when the dispatcher is not running is silently leaked.   *)
AddTask(caller, t, front) ==
  /\ ~lockHeld
  /\ fate[t] = "new"
  /\ IF threadState = "RUNNING"
       THEN /\ taskList' = IF front THEN <<t>> \o taskList ELSE Append(taskList, t)
            /\ signal' = IF taskList = <<>> THEN signal \cup {caller} ELSE signal
            /\ fate' = [fate EXCEPT ![t] = "queued"]
       ELSE /\ fate' = [fate EXCEPT ![t] = "dropped"]
            /\ UNCHANGED <<taskList, signal>>

\* A producer has at most one call of addTask under way.
ProducerAdd(p, t, front) ==
  /\ p \notin signal
  /\ t \in Roots
  /\ AddTask(p, t, front)
  /\ UNCHANGED <<threadState, lockHeld, pc, running, toAdd>>

\* m_taskSignal.notify_one(): wakes the dispatcher if it waits, else is lost.
Notify(p) ==
  /\ p \in signal
  /\ signal' = signal \ {p}
  /\ pc' = IF pc = "wait" THEN "woken" ELSE pc
  /\ UNCHANGED <<taskList, threadState, lockHeld, running, toAdd, fate>>

-----------------------------------------------------------------------------
(* Dispatcher::dispatcherThread.                                           *)

\* while (m_threadState != STATE_TERMINATED), read without the lock.
LoopTest ==
  /\ pc = "top"
  /\ pc' = IF threadState = "TERMINATED" THEN "end" ELSE "lock"
  /\ UNCHANGED <<taskList, threadState, lockHeld, running, toAdd, signal, fate>>

\* Takes the first task; the unlock follows and the task is run.
PopFront ==
  LET t == Head(taskList)
  IN /\ taskList' = Tail(taskList)
     /\ running' = t
     /\ toAdd' = Child[t]
     /\ fate' = [fate EXCEPT ![t] = "running"]

\* lock(); with an empty list the thread waits on the condition variable.
LockAndTake ==
  /\ pc = "lock"
  /\ ~lockHeld
  /\ IF taskList # <<>> /\ threadState # "TERMINATED"
       THEN PopFront /\ pc' = "run"
       ELSE /\ pc' = IF taskList = <<>> THEN "wait" ELSE "top"
            /\ UNCHANGED <<taskList, running, toAdd, fate>>
  /\ UNCHANGED <<threadState, lockHeld, signal>>

\* A condition variable may also return from wait without a notification.
SpuriousWakeup ==
  /\ pc = "wait"
  /\ pc' = "woken"
  /\ UNCHANGED <<taskList, threadState, lockHeld, running, toAdd, signal, fate>>

\* wait() returns with the lock taken again; an empty list means another turn.
WakeAndTake ==
  /\ pc = "woken"
  /\ ~lockHeld
  /\ IF taskList # <<>> /\ threadState # "TERMINATED"
       THEN PopFront /\ pc' = "run"
       ELSE pc' = "top" /\ UNCHANGED <<taskList, running, toAdd, fate>>
  /\ UNCHANGED <<threadState, lockHeld, signal>>

-----------------------------------------------------------------------------
(* What a task does while it runs on the dispatcher thread.                *)

\* The running task calls addTask itself.  Under flush() the thread already
\* holds the (non recursive) m_taskLock: the guard ~lockHeld never comes true.
TaskAdds(front) ==
  /\ pc = "run"
  /\ running # NoTask
  /\ toAdd # NoTask
  /\ Self \notin signal
  /\ AddTask(Self, toAdd, front)
  /\ toAdd' = NoTask
  /\ pc' = IF running = Closer THEN "stop" ELSE "run"
  /\ UNCHANGED <<threadState, lockHeld, running>>

\* Dispatcher::stop(), called by setGameState after it added Game::shutdown.
Stop ==
  /\ pc = "stop"
  /\ ~lockHeld
  /\ Self \notin signal
  /\ threadState' = "CLOSING"
  /\ pc' = "run"
  /\ UNCHANGED <<taskList, lockHeld, running, toAdd, signal, fate>>

\* Seeded fault: the list is flushed, the state is not changed.
ShutdownKeepsState ==
  /\ pc = "run"
  /\ running = ShutdownTask
  /\ ~lockHeld
  /\ lockHeld' = TRUE
  /\ running' = NoTask
  /\ fate' = [fate EXCEPT ![ShutdownTask] = "done"]
  /\ UNCHANGED <<taskList, threadState, pc, toAdd, signal>>

\* Dispatcher::shutdown(), called by Game::shutdown: lock, TERMINATED, flush.
Shutdown ==
  /\ pc = "run"
  /\ running = ShutdownTask
  /\ ~lockHeld
  /\ threadState' = "TERMINATED"
  /\ lockHeld' = TRUE
  /\ running' = NoTask
  /\ fate' = [fate EXCEPT ![ShutdownTask] = "done"]
  /\ UNCHANGED <<taskList, pc, toAdd, signal>>

\* flush() runs what is left, the lock held all the time.
FlushNext ==
  /\ pc = "run"
  /\ lockHeld
  /\ running = NoTask
  /\ taskList # <<>>
  /\ PopFront
  /\ UNCHANGED <<threadState, lockHeld, pc, signal>>

\* The list is empty: shutdown() unlocks and Game::shutdown returns.
FlushEnd ==
  /\ pc = "run"
  /\ lockHeld
  /\ running = NoTask
  /\ taskList = <<>>
  /\ lockHeld' = FALSE
  /\ pc' = "top"
  /\ UNCHANGED <<taskList, threadState, running, toAdd, signal, fate>>

\* The task returns: the thread loops, or flush() goes on to the next task.
TaskEnd ==
  /\ pc = "run"
  /\ running \notin {NoTask, ShutdownTask}
  /\ toAdd = NoTask
  /\ Self \notin signal
  /\ fate' = [fate EXCEPT ![running] = "done"]
  /\ running' = NoTask
  /\ pc' = IF lockHeld THEN "run" ELSE "top"
  /\ UNCHANGED <<taskList, threadState, lockHeld, toAdd, signal>>

-----------------------------------------------------------------------------
DispatcherThread ==
  \/ LoopTest \/ LockAndTake \/ WakeAndTake
  \/ \E front \in BOOLEAN : TaskAdds(front)
  \/ Stop \/ Shutdown \/ FlushNext \/ FlushEnd \/ TaskEnd
  \/ Notify(Self)

ProducerThread(p) ==
  \/ \E t \in Tasks, front \in BOOLEAN : ProducerAdd(p, t, front)
  \/ Notify(p)

Next ==
  \/ DispatcherThread
  \/ SpuriousWakeup
  \/ \E p \in Producers : ProducerThread(p)

Spec == Init /\ [][Next]_vars

\* The operating system schedules every runnable thread; a producer that has
\* released the lock goes on to its notify.  Nobody is obliged to add a task.
Fairness ==
  /\ WF_vars(DispatcherThread)
  /\ \A p \in Producers : WF_vars(Notify(p))

FairSpec == Spec /\ Fairness

-----------------------------------------------------------------------------
\* Types of the variables.
TypeOK ==
  /\ taskList \in Seq(Tasks)
  /\ threadState \in ThreadStates
  /\ lockHeld \in BOOLEAN
  /\ pc \in PCs
  /\ running \in Tasks \cup {NoTask}
  /\ toAdd \in Tasks \cup {NoTask}
  /\ signal \subseteq Producers \cup {Self}
  /\ fate \in [Tasks -> Fates]

\* addTask signals only when the list was empty.  That is enough: while the
\* dispatcher waits on the condition variable and tasks are queued, some
\* thread is about to notify it.
NoLostWakeup == pc = "wait" /\ taskList # <<>> => signal # {}

\* When the dispatcher thread has left its loop no accepted task is left in
\* the list: addTask refuses from stop() on, and flush() empties the list.
NothingStranded ==
  pc = "end" => \A t \in Tasks : fate[t] \in {"new", "done", "dropped"}

\* A task is in the list exactly while it is queued, once: it is neither run
\* twice nor deleted while the list still points to it.
QueuedOnce ==
  /\ \A t \in Tasks : fate[t] = "queued" <=> \E i \in 1..Len(taskList) : taskList[i] = t
  /\ \A i, j \in 1..Len(taskList) : taskList[i] = taskList[j] => i = j

\* What becomes of the tasks is always known: types, and the three above.
TasksAccounted == TypeOK /\ NoLostWakeup /\ QueuedOnce /\ NothingStranded

\* Every task the dispatcher accepted is run to its end.
AcceptedTaskRuns == \A t \in Tasks : fate[t] = "queued" ~> fate[t] = "done"

\* otserv.cpp:92 says that the run file is cleared when the server is shut
\* down by internal means: the thread that shuts down comes to its end.
ShutdownEnds == (threadState = "CLOSING") ~> (pc = "end")
=============================================================================
