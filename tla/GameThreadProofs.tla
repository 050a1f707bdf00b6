-------------------------- MODULE GameThreadProofs --------------------------
(***************************************************************************)
(* The thread of the game: safety of the dispatcher, for any number of     *)
(* tasks and producers; of spells, runes and weapons, for any books that   *)
(* charge for a creature what the creature costs; of scripts, whatever     *)
(* they call and however the calls nest; of conversations with an NPC; and *)
(* of registered events, whatever the files and however often reloaded.    *)
(***************************************************************************)
EXTENDS Dispatcher, Magic, Scripts, Npc, Registry, SequenceTheorems, FiniteSetTheorems, WellFoundedInduction, TLAPS

\* Only the dispatcher thread, inside shutdown(), keeps the lock, and it has
\* set the state to TERMINATED first; once it lets go the list is empty.
LockInv ==
  /\ lockHeld => threadState = "TERMINATED" /\ pc = "run"
  /\ threadState = "TERMINATED" /\ ~lockHeld => taskList = <<>>
  /\ pc = "end" => threadState = "TERMINATED"

\* The task that runs is the one the thread has taken, and no other.
RunningInv ==
  /\ \A t \in Tasks : fate[t] = "running" <=> running = t
  /\ running # NoTask => pc \in {"run", "stop"}

IInv == TypeOK /\ QueuedOnce /\ LockInv /\ RunningInv

-----------------------------------------------------------------------------
(* Types.                                                                  *)

\* A task added keeps the list a list of tasks, and only this task's fate and
\* this caller's signal change.
LEMMA AddTaskType ==
  ASSUME TypeOK, NEW p \in Producers \cup {Self}, NEW t \in Tasks,
         NEW front \in BOOLEAN, AddTask(p, t, front)
  PROVE  /\ taskList' \in Seq(Tasks)
         /\ signal' \subseteq Producers \cup {Self}
         /\ fate' \in [Tasks -> Fates]
<1>1. <<t>> \in Seq(Tasks)
  OBVIOUS
<1>2. /\ <<t>> \o taskList \in Seq(Tasks)
      /\ Append(taskList, t) \in Seq(Tasks)
  BY <1>1, ConcatProperties DEF TypeOK
<1>. QED
  BY <1>2 DEF AddTask, TypeOK, Fates

\* The first task leaves the list.
LEMMA PopFrontType ==
  ASSUME TypeOK, PopFront, taskList # <<>>
  PROVE  /\ taskList' \in Seq(Tasks)
         /\ running' \in Tasks
         /\ toAdd' \in Tasks \cup {NoTask}
         /\ fate' \in [Tasks -> Fates]
<1>1. Head(taskList) \in Tasks /\ Tail(taskList) \in Seq(Tasks)
  BY HeadTailProperties DEF TypeOK
<1>. QED
  BY <1>1, DispatcherAssumption DEF PopFront, TypeOK, Fates

\* Nothing is queued at the start.
LEMMA InitType == Init => TypeOK
<1>. SUFFICES ASSUME Init PROVE TypeOK
  OBVIOUS
<1>1. taskList \in Seq(Tasks)
  BY DEF Init
<1>2. fate \in [Tasks -> Fates]
  BY DEF Init, Fates
<1>. QED
  BY <1>1, <1>2 DEF Init, TypeOK, ThreadStates, PCs

\* Every step keeps the types, action by action.
LEMMA NextType == TypeOK /\ [Next]_vars => TypeOK'
<1>. SUFFICES ASSUME TypeOK, [Next]_vars PROVE TypeOK'
  OBVIOUS
<1>. USE DEF ThreadStates, PCs, Fates
<1>1. CASE LoopTest
  BY <1>1 DEF LoopTest, TypeOK
<1>2. CASE LockAndTake
  <2>1. CASE taskList # <<>> /\ threadState # "TERMINATED"
    BY <1>2, <2>1, PopFrontType DEF LockAndTake, TypeOK
  <2>2. CASE ~(taskList # <<>> /\ threadState # "TERMINATED")
    BY <1>2, <2>2 DEF LockAndTake, TypeOK
  <2>. QED
    BY <2>1, <2>2
<1>3. CASE WakeAndTake
  <2>1. CASE taskList # <<>> /\ threadState # "TERMINATED"
    BY <1>3, <2>1, PopFrontType DEF WakeAndTake, TypeOK
  <2>2. CASE ~(taskList # <<>> /\ threadState # "TERMINATED")
    BY <1>3, <2>2 DEF WakeAndTake, TypeOK
  <2>. QED
    BY <2>1, <2>2
<1>4. ASSUME NEW front \in BOOLEAN, TaskAdds(front) PROVE TypeOK'
  <2>1. toAdd \in Tasks /\ AddTask(Self, toAdd, front)
    BY <1>4 DEF TaskAdds, TypeOK
  <2>2. /\ taskList' \in Seq(Tasks)
        /\ signal' \subseteq Producers \cup {Self}
        /\ fate' \in [Tasks -> Fates]
    BY <1>4, <2>1, AddTaskType
  <2>. QED
    BY <1>4, <2>2 DEF TaskAdds, TypeOK
<1>5. CASE Stop
  BY <1>5 DEF Stop, TypeOK
<1>6. CASE Shutdown
  BY <1>6 DEF Shutdown, TypeOK
<1>7. CASE FlushNext
  BY <1>7, PopFrontType DEF FlushNext, TypeOK
<1>8. CASE FlushEnd
  BY <1>8 DEF FlushEnd, TypeOK
<1>9. CASE TaskEnd
  BY <1>9 DEF TaskEnd, TypeOK
<1>10. ASSUME NEW p \in Producers \cup {Self}, Notify(p) PROVE TypeOK'
  BY <1>10 DEF Notify, TypeOK
<1>11. ASSUME NEW p \in Producers, NEW t \in Tasks, NEW front \in BOOLEAN,
              ProducerAdd(p, t, front)
       PROVE  TypeOK'
  BY <1>11, AddTaskType DEF ProducerAdd, TypeOK
<1>12. CASE SpuriousWakeup
  BY <1>12 DEF SpuriousWakeup, TypeOK
<1>13. CASE UNCHANGED vars
  BY <1>13 DEF vars, TypeOK
<1>. QED
  BY <1>1, <1>2, <1>3, <1>4, <1>5, <1>6, <1>7, <1>8, <1>9, <1>10, <1>11,
     <1>12, <1>13 DEF Next, DispatcherThread, ProducerThread

\* Every behaviour of the dispatcher keeps the types of its variables.
THEOREM TypeCorrect == Spec => []TypeOK
BY InitType, NextType, PTL DEF Spec

-----------------------------------------------------------------------------
(* No lost wake-up.                                                        *)

\* The notify that addTask leaves out when the list is not empty is never
\* missed: a waiting dispatcher with queued tasks is about to be notified.
THEOREM NeverLosesWakeup == Spec => []NoLostWakeup
<1>1. Init => NoLostWakeup
  BY DEF Init, NoLostWakeup
<1>2. TypeOK /\ NoLostWakeup /\ [Next]_vars => NoLostWakeup'
  <2>. SUFFICES ASSUME TypeOK, NoLostWakeup, [Next]_vars, pc' = "wait",
                       taskList' # <<>>
                PROVE  signal' # {}
    BY DEF NoLostWakeup
  <2>1. CASE LoopTest
    BY <2>1 DEF LoopTest
  <2>2. CASE LockAndTake
    BY <2>2 DEF LockAndTake
  <2>3. CASE WakeAndTake
    BY <2>3 DEF WakeAndTake
  <2>4. ASSUME NEW front \in BOOLEAN, TaskAdds(front) PROVE signal' # {}
    BY <2>4 DEF TaskAdds
  <2>5. CASE Stop \/ Shutdown \/ FlushNext \/ FlushEnd \/ TaskEnd
    BY <2>5 DEF Stop, Shutdown, FlushNext, FlushEnd, TaskEnd
  <2>6. ASSUME NEW p \in Producers \cup {Self}, Notify(p) PROVE signal' # {}
    BY <2>6 DEF Notify
  <2>7. ASSUME NEW p \in Producers, NEW t \in Tasks, NEW front \in BOOLEAN,
               ProducerAdd(p, t, front)
        PROVE  signal' # {}
    BY <2>7 DEF ProducerAdd, AddTask, NoLostWakeup
  <2>8. CASE SpuriousWakeup
    BY <2>8 DEF SpuriousWakeup
  <2>9. CASE UNCHANGED vars
    BY <2>9 DEF vars, NoLostWakeup
  <2>. QED
    BY <2>1, <2>2, <2>3, <2>4, <2>5, <2>6, <2>7, <2>8, <2>9
    DEF Next, DispatcherThread, ProducerThread
<1>. QED
  BY <1>1, <1>2, TypeCorrect, PTL DEF Spec

-----------------------------------------------------------------------------
(* The list holds each queued task once.                                   *)

\* Adding a new task to a list without repetition keeps it without.
LEMMA AddTaskOnce ==
  ASSUME TypeOK, QueuedOnce, NEW p, NEW t \in Tasks, NEW front \in BOOLEAN,
         AddTask(p, t, front)
  PROVE  QueuedOnce'
<1>1. CASE threadState # "RUNNING"
  BY <1>1 DEF AddTask, QueuedOnce, TypeOK
<1>2. CASE threadState = "RUNNING" /\ front
  <2>1. <<t>> \in Seq(Tasks) /\ Len(<<t>>) = 1 /\ <<t>>[1] = t
    OBVIOUS
  <2>2. /\ taskList' = <<t>> \o taskList
        /\ Len(taskList') = Len(taskList) + 1
        /\ taskList'[1] = t
        /\ \A i \in 2..Len(taskList) + 1 : taskList'[i] = taskList[i - 1]
    BY <1>2, <2>1, ConcatProperties DEF AddTask, TypeOK
  <2>3. \A i \in 1..Len(taskList) : taskList'[i + 1] = taskList[i]
    BY <2>2 DEF TypeOK
  <2>4. fate' = [fate EXCEPT ![t] = "queued"] /\ fate[t] = "new"
    BY <1>2 DEF AddTask
  <2>5. \A i \in 1..Len(taskList) : taskList[i] # t
    BY <2>4 DEF QueuedOnce
  <2>6. ASSUME NEW u \in Tasks
        PROVE  fate'[u] = "queued" <=> \E i \in 1..Len(taskList') : taskList'[i] = u
    <3>1. CASE u = t
      BY <2>2, <2>4, <3>1 DEF TypeOK
    <3>2. CASE u # t
      <4>1. fate'[u] = fate[u]
        BY <2>4, <3>2 DEF TypeOK
      <4>2. (\E i \in 1..Len(taskList') : taskList'[i] = u)
              <=> \E i \in 1..Len(taskList) : taskList[i] = u
        BY <2>2, <2>3, <3>2 DEF TypeOK
      <4>. QED
        BY <4>1, <4>2 DEF QueuedOnce
    <3>. QED
      BY <3>1, <3>2
  <2>7. ASSUME NEW i \in 1..Len(taskList'), NEW j \in 1..Len(taskList'),
               taskList'[i] = taskList'[j]
        PROVE  i = j
    BY <2>2, <2>5, <2>7 DEF QueuedOnce, TypeOK
  <2>. QED
    BY <2>6, <2>7 DEF QueuedOnce
<1>3. CASE threadState = "RUNNING" /\ ~front
  <2>1. /\ taskList' = Append(taskList, t)
        /\ Len(taskList') = Len(taskList) + 1
        /\ taskList'[Len(taskList) + 1] = t
        /\ \A i \in 1..Len(taskList) : taskList'[i] = taskList[i]
    BY <1>3, AppendProperties DEF AddTask, TypeOK
  <2>. QED
    BY <1>3, <2>1 DEF AddTask, QueuedOnce, TypeOK
<1>. QED
  BY <1>1, <1>2, <1>3

\* Taking the first task of a list without repetition takes all of it.
LEMMA PopFrontOnce ==
  ASSUME TypeOK, QueuedOnce, PopFront, taskList # <<>>
  PROVE  QueuedOnce'
<1>1. /\ Head(taskList) = taskList[1]
      /\ Len(taskList) \in Nat \ {0}
      /\ Len(taskList') = Len(taskList) - 1
      /\ \A i \in 1..Len(taskList) - 1 : taskList'[i] = taskList[i + 1]
  BY HeadTailProperties DEF PopFront, TypeOK
<1>2. \A i \in 2..Len(taskList) : taskList'[i - 1] = taskList[i]
  BY <1>1 DEF TypeOK
<1>. QED
  BY <1>1, <1>2, SMTT(30) DEF PopFront, QueuedOnce, TypeOK

\* Every step keeps a queued task listed once.
LEMMA NextQueuedOnce == TypeOK /\ QueuedOnce /\ [Next]_vars /\ RunningInv => QueuedOnce'
<1>. SUFFICES ASSUME TypeOK, QueuedOnce, [Next]_vars, RunningInv PROVE QueuedOnce'
  OBVIOUS
<1>1. CASE LoopTest \/ Stop \/ FlushEnd \/ SpuriousWakeup
  BY <1>1 DEF LoopTest, Stop, FlushEnd, SpuriousWakeup, QueuedOnce
<1>2. CASE LockAndTake
  BY <1>2, PopFrontOnce DEF LockAndTake, QueuedOnce
<1>3. CASE WakeAndTake
  BY <1>3, PopFrontOnce DEF WakeAndTake, QueuedOnce
<1>4. ASSUME NEW front \in BOOLEAN, TaskAdds(front) PROVE QueuedOnce'
  BY <1>4, AddTaskOnce DEF TaskAdds, TypeOK
<1>5. CASE Shutdown \/ TaskEnd
  <2>. DEFINE t == running
  <2>1. /\ taskList' = taskList
        /\ fate' = [fate EXCEPT ![t] = "done"]
        /\ t \in Tasks => fate[t] = "running"
    BY <1>5 DEF Shutdown, TaskEnd, TypeOK, RunningInv
  <2>. QED
    BY <2>1 DEF QueuedOnce, TypeOK
<1>7. CASE FlushNext
  BY <1>7, PopFrontOnce DEF FlushNext
<1>8. ASSUME NEW p \in Producers \cup {Self}, Notify(p) PROVE QueuedOnce'
  BY <1>8 DEF Notify, QueuedOnce
<1>9. ASSUME NEW p \in Producers, NEW t \in Tasks, NEW front \in BOOLEAN,
             ProducerAdd(p, t, front)
      PROVE  QueuedOnce'
  BY <1>9, AddTaskOnce DEF ProducerAdd
<1>10. CASE UNCHANGED vars
  BY <1>10 DEF vars, QueuedOnce
<1>. QED
  BY <1>1, <1>2, <1>3, <1>4, <1>5, <1>7, <1>8, <1>9, <1>10
  DEF Next, DispatcherThread, ProducerThread
-----------------------------------------------------------------------------
(* Nothing is stranded.                                                    *)

\* Taking the first task makes it the one that runs.
LEMMA PopFrontRunning ==
  ASSUME TypeOK, QueuedOnce, RunningInv, running = NoTask, PopFront,
         taskList # <<>>, pc' = "run"
  PROVE  RunningInv'
<1>1. Head(taskList) \in Tasks
  BY HeadTailProperties DEF TypeOK
<1>. QED
  BY <1>1, DispatcherAssumption DEF PopFront, RunningInv, TypeOK

\* Every step leaves at most one task running, the one the thread took.
LEMMA NextRunning == TypeOK /\ QueuedOnce /\ RunningInv /\ [Next]_vars => RunningInv'
<1>. SUFFICES ASSUME TypeOK, QueuedOnce, RunningInv, [Next]_vars PROVE RunningInv'
  OBVIOUS
<1>1. CASE LoopTest \/ Stop \/ FlushEnd \/ SpuriousWakeup
  BY <1>1 DEF LoopTest, Stop, FlushEnd, SpuriousWakeup, RunningInv
<1>2. CASE LockAndTake
  BY <1>2, PopFrontRunning DEF LockAndTake, RunningInv
<1>3. CASE WakeAndTake
  BY <1>3, PopFrontRunning DEF WakeAndTake, RunningInv
<1>4. ASSUME NEW front \in BOOLEAN, TaskAdds(front) PROVE RunningInv'
  BY <1>4 DEF TaskAdds, AddTask, RunningInv, TypeOK
<1>5. CASE Shutdown \/ TaskEnd
  BY <1>5, DispatcherAssumption DEF Shutdown, TaskEnd, RunningInv, TypeOK
<1>6. CASE FlushNext
  BY <1>6, PopFrontRunning DEF FlushNext
<1>7. ASSUME NEW p \in Producers \cup {Self}, Notify(p) PROVE RunningInv'
  BY <1>7 DEF Notify, RunningInv
<1>8. ASSUME NEW p \in Producers, NEW t \in Tasks, NEW front \in BOOLEAN,
             ProducerAdd(p, t, front)
      PROVE  RunningInv'
  BY <1>8 DEF ProducerAdd, AddTask, RunningInv, TypeOK
<1>9. CASE UNCHANGED vars
  BY <1>9 DEF vars, RunningInv
<1>. QED
  BY <1>1, <1>2, <1>3, <1>4, <1>5, <1>6, <1>7, <1>8, <1>9
  DEF Next, DispatcherThread, ProducerThread

\* While the list is kept locked nobody but the dispatcher changes it, and
\* once the state is TERMINATED nobody adds to it.
LEMMA NextLock == TypeOK /\ RunningInv /\ LockInv /\ [Next]_vars => LockInv'
<1>. SUFFICES ASSUME TypeOK, RunningInv, LockInv, [Next]_vars PROVE LockInv'
  OBVIOUS
<1>1. CASE LoopTest \/ SpuriousWakeup \/ Stop \/ Shutdown \/ FlushEnd
  BY <1>1 DEF LoopTest, SpuriousWakeup, Stop, Shutdown, FlushEnd, LockInv
<1>2. CASE LockAndTake \/ WakeAndTake
  BY <1>2 DEF LockAndTake, WakeAndTake, LockInv
<1>3. CASE FlushNext \/ TaskEnd
  BY <1>3 DEF FlushNext, TaskEnd, LockInv
<1>4. ASSUME NEW front \in BOOLEAN, TaskAdds(front) PROVE LockInv'
  BY <1>4 DEF TaskAdds, AddTask, LockInv
<1>5. ASSUME NEW p \in Producers \cup {Self}, Notify(p) PROVE LockInv'
  BY <1>5 DEF Notify, LockInv
<1>6. ASSUME NEW p \in Producers, NEW t \in Tasks, NEW front \in BOOLEAN,
             ProducerAdd(p, t, front)
      PROVE  LockInv'
  BY <1>6 DEF ProducerAdd, AddTask, LockInv
<1>7. CASE UNCHANGED vars
  BY <1>7 DEF vars, LockInv
<1>. QED
  BY <1>1, <1>2, <1>3, <1>4, <1>5, <1>6, <1>7
  DEF Next, DispatcherThread, ProducerThread

\* The inductive invariant holds at the start.
LEMMA InitIInv == Init => IInv
<1>. SUFFICES ASSUME Init PROVE IInv
  OBVIOUS
<1>1. Len(taskList) = 0
  BY DEF Init
<1>2. QueuedOnce
  BY <1>1 DEF Init, QueuedOnce
<1>3. LockInv /\ RunningInv
  BY DispatcherAssumption DEF Init, LockInv, RunningInv
<1>. QED
  BY <1>2, <1>3, InitType DEF IInv

\* And every step keeps it.
LEMMA Inductive == Spec => []IInv
<1>1. IInv /\ [Next]_vars => IInv'
  BY NextType, NextQueuedOnce, NextRunning, NextLock DEF IInv
<1>. QED
  BY <1>1, InitIInv, PTL DEF Spec

\* No task is in the list twice, and a task in the list is not running, done
\* or dropped: the list never points to a task that was deleted.
THEOREM TasksQueuedOnce == Spec => []QueuedOnce
BY Inductive, PTL DEF IInv

\* The shutdown leaves no accepted task behind in the list, nor half run.
THEOREM ShutdownStrandsNothing == Spec => []NothingStranded
<1>1. IInv => NothingStranded
  <2>. SUFFICES ASSUME IInv, pc = "end", NEW t \in Tasks
                PROVE  fate[t] \in {"new", "done", "dropped"}
    BY DEF NothingStranded
  <2>1. taskList = <<>> /\ Len(taskList) = 0
    BY DEF IInv, LockInv
  <2>2. fate[t] # "queued"
    BY <2>1 DEF IInv, QueuedOnce
  <2>3. fate[t] # "running"
    BY DispatcherAssumption DEF IInv, RunningInv
  <2>. QED
    BY <2>2, <2>3 DEF IInv, TypeOK, Fates
<1>. QED
  BY <1>1, Inductive, PTL

\* Types, no wake-up lost, each queued task listed once, and none stranded at
\* the end: what the run dispatcher checks, for any tasks and producers.
THEOREM TasksAlwaysAccounted == Spec => []TasksAccounted
BY TypeCorrect, NeverLosesWakeup, TasksQueuedOnce, ShutdownStrandsNothing, PTL DEF TasksAccounted

-----------------------------------------------------------------------------
(* Spells, runes and weapons.                                              *)

\* Spells and weapons alone, as the run of the game's thread takes them
MagicSpec == MagicInit /\ [][MagicNext]_magicVars

\* What a player, a target and a bill may be
Mages ==
  [mana : Nat, most : Nat, exhausted : SUBSET {"combat", "heal"}, fights : BOOLEAN,
   zone : Zones, rested : BOOLEAN, summons : Nat, hands : [left : Hands, right : Hands],
   kept : BOOLEAN, charges : 0..2, ammo : 0..2, ground : Nat]
Marks == [at : {"near", "far", "upstairs", "gone"}, alive : BOOLEAN, ill : BOOLEAN]
Bills ==
  [uses : Nat, done : Nat, due : Nat, trained : Nat, used : Nat,
   short : BOOLEAN, rose : BOOLEAN, own : BOOLEAN, wide : BOOLEAN]
Worlds == [m : Mages, t : Marks, b : Bills]

\* Flags whose bearer is let through without the mana
Excused == gifts \cap {"ignoreCheck", "ignoreWeapon", "summonAll"} # {}

\* The caster can pay a price, or need not, or rose a level since.
CanPay(w, n) == w.m.mana >= n \/ Has("infiniteMana") \/ Excused \/ w.b.rose

\* What was spent and what is still owed is what the effects cost.
Balance(w, n) == w.b.rose \/ w.b.trained + n = w.b.due

\* Nothing is made of nothing; k effects were made of what is not yet taken.
Stock(w, k) ==
  /\ book.kind = "conjure" /\ book.effect = "reagent" => w.b.used + k = w.b.done
  /\ book.kind = "weapon" /\ book.ammo \in {"remove", "move", "moveBack"} =>
       w.m.ammo + w.m.ground + w.b.used = 2
  /\ book.kind = "rune" => w.b.used + w.m.charges = 2 /\ (w.m.kept => w.b.used + k <= w.b.done)

\* A world in which n mana is owed for k effects.
Owes(w, n, k) ==
  /\ w \in Worlds /\ w.m.mana <= w.m.most
  /\ w.b.short => w.b.rose \/ Excused
  /\ ~w.b.own /\ ~w.b.wide
  /\ Balance(w, n) /\ Stock(w, k)

\* After the effect and before the payment
Due(w) == Owes(w, Cost(w), 1) /\ CanPay(w, Cost(w))

\* Between two casts
Sound(w) == Owes(w, 0, 0)

\* The inductive invariant: between two casts nothing is owed.
MagicIInv == book \in Books /\ gifts \in Bearings /\ Sound(Now)

-----------------------------------------------------------------------------
(* Cost and payment.                                                       *)

\* A price is a number.
LEMMA CostIsNat ==
  ASSUME book \in Books, NEW w \in Worlds
  PROVE  Cost(w) \in Nat
<1>1. book.mana \in Nat /\ book.percent \in Nat
  BY MagicAssumption
<1>2. w.m.most \in Nat
  BY DEF Worlds, Mages
<1>. DEFINE p == w.m.most * book.percent
<1>3. p \in Nat
  BY <1>1, <1>2
<1>4. ASSUME NEW x \in Nat PROVE x \div 100 \in Nat
  BY SMT
<1>5. p \div 100 \in Nat
  BY <1>3, <1>4
<1>. QED
  BY <1>1, <1>5 DEF Cost

\* The price depends on nothing but the caster's most mana.
LEMMA CostOfMost ==
  ASSUME NEW w, NEW x, x.m.most = w.m.most
  PROVE  Cost(x) = Cost(w)
BY Zenon DEF Cost

\* Whoever can pay a price and owes it owes nothing once it is charged.
LEMMA ChargeOwes ==
  ASSUME NEW w, NEW n \in Nat, NEW k \in Nat, Owes(w, n, k), CanPay(w, n)
  PROVE  /\ Owes(Charge(w, n), 0, k)
         /\ Charge(w, n).b.rose = w.b.rose
         /\ Charge(w, n).m.most = w.m.most
<1>. DEFINE taken == IF Has("infiniteMana") THEN 0 ELSE IF n > w.m.mana THEN w.m.mana ELSE n
            x == Charge(w, n)
<1>1. w \in Worlds /\ w.m.mana \in Nat /\ w.m.most \in Nat /\ w.b.trained \in Nat /\ w.b.due \in Nat
  BY DEF Owes, Worlds, Mages, Bills
<1>2. taken \in Nat /\ taken <= w.m.mana /\ w.m.mana - taken \in Nat
  BY <1>1
<1>3. x.m = [w.m EXCEPT !.mana = @ - taken]
  BY <1>1 DEF Charge, Worlds
<1>4. x.b = [w.b EXCEPT !.trained = @ + n, !.short = @ \/ (taken # n /\ ~Has("infiniteMana"))]
  BY <1>1 DEF Charge, Worlds
<1>5. x.t = w.t
  BY <1>1 DEF Charge, Worlds
<1>6. x = [m |-> x.m, t |-> x.t, b |-> x.b]
  <2>. DEFINE y1 == [w EXCEPT !.m.mana = @ - taken]
              y2 == [y1 EXCEPT !.b.trained = @ + n]
              y3 == [y2 EXCEPT !.b.short = @ \/ (taken # n /\ ~Has("infiniteMana"))]
  <2>1. x = y3
    BY DEF Charge
  <2>2. y1 = [m |-> y1.m, t |-> y1.t, b |-> y1.b]
    BY <1>1 DEF Worlds
  <2>. HIDE DEF y1
  <2>3. y2 = [m |-> y2.m, t |-> y2.t, b |-> y2.b]
    BY <2>2
  <2>. HIDE DEF y2
  <2>4. y3 = [m |-> y3.m, t |-> y3.t, b |-> y3.b]
    <3>. DEFINE c == y2.b.short \/ (taken # n /\ ~Has("infiniteMana"))
    <3>. HIDE DEF c
    <3>1. [y2 EXCEPT !.b.short = c] = [m |-> y2.m, t |-> y2.t, b |-> [y2.b EXCEPT !.short = c]]
      BY <2>3
    <3>. QED BY <3>1 DEF c
  <2>. QED BY <2>1, <2>4, Zenon
<1>. HIDE DEF x
<1>7. x.m \in Mages
  <2>. HIDE DEF taken
  <2>. QED BY <1>1, <1>2, <1>3 DEF Worlds, Mages
<1>8. x.b \in Bills
  <2>1. ASSUME NEW b \in Bills, NEW i \in Nat, NEW c \in BOOLEAN
        PROVE  [b EXCEPT !.trained = i, !.short = c] \in Bills
    BY DEF Bills
  <2>2. (w.b.short \/ (taken # n /\ ~Has("infiniteMana"))) \in BOOLEAN
    BY DEF Bills
  <2>3. w.b \in Bills
    BY <1>1 DEF Worlds
  <2>4. w.b.trained + n \in Nat
    BY <1>1
  <2>5. PICK b, i, c : b = w.b /\ i = w.b.trained + n /\ c = (w.b.short \/ (taken # n /\ ~Has("infiniteMana")))
    OBVIOUS
  <2>6. b \in Bills /\ i \in Nat /\ c \in BOOLEAN
    BY <2>2, <2>3, <2>4, <2>5, Zenon
  <2>7. [b EXCEPT !.trained = i, !.short = c] \in Bills
    BY <2>1, <2>6, Zenon
  <2>. QED BY <1>4, <2>5, <2>7, Zenon
<1>9. x \in Worlds
  BY <1>1, <1>5, <1>6, <1>7, <1>8 DEF Worlds
<1>10. x.m.mana <= x.m.most
  BY <1>1, <1>2, <1>3 DEF Worlds, Mages, Owes
<1>11. /\ x.b.trained = w.b.trained + n /\ x.b.due = w.b.due /\ x.b.rose = w.b.rose
       /\ x.b.own = w.b.own /\ x.b.wide = w.b.wide /\ x.b.used = w.b.used /\ x.b.done = w.b.done
       /\ x.b.short = (w.b.short \/ (taken # n /\ ~Has("infiniteMana")))
  BY <1>1, <1>4 DEF Worlds, Bills
<1>12. /\ x.m.most = w.m.most /\ x.m.charges = w.m.charges /\ x.m.kept = w.m.kept
       /\ x.m.ammo = w.m.ammo /\ x.m.ground = w.m.ground
  BY <1>1, <1>3 DEF Worlds, Mages
<1>13. taken # n /\ ~Has("infiniteMana") => w.b.rose \/ Excused
  BY <1>1 DEF CanPay
<1>14. x.b.short => x.b.rose \/ Excused
  BY <1>11, <1>13 DEF Owes
<1>15. Balance(x, 0)
  BY <1>1, <1>11 DEF Owes, Balance
<1>16. Stock(x, k)
  BY <1>11, <1>12 DEF Owes, Stock
<1>. QED
  BY <1>9, <1>10, <1>11, <1>12, <1>14, <1>15, <1>16 DEF Owes, x

\* A change of the mage, of the target or of the bill alone
LEMMA MageChanges ==
  ASSUME NEW w \in Worlds, NEW m \in Mages
  PROVE  LET x == [w EXCEPT !.m = m]
         IN x \in Worlds /\ x.m = m /\ x.t = w.t /\ x.b = w.b
BY DEF Worlds

\* Another mark leaves the mage and the bill of a world alone.
LEMMA MarkChanges ==
  ASSUME NEW w \in Worlds, NEW t \in Marks
  PROVE  LET x == [w EXCEPT !.t = t]
         IN x \in Worlds /\ x.m = w.m /\ x.t = t /\ x.b = w.b
BY DEF Worlds

\* Another bill leaves the mage and the mark of a world alone.
LEMMA BillChanges ==
  ASSUME NEW w \in Worlds, NEW b \in Bills
  PROVE  LET x == [w EXCEPT !.b = b]
         IN x \in Worlds /\ x.m = w.m /\ x.t = w.t /\ x.b = b
BY DEF Worlds

\* Exhaustion and fights change nothing that is paid.
SamePurse(x, w) ==
  /\ x.b = w.b /\ x.t = w.t
  /\ x.m.mana = w.m.mana /\ x.m.most = w.m.most /\ x.m.kept = w.m.kept
  /\ x.m.charges = w.m.charges /\ x.m.ammo = w.m.ammo /\ x.m.ground = w.m.ground

\* What keeps the purse keeps the debt, the price and the means.
LEMMA SamePurseOwes ==
  ASSUME NEW w, NEW x \in Worlds, NEW n, NEW k, SamePurse(x, w), Owes(w, n, k)
  PROVE  Owes(x, n, k) /\ Cost(x) = Cost(w) /\ (\A p : CanPay(w, p) => CanPay(x, p))
<1>1. Owes(x, n, k)
  BY DEF Owes, SamePurse, Balance, Stock
<1>2. Cost(x) = Cost(w)
  BY CostOfMost DEF SamePurse
<1>3. \A p : CanPay(w, p) => CanPay(x, p)
  BY DEF CanPay, SamePurse
<1>. QED
  BY <1>1, <1>2, <1>3

\* Exhaustion changes neither the purse nor the bill.
LEMMA ExhaustIsFree ==
  ASSUME NEW w \in Worlds
  PROVE  Exhaust(w) \in Worlds /\ SamePurse(Exhaust(w), w)
<1>1. CASE Has("noExhaustion") \/ ~book.exhaustion
  BY <1>1 DEF Exhaust, SamePurse
<1>2. CASE ~(Has("noExhaustion") \/ ~book.exhaustion)
  <2>. DEFINE e == w.m.exhausted \cup {IF book.aggressive THEN "combat" ELSE "heal"}
              m == [w.m EXCEPT !.exhausted = e]
  <2>1. w.m \in Mages
    BY DEF Worlds
  <2>2. e \in SUBSET {"combat", "heal"}
    BY <2>1 DEF Mages
  <2>3. Exhaust(w) = [w EXCEPT !.m = m]
    BY <1>2 DEF Exhaust
  <2>. HIDE DEF e
  <2>4. /\ m \in Mages /\ m.mana = w.m.mana /\ m.most = w.m.most /\ m.kept = w.m.kept
        /\ m.charges = w.m.charges /\ m.ammo = w.m.ammo /\ m.ground = w.m.ground
    BY <2>1, <2>2 DEF Mages
  <2>. HIDE DEF m
  <2>. QED
    BY <2>3, <2>4, MageChanges DEF SamePurse
<1>. QED
  BY <1>1, <1>2

\* A fight changes neither the purse nor the bill.
LEMMA FightIsFree ==
  ASSUME NEW w \in Worlds
  PROVE  LET x == [w EXCEPT !.m.fights = TRUE] IN x \in Worlds /\ SamePurse(x, w)
<1>. DEFINE m == [w.m EXCEPT !.fights = TRUE]
<1>1. /\ m \in Mages /\ m.mana = w.m.mana /\ m.most = w.m.most /\ m.kept = w.m.kept
      /\ m.charges = w.m.charges /\ m.ammo = w.m.ammo /\ m.ground = w.m.ground
  BY DEF Worlds, Mages
<1>2. [w EXCEPT !.m.fights = TRUE] = [w EXCEPT !.m = m]
  OBVIOUS
<1>. HIDE DEF m
<1>3. PICK x : x = [w EXCEPT !.m = m]
  OBVIOUS
<1>4. x \in Worlds /\ x.m = m /\ x.t = w.t /\ x.b = w.b
  BY <1>1, <1>3, MageChanges, Zenon
<1>5. SamePurse(x, w)
  BY <1>1, <1>4, Zenon DEF SamePurse
<1>. QED
  BY <1>2, <1>3, <1>4, <1>5, Zenon

\* A spell that ends charges nothing by ending.
LEMMA FinishIsFree ==
  ASSUME NEW w \in Worlds
  PROVE  Finish(w) \in Worlds /\ SamePurse(Finish(w), w)
<1>1. Exhaust(w) \in Worlds /\ SamePurse(Exhaust(w), w)
  BY ExhaustIsFree
<1>. DEFINE x == Exhaust(w)
            y == [x EXCEPT !.m.fights = TRUE]
<1>2. Finish(w) \in {x, y}
  BY DEF Finish
<1>3. y \in Worlds /\ SamePurse(y, x)
  BY <1>1, FightIsFree
<1>. HIDE DEF x, y
<1>. QED
  BY <1>1, <1>2, <1>3 DEF SamePurse, x

\* A spell that is owed for, paid for
LEMMA PostCastPays ==
  ASSUME book \in Books, NEW w, NEW k \in Nat, NEW finished \in BOOLEAN,
         Owes(w, Cost(w), k), CanPay(w, Cost(w))
  PROVE  LET x == PostCastSpell(w, finished, TRUE)
         IN Owes(x, 0, k) /\ x.m.most = w.m.most /\ x.b.rose = w.b.rose
<1>. DEFINE f == IF finished THEN Finish(w) ELSE w
<1>1. w \in Worlds
  BY DEF Owes
<1>2. f \in Worlds /\ SamePurse(f, w)
  BY <1>1, FinishIsFree DEF SamePurse
<1>3. PostCastSpell(w, finished, TRUE) = Charge(f, Cost(f))
  BY DEF PostCastSpell
<1>. HIDE DEF f
<1>4. Owes(f, Cost(w), k) /\ Cost(f) = Cost(w) /\ CanPay(f, Cost(w))
  BY <1>1, <1>2, SamePurseOwes
<1>5. Cost(f) \in Nat
  BY <1>2, CostIsNat
<1>6. /\ Owes(Charge(f, Cost(f)), 0, k)
      /\ Charge(f, Cost(f)).b.rose = f.b.rose
      /\ Charge(f, Cost(f)).m.most = f.m.most
  BY <1>4, <1>5, ChargeOwes
<1>. QED
  BY <1>2, <1>3, <1>6 DEF SamePurse

-----------------------------------------------------------------------------
(* Effects.                                                                *)

\* An effect that is made is owed for.
LEMMA DoneIsDue ==
  ASSUME book \in Books, NEW w, Owes(w, 0, 0), CanPay(w, Cost(w))
  PROVE  Due(Done(w, 1))
<1>. DEFINE x == Done(w, 1)
            d == w.b.done + 1
            e == w.b.due + 1 * Cost(w)
            b == [w.b EXCEPT !.done = d, !.due = e]
<1>1. w \in Worlds /\ w.b \in Bills
  BY DEF Owes, Worlds
<1>2. Cost(w) \in Nat /\ w.b.done \in Nat /\ w.b.due \in Nat /\ w.b.trained \in Nat
  BY <1>1, CostIsNat DEF Bills
<1>3. d \in Nat /\ e \in Nat /\ e = w.b.due + Cost(w)
  BY <1>2
<1>4. x = [w EXCEPT !.b = b]
  BY <1>1 DEF Done, Worlds
<1>. HIDE DEF d, e, x
<1>5. /\ b \in Bills /\ b.done = d /\ b.due = e /\ b.trained = w.b.trained /\ b.used = w.b.used
      /\ b.short = w.b.short /\ b.rose = w.b.rose /\ b.own = w.b.own /\ b.wide = w.b.wide
  BY <1>1, <1>3 DEF Bills
<1>. HIDE DEF b
<1>6. x \in Worlds /\ x.m = w.m /\ x.b = b
  BY <1>1, <1>4, <1>5, BillChanges
<1>7. Cost(x) = Cost(w)
  BY <1>6, CostOfMost
<1>8. Balance(x, Cost(w))
  BY <1>2, <1>3, <1>5, <1>6 DEF Owes, Balance
<1>9. Stock(x, 1)
  <2>1. Stock(w, 0) /\ w.b.used \in Nat
    BY <1>1 DEF Owes, Bills
  <2>. QED BY <1>2, <1>5, <1>6, <2>1 DEF Stock, d
<1>10. Owes(x, Cost(w), 1)
  BY <1>5, <1>6, <1>8, <1>9 DEF Owes
<1>11. CanPay(x, Cost(w))
  BY <1>5, <1>6 DEF CanPay
<1>. QED
  BY <1>7, <1>10, <1>11 DEF Due, x

\* A kill settles what is owed, if it raises the caster's level.
LEMMA KillIsDue ==
  ASSUME book \in Books, NEW w \in Worlds, NEW rises \in BOOLEAN
  PROVE  LET x == Kill(w, rises)
         IN /\ \A n, k : Owes(w, n, k) => Owes(x, n, k)
            /\ Due(w) => Due(x)
            /\ x.m.most # w.m.most => x.b.rose
            /\ x.b.rose \in BOOLEAN /\ (w.b.rose => x.b.rose)
            /\ x.m.mana = w.m.mana /\ x.m.charges = w.m.charges /\ x.m.ammo = w.m.ammo
<1>. DEFINE x == Kill(w, rises)
            t == [w.t EXCEPT !.alive = FALSE]
            n1 == IF rises THEN w.m.most + FullMana ELSE w.m.most
            m == [w.m EXCEPT !.most = n1]
            r == w.b.rose \/ rises
            b == [w.b EXCEPT !.rose = r]
            x1 == [w EXCEPT !.t = t]
            x2 == [x1 EXCEPT !.m = m]
            x3 == [x2 EXCEPT !.b = b]
<1>1. w.m \in Mages /\ w.t \in Marks /\ w.b \in Bills /\ w.m.most \in Nat /\ w.m.mana \in Nat
  BY DEF Worlds, Mages
<1>2. x = x3
  BY DEF Kill, Worlds
<1>3. t \in Marks
  BY <1>1 DEF Marks
<1>4. n1 \in Nat /\ n1 >= w.m.most
  BY <1>1, MagicAssumption
<1>5. r \in BOOLEAN /\ (w.b.rose => r) /\ (n1 # w.m.most => r)
  BY <1>1 DEF Bills
<1>. HIDE DEF t, n1, r, x
<1>6. /\ m \in Mages /\ m.most = n1 /\ m.mana = w.m.mana /\ m.kept = w.m.kept
      /\ m.charges = w.m.charges /\ m.ammo = w.m.ammo /\ m.ground = w.m.ground
  BY <1>1, <1>4 DEF Mages
<1>7. /\ b \in Bills /\ b.rose = r /\ b.done = w.b.done /\ b.due = w.b.due /\ b.trained = w.b.trained
      /\ b.used = w.b.used /\ b.short = w.b.short /\ b.own = w.b.own /\ b.wide = w.b.wide
  BY <1>1, <1>5 DEF Bills
<1>. HIDE DEF m, b, x1, x2
<1>8. x1 \in Worlds /\ x1.m = w.m /\ x1.b = w.b
  BY <1>3, MarkChanges DEF x1
<1>9. x2 \in Worlds /\ x2.m = m /\ x2.b = w.b
  BY <1>6, <1>8, MageChanges DEF x2
<1>10. x \in Worlds /\ x.m = m /\ x.b = b
  BY <1>2, <1>7, <1>9, BillChanges
<1>11. ASSUME NEW n, NEW k, Owes(w, n, k) PROVE Owes(x, n, k)
  <2>1. x.m.mana <= x.m.most
    BY <1>1, <1>4, <1>6, <1>10, <1>11 DEF Owes
  <2>2. Balance(x, n) /\ Stock(x, k)
    BY <1>5, <1>6, <1>7, <1>10, <1>11 DEF Owes, Balance, Stock
  <2>3. (x.b.short => x.b.rose \/ Excused) /\ ~x.b.own /\ ~x.b.wide
    BY <1>5, <1>7, <1>10, <1>11 DEF Owes
  <2>. QED
    BY <1>10, <2>1, <2>2, <2>3 DEF Owes
<1>12. ASSUME Due(w) PROVE Due(x)
  <2>1. Owes(x, Cost(w), 1)
    BY <1>11, <1>12 DEF Due
  <2>2. CASE r
    <3>1. Owes(x, Cost(x), 1)
      BY <2>1, <2>2, <1>7, <1>10 DEF Owes, Balance
    <3>2. CanPay(x, Cost(x))
      BY <2>2, <1>7, <1>10 DEF CanPay
    <3>. QED BY <3>1, <3>2 DEF Due
  <2>3. CASE ~r
    <3>1. Cost(x) = Cost(w)
      BY <2>3, <1>5, <1>6, <1>10, CostOfMost
    <3>2. CanPay(x, Cost(w))
      BY <1>5, <1>6, <1>7, <1>10, <1>12 DEF Due, CanPay
    <3>. QED BY <2>1, <3>1, <3>2 DEF Due
  <2>. QED BY <2>2, <2>3
<1>13. x.m.most # w.m.most => x.b.rose
  BY <1>5, <1>6, <1>7, <1>10
<1>14. x.b.rose \in BOOLEAN /\ (w.b.rose => x.b.rose)
  BY <1>5, <1>7, <1>10
<1>15. x.m.mana = w.m.mana /\ x.m.charges = w.m.charges /\ x.m.ammo = w.m.ammo
  BY <1>6, <1>10
<1>. QED
  BY <1>11, <1>12, <1>13, <1>14, <1>15 DEF x

\* A condition on the target is no matter of payment.
LEMMA IllIsDue ==
  ASSUME NEW w, NEW v \in BOOLEAN, Due(w)
  PROVE  Due([w EXCEPT !.t.ill = v])
<1>. DEFINE t == [w.t EXCEPT !.ill = v]
            x == [w EXCEPT !.t = t]
<1>1. w \in Worlds
  BY DEF Due, Owes
<1>2. t \in Marks
  BY <1>1 DEF Worlds, Marks
<1>. HIDE DEF t
<1>3. x \in Worlds /\ x.m = w.m /\ x.b = w.b
  BY <1>1, <1>2, MarkChanges
<1>4. [w EXCEPT !.t.ill = v] = x
  BY DEF t
<1>. HIDE DEF x
<1>5. Cost(x) = Cost(w)
  BY <1>3, CostOfMost
<1>6. Owes(x, Cost(w), 1)
  BY <1>3 DEF Due, Owes, Balance, Stock
<1>7. CanPay(x, Cost(w))
  BY <1>3 DEF Due, CanPay
<1>. QED
  BY <1>4, <1>5, <1>6, <1>7 DEF Due

\* Whatever a blow does to its target, its spell is still owed for.
LEMMA HealthFuncIsDue ==
  ASSUME book \in Books, NEW w, Due(w)
  PROVE  /\ \A x \in CombatHealthFunc(w) : Due(x)
         /\ \A x \in CombatConditionFunc(w) : Due(x)
         /\ \A x \in CombatDispelFunc(w) : Due(x)
<1>1. w \in Worlds
  BY DEF Due, Owes
<1>2. Due([w EXCEPT !.t.ill = TRUE]) /\ Due([w EXCEPT !.t.ill = FALSE])
  BY IllIsDue
<1>3. Due(Kill(w, w.m.most = FullMana))
  <2>1. (w.m.most = FullMana) \in BOOLEAN
    OBVIOUS
  <2>. QED BY <1>1, <2>1, KillIsDue
<1>4. \A x \in CombatConditionFunc(w) : Due(x)
  BY <1>2 DEF CombatConditionFunc
<1>5. \A x \in CombatDispelFunc(w) : Due(x)
  BY <1>2 DEF CombatDispelFunc
<1>6. \A x \in CombatHealthFunc(w) : Due(x)
  BY <1>3, <1>4, Zenon DEF CombatHealthFunc
<1>. QED
  BY <1>4, <1>5, <1>6

\* A blow spares its caster, and one that is for the topmost creature reaches
\* one.
LEMMA ReachedIsFair ==
  ASSUME NEW crowd
  PROVE  /\ book.aggressive => "mage" \notin Reached(crowd)
         /\ book.topmost => ~(Cardinality(Reached(crowd)) > 1)
<1>1. book.aggressive => "mage" \notin Reached(crowd)
  BY DEF Reached
<1>2. ASSUME book.topmost PROVE ~(Cardinality(Reached(crowd)) > 1)
  <2>1. PICK c : Reached(crowd) \subseteq {c}
    <3>1. CASE "mage" \in {crowd[i] : i \in DOMAIN crowd}
      BY <1>2, <3>1 DEF Reached
    <3>2. CASE "mage" \notin {crowd[i] : i \in DOMAIN crowd}
      BY <1>2, <3>2 DEF Reached
    <3>. QED BY <3>1, <3>2
  <2>2. IsFiniteSet({c}) /\ Cardinality({c}) = 1
    BY FS_Singleton
  <2>3. IsFiniteSet(Reached(crowd)) /\ Cardinality(Reached(crowd)) <= 1
    BY <2>1, <2>2, FS_Subset
  <2>4. Cardinality(Reached(crowd)) \in Nat
    BY <2>3, FS_CardinalityType
  <2>. QED BY <2>3, <2>4
<1>. QED
  BY <1>1, <1>2

\* A blow on a crowd is owed for, and is fair.
LEMMA BlowIsDue ==
  ASSUME book \in Books, NEW w, Due(w), NEW crowd
  PROVE  \A x \in Blow(w, crowd) : Due(x)
<1>. DEFINE hit == IF crowd = <<>> THEN {} ELSE Reached(crowd)
            own == w.b.own \/ (book.aggressive /\ "mage" \in hit)
            wide == w.b.wide \/ (book.topmost /\ Cardinality(hit) > 1)
            b1 == [w.b EXCEPT !.own = own]
            b2 == [b1 EXCEPT !.wide = wide]
            x1 == [w EXCEPT !.b = b1]
            x == [x1 EXCEPT !.b = b2]
<1>1. w \in Worlds /\ ~w.b.own /\ ~w.b.wide /\ w.b \in Bills
  BY DEF Due, Owes, Worlds
<1>2. ~(book.aggressive /\ "mage" \in hit)
  BY ReachedIsFair
<1>3. ~(book.topmost /\ Cardinality(hit) > 1)
  <2>1. CASE crowd = <<>>
    BY <2>1, FS_EmptySet
  <2>2. CASE crowd # <<>>
    BY <2>2, ReachedIsFair
  <2>. QED BY <2>1, <2>2
<1>4. own = FALSE /\ wide = FALSE
  BY <1>1, <1>2, <1>3 DEF Bills
<1>5. \A y \in Blow(w, crowd) :
        \/ y = x
        \/ y \in CombatConditionFunc(x) \/ y \in CombatDispelFunc(x) \/ y \in CombatHealthFunc(x)
  <2>1. [w EXCEPT !.b.own = own, !.b.wide = wide] = x
    BY <1>1 DEF Worlds
  <2>2. Blow(w, crowd) =
          IF "mark" \notin hit THEN {x}
          ELSE CASE book.combat = "condition" -> CombatConditionFunc(x)
                 [] book.combat = "dispel"    -> CombatDispelFunc(x)
                 [] OTHER                     -> CombatHealthFunc(x)
    <3>1. Blow(w, crowd) =
            LET z == [w EXCEPT !.b.own = @ \/ (book.aggressive /\ "mage" \in hit),
                               !.b.wide = @ \/ (book.topmost /\ Cardinality(hit) > 1)]
            IN IF "mark" \notin hit THEN {z}
               ELSE CASE book.combat = "condition" -> CombatConditionFunc(z)
                      [] book.combat = "dispel"    -> CombatDispelFunc(z)
                      [] OTHER                     -> CombatHealthFunc(z)
      BY Zenon DEF Blow
    <3>2. [w EXCEPT !.b.own = @ \/ (book.aggressive /\ "mage" \in hit),
                    !.b.wide = @ \/ (book.topmost /\ Cardinality(hit) > 1)] = x
      <4>. HIDE DEF hit
      <4>. QED BY <1>1 DEF Worlds, Bills
    <3>. QED BY <3>1, <3>2
  <2>. HIDE DEF x, hit
  <2>. QED BY <2>2
<1>. HIDE DEF hit, own, wide
<1>6. /\ b2 \in Bills /\ b2.own = FALSE /\ b2.wide = FALSE
      /\ b2.rose = w.b.rose /\ b2.done = w.b.done /\ b2.due = w.b.due
      /\ b2.trained = w.b.trained /\ b2.used = w.b.used /\ b2.short = w.b.short
  BY <1>1, <1>4 DEF Bills
<1>7. x \in Worlds /\ x.m = w.m /\ x.t = w.t /\ x.b = b2
  <2>1. x = [w EXCEPT !.b = b2]
    BY <1>1 DEF Worlds
  <2>. HIDE DEF x, b2
  <2>. QED BY <1>1, <1>6, <2>1, BillChanges
<1>. HIDE DEF b1, b2, x1, x
<1>8. Due(x)
  <2>1. Cost(x) = Cost(w)
    BY <1>7, CostOfMost
  <2>2. Owes(x, Cost(w), 1)
    BY <1>6, <1>7 DEF Due, Owes, Balance, Stock
  <2>3. CanPay(x, Cost(w))
    BY <1>6, <1>7 DEF Due, CanPay
  <2>. QED BY <2>1, <2>2, <2>3 DEF Due
<1>9. /\ \A y \in CombatHealthFunc(x) : Due(y)
      /\ \A y \in CombatConditionFunc(x) : Due(y)
      /\ \A y \in CombatDispelFunc(x) : Due(y)
  BY <1>8, HealthFuncIsDue
<1>. QED
  BY <1>5, <1>8, <1>9

\* A field that harms is owed for like any other effect.
LEMMA TileEffectsAreDue ==
  ASSUME NEW w, Due(w)
  PROVE  Due(CombatTileEffects(w))
<1>. DEFINE x == [w EXCEPT !.m.fights = TRUE]
<1>1. w \in Worlds
  BY DEF Due, Owes
<1>2. x \in Worlds /\ SamePurse(x, w)
  BY <1>1, FightIsFree
<1>3. CombatTileEffects(w) \in {w, x}
  BY DEF CombatTileEffects
<1>. HIDE DEF x
<1>4. Owes(x, Cost(w), 1) /\ Cost(x) = Cost(w) /\ (\A p : CanPay(w, p) => CanPay(x, p))
  BY <1>2, SamePurseOwes DEF Due
<1>5. Due(x)
  BY <1>4 DEF Due
<1>. QED
  BY <1>3, <1>5

-----------------------------------------------------------------------------
(* What comes of a cast: nothing, or what is owed for.                     *)

\* What an effect gives back: it failed and left all as it was, or it is due.
Result(r, w) == (r.ok = FALSE /\ r.w = w) \/ (r.ok = TRUE /\ Due(r.w))

\* A price paid at once, before the spell's own: the creature is counted.
LEMMA CameOwes ==
  ASSUME NEW w, Sound(w), NEW price \in Nat, NEW came,
         \/ came = [w EXCEPT !.m.summons = @ + 1, !.b.due = @ + price]
         \/ came = [w EXCEPT !.m.summons = @ + 1, !.t.at = "gone", !.b.due = @ + price]
  PROVE  Owes(came, price, 0) /\ came.m.mana = w.m.mana /\ came.b.rose = w.b.rose
<1>. DEFINE s == w.m.summons + 1
            d == w.b.due + price
            m == [w.m EXCEPT !.summons = s]
            t == [w.t EXCEPT !.at = "gone"]
            b == [w.b EXCEPT !.due = d]
            x1 == [w EXCEPT !.m = m]
            x2 == [x1 EXCEPT !.t = t]
            x3 == [x1 EXCEPT !.b = b]
            x4 == [x2 EXCEPT !.b = b]
<1>1. w \in Worlds /\ w.m \in Mages /\ w.t \in Marks /\ w.b \in Bills
  BY DEF Sound, Owes, Worlds
<1>2. w.m.summons \in Nat /\ w.b.due \in Nat /\ w.b.trained \in Nat
  BY <1>1 DEF Mages, Bills
<1>3. came = x3 \/ came = x4
  <2>1. CASE came = [w EXCEPT !.m.summons = @ + 1, !.b.due = @ + price]
    BY <1>1, <2>1 DEF Worlds
  <2>2. CASE came = [w EXCEPT !.m.summons = @ + 1, !.t.at = "gone", !.b.due = @ + price]
    BY <1>1, <2>2 DEF Worlds
  <2>. QED BY <2>1, <2>2
<1>4. s \in Nat /\ d \in Nat
  BY <1>2
<1>5. t \in Marks
  BY <1>1 DEF Marks
<1>. HIDE DEF s, t
<1>6. /\ m \in Mages /\ m.most = w.m.most /\ m.mana = w.m.mana /\ m.kept = w.m.kept
      /\ m.charges = w.m.charges /\ m.ammo = w.m.ammo /\ m.ground = w.m.ground
  BY <1>1, <1>4 DEF Mages
<1>7. /\ b \in Bills /\ b.rose = w.b.rose /\ b.done = w.b.done /\ b.due = w.b.due + price
      /\ b.trained = w.b.trained /\ b.used = w.b.used /\ b.short = w.b.short
      /\ b.own = w.b.own /\ b.wide = w.b.wide
  BY <1>1, <1>4 DEF Bills
<1>. HIDE DEF m, b, x1, x2, x3, x4
<1>8. x1 \in Worlds /\ x1.m = m /\ x1.b = w.b
  BY <1>1, <1>6, MageChanges DEF x1
<1>9. x2 \in Worlds /\ x2.m = m /\ x2.b = w.b
  BY <1>5, <1>8, MarkChanges DEF x2
<1>10. came \in Worlds /\ came.m = m /\ came.b = b
  <2>1. x3 \in Worlds /\ x3.m = m /\ x3.b = b
    BY <1>7, <1>8, BillChanges DEF x3
  <2>2. x4 \in Worlds /\ x4.m = m /\ x4.b = b
    BY <1>7, <1>9, BillChanges DEF x4
  <2>. QED BY <1>3, <2>1, <2>2
<1>11. Balance(came, price)
  BY <1>2, <1>7, <1>10 DEF Sound, Owes, Balance
<1>12. Stock(came, 0)
  BY <1>6, <1>7, <1>10 DEF Sound, Owes, Stock
<1>. QED
  BY <1>6, <1>7, <1>10, <1>11, <1>12 DEF Sound, Owes

\* The spell itself is free then.
LEMMA CreatureIsDue ==
  ASSUME book \in Books, book.mana = 0, book.percent = 0, NEW w, NEW price \in Nat,
         Owes(w, price, 0), CanPay(w, price)
  PROVE  Due(Done(Charge(w, price), 1))
<1>. DEFINE x == Charge(w, price)
<1>1. Owes(x, 0, 0)
  BY ChargeOwes
<1>. HIDE DEF x
<1>2. x \in Worlds /\ x.m.most \in Nat /\ x.m.mana \in Nat
  BY <1>1 DEF Owes, Worlds, Mages
<1>3. Cost(x) = 0
  <2>1. (x.m.most * 0) \div 100 = 0
    <3>1. x.m.most * 0 = 0
      BY <1>2
    <3>2. 0 \div 100 = 0
      BY SMT
    <3>. QED BY <3>1, <3>2
  <2>. QED BY <2>1 DEF Cost
<1>4. CanPay(x, Cost(x))
  BY <1>2, <1>3 DEF CanPay
<1>5. Due(Done(x, 1))
  BY <1>1, <1>4, DoneIsDue
<1>. QED
  BY <1>5 DEF x

\* A summon fails, or is owed for.
LEMMA SummonIsDue ==
  ASSUME book \in Books, book.mana = 0, book.percent = 0, book.prey \in Nat, NEW w, Sound(w)
  PROVE  \A r \in SummonMonster(w) : Result(r, w)
<1>. DEFINE able == Has("summonAll") \/ (w.m.mana >= book.prey /\ w.m.summons < 2)
            came == [w EXCEPT !.m.summons = @ + 1, !.b.due = @ + book.prey]
            fine == Done(Charge(came, book.prey), 1)
<1>1. Owes(came, book.prey, 0) /\ came.m.mana = w.m.mana
  BY CameOwes, ZenonT(60)
<1>2. SummonMonster(w) =
        {[ok |-> FALSE, w |-> w]} \cup (IF able THEN {[ok |-> TRUE, w |-> fine]} ELSE {})
  BY DEF SummonMonster
<1>. HIDE DEF came
<1>3. able => Due(fine)
  <2>1. able => CanPay(came, book.prey)
    BY <1>1 DEF CanPay, Excused, Has
  <2>. QED BY <1>1, <2>1, CreatureIsDue
<1>. HIDE DEF able, fine
<1>. QED
  BY <1>2, <1>3, SMTT(30) DEF Result

\* A creature is not convinced, or is owed for.
LEMMA ConvinceIsDue ==
  ASSUME book \in Books, book.mana = 0, book.percent = 0, book.prey \in Nat, NEW w, Sound(w)
  PROVE  \A r \in Convince(w) : Result(r, w)
<1>. DEFINE able == /\ Has("convinceAll") \/ w.m.summons < 2
                    /\ w.t.alive /\ w.t.at = "near"
                    /\ Has("infiniteMana") \/ w.m.mana >= book.prey
            came == [w EXCEPT !.m.summons = @ + 1, !.t.at = "gone", !.b.due = @ + book.prey]
            fine == Done(Charge(came, book.prey), 1)
<1>1. Owes(came, book.prey, 0) /\ came.m.mana = w.m.mana
  BY CameOwes, ZenonT(60)
<1>2. Convince(w) =
        {[ok |-> FALSE, w |-> w]} \cup (IF able THEN {[ok |-> TRUE, w |-> fine]} ELSE {})
  BY DEF Convince
<1>. HIDE DEF came
<1>3. able => Due(fine)
  <2>1. able => CanPay(came, book.prey)
    BY <1>1 DEF CanPay
  <2>. QED BY <1>1, <2>1, CreatureIsDue
<1>. HIDE DEF able, fine
<1>. QED
  BY <1>2, <1>3 DEF Result

\* Whatever a spell does
LEMMA ResultsAreDue ==
  ASSUME book \in Books, book.kind # "weapon", NEW w, Sound(w), CanPay(w, Cost(w))
  PROVE  \A r \in Results(w) : Result(r, w)
<1>1. Due(Done(w, 1))
  BY DoneIsDue DEF Sound
<1>2. \A able \in BOOLEAN : Result(If(able, w), w)
  BY <1>1 DEF If, Result
<1>3. \A r \in Outcomes(w) : Result(r, w)
  <2>1. \A x \in DoCombatTarget(w) : Due(x)
    BY <1>1, HealthFuncIsDue DEF DoCombatTarget
  <2>. QED BY <2>1 DEF Outcomes, Result
<1>4. \A r \in AreaCombat(w) : Result(r, w)
  <2>1. ASSUME NEW r \in AreaCombat(w) PROVE Result(r, w)
    <3>1. PICK c, x : x \in Blow(Done(w, 1), c) /\ r = [ok |-> TRUE, w |-> CombatTileEffects(x)]
      BY DEF AreaCombat
    <3>2. Due(x)
      BY <1>1, <3>1, BlowIsDue
    <3>3. Due(CombatTileEffects(x))
      BY <3>2, TileEffectsAreDue
    <3>. QED BY <3>1, <3>3 DEF Result
  <2>. QED BY <2>1
<1>5. ASSUME book.effect \in {"summon", "convince"}
      PROVE  book.mana = 0 /\ book.percent = 0 /\ book.prey \in Nat
  BY <1>5, MagicAssumption
<1>6. book.effect = "summon" => \A r \in SummonMonster(w) : Result(r, w)
  BY <1>5, SummonIsDue
<1>7. book.effect = "convince" => \A r \in Convince(w) : Result(r, w)
  BY <1>5, ConvinceIsDue
<1>8. \A r \in Illusion(w) \cup RuneIllusion(w) : Result(r, w)
  BY <1>2 DEF Illusion, RuneIllusion, CreateIllusion
<1>9. \A r \in Levitate(w) \cup HouseList(w) \cup SearchPlayer(w) : Result(r, w)
  BY <1>2 DEF Levitate, HouseList, SearchPlayer
<1>. QED
  BY <1>3, <1>4, <1>6, <1>7, <1>8, <1>9 DEF Results

\* After a cast by word nothing is owed.
LEMMA CastsAreSound ==
  ASSUME book \in Books, book.kind = "instant", NEW w, Sound(w), CanPay(w, Cost(w))
  PROVE  \A x \in Casts(w) : Sound(x)
<1>. SUFFICES ASSUME NEW r \in Results(w)
              PROVE  Sound(IF r.ok THEN PostCastSpell(r.w, TRUE, TRUE) ELSE r.w)
  BY DEF Casts
<1>1. Result(r, w)
  BY ResultsAreDue
<1>2. CASE r.ok = FALSE /\ r.w = w
  BY <1>2
<1>3. CASE r.ok = TRUE /\ Due(r.w)
  <2>. DEFINE x == PostCastSpell(r.w, TRUE, TRUE)
  <2>1. Owes(x, 0, 1)
    BY <1>3, PostCastPays DEF Due
  <2>. HIDE DEF x
  <2>2. Sound(x)
    BY <2>1 DEF Sound, Owes, Stock
  <2>. QED BY <1>3, <2>2 DEF x
<1>. QED
  BY <1>1, <1>2, <1>3 DEF Result

\* A charge is taken for an effect.
LEMMA TakeChargeOwes ==
  ASSUME NEW w, NEW n, Owes(w, n, 1),
         book.kind = "rune" \/ (book.kind = "weapon" /\ book.ammo = "charges")
  PROVE  LET x == TakeCharge(w)
         IN /\ Owes(x, n, 0)
            /\ x.m.most = w.m.most /\ x.m.mana = w.m.mana /\ x.b.rose = w.b.rose
<1>1. w \in Worlds /\ w.m \in Mages /\ w.b \in Bills
  BY DEF Owes, Worlds
<1>2. w.m.charges \in 0..2 /\ w.b.used \in Nat /\ w.b.done \in Nat /\ w.m.kept \in BOOLEAN
  BY <1>1 DEF Mages, Bills
<1>3. CASE ~w.m.kept \/ w.m.charges = 0
  <2>1. TakeCharge(w) = w
    BY <1>3 DEF TakeCharge
  <2>2. Stock(w, 0)
    BY <1>2 DEF Owes, Stock
  <2>. QED BY <2>1, <2>2 DEF Owes
<1>4. CASE w.m.kept /\ w.m.charges # 0
  <2>. DEFINE c == w.m.charges - 1
              u == w.b.used + 1
              m == [w.m EXCEPT !.charges = c]
              b == [w.b EXCEPT !.used = u]
              x1 == [w EXCEPT !.m = m]
              x == [x1 EXCEPT !.b = b]
  <2>1. c \in 0..2 /\ u \in Nat
    BY <1>2, <1>4
  <2>2. TakeCharge(w) = x
    BY <1>1, <1>4 DEF TakeCharge, Worlds
  <2>. HIDE DEF c, u
  <2>3. /\ m \in Mages /\ m.most = w.m.most /\ m.mana = w.m.mana /\ m.kept = w.m.kept
        /\ m.charges = c /\ m.ammo = w.m.ammo /\ m.ground = w.m.ground
    BY <1>1, <2>1 DEF Mages
  <2>4. /\ b \in Bills /\ b.rose = w.b.rose /\ b.done = w.b.done /\ b.due = w.b.due
        /\ b.trained = w.b.trained /\ b.used = u /\ b.short = w.b.short
        /\ b.own = w.b.own /\ b.wide = w.b.wide
    BY <1>1, <2>1 DEF Bills
  <2>. HIDE DEF m, b, x1, x
  <2>5. x1 \in Worlds /\ x1.m = m /\ x1.b = w.b
    BY <1>1, <2>3, MageChanges DEF x1
  <2>6. x \in Worlds /\ x.m = m /\ x.b = b
    BY <2>4, <2>5, BillChanges DEF x
  <2>7. Stock(x, 0)
    <3>1. book.kind = "rune" => w.b.used + w.m.charges = 2 /\ w.b.used + 1 <= w.b.done
      BY <1>4 DEF Owes, Stock
    <3>2. book.kind = "rune" => u + c = 2 /\ u + 0 <= w.b.done
      BY <1>2, <3>1 DEF c, u
    <3>3. ~(book.kind = "conjure" /\ book.effect = "reagent")
      OBVIOUS
    <3>4. ~(book.kind = "weapon" /\ book.ammo \in {"remove", "move", "moveBack"})
      OBVIOUS
    <3>. QED BY <2>3, <2>4, <2>6, <3>2, <3>3, <3>4 DEF Stock
  <2>8. Balance(x, n)
    BY <2>4, <2>6 DEF Owes, Balance
  <2>9. Owes(x, n, 0)
    BY <2>3, <2>4, <2>6, <2>7, <2>8 DEF Owes
  <2>. QED BY <2>2, <2>3, <2>4, <2>6, <2>9
<1>. QED
  BY <1>2, <1>3, <1>4

\* Whoever passes the check of a spell can pay for it.
LEMMA CheckedCanPay ==
  ASSUME NEW w, PlayerSpellCheck(w)
  PROVE  CanPay(w, Cost(w))
BY DEF PlayerSpellCheck, CanPay, Excused, Has

\* After the use of a rune nothing is owed.
LEMMA ExecuteUseIsSound ==
  ASSUME book \in Books, book.kind = "rune", NEW w, Sound(w), NEW spot, NEW reach
  PROVE  \A x \in ExecuteUse(w, spot, reach) : Sound(x)
<1>1. CASE Has("noSpells") \/ w.m.charges = 0 \/ ~PlayerRuneSpellCheck(w, spot, reach)
  BY <1>1 DEF ExecuteUse
<1>2. CASE ~(Has("noSpells") \/ w.m.charges = 0 \/ ~PlayerRuneSpellCheck(w, spot, reach))
  <2>1. CanPay(w, Cost(w))
    BY <1>2, CheckedCanPay DEF PlayerRuneSpellCheck
  <2>2. ASSUME NEW r \in Results(w)
        PROVE  Sound(IF r.ok THEN TakeCharge(PostCastSpell(r.w, TRUE, TRUE)) ELSE r.w)
    <3>1. Result(r, w)
      BY <2>1, ResultsAreDue
    <3>2. CASE r.ok = FALSE /\ r.w = w
      BY <3>2
    <3>3. CASE r.ok = TRUE /\ Due(r.w)
      <4>. DEFINE x == PostCastSpell(r.w, TRUE, TRUE)
      <4>1. Owes(x, 0, 1)
        BY <3>3, PostCastPays DEF Due
      <4>. HIDE DEF x
      <4>2. Sound(TakeCharge(x))
        BY <4>1, TakeChargeOwes DEF Sound
      <4>. QED BY <3>3, <4>2 DEF x
    <3>. QED BY <3>1, <3>2, <3>3 DEF Result
  <2>. QED BY <1>2, <2>2 DEF ExecuteUse
<1>. QED
  BY <1>1, <1>2

\* Nor after an instant spell, aimed at whatever it is.
LEMMA CastInstantIsSound ==
  ASSUME book \in Books, book.kind = "instant", NEW w, Sound(w), NEW spot
  PROVE  \A x \in PlayerCastInstant(w, spot) : Sound(x)
<1>1. CASE ~PlayerSpellCheck(w)
  BY <1>1 DEF PlayerCastInstant
<1>2. CASE PlayerSpellCheck(w)
  <2>1. \A x \in Casts(w) : Sound(x)
    BY <1>2, CheckedCanPay, CastsAreSound
  <2>2. PlayerCastInstant(w, spot) = Casts(w) \/ PlayerCastInstant(w, spot) = {w}
    <3>. DEFINE target == w.t.at # "gone" /\ w.t.alive
    <3>1. CASE book.aim \in {"self", "param"}
      BY <1>2, <3>1 DEF PlayerCastInstant
    <3>2. CASE book.aim \in {"target", "either"} /\ target
      BY <1>2, <3>2 DEF PlayerCastInstant
    <3>3. CASE book.aim = "target" /\ ~target
      BY <1>2, <3>3 DEF PlayerCastInstant
    <3>4. CASE /\ book.aim \notin {"self", "param"} /\ ~(book.aim \in {"target", "either"} /\ target)
               /\ ~(book.aim = "target" /\ ~target)
      BY <1>2, <3>4 DEF PlayerCastInstant
    <3>. QED BY <3>1, <3>2, <3>3, <3>4
  <2>. QED BY <2>1, <2>2
<1>. QED
  BY <1>1, <1>2

-----------------------------------------------------------------------------
(* Conjuring.                                                              *)

\* A blank becomes a product, and the product is owed for.
LEMMA ConjureHandOwes ==
  ASSUME book \in Books, book.kind = "conjure", book.effect = "reagent", NEW w, Sound(w), CanPay(w, Cost(w)),
         NEW hand \in {"left", "right"}
  PROVE  LET x == ConjureHand(w, hand) IN Owes(x, Cost(x), 0) /\ CanPay(x, Cost(x))
<1>. DEFINE h == [w.m.hands EXCEPT ![hand] = "product"]
            u == w.b.used + 1
            d == w.b.done + 1
            e == w.b.due + 1 * Cost(w)
            m == [w.m EXCEPT !.hands = h]
            b1 == [w.b EXCEPT !.used = u]
            y1 == [w EXCEPT !.m = m]
            y == [y1 EXCEPT !.b = b1]
            b == [b1 EXCEPT !.done = d, !.due = e]
            x == [y EXCEPT !.b = b]
<1>1. w \in Worlds /\ w.m \in Mages /\ w.b \in Bills
  BY DEF Sound, Owes, Worlds
<1>2. /\ w.b.used \in Nat /\ w.b.done \in Nat /\ w.b.due \in Nat /\ w.b.trained \in Nat
      /\ w.m.hands \in [left : Hands, right : Hands] /\ Cost(w) \in Nat
  BY <1>1, CostIsNat DEF Mages, Bills
<1>3. h \in [left : Hands, right : Hands]
  <2>1. CASE hand = "left"
    BY <1>2, <2>1 DEF Hands
  <2>2. CASE hand = "right"
    BY <1>2, <2>2 DEF Hands
  <2>. QED BY <2>1, <2>2
<1>4. u \in Nat /\ d \in Nat /\ e \in Nat /\ e = w.b.due + Cost(w)
  BY <1>2
<1>5. [w EXCEPT !.m.hands[hand] = "product", !.b.used = @ + 1] = y
  BY <1>1 DEF Worlds
<1>. HIDE DEF h, u
<1>6. /\ m \in Mages /\ m.most = w.m.most /\ m.mana = w.m.mana
  BY <1>1, <1>3 DEF Mages
<1>7. /\ b1 \in Bills /\ b1.rose = w.b.rose /\ b1.done = w.b.done /\ b1.due = w.b.due
      /\ b1.trained = w.b.trained /\ b1.used = u /\ b1.short = w.b.short
      /\ b1.own = w.b.own /\ b1.wide = w.b.wide
  BY <1>1, <1>4 DEF Bills
<1>. HIDE DEF m, b1, y1, y
<1>8. y1 \in Worlds /\ y1.m = m /\ y1.b = w.b
  BY <1>1, <1>6, MageChanges DEF y1
<1>9. y \in Worlds /\ y.m = m /\ y.b = b1
  BY <1>7, <1>8, BillChanges DEF y
<1>10. Cost(y) = Cost(w)
  BY <1>6, <1>9, CostOfMost
<1>11. ConjureHand(w, hand) = x
  <2>1. ConjureHand(w, hand) = Done(y, 1)
    BY <1>5 DEF ConjureHand
  <2>2. y.b.done + 1 = d /\ y.b.due + 1 * Cost(y) = e
    BY <1>7, <1>9, <1>10
  <2>3. Done(y, 1) = [y EXCEPT !.b = [y.b EXCEPT !.done = d, !.due = e]]
    <3>. HIDE DEF d, e
    <3>1. Done(y, 1) = [y EXCEPT !.b.done = y.b.done + 1, !.b.due = y.b.due + 1 * Cost(y)]
      BY <1>9 DEF Done, Worlds, Bills
    <3>. QED BY <1>9, <2>2, <3>1 DEF Worlds, Bills
  <2>. QED BY <1>9, <2>1, <2>3
<1>. HIDE DEF d, e
<1>12. /\ b \in Bills /\ b.rose = w.b.rose /\ b.done = d /\ b.due = e
       /\ b.trained = w.b.trained /\ b.used = u /\ b.short = w.b.short
       /\ b.own = w.b.own /\ b.wide = w.b.wide
  BY <1>4, <1>7 DEF Bills
<1>. HIDE DEF b, x
<1>13. x \in Worlds /\ x.m = m /\ x.b = b
  BY <1>9, <1>12, BillChanges DEF x
<1>14. Cost(x) = Cost(w)
  BY <1>6, <1>13, CostOfMost
<1>15. Balance(x, Cost(w))
  BY <1>2, <1>4, <1>12, <1>13 DEF Sound, Owes, Balance
<1>16. Stock(x, 0)
  BY <1>2, <1>4, <1>12, <1>13 DEF Sound, Owes, Stock, u, d
<1>17. Owes(x, Cost(w), 0)
  BY <1>6, <1>12, <1>13, <1>15, <1>16 DEF Sound, Owes
<1>18. CanPay(x, Cost(w))
  BY <1>6, <1>12, <1>13 DEF CanPay
<1>. QED
  BY <1>11, <1>14, <1>17, <1>18

\* A spell that is paid for already, or for nothing, ends.
LEMMA PostCastEnds ==
  ASSUME NEW w, Sound(w)
  PROVE  Sound(PostCastSpell(w, TRUE, FALSE))
<1>1. PostCastSpell(w, TRUE, FALSE) = Finish(w)
  BY DEF PostCastSpell
<1>2. Finish(w) \in Worlds /\ SamePurse(Finish(w), w)
  BY FinishIsFree DEF Sound, Owes
<1>3. Owes(Finish(w), 0, 0)
  BY <1>2, SamePurseOwes DEF Sound
<1>. QED
  BY <1>1, <1>3 DEF Sound

\* Both hands are conjured in one after the other, each paid for by itself.
LEMMA ConjureItemIsSound ==
  ASSUME book \in Books, book.kind = "conjure", book.effect = "reagent", NEW w, Sound(w)
  PROVE  Sound(ConjureItem(w))
<1>. DEFINE Try(x, hand) == IF CanConjure(x, hand) /\ PlayerSpellCheck(x)
                            THEN PostCastSpell(ConjureHand(x, hand), FALSE, TRUE) ELSE x
            first == Try(w, "left")
            second == Try(first, "right")
<1>1. ASSUME NEW x, Sound(x), NEW hand \in {"left", "right"}
      PROVE  Sound(Try(x, hand))
  <2>1. CASE CanConjure(x, hand) /\ PlayerSpellCheck(x)
    <3>. DEFINE y == ConjureHand(x, hand)
    <3>1. CanPay(x, Cost(x))
      BY <2>1, CheckedCanPay
    <3>2. Owes(y, Cost(y), 0) /\ CanPay(y, Cost(y))
      BY <1>1, <3>1, ConjureHandOwes
    <3>. HIDE DEF y
    <3>3. Owes(PostCastSpell(y, FALSE, TRUE), 0, 0)
      BY <3>2, PostCastPays
    <3>. QED BY <2>1, <3>3 DEF Sound, y
  <2>2. CASE ~(CanConjure(x, hand) /\ PlayerSpellCheck(x))
    BY <1>1, <2>2
  <2>. QED BY <2>1, <2>2
<1>. HIDE DEF Try
<1>2. Sound(first)
  BY <1>1
<1>3. Sound(second)
  BY <1>1, <1>2
<1>4. Sound(PostCastSpell(second, TRUE, FALSE))
  BY <1>3, PostCastEnds
<1>5. ConjureItem(w) \in {w, PostCastSpell(second, TRUE, FALSE)}
  BY Zenon DEF ConjureItem, Try
<1>. QED
  BY <1>4, <1>5

\* After a conjuring nothing is owed.
LEMMA ConjureCastIsSound ==
  ASSUME book \in Books, book.kind = "conjure", NEW w, Sound(w)
  PROVE  \A x \in ConjureCast(w) : Sound(x)
<1>1. CASE ~PlayerSpellCheck(w)
  BY <1>1 DEF ConjureCast
<1>2. CASE PlayerSpellCheck(w) /\ book.effect = "reagent"
  BY <1>2, ConjureItemIsSound DEF ConjureCast
<1>3. CASE PlayerSpellCheck(w) /\ book.effect # "reagent"
  <2>. DEFINE d == Done(w, 1)
              x == PostCastSpell(d, TRUE, TRUE)
  <2>1. Due(d)
    BY <1>3, CheckedCanPay, DoneIsDue DEF Sound
  <2>. HIDE DEF d
  <2>2. Owes(x, 0, 1)
    BY <2>1, PostCastPays DEF Due
  <2>. HIDE DEF x
  <2>3. Sound(x)
    BY <1>3, <2>2 DEF Sound, Owes, Stock
  <2>4. ConjureCast(w) = {w, x}
    BY <1>3 DEF ConjureCast, ConjureFood, x, d
  <2>. QED BY <2>3, <2>4
<1>. QED
  BY <1>1, <1>2, <1>3

-----------------------------------------------------------------------------
(* Weapons.                                                                *)

\* Ammunition that leaves the slot is used up or lies on the ground.
LEMMA AmmoLeaves ==
  ASSUME book.kind = "weapon", NEW w, NEW n, Owes(w, n, 1), w.m.ammo > 0,
         NEW lands \in BOOLEAN, NEW x,
         x = IF lands THEN [w EXCEPT !.m.ammo = @ - 1, !.m.ground = @ + 1]
             ELSE [w EXCEPT !.m.ammo = @ - 1, !.b.used = @ + 1]
  PROVE  /\ Owes(x, n, 0)
         /\ x.m.most = w.m.most /\ x.m.mana = w.m.mana /\ x.b.rose = w.b.rose
<1>. DEFINE a == w.m.ammo - 1
            g == IF lands THEN w.m.ground + 1 ELSE w.m.ground
            u == IF lands THEN w.b.used ELSE w.b.used + 1
            m1 == [w.m EXCEPT !.ammo = a]
            m == [m1 EXCEPT !.ground = g]
            b == [w.b EXCEPT !.used = u]
            y1 == [w EXCEPT !.m = m]
            y == [y1 EXCEPT !.b = b]
<1>1. w \in Worlds /\ w.m \in Mages /\ w.b \in Bills
  BY DEF Owes, Worlds
<1>2. w.m.ammo \in 0..2 /\ w.m.ground \in Nat /\ w.b.used \in Nat
  BY <1>1 DEF Mages, Bills
<1>3. a \in 0..2 /\ g \in Nat /\ u \in Nat /\ a + g + u = w.m.ammo + w.m.ground + w.b.used
  BY <1>2
<1>4. x = y
  <2>1. CASE lands
    <3>1. x = [w EXCEPT !.m = [w.m EXCEPT !.ammo = w.m.ammo - 1, !.ground = w.m.ground + 1]]
      BY <1>1, <2>1 DEF Worlds, Mages
    <3>2. b = w.b
      BY <1>1, <2>1 DEF Bills
    <3>. QED BY <1>1, <2>1, <3>1, <3>2 DEF Worlds
  <2>2. CASE ~lands
    <3>1. x = [[w EXCEPT !.m = [w.m EXCEPT !.ammo = w.m.ammo - 1]] EXCEPT !.b = [w.b EXCEPT !.used = w.b.used + 1]]
      BY <1>1, <2>2 DEF Worlds
    <3>2. m = [w.m EXCEPT !.ammo = w.m.ammo - 1]
      BY <1>1, <2>2 DEF Mages
    <3>. QED BY <2>2, <3>1, <3>2
  <2>. QED BY <2>1, <2>2
<1>. HIDE DEF a, g, u
<1>5. /\ m \in Mages /\ m.most = w.m.most /\ m.mana = w.m.mana /\ m.kept = w.m.kept
      /\ m.charges = w.m.charges /\ m.ammo = a /\ m.ground = g
  BY <1>1, <1>3 DEF Mages
<1>6. /\ b \in Bills /\ b.rose = w.b.rose /\ b.done = w.b.done /\ b.due = w.b.due
      /\ b.trained = w.b.trained /\ b.used = u /\ b.short = w.b.short
      /\ b.own = w.b.own /\ b.wide = w.b.wide
  BY <1>1, <1>3 DEF Bills
<1>. HIDE DEF m, b, y1, y
<1>7. y1 \in Worlds /\ y1.m = m /\ y1.b = w.b
  BY <1>1, <1>5, MageChanges DEF y1
<1>8. y \in Worlds /\ y.m = m /\ y.b = b
  BY <1>6, <1>7, BillChanges DEF y
<1>9. Stock(y, 0)
  BY <1>3, <1>5, <1>6, <1>8 DEF Owes, Stock
<1>10. Balance(y, n)
  BY <1>6, <1>8 DEF Owes, Balance
<1>11. Owes(y, n, 0)
  BY <1>5, <1>6, <1>8, <1>9, <1>10 DEF Owes
<1>. QED
  BY <1>4, <1>5, <1>6, <1>8, <1>11

\* A shot is still owed for when its ammunition is taken.
LEMMA OnUsedAmmoOwes ==
  ASSUME book.kind = "weapon", NEW w, Due(w), book.ammo = "none" \/ w.m.ammo > 0,
         NEW x \in OnUsedAmmo(w)
  PROVE  Owes(x, Cost(x), 0) /\ CanPay(x, Cost(x))
<1>. DEFINE Spent == [w EXCEPT !.m.ammo = @ - 1, !.b.used = @ + 1]
            Lands == [w EXCEPT !.m.ammo = @ - 1, !.m.ground = @ + 1]
<1>1. /\ Owes(x, Cost(w), 0)
      /\ x.m.most = w.m.most /\ x.m.mana = w.m.mana /\ x.b.rose = w.b.rose
  <2>1. CASE x = w
    BY <2>1 DEF Due, Owes, Stock
  <2>2. CASE x = TakeCharge(w) /\ book.ammo = "charges"
    BY <2>2, TakeChargeOwes, SMTT(30) DEF Due
  <2>3. CASE w.m.ammo > 0 /\ x = Spent
    <3>1. x = IF FALSE THEN Lands ELSE Spent
      BY <2>3
    <3>2. FALSE \in BOOLEAN
      OBVIOUS
    <3>. QED BY <2>3, <3>1, <3>2, AmmoLeaves, Zenon DEF Due
  <2>4. CASE w.m.ammo > 0 /\ x = Lands
    <3>1. x = IF TRUE THEN Lands ELSE Spent
      BY <2>4
    <3>2. TRUE \in BOOLEAN
      OBVIOUS
    <3>. QED BY <2>4, <3>1, <3>2, AmmoLeaves, Zenon DEF Due
  <2>5. \/ x = w
        \/ x = TakeCharge(w) /\ book.ammo = "charges"
        \/ w.m.ammo > 0 /\ x = Spent
        \/ w.m.ammo > 0 /\ x = Lands
    <3>. HIDE DEF Spent, Lands
    <3>1. OnUsedAmmo(w) =
            CASE book.ammo = "remove"   -> {Spent}
              [] book.ammo = "move"     -> {Lands, Spent}
              [] book.ammo = "moveBack" -> {w, Spent}
              [] book.ammo = "charges"  -> {TakeCharge(w)}
              [] OTHER -> {w}
      BY Zenon DEF OnUsedAmmo, Spent, Lands
    <3>2. CASE book.ammo \in {"remove", "move", "moveBack"}
      BY <3>1, <3>2
    <3>3. CASE book.ammo = "charges"
      BY <3>1, <3>3
    <3>4. CASE book.ammo \notin {"remove", "move", "moveBack", "charges"}
      BY <3>1, <3>4
    <3>. QED BY <3>2, <3>3, <3>4
  <2>. QED BY <2>1, <2>2, <2>3, <2>4, <2>5
<1>2. Cost(x) = Cost(w)
  BY <1>1, CostOfMost
<1>3. CanPay(x, Cost(w))
  BY <1>1 DEF Due, CanPay
<1>. QED
  BY <1>1, <1>2, <1>3

\* After the use of a weapon nothing is owed.
LEMMA UseWeaponIsSound ==
  ASSUME book \in Books, book.kind = "weapon", NEW w, Sound(w), book.ammo = "none" \/ w.m.ammo > 0,
         NEW y \in UseWeapon(w)
  PROVE  Sound(y)
<1>1. CASE ~PlayerWeaponCheck(w)
  BY <1>1 DEF UseWeapon
<1>2. CASE PlayerWeaponCheck(w)
  <2>. DEFINE d == Done(w, 1)
              k == Kill(d, w.m.most = FullMana)
  <2>1. CanPay(w, Cost(w))
    BY <1>2 DEF PlayerWeaponCheck, CanPay, Excused, Has
  <2>2. Due(d) /\ d \in Worlds /\ d.m = w.m
    <3>1. Due(d)
      BY <2>1, DoneIsDue DEF Sound
    <3>2. w \in Worlds
      BY DEF Sound, Owes
    <3>. QED BY <3>1, <3>2 DEF Due, Owes, Done, Worlds
  <2>. HIDE DEF d
  <2>3. Due(k) /\ k.m.ammo = w.m.ammo
    <3>1. (w.m.most = FullMana) \in BOOLEAN
      OBVIOUS
    <3>. QED BY <2>2, <3>1, KillIsDue, ZenonT(60)
  <2>. HIDE DEF k
  <2>4. PICK h \in {d, k}, x \in OnUsedAmmo(w) \cup OnUsedAmmo(d) \cup OnUsedAmmo(k) :
          x \in OnUsedAmmo(h) /\ y = OnUsedWeapon(x)
    BY <1>2 DEF UseWeapon, InternalUseWeapon, d, k
  <2>5. Due(h) /\ (book.ammo = "none" \/ h.m.ammo > 0)
    BY <2>2, <2>3
  <2>6. Owes(x, Cost(x), 0) /\ CanPay(x, Cost(x))
    BY <2>4, <2>5, OnUsedAmmoOwes
  <2>. DEFINE e == Exhaust(x)
  <2>7. e \in Worlds /\ SamePurse(e, x)
    BY <2>6, ExhaustIsFree DEF Owes
  <2>8. y = Charge(e, Cost(e))
    BY <2>4 DEF OnUsedWeapon
  <2>. HIDE DEF e
  <2>9. Owes(e, Cost(e), 0) /\ CanPay(e, Cost(e))
    BY <2>6, <2>7, SamePurseOwes
  <2>10. Cost(e) \in Nat
    BY <2>7, CostIsNat
  <2>. QED
    BY <2>8, <2>9, <2>10, ChargeOwes DEF Sound
<1>. QED
  BY <1>1, <1>2

\* Nor after a swing, whatever it was made with.
LEMMA DoAttackingIsSound ==
  ASSUME book \in Books, book.kind = "weapon", NEW w, Sound(w), NEW y \in DoAttacking(w)
  PROVE  Sound(y)
<1>1. ASSUME NEW x \in UseFist(w) PROVE Sound(x)
  <2>1. (w.m.most = FullMana) \in BOOLEAN
    OBVIOUS
  <2>2. w \in Worlds
    BY DEF Sound, Owes
  <2>3. Sound(Kill(w, w.m.most = FullMana))
    BY <2>1, <2>2, KillIsDue DEF Sound
  <2>. QED BY <2>3 DEF UseFist
<1>2. ASSUME GetWeapon(w) # "fist", NEW x \in UseWeapon(w) PROVE Sound(x)
  BY <1>2, UseWeaponIsSound DEF GetWeapon
<1>. DEFINE swings == IF GetWeapon(w) = "fist" THEN UseFist(w)
                      ELSE IF ~book.interrupts THEN UseWeapon(w)
                      ELSE IF book.exhaustion THEN {w} ELSE UseWeapon(w)
<1>3. ASSUME NEW x \in swings PROVE Sound(x)
  BY <1>1, <1>2
<1>4. y = w \/ \E x \in swings : y = [x EXCEPT !.m.rested = FALSE]
  <2>. HIDE DEF swings
  <2>1. DoAttacking(w) = IF ~w.m.rested THEN {w}
                         ELSE {IF x = w THEN w ELSE [x EXCEPT !.m.rested = FALSE] : x \in swings}
    BY Zenon DEF DoAttacking, swings
  <2>. QED BY <2>1
<1>. HIDE DEF swings
<1>5. ASSUME NEW x, Sound(x) PROVE Sound([x EXCEPT !.m.rested = FALSE])
  <2>. DEFINE m == [x.m EXCEPT !.rested = FALSE]
              z == [x EXCEPT !.m = m]
  <2>1. x \in Worlds
    BY <1>5 DEF Sound, Owes
  <2>2. /\ m \in Mages /\ m.mana = x.m.mana /\ m.most = x.m.most /\ m.kept = x.m.kept
        /\ m.charges = x.m.charges /\ m.ammo = x.m.ammo /\ m.ground = x.m.ground
    BY <2>1 DEF Worlds, Mages
  <2>3. [x EXCEPT !.m.rested = FALSE] = z
    OBVIOUS
  <2>. HIDE DEF m
  <2>4. z \in Worlds /\ SamePurse(z, x)
    BY <2>1, <2>2, MageChanges DEF SamePurse
  <2>. HIDE DEF z
  <2>. QED BY <1>5, <2>3, <2>4, SamePurseOwes DEF Sound
<1>. QED
  BY <1>3, <1>4, <1>5

-----------------------------------------------------------------------------
(* Steps.                                                                  *)

\* A handler that ends in a sound world makes a sound step.
LEMMA SoundBecomes ==
  ASSUME MagicIInv, NEW w, Sound(w), MagicBecomes(w)
  PROVE  MagicIInv'
<1>. DEFINE u == w.b.uses + 1
            b == [w.b EXCEPT !.uses = u]
            y == [w EXCEPT !.b = b]
<1>1. w \in Worlds /\ w.b \in Bills /\ w.b.uses \in Nat
  BY DEF Sound, Owes, Worlds, Bills
<1>2. u \in Nat
  BY <1>1
<1>3. /\ b \in Bills /\ b.rose = w.b.rose /\ b.done = w.b.done /\ b.due = w.b.due
      /\ b.trained = w.b.trained /\ b.used = w.b.used /\ b.short = w.b.short
      /\ b.own = w.b.own /\ b.wide = w.b.wide
  BY <1>1, <1>2 DEF Bills
<1>4. mage' = w.m /\ mark' = w.t /\ bill' = b /\ book' = book /\ gifts' = gifts
  BY DEF MagicBecomes
<1>. HIDE DEF b
<1>5. y \in Worlds /\ y.m = w.m /\ y.t = w.t /\ y.b = b
  BY <1>1, <1>3, BillChanges
<1>6. y = [m |-> w.m, t |-> w.t, b |-> b]
  BY <1>1 DEF Worlds
<1>. HIDE DEF y
<1>7. Sound(y)
  BY <1>3, <1>5 DEF Sound, Owes, Balance, Stock
<1>8. Now' = y
  BY <1>4, <1>6 DEF Now
<1>9. Sound(Now)'
  <2>1. Now' \in Worlds /\ Now'.m.mana <= Now'.m.most
    BY <1>7, <1>8 DEF Sound, Owes
  <2>2. Now'.b.short => Now'.b.rose \/ Excused'
    BY <1>4, <1>7, <1>8 DEF Sound, Owes, Excused
  <2>3. ~Now'.b.own /\ ~Now'.b.wide
    BY <1>7, <1>8 DEF Sound, Owes
  <2>4. Balance(Now, 0)'
    BY <1>7, <1>8 DEF Sound, Owes, Balance
  <2>5. Stock(Now, 0)'
    BY <1>4, <1>7, <1>8 DEF Sound, Owes, Stock
  <2>. QED BY <2>1, <2>2, <2>3, <2>4, <2>5 DEF Sound, Owes, Worlds, Mages, Marks, Bills, Zones, Hands
<1>. QED
  BY <1>4, <1>9 DEF MagicIInv

\* A player who has cast nothing owes nothing.
LEMMA MagicInitIInv == MagicInit => MagicIInv
<1>. SUFFICES ASSUME MagicInit PROVE MagicIInv
  OBVIOUS
<1>1. book \in Books /\ gifts \in Bearings /\ book.holds \subseteq Hands
  BY MagicAssumption DEF MagicInit
<1>2. PICK mana \in 0..FullMana, l \in book.holds, r \in book.holds, kept \in BOOLEAN :
        mage = [mana |-> mana, most |-> FullMana, exhausted |-> {}, fights |-> FALSE,
                zone |-> "open", rested |-> TRUE, summons |-> 0,
                hands |-> [left |-> l, right |-> r], kept |-> kept,
                charges |-> 2, ammo |-> 2, ground |-> 0]
  BY DEF MagicInit
<1>3. mage \in Mages /\ mage.mana <= mage.most
  <2>1. FullMana \in Nat /\ mana \in Nat /\ mana <= FullMana
    BY MagicAssumption
  <2>2. [left |-> l, right |-> r] \in [left : Hands, right : Hands]
    BY <1>1
  <2>3. mage.mana <= mage.most
    BY <1>2, <2>1
  <2>4. "open" \in Zones /\ {} \in SUBSET {"combat", "heal"}
    BY DEF Zones
  <2>5. mage \in Mages
    BY <1>2, <2>1, <2>2, <2>4 DEF Mages
  <2>. QED BY <2>3, <2>5
<1>4. mark \in Marks
  BY DEF MagicInit, Marks
<1>5. bill \in Bills
  BY DEF MagicInit, Bills
<1>6. Now \in Worlds /\ Now.m = mage /\ Now.b = bill
  BY <1>3, <1>4, <1>5 DEF Now, Worlds
<1>7. /\ bill.trained = 0 /\ bill.due = 0 /\ bill.used = 0 /\ bill.done = 0
      /\ bill.short = FALSE /\ bill.own = FALSE /\ bill.wide = FALSE
  BY DEF MagicInit
<1>8. mage.charges = 2 /\ mage.ammo = 2 /\ mage.ground = 0
  BY <1>2
<1>9. Balance(Now, 0) /\ Stock(Now, 0)
  BY <1>6, <1>7, <1>8 DEF Balance, Stock
<1>. QED
  BY <1>1, <1>3, <1>6, <1>7, <1>9 DEF MagicIInv, Sound, Owes

\* Only what a cast does not look back at changes without one.
LEMMA IdleIsSound ==
  ASSUME MagicIInv, UNCHANGED <<book, gifts, bill>>,
         mage' \in Mages, mark' \in Marks, mage'.mana <= mage'.most,
         mage'.kept = mage.kept, mage'.charges = mage.charges,
         mage'.ammo = mage.ammo, mage'.ground = mage.ground
  PROVE  MagicIInv'
<1>1. bill \in Bills /\ Now.b = bill /\ Now.m = mage
  BY DEF MagicIInv, Sound, Owes, Worlds, Now
<1>2. Now' \in Worlds' /\ Now'.m = mage' /\ Now'.b = bill
  BY <1>1 DEF Now, Worlds, Mages, Marks, Bills, Zones, Hands
<1>3. Balance(Now, 0)' /\ Stock(Now, 0)'
  BY <1>1, <1>2 DEF MagicIInv, Sound, Owes, Balance, Stock
<1>4. (Now.b.short => Now.b.rose \/ Excused)' /\ (~Now.b.own /\ ~Now.b.wide)'
  BY <1>1, <1>2 DEF MagicIInv, Sound, Owes, Excused
<1>5. (Now.m.mana <= Now.m.most)'
  BY <1>2
<1>. QED
  BY <1>2, <1>3, <1>4, <1>5 DEF MagicIInv, Sound, Owes

\* Every step keeps the invariant, action by action.
LEMMA MagicNextIInv == MagicIInv /\ [MagicNext]_magicVars => MagicIInv'
<1>. SUFFICES ASSUME MagicIInv, [MagicNext]_magicVars PROVE MagicIInv'
  OBVIOUS
<1>1. /\ book \in Books /\ Sound(Now)
      /\ mage \in Mages /\ mark \in Marks /\ bill \in Bills /\ mage.mana <= mage.most
  BY DEF MagicIInv, Sound, Owes, Worlds, Now
<1>2. CASE PlayerSaySpell
  <2>1. CASE book.kind = "instant"
    <3>1. PICK spot, w : w \in PlayerCastInstant(Now, spot) /\ MagicBecomes(w)
      BY <1>2, <2>1 DEF PlayerSaySpell
    <3>2. Sound(w)
      BY <1>1, <2>1, <3>1, CastInstantIsSound
    <3>. QED BY <3>1, <3>2, SoundBecomes
  <2>2. CASE book.kind = "conjure"
    <3>1. PICK w \in ConjureCast(Now) : MagicBecomes(w)
      BY <1>2, <2>2 DEF PlayerSaySpell
    <3>2. Sound(w)
      BY <1>1, <2>2, ConjureCastIsSound
    <3>. QED BY <3>1, <3>2, SoundBecomes
  <2>. QED BY <1>2, <2>1, <2>2 DEF PlayerSaySpell
<1>3. CASE UseRune
  <2>1. PICK spot, reach, w : w \in ExecuteUse(Now, spot, reach) /\ MagicBecomes(w)
    BY <1>3 DEF UseRune
  <2>2. book.kind = "rune"
    BY <1>3 DEF UseRune
  <2>3. Sound(w)
    BY <1>1, <2>1, <2>2, ExecuteUseIsSound
  <2>. QED BY <2>1, <2>3, SoundBecomes
<1>4. CASE Attack
  <2>1. PICK w \in DoAttacking(Now) : MagicBecomes(w)
    BY <1>4 DEF Attack
  <2>2. Sound(w)
    BY <1>1, <1>4, DoAttackingIsSound DEF Attack
  <2>. QED BY <2>1, <2>2, SoundBecomes
<1>5. CASE Rest
  <2>. DEFINE n == IF mage.mana < mage.most THEN mage.mana + 1 ELSE mage.mana
  <2>1. mage.mana \in Nat /\ mage.most \in Nat
    BY <1>1 DEF Mages
  <2>2. n \in Nat /\ n <= mage.most
    BY <1>1, <2>1
  <2>3. mage' = [mage EXCEPT !.exhausted = {}, !.fights = FALSE, !.rested = TRUE, !.mana = n]
    BY <1>1, <1>5 DEF Rest, Mages
  <2>. HIDE DEF n
  <2>4. /\ mage' \in Mages /\ mage'.mana = n /\ mage'.most = mage.most /\ mage'.kept = mage.kept
        /\ mage'.charges = mage.charges /\ mage'.ammo = mage.ammo /\ mage'.ground = mage.ground
    <3>1. {} \in SUBSET {"combat", "heal"}
      OBVIOUS
    <3>. QED BY <1>1, <2>2, <2>3, <3>1 DEF Mages
  <2>5. mark' \in Marks /\ mage'.mana <= mage'.most /\ UNCHANGED <<book, gifts, bill>>
    BY <1>1, <1>5, <2>2, <2>4 DEF Rest
  <2>. QED BY <2>4, <2>5, IdleIsSound
<1>6. CASE Move
  <2>0. UNCHANGED <<book, gifts, bill>>
    BY <1>6 DEF Move
  <2>1. ASSUME NEW z \in Zones, mage' = [mage EXCEPT !.zone = z], mark' = mark PROVE MagicIInv'
    <3>1. /\ mage' \in Mages /\ mage'.mana = mage.mana /\ mage'.most = mage.most /\ mage'.kept = mage.kept
          /\ mage'.charges = mage.charges /\ mage'.ammo = mage.ammo /\ mage'.ground = mage.ground
      BY <1>1, <2>1 DEF Mages
    <3>2. mark' \in Marks /\ mage'.mana <= mage'.most
      BY <1>1, <2>1, <3>1
    <3>. QED BY <2>0, <3>1, <3>2, IdleIsSound
  <2>2. ASSUME NEW a \in {"near", "far", "upstairs", "gone"},
               mark' = [at |-> a, alive |-> TRUE, ill |-> FALSE], mage' = mage
        PROVE  MagicIInv'
    <3>1. mark' \in Marks
      BY <2>2 DEF Marks
    <3>2. mage' \in Mages /\ mage'.mana <= mage'.most
      BY <1>1, <2>2
    <3>. QED BY <2>0, <2>2, <3>1, <3>2, IdleIsSound
  <2>. QED BY <1>6, <2>1, <2>2 DEF Move
<1>7. CASE UNCHANGED magicVars
  <2>1. mage' = mage /\ mark' = mark /\ UNCHANGED <<book, gifts, bill>>
    BY <1>7 DEF magicVars
  <2>2. mage' \in Mages /\ mark' \in Marks /\ mage'.mana <= mage'.most
    BY <1>1, <2>1
  <2>. QED BY <2>1, <2>2, IdleIsSound
<1>. QED
  BY <1>2, <1>3, <1>4, <1>5, <1>6, <1>7 DEF MagicNext

\* The invariant is stronger than the property the run checks.
LEMMA MagicIInvConsistent == MagicIInv => MagicConsistent
<1>. SUFFICES ASSUME MagicIInv PROVE MagicConsistent
  OBVIOUS
<1>1. /\ mage \in Mages /\ bill \in Bills /\ mage.mana <= mage.most
      /\ Now.m = mage /\ Now.b = bill
  BY DEF MagicIInv, Sound, Owes, Worlds, Now
<1>2. MagicTypeOK
  BY <1>1 DEF MagicTypeOK, Mages
<1>3. PaidOnce
  BY <1>1 DEF MagicIInv, Sound, Owes, Balance, PaidOnce, Bills
<1>4. NoCredit
  BY <1>1 DEF MagicIInv, Sound, Owes, Excused, NoCredit
<1>5. NothingFromNothing
  BY <1>1 DEF MagicIInv, Sound, Owes, Stock, NothingFromNothing, Bills, Mages
<1>6. FairAim
  BY <1>1 DEF MagicIInv, Sound, Owes, FairAim
<1>. QED
  BY <1>2, <1>3, <1>4, <1>5, <1>6 DEF MagicConsistent

\* What is done with spells, runes and weapons is paid for, once and in time,
\* nothing is made of nothing, and blows reach who they should, whatever the
\* books say.
THEOREM MagicAlwaysConsistent == MagicSpec => []MagicConsistent
<1>1. MagicInit => MagicIInv
  BY MagicInitIInv
<1>2. MagicIInv /\ [MagicNext]_magicVars => MagicIInv'
  BY MagicNextIInv
<1>3. MagicIInv => MagicConsistent
  BY MagicIInvConsistent
<1>. QED
  BY <1>1, <1>2, <1>3, PTL DEF MagicSpec

-----------------------------------------------------------------------------
(* Scripts.                                                                *)

\* Scripts alone, as the run of the game's thread takes them
ScriptsSpec == ScriptsInit /\ [][ScriptsNext]_scriptVars

\* What an environment, a thing and a world may be
Maps == UNION {[D -> Things] : D \in SUBSET Uids}
Pends ==
  {NoPend} \cup [op : {"create"}, thing : Goods] \cup [op : {"summon"}, thing : Beasts]
    \cup [op : {"remove"}, uid : Uids, thing : Goods]
    \cup [op : {"transform"}, uid : Uids, thing : Goods, new : Goods \cup {NoThing}]
    \cup [op : {"move"}, thing : Things]
Frames == [stage : {"load", "event", "timer"}, timer : 0..MaxTimers, local : Maps, pend : Pends]
States == [at : Places, freed : 0..2]
ScriptWorlds ==
  [f : Seq(Frames), l : [1..MaxDepth -> Nat], t : [Things -> States],
   g : SUBSET Marked, p : SUBSET (Nat \X Things), r : [open : SUBSET Nat, made : Nat]]

\* A thing that was made and is not deleted
Placed(t, x) == t[x].at \notin {"unborn", "deleted"}

\* The uids of a script: of things that are there, each with one uid, and a
\* creature by its own.
MapGood(map, t) ==
  /\ IsFiniteSet(DOMAIN map)
  /\ \A u \in DOMAIN map : Placed(t, map[u])
  /\ \A u, v \in DOMAIN map : map[u] = map[v] => u = v
  /\ \A u \in DOMAIN map : u.kind = "creature" => map[u] = u.of
  /\ \A u \in DOMAIN map : map[u] \in Beasts => u.kind = "creature"

\* What a call that waits holds on to
PendGood(p, map, t) ==
  p # NoPend =>
    /\ Placed(t, p.thing)
    /\ p.op = "remove" => p.uid.kind # "creature"
    /\ p.op = "transform" =>
         /\ p.uid.kind # "creature"
         /\ p.new \in Goods =>
              Placed(t, p.new) /\ (p.new # p.thing => \A u \in DOMAIN map : map[u] # p.new)

FrameGood(fr, t) == MapGood(fr.local, t) /\ PendGood(fr.pend, fr.local, t)

\* A thing is given up once, when nothing holds it any more.
FreedGood(t, p) ==
  /\ \A x \in Things :
       /\ t[x].freed <= 1 /\ (t[x].freed > 0 => t[x].at = "loose")
       /\ t[x].at = "loose" => t[x].freed > 0 \/ \E q \in p : q[2] = x
  /\ \A q \in p : t[q[2]].at = "loose" /\ t[q[2]].freed = 0

FramesGood(f, t) == \A d \in DOMAIN f : FrameGood(f[d], t)

\* A world scripts may be in between two calls
Good(w) ==
  /\ w \in ScriptWorlds
  /\ Len(w.f) <= MaxDepth
  /\ FramesGood(w.f, w.t)
  /\ \A g \in w.g : Placed(w.t, g)
  /\ FreedGood(w.t, w.p)
  /\ w.f = <<>> => w.p = {} /\ w.r.open = {}

\* Timer events are armed once, and only a script that no other called serves
\* one.
TimersGood(f, tm) ==
  /\ tm \in [armed : SUBSET TimerIds, due : SUBSET TimerIds, refs : [TimerIds -> Int], made : 0..MaxTimers]
  /\ \A i \in tm.armed \cup tm.due : i <= tm.made
  /\ \A i \in TimerIds : tm.refs[i] = (IF i \in tm.armed THEN 1 ELSE 0)
  /\ \A d \in DOMAIN f : d > 1 => f[d].timer = 0
  /\ \A d \in DOMAIN f : f[d].timer # 0 => f[d].timer \in tm.armed
  /\ \A i \in tm.armed : i \in tm.due \/ \E d \in DOMAIN f : f[d].timer = i

ScriptsIInv == Good(World) /\ TimersGood(frames, timers)

-----------------------------------------------------------------------------
(* Worlds.                                                                 *)

\* The environments of the two serve the same timer events.
SameTimers(f, e) == Len(e) = Len(f) /\ \A d \in DOMAIN f : e[d].timer = f[d].timer

\* What is right of the timers of the one is right of the other.
LEMMA SameTimersGood ==
  ASSUME NEW f \in Seq(Frames), NEW e \in Seq(Frames), SameTimers(f, e), NEW tm, TimersGood(f, tm)
  PROVE  TimersGood(e, tm)
<1>1. DOMAIN e = DOMAIN f
  BY DEF SameTimers
<1>2. \A d \in DOMAIN e : e[d].timer = f[d].timer
  BY <1>1 DEF SameTimers
<1>3. /\ tm \in [armed : SUBSET TimerIds, due : SUBSET TimerIds, refs : [TimerIds -> Int], made : 0..MaxTimers]
      /\ \A i \in tm.armed \cup tm.due : i <= tm.made
      /\ \A i \in TimerIds : tm.refs[i] = (IF i \in tm.armed THEN 1 ELSE 0)
  BY Zenon DEF TimersGood
<1>4. /\ \A d \in DOMAIN f : d > 1 => f[d].timer = 0
      /\ \A d \in DOMAIN f : f[d].timer # 0 => f[d].timer \in tm.armed
      /\ \A i \in tm.armed : i \in tm.due \/ \E d \in DOMAIN f : f[d].timer = i
  BY Zenon DEF TimersGood
<1>5. /\ \A d \in DOMAIN e : d > 1 => e[d].timer = 0
      /\ \A d \in DOMAIN e : e[d].timer # 0 => e[d].timer \in tm.armed
  BY <1>1, <1>2, <1>4, Zenon
<1>6. \A i \in tm.armed : i \in tm.due \/ \E d \in DOMAIN e : e[d].timer = i
  BY <1>1, <1>2, <1>4, Zenon
<1>. QED
  BY <1>3, <1>5, <1>6, Zenon DEF TimersGood

\* A handler that ends in a good world makes a good step.
LEMMA ScriptsGoodBecomes ==
  ASSUME NEW w, Good(w), ScriptsBecome(w), TimersGood(w.f, timers')
  PROVE  ScriptsIInv'
<1>1. World' = [f |-> w.f, l |-> w.l, t |-> w.t, g |-> w.g, p |-> w.p, r |-> w.r]
  BY DEF World, ScriptsBecome
<1>2. w = [f |-> w.f, l |-> w.l, t |-> w.t, g |-> w.g, p |-> w.p, r |-> w.r]
  BY DEF Good, ScriptWorlds
<1>3. World' = w
  BY <1>1, <1>2, Zenon
<1>4. Good(World)'
  BY <1>3 DEF Good, ScriptWorlds, FramesGood, FrameGood, MapGood, PendGood, FreedGood, Placed,
              Frames, Maps, Pends, States, Uids, Things, Places, NoPend, NoThing
<1>5. frames' = w.f
  BY DEF ScriptsBecome
<1>. QED
  BY <1>4, <1>5 DEF ScriptsIInv, TimersGood, TimerIds

\* The environment that runs is another one now.
SetTop(w, fr) == [w EXCEPT !.f = [w.f EXCEPT ![Len(w.f)] = fr]]

\* The environment that runs is the last one.
LEMMA TopIs ==
  ASSUME NEW w, Good(w), w.f # <<>>
  PROVE  /\ Len(w.f) \in Nat \ {0} /\ Len(w.f) \in DOMAIN w.f
         /\ w.f[Len(w.f)] \in Frames /\ FrameGood(w.f[Len(w.f)], w.t)
         /\ w.f \in Seq(Frames) /\ DOMAIN w.f = 1..Len(w.f)
<1>1. w.f \in Seq(Frames)
  BY DEF Good, ScriptWorlds
<1>2. Len(w.f) \in Nat \ {0} /\ DOMAIN w.f = 1..Len(w.f)
  BY <1>1, EmptySeq, LenProperties
<1>3. Len(w.f) \in DOMAIN w.f
  BY <1>2
<1>4. w.f[Len(w.f)] \in Frames
  BY <1>1, <1>2, <1>3, ElementOfSeq
<1>5. FrameGood(w.f[Len(w.f)], w.t)
  BY <1>3 DEF Good, FramesGood
<1>. QED
  BY <1>1, <1>2, <1>3, <1>4, <1>5

\* What the running script does to its own environment leaves the others alone.
LEMMA TopChanges ==
  ASSUME NEW w, Good(w), w.f # <<>>, NEW fr \in Frames, FrameGood(fr, w.t),
         fr.timer = w.f[Len(w.f)].timer
  PROVE  LET x == SetTop(w, fr)
         IN Good(x) /\ SameTimers(w.f, x.f) /\ x.f # <<>> /\ x.f[Len(x.f)] = fr
<1>. DEFINE n == Len(w.f)
            f == [w.f EXCEPT ![n] = fr]
            x == SetTop(w, fr)
<1>1. /\ w \in ScriptWorlds /\ w.f \in Seq(Frames) /\ n \in Nat \ {0} /\ n \in DOMAIN w.f
      /\ DOMAIN w.f = 1..n
  BY TopIs DEF Good
<1>2. f \in Seq(Frames) /\ Len(f) = n /\ DOMAIN f = DOMAIN w.f
  BY <1>1, ExceptSeq
<1>3. f[n] = fr /\ \A d \in DOMAIN w.f : d # n => f[d] = w.f[d]
  BY <1>1
<1>. HIDE DEF f
<1>4. x = [w EXCEPT !.f = f]
  BY DEF SetTop, f
<1>5. /\ x \in ScriptWorlds /\ x.f = f /\ x.l = w.l /\ x.t = w.t
      /\ x.g = w.g /\ x.p = w.p /\ x.r = w.r
  BY <1>1, <1>2, <1>4 DEF ScriptWorlds
<1>. HIDE DEF x
<1>6. FramesGood(x.f, x.t)
  <2>1. ASSUME NEW d \in DOMAIN x.f PROVE FrameGood(x.f[d], x.t)
    <3>1. CASE d = n
      BY <1>3, <1>5, <3>1
    <3>2. CASE d # n
      BY <1>2, <1>3, <1>5, <3>2 DEF Good, FramesGood
    <3>. QED BY <3>1, <3>2
  <2>. QED BY <2>1 DEF FramesGood
<1>7. x.f # <<>>
  BY <1>1, <1>2, <1>5, EmptySeq
<1>8. Good(x)
  BY <1>1, <1>2, <1>5, <1>6, <1>7 DEF Good
<1>9. SameTimers(w.f, x.f)
  BY <1>2, <1>3, <1>5 DEF SameTimers
<1>. QED
  BY <1>2, <1>3, <1>5, <1>7, <1>8, <1>9 DEF x

\* Environments stay good when nothing that is there goes.
LEMMA FramesStay ==
  ASSUME NEW f \in Seq(Frames), NEW t, FramesGood(f, t), NEW v,
         \A x \in Things : Placed(t, x) => Placed(v, x)
  PROVE  FramesGood(f, v)
<1>1. ASSUME NEW d \in DOMAIN f PROVE FrameGood(f[d], v)
  <2>1. f[d] \in Frames /\ FrameGood(f[d], t)
    BY ElementOfSeq DEF FramesGood
  <2>2. f[d].local \in Maps /\ f[d].pend \in Pends
    BY <2>1 DEF Frames
  <2>3. \A u \in DOMAIN f[d].local : f[d].local[u] \in Things
    BY <2>2 DEF Maps
  <2>4. MapGood(f[d].local, v)
    BY <2>1, <2>3 DEF FrameGood, MapGood
  <2>5. PendGood(f[d].pend, f[d].local, v)
    <3>. DEFINE p == f[d].pend
    <3>1. p # NoPend => p.thing \in Things
      BY <2>2 DEF Pends, Things
    <3>2. p.op = "transform" /\ p.new \in Goods => p.new \in Things
      BY DEF Things
    <3>. HIDE DEF p
    <3>3. PendGood(p, f[d].local, t)
      BY <2>1 DEF FrameGood, p
    <3>4. PendGood(p, f[d].local, v)
      BY <3>1, <3>2, <3>3 DEF PendGood
    <3>. QED BY <3>4 DEF p
  <2>. QED BY <2>4, <2>5 DEF FrameGood
<1>. QED
  BY <1>1 DEF FramesGood

\* A thing is where it is said to be, and how often it was given up.
State(at, freed) == [at |-> at, freed |-> freed]
Put(w, x, s) == [w EXCEPT !.t = [w.t EXCEPT ![x] = s]]
At(w, x, at) == [w EXCEPT !.t[x].at = at]

\* A thing is elsewhere, or given up: one that nothing holds comes to be, and
\* one that is in the world stays there, or is given up once.
LEMMA ThingChanges ==
  ASSUME NEW w, Good(w), NEW x \in Things, NEW s \in States,
         \/ w.t[x].at \in {"tile", "bag"}
         \/ w.t[x].at = "unborn",
         \/ s.at \in {"tile", "bag", "stray"} /\ s.freed = 0
         \/ s.at = "loose" /\ s.freed = 1
         \/ s.at = "deleted" /\ s.freed = 0 /\ w.t[x].at = "unborn",
         NEW y, y = Put(w, x, s)
  PROVE  Good(y) /\ y.f = w.f /\ y.t[x] = s
<1>. DEFINE t == [w.t EXCEPT ![x] = s]
<1>1. w \in ScriptWorlds /\ w.t \in [Things -> States]
  BY DEF Good, ScriptWorlds
<1>2. t \in [Things -> States] /\ t[x] = s /\ \A z \in Things : z # x => t[z] = w.t[z]
  BY <1>1
<1>0. y = [w EXCEPT !.t = t]
  BY DEF Put
<1>. HIDE DEF t
<1>3. /\ y \in ScriptWorlds /\ y.f = w.f /\ y.l = w.l /\ y.t = t
      /\ y.g = w.g /\ y.p = w.p /\ y.r = w.r
  BY <1>0, <1>1, <1>2 DEF ScriptWorlds
<1>4. ASSUME NEW z, Placed(w.t, z) PROVE Placed(t, z) \/ z \notin Things
  <2>1. CASE z = x
    BY <1>2, <1>4, <2>1 DEF Placed
  <2>2. CASE z # x
    BY <1>2, <1>4, <2>2 DEF Placed
  <2>. QED BY <2>1, <2>2
<1>5. FramesGood(w.f, w.t) /\ w.f \in Seq(Frames)
  BY <1>1 DEF Good, ScriptWorlds
<1>6. FramesGood(y.f, y.t)
  BY <1>3, <1>4, <1>5, FramesStay
<1>7. \A g \in y.g : Placed(y.t, g)
  <2>1. w.g \subseteq Things
    BY <1>1, ScriptsAssumption DEF ScriptWorlds, Things
  <2>. QED BY <1>3, <1>4, <2>1 DEF Good
<1>8. FreedGood(y.t, y.p)
  <2>1. FreedGood(w.t, w.p) /\ \A q \in w.p : q[2] \in Things
    BY <1>1 DEF Good, ScriptWorlds
  <2>2. \A q \in w.p : q[2] # x
    BY <2>1 DEF FreedGood
  <2>3. s.freed \in 0..2 /\ s.freed <= 1 /\ (s.freed > 0 => s.at = "loose") /\ (s.at = "loose" => s.freed > 0)
    BY DEF States
  <2>4. ASSUME NEW z \in Things
        PROVE  /\ t[z].freed <= 1 /\ (t[z].freed > 0 => t[z].at = "loose")
               /\ t[z].at = "loose" => t[z].freed > 0 \/ \E q \in w.p : q[2] = z
    <3>1. CASE z = x
      BY <1>2, <2>3, <3>1
    <3>2. CASE z # x
      BY <1>2, <2>1, <3>2 DEF FreedGood
    <3>. QED BY <3>1, <3>2
  <2>5. \A q \in w.p : t[q[2]].at = "loose" /\ t[q[2]].freed = 0
    BY <1>2, <2>1, <2>2 DEF FreedGood
  <2>6. FreedGood(t, w.p)
    BY <2>4, <2>5 DEF FreedGood
  <2>. QED BY <1>3, <2>6
<1>9. Good(y)
  BY <1>3, <1>6, <1>7, <1>8 DEF Good
<1>. QED
  BY <1>2, <1>3, <1>9

-----------------------------------------------------------------------------
(* Uids.                                                                   *)

LocalUid(n) == [kind |-> "local", of |-> n]

\* Among more numbers than there are uids in use one is free, and the loop of
\* addThing stops at the first.
LEMMA FreshNumber ==
  ASSUME NEW D, IsFiniteSet(D), NEW first \in Nat
  PROVE  \E n \in first..(first + Cardinality(D)) :
           LocalUid(n) \notin D /\ \A k \in first..(n - 1) : LocalUid(k) \in D
<1>. DEFINE c == Cardinality(D)
            S == first..(first + c)
            F == {n \in S : LocalUid(n) \notin D}
            R == {q \in Nat \X Nat : q[1] < q[2]}
<1>1. c \in Nat
  BY FS_CardinalityType
<1>2. IsFiniteSet(S) /\ Cardinality(S) = c + 1
  BY <1>1, FS_Interval, SMTT(30)
<1>3. F # {}
  <2>. SUFFICES ASSUME F = {} PROVE FALSE
    OBVIOUS
  <2>. DEFINE h == [n \in S |-> LocalUid(n)]
  <2>. HIDE DEF S
  <2>1. h \in [S -> D]
    OBVIOUS
  <2>2. \A a, b \in S : h[a] = h[b] => a = b
    BY DEF LocalUid
  <2>. HIDE DEF h
  <2>3. c < Cardinality(S)
    BY <1>1, <1>2
  <2>4. \E a, b \in S : a # b /\ h[a] = h[b]
    BY <1>2, <2>1, <2>3, FS_PigeonHole
  <2>. QED BY <2>2, <2>4
<1>4. IsWellFoundedOn(R, Nat)
  BY NatLessThanWellFounded DEF OpToRel
<1>5. \A m, n \in Nat : m < n => <<m, n>> \in R
  OBVIOUS
<1>6. F \subseteq Nat
  BY <1>1
<1>. HIDE DEF R, F
<1>7. PICK n \in F : \A y \in F : ~(<<y, n>> \in R)
  BY <1>3, <1>4, <1>6, WFMin
<1>8. n \in S /\ LocalUid(n) \notin D
  BY <1>7 DEF F
<1>9. ASSUME NEW k \in first..(n - 1) PROVE LocalUid(k) \in D
  <2>1. k \in S /\ k \in Nat /\ k < n /\ n \in Nat
    BY <1>1, <1>8
  <2>2. k \notin F
    BY <1>5, <1>7, <2>1
  <2>. QED BY <2>1, <2>2 DEF F
<1>. QED
  BY <1>8, <1>9

\* A fresh uid is a number that is not in use.
LEMMA FreshUidIsFree ==
  ASSUME NEW w, Good(w), w.f # <<>>
  PROVE  FreshUid(w) \in Nat \ {0} /\ LocalUid(FreshUid(w)) \notin DOMAIN Local(w)
<1>. DEFINE D == DOMAIN Local(w)
            last == w.l[Depth(w)]
            first == IF last >= MaxUid THEN 1 ELSE last + 1
            Ok(n) == LocalUid(n) \notin D /\ \A k \in first..(n - 1) : LocalUid(k) \in D
            S == first..(first + Cardinality(D))
<1>1. IsFiniteSet(D)
  BY TopIs DEF FrameGood, MapGood, Local, Depth
<1>2. last \in Nat
  <2>1. Depth(w) \in 1..MaxDepth
    BY TopIs, ScriptsAssumption DEF Depth, Good
  <2>. QED BY <2>1 DEF Good, ScriptWorlds
<1>3. first \in Nat \ {0}
  BY <1>2
<1>4. FreshUid(w) = CHOOSE n \in S : Ok(n)
  BY Zenon DEF FreshUid, LocalUid
<1>. HIDE DEF first, D
<1>5. \E n \in S : Ok(n)
  BY <1>1, <1>3, FreshNumber
<1>6. FreshUid(w) \in S /\ Ok(FreshUid(w))
  <2>. HIDE DEF S, Ok
  <2>. QED BY <1>4, <1>5
<1>7. Cardinality(D) \in Nat
  BY <1>1, FS_CardinalityType
<1>. QED
  BY <1>3, <1>6, <1>7 DEF D

\* A uid and what it stands for are added to a map.
LEMMA WithGood ==
  ASSUME NEW map \in Maps, NEW t, MapGood(map, t), NEW uid \in Uids, NEW x \in Things, Placed(t, x),
         \A u \in DOMAIN map : map[u] = x => u = uid,
         uid.kind = "creature" <=> x \in Beasts,
         uid.kind = "creature" => x = uid.of
  PROVE  With(map, uid, x) \in Maps /\ MapGood(With(map, uid, x), t)
<1>. DEFINE m == With(map, uid, x)
<1>1. PICK D \in SUBSET Uids : map \in [D -> Things]
  BY DEF Maps
<1>2. DOMAIN map = D
  BY <1>1
<1>3. m \in [D \cup {uid} -> Things]
  BY <1>1, <1>2 DEF With
<1>4. m \in Maps /\ DOMAIN m = DOMAIN map \cup {uid}
  <2>1. D \cup {uid} \in SUBSET Uids
    BY <1>1
  <2>. QED BY <1>2, <1>3, <2>1 DEF Maps
<1>5. m[uid] = x /\ \A u \in DOMAIN map : u # uid => m[u] = map[u]
  BY DEF With
<1>. HIDE DEF m
<1>6. IsFiniteSet(DOMAIN m)
  BY <1>4, FS_AddElement DEF MapGood
<1>7. \A u \in DOMAIN m : Placed(t, m[u])
  BY <1>4, <1>5 DEF MapGood
<1>8. ASSUME NEW u \in DOMAIN m, NEW v \in DOMAIN m, m[u] = m[v] PROVE u = v
  BY <1>4, <1>5, <1>8 DEF MapGood
<1>9. \A u \in DOMAIN m : u.kind = "creature" => m[u] = u.of
  BY <1>4, <1>5 DEF MapGood
<1>10. \A u \in DOMAIN m : m[u] \in Beasts => u.kind = "creature"
  BY <1>4, <1>5 DEF MapGood
<1>. QED
  BY <1>4, <1>6, <1>7, <1>8, <1>9, <1>10 DEF MapGood, m

\* Handlers of the running script, which leave the environments of its callers
\* alone
Serves(w, x) == Good(x) /\ SameTimers(w.f, x.f) /\ x.f # <<>>

\* One thing after the other
LEMMA ServesTwice ==
  ASSUME NEW w, NEW x, NEW y, w.f \in Seq(Frames), x.f \in Seq(Frames), y.f \in Seq(Frames),
         Serves(w, x), Serves(x, y)
  PROVE  Serves(w, y)
<1>1. DOMAIN w.f = DOMAIN x.f
  BY DEF Serves, SameTimers
<1>. QED
  BY <1>1 DEF Serves, SameTimers

\* The running script names things otherwise, and nothing else changed.
Renamed(w, y, map) ==
  /\ y \in ScriptWorlds
  /\ y.f = [w.f EXCEPT ![Len(w.f)] = [w.f[Len(w.f)] EXCEPT !.local = map]]
  /\ y.t = w.t /\ y.g \subseteq w.g /\ y.p = w.p /\ y.r = w.r

Renames(w, y) == \E map \in Maps : MapGood(map, w.t) /\ Renamed(w, y, map)

\* The map of the running script
LEMMA LocalIsGood ==
  ASSUME NEW w, Good(w), w.f # <<>>
  PROVE  Local(w) \in Maps /\ MapGood(Local(w), w.t)
BY TopIs DEF Local, Depth, Frames, FrameGood

\* Nothing renamed is a renaming.
LEMMA RenamedSelf ==
  ASSUME NEW w, Good(w), w.f # <<>>
  PROVE  Renamed(w, w, Local(w)) /\ Renames(w, w)
<1>. DEFINE n == Len(w.f)
<1>1. w.f \in Seq(Frames) /\ n \in DOMAIN w.f /\ w.f[n] \in Frames
  BY TopIs
<1>2. [w.f[n] EXCEPT !.local = w.f[n].local] = w.f[n]
  BY <1>1 DEF Frames
<1>3. [w.f EXCEPT ![n] = w.f[n]] = w.f
  BY <1>1
<1>4. Renamed(w, w, Local(w))
  BY <1>2, <1>3 DEF Renamed, Local, Depth, Good
<1>. QED
  BY <1>4, LocalIsGood DEF Renames

\* The running script of a renamed world is the one of the world, with the map.
TopRenamed(w, y, map) ==
  /\ Len(y.f) = Len(w.f) /\ y.f # <<>> /\ Local(y) = map
  /\ y.f[Len(y.f)] = [w.f[Len(w.f)] EXCEPT !.local = map]
  /\ y.f[Len(y.f)].pend = w.f[Len(w.f)].pend

\* What a renamed world is made of
LEMMA RenamedTop ==
  ASSUME NEW w, w \in ScriptWorlds, w.f # <<>>, NEW map \in Maps, NEW y, Renamed(w, y, map)
  PROVE  TopRenamed(w, y, map)
<1>. DEFINE n == Len(w.f)
            fr == [w.f[n] EXCEPT !.local = map]
            f == [w.f EXCEPT ![n] = fr]
<1>1. w.f \in Seq(Frames)
  BY DEF ScriptWorlds
<1>2. n \in Nat \ {0} /\ DOMAIN w.f = 1..n
  BY <1>1, EmptySeq, LenProperties
<1>3. w.f[n] \in Frames
  BY <1>1, <1>2, ElementOfSeq
<1>4. fr \in Frames /\ fr.local = map /\ fr.pend = w.f[n].pend
  BY <1>3 DEF Frames
<1>. HIDE DEF fr
<1>5. f \in Seq(Frames) /\ Len(f) = n /\ f[n] = fr
  BY <1>1, <1>2, <1>4, ExceptSeq
<1>6. y.f = f
  BY DEF Renamed, fr
<1>. HIDE DEF f
<1>7. y.f # <<>>
  BY <1>2, <1>5, <1>6, EmptySeq
<1>. QED
  BY <1>4, <1>5, <1>6, <1>7 DEF TopRenamed, Local, Depth, fr

\* Renamed twice is renamed.
LEMMA RenamedTwice ==
  ASSUME NEW w, w \in ScriptWorlds, w.f # <<>>, NEW map \in Maps, NEW y, Renamed(w, y, map),
         NEW map2 \in Maps, NEW z, Renamed(y, z, map2)
  PROVE  Renamed(w, z, map2)
<1>. DEFINE n == Len(w.f)
            fr == [w.f[n] EXCEPT !.local = map]
            fr2 == [w.f[n] EXCEPT !.local = map2]
<1>1. w.f \in Seq(Frames)
  BY DEF ScriptWorlds
<1>2. n \in DOMAIN w.f /\ w.f[n] \in Frames
  BY <1>1, EmptySeq, LenProperties, ElementOfSeq
<1>3. Len(y.f) = n /\ y.f[n] = fr
  BY RenamedTop DEF TopRenamed
<1>4. [fr EXCEPT !.local = map2] = fr2
  BY <1>2 DEF Frames
<1>5. y.f = [w.f EXCEPT ![n] = fr] /\ z.f = [y.f EXCEPT ![n] = [y.f[n] EXCEPT !.local = map2]]
  BY <1>3 DEF Renamed
<1>. HIDE DEF fr, fr2
<1>6. z.f = [w.f EXCEPT ![n] = fr2]
  BY <1>1, <1>2, <1>3, <1>4, <1>5
<1>. QED
  BY <1>6 DEF Renamed, fr2

\* A renaming of good maps is good, if a call that waits is.
LEMMA RenamedIsGood ==
  ASSUME NEW w, Good(w), w.f # <<>>, NEW map \in Maps, MapGood(map, w.t), NEW y, Renamed(w, y, map),
         PendGood(w.f[Len(w.f)].pend, map, w.t)
  PROVE  Serves(w, y)
<1>. DEFINE n == Len(w.f)
            fr == [w.f[n] EXCEPT !.local = map]
            x == SetTop(w, fr)
<1>1. w.f[n] \in Frames
  BY TopIs
<1>2. fr \in Frames /\ fr.timer = w.f[n].timer /\ fr.local = map /\ fr.pend = w.f[n].pend
  BY <1>1 DEF Frames
<1>3. x.f = y.f /\ x.t = w.t
  BY DEF SetTop, Renamed, Good, ScriptWorlds
<1>. HIDE DEF fr
<1>4. FrameGood(fr, w.t)
  BY <1>2 DEF FrameGood
<1>5. Good(x) /\ SameTimers(w.f, x.f) /\ x.f # <<>>
  BY <1>2, <1>4, TopChanges
<1>. HIDE DEF x
<1>6. Good(y)
  <2>1. Len(y.f) <= MaxDepth /\ FramesGood(y.f, y.t)
    BY <1>3, <1>5 DEF Good, Renamed
  <2>2. (\A g \in y.g : Placed(y.t, g)) /\ FreedGood(y.t, y.p)
    BY DEF Good, Renamed
  <2>3. y.f # <<>> /\ y \in ScriptWorlds
    BY <1>3, <1>5 DEF Renamed
  <2>. QED BY <2>1, <2>2, <2>3 DEF Good
<1>. QED
  BY <1>3, <1>5, <1>6 DEF Serves

\* The running script names things otherwise and waits, or waits no longer.
LEMMA PendIsGood ==
  ASSUME NEW w, Good(w), w.f # <<>>, NEW map \in Maps, MapGood(map, w.t), NEW y, Renamed(w, y, map),
         NEW p \in Pends, PendGood(p, map, w.t)
  PROVE  Serves(w, Pend(y, p))
<1>. DEFINE n == Len(w.f)
            fr == [w.f[n] EXCEPT !.local = map]
            fp == [fr EXCEPT !.pend = p]
            wp == [w.f[n] EXCEPT !.pend = p]
            z == Pend(y, p)
<1>1. w.f[n] \in Frames /\ n \in DOMAIN w.f /\ w.f \in Seq(Frames) /\ n \in Nat \ {0}
  BY TopIs
<1>2. fp \in Frames /\ fp.timer = w.f[n].timer /\ fp.local = map /\ fp.pend = p
  BY <1>1 DEF Frames
<1>3. Len(y.f) = n /\ y.f[n] = fr /\ y.f = [w.f EXCEPT ![n] = fr] /\ y \in ScriptWorlds
  BY RenamedTop DEF TopRenamed, Good, Renamed
<1>4. z = [y EXCEPT !.f = [y.f EXCEPT ![n] = fp]]
  BY <1>3 DEF Pend, Depth
<1>. HIDE DEF fr, fp, wp
<1>5. [y.f EXCEPT ![n] = fp] = [w.f EXCEPT ![n] = fp]
  BY <1>1, <1>3
<1>. DEFINE v == SetTop(w, fp)
<1>6. /\ z.f = [w.f EXCEPT ![n] = fp] /\ z.t = w.t /\ z.g \subseteq w.g /\ z.p = w.p /\ z.r = w.r
      /\ z.l = y.l /\ z.g = y.g
  BY <1>3, <1>4, <1>5 DEF Renamed, ScriptWorlds
<1>7. v.f = z.f /\ v.t = w.t
  BY <1>6 DEF SetTop, Good, ScriptWorlds
<1>8. FrameGood(fp, w.t)
  BY <1>2 DEF FrameGood
<1>9. Good(v) /\ SameTimers(w.f, v.f) /\ v.f # <<>>
  BY <1>2, <1>8, TopChanges
<1>10. z \in ScriptWorlds
  <2>1. z.f \in Seq(Frames)
    BY <1>7, <1>9 DEF Good, ScriptWorlds
  <2>. HIDE DEF z
  <2>2. z = [y EXCEPT !.f = z.f]
    BY <1>4, <1>5, <1>6
  <2>. QED BY <1>3, <2>1, <2>2 DEF ScriptWorlds
<1>. HIDE DEF v, z
<1>11. Good(z)
  <2>1. Len(z.f) <= MaxDepth /\ FramesGood(z.f, z.t)
    BY <1>6, <1>7, <1>9 DEF Good
  <2>2. (\A g \in z.g : Placed(z.t, g)) /\ FreedGood(z.t, z.p)
    BY <1>6 DEF Good
  <2>3. z.f # <<>>
    BY <1>7, <1>9
  <2>. QED BY <1>10, <2>1, <2>2, <2>3 DEF Good
<1>. QED
  BY <1>7, <1>9, <1>11 DEF Serves, z

\* A map of the running script is put in place of its own.
LEMMA MapChanges ==
  ASSUME NEW w, Good(w), w.f # <<>>, NEW map \in Maps, MapGood(map, w.t),
         NEW g \in SUBSET Marked, g \subseteq w.g, NEW y,
         y = [[w EXCEPT !.f = [w.f EXCEPT ![Len(w.f)] = [w.f[Len(w.f)] EXCEPT !.local = map]]]
                 EXCEPT !.g = g]
  PROVE  Renames(w, y) /\ Local(y) = map
<1>. DEFINE n == Len(w.f)
            fr == [w.f[n] EXCEPT !.local = map]
            f == [w.f EXCEPT ![n] = fr]
            v == [w EXCEPT !.f = f]
<1>1. w \in ScriptWorlds /\ w.f \in Seq(Frames) /\ n \in DOMAIN w.f /\ w.f[n] \in Frames
  BY TopIs DEF Good
<1>2. fr \in Frames
  BY <1>1 DEF Frames
<1>. HIDE DEF fr
<1>3. f \in Seq(Frames)
  BY <1>1, <1>2, ExceptSeq
<1>. HIDE DEF f
<1>4. v \in ScriptWorlds /\ v.f = f /\ v.t = w.t /\ v.p = w.p /\ v.r = w.r
  BY <1>1, <1>3 DEF ScriptWorlds
<1>5. y = [v EXCEPT !.g = g]
  BY DEF f, fr
<1>. HIDE DEF v
<1>6. y \in ScriptWorlds /\ y.f = f /\ y.t = w.t /\ y.p = w.p /\ y.r = w.r /\ y.g = g
  BY <1>4, <1>5 DEF ScriptWorlds
<1>7. Renamed(w, y, map)
  BY <1>6 DEF Renamed, f, fr
<1>8. Local(y) = map
  <2>1. w \in ScriptWorlds
    BY <1>1
  <2>2. ASSUME NEW z, Renamed(w, z, map) PROVE Local(z) = map
    <3>1. w.f # <<>>
      OBVIOUS
    <3>2. TopRenamed(w, z, map)
      BY <2>1, <2>2, <3>1, RenamedTop, Zenon
    <3>. QED BY <3>2, Zenon DEF TopRenamed
  <2>. QED BY <1>7, <2>2
<1>. QED
  BY <1>7, <1>8 DEF Renames

\* A thing that has no uid yet gets one, and one that has keeps it.
LEMMA BindRenames ==
  ASSUME NEW w, Good(w), w.f # <<>>, NEW uid \in Uids, NEW x \in Things, Placed(w.t, x),
         \A u \in DOMAIN Local(w) : Local(w)[u] = x => u = uid,
         uid.kind = "creature" <=> x \in Beasts,
         uid.kind = "creature" => x = uid.of
  PROVE  Renames(w, Bind(w, uid, x))
<1>. DEFINE map == With(Local(w), uid, x)
            n == Len(w.f)
            y == [w EXCEPT !.f = [w.f EXCEPT ![n] = [w.f[n] EXCEPT !.local = map]]]
<1>1. map \in Maps /\ MapGood(map, w.t)
  BY LocalIsGood, WithGood
<1>2. Bind(w, uid, x) = y
  BY DEF Bind, Depth, Local
<1>. HIDE DEF map
<1>3. w.g \in SUBSET Marked /\ y.g = w.g /\ y = [y EXCEPT !.g = w.g]
  BY DEF Good, ScriptWorlds
<1>4. Renames(w, y)
  BY <1>1, <1>3, MapChanges
<1>. QED
  BY <1>2, <1>4

\* The last uid of an environment is only a place to start from.
LEMMA LastUidChanges ==
  ASSUME NEW w, Good(w), w.f # <<>>, NEW n \in Nat, NEW x, x = [w EXCEPT !.l[Depth(w)] = n]
  PROVE  /\ Good(x) /\ x.f = w.f /\ x.t = w.t /\ x.g = w.g /\ x.p = w.p /\ x.r = w.r
         /\ Local(x) = Local(w)
<1>. DEFINE l == [w.l EXCEPT ![Depth(w)] = n]
<1>1. w \in ScriptWorlds
  BY DEF Good
<1>2. l \in [1..MaxDepth -> Nat]
  BY <1>1 DEF ScriptWorlds
<1>3. x = [w EXCEPT !.l = l]
  OBVIOUS
<1>. HIDE DEF l
<1>4. x \in ScriptWorlds /\ x.f = w.f /\ x.t = w.t /\ x.g = w.g /\ x.p = w.p /\ x.r = w.r
  BY <1>1, <1>2, <1>3 DEF ScriptWorlds
<1>5. Good(x)
  BY <1>4 DEF Good
<1>. QED
  BY <1>4, <1>5 DEF Local, Depth

\* What is renamed from a world that differs in the last uid only
LEMMA RenamesFrom ==
  ASSUME NEW w, NEW x, x.f = w.f, x.t = w.t, x.g = w.g, x.p = w.p, x.r = w.r, NEW y, Renames(x, y)
  PROVE  Renames(w, y)
BY DEF Renames, Renamed

\* A script learns of a thing: it gets a uid, unless it has one.
LEMMA AddThingRenames ==
  ASSUME NEW w, Good(w), w.f # <<>>, NEW x \in Things
  PROVE  Renames(w, AddThing(w, x))
<1>1. CASE IsRemoved(w, x) \/ \E u \in DOMAIN Local(w) : Local(w)[u] = x
  BY <1>1, RenamedSelf DEF AddThing
<1>2. CASE ~IsRemoved(w, x) /\ \A u \in DOMAIN Local(w) : Local(w)[u] # x
  <2>0. Placed(w.t, x)
    BY <1>2 DEF IsRemoved, Placed
  <2>1. CASE x \in Beasts
    <3>. DEFINE uid == [kind |-> "creature", of |-> x]
    <3>1. uid \in Uids /\ uid.kind = "creature" /\ uid.of = x
      BY <2>1 DEF Uids
    <3>2. AddThing(w, x) = Bind(w, uid, x)
      BY <1>2, <2>1 DEF AddThing
    <3>. HIDE DEF uid
    <3>3. Renames(w, Bind(w, uid, x))
      BY <1>2, <2>0, <2>1, <3>1, BindRenames
    <3>. QED BY <3>2, <3>3
  <2>2. CASE x \notin Beasts /\ x \in Marked /\ w.t[x].at = "tile"
    <3>. DEFINE uid == [kind |-> "unique", of |-> x]
    <3>1. uid \in Uids /\ uid.kind = "unique" /\ uid.of = x
      BY <2>2 DEF Uids
    <3>2. AddThing(w, x) = Bind(w, uid, x)
      BY <1>2, <2>2 DEF AddThing
    <3>. HIDE DEF uid
    <3>3. Renames(w, Bind(w, uid, x))
      BY <1>2, <2>0, <2>2, <3>1, BindRenames
    <3>. QED BY <3>2, <3>3
  <2>3. CASE x \notin Beasts /\ ~(x \in Marked /\ w.t[x].at = "tile")
    <3>. DEFINE n == FreshUid(w)
                uid == [kind |-> "local", of |-> n]
                v == [w EXCEPT !.l[Depth(w)] = n]
    <3>1. n \in Nat \ {0}
      BY FreshUidIsFree
    <3>2. uid \in Uids /\ uid.kind = "local"
      BY <3>1 DEF Uids
    <3>3. AddThing(w, x) = Bind(v, uid, x)
      BY <1>2, <2>3 DEF AddThing
    <3>. HIDE DEF uid, n
    <3>4. /\ Good(v) /\ v.f = w.f /\ v.t = w.t /\ v.g = w.g /\ v.p = w.p /\ v.r = w.r
          /\ Local(v) = Local(w)
      BY <3>1, LastUidChanges
    <3>. HIDE DEF v
    <3>5. Renames(v, Bind(v, uid, x))
      BY <1>2, <2>0, <2>3, <3>2, <3>4, BindRenames
    <3>. QED BY <3>3, <3>4, <3>5, RenamesFrom
  <2>. QED BY <2>1, <2>2, <2>3
<1>. QED
  BY <1>1, <1>2

\* A creature that is named by its id is in the script's map.
LEMMA NamedRenames ==
  ASSUME NEW w, Good(w), w.f # <<>>, NEW b \in Beasts
  PROVE  Renames(w, Named(w, [kind |-> "creature", of |-> b]))
<1>. DEFINE uid == [kind |-> "creature", of |-> b]
<1>1. uid \in Uids /\ uid.kind = "creature" /\ uid.of = b
  BY DEF Uids
<1>. HIDE DEF uid
<1>0. Local(w) \in Maps /\ MapGood(Local(w), w.t)
  BY LocalIsGood
<1>2. CASE GetThingByUID(w, uid) # NoThing
  <2>1. ~IsRemoved(w, b)
    BY <1>0, <1>1, <1>2 DEF GetThingByUID, MapGood
  <2>2. Placed(w.t, b)
    BY <2>1 DEF IsRemoved, Placed
  <2>3. ASSUME NEW u \in DOMAIN Local(w), Local(w)[u] = b PROVE u = uid
    <3>1. u.kind = "creature" /\ u.of = b
      BY <1>0, <2>3 DEF MapGood
    <3>2. u \in Uids
      BY <1>0 DEF Maps
    <3>. QED BY <3>1, <3>2 DEF Uids, uid
  <2>4. Named(w, uid) = Bind(w, uid, b)
    BY <1>1, <1>2 DEF Named
  <2>5. b \in Things
    BY DEF Things
  <2>6. Renames(w, Bind(w, uid, b))
    BY <1>1, <2>2, <2>3, <2>5, BindRenames
  <2>. QED BY <2>4, <2>6 DEF uid
<1>3. CASE GetThingByUID(w, uid) = NoThing
  <2>1. Named(w, uid) = w
    BY <1>3 DEF Named
  <2>. QED BY <2>1, RenamedSelf DEF uid
<1>. QED
  BY <1>2, <1>3

\* A uid goes, and no other changes.
LEMMA RemoveItemByUIDRenames ==
  ASSUME NEW w, Good(w), w.f # <<>>, NEW uid, NEW y, y = RemoveItemByUID(w, uid)
  PROVE  /\ Renames(w, y) /\ uid \notin DOMAIN Local(y)
         /\ \A u \in DOMAIN Local(y) : u \in DOMAIN Local(w) /\ Local(y)[u] = Local(w)[u]
<1>. DEFINE own == Local(w)
            map == [u \in DOMAIN own \ {uid} |-> own[u]]
            n == Len(w.f)
            f == [w.f EXCEPT ![n] = [w.f[n] EXCEPT !.local = map]]
            g == IF uid.kind = "unique" THEN w.g \ {uid.of} ELSE w.g
            v == [w EXCEPT !.f = f]
<1>1. own \in Maps /\ MapGood(own, w.t)
  BY LocalIsGood
<1>2. y = [v EXCEPT !.g = g]
  <2>1. w \in ScriptWorlds
    BY DEF Good
  <2>. QED BY <2>1 DEF RemoveItemByUID, Depth, Local, ScriptWorlds
<1>3. PICK D \in SUBSET Uids : own \in [D -> Things]
  BY <1>1 DEF Maps
<1>. HIDE DEF own
<1>4. map \in [D \ {uid} -> Things] /\ D \ {uid} \in SUBSET Uids /\ DOMAIN own = D
  BY <1>3
<1>5. map \in Maps
  BY <1>4 DEF Maps
<1>6. DOMAIN map = DOMAIN own \ {uid} /\ \A u \in DOMAIN map : map[u] = own[u]
  OBVIOUS
<1>. HIDE DEF map
<1>7. MapGood(map, w.t)
  <2>1. IsFiniteSet(DOMAIN map)
    BY <1>1, <1>6, FS_Subset DEF MapGood
  <2>. QED BY <1>1, <1>6, <2>1 DEF MapGood
<1>8. g \in SUBSET Marked /\ g \subseteq w.g
  BY DEF Good, ScriptWorlds
<1>. HIDE DEF g
<1>9. Renames(w, y) /\ Local(y) = map
  BY <1>2, <1>5, <1>7, <1>8, MapChanges
<1>. QED
  BY <1>6, <1>9 DEF own

\* What the running script calls things by in a renamed world
LEMMA RenamedLocal ==
  ASSUME NEW w, Good(w), w.f # <<>>, NEW map \in Maps, NEW y, Renamed(w, y, map)
  PROVE  Local(y) = map /\ y.f # <<>>
<1>1. w \in ScriptWorlds
  BY DEF Good
<1>2. TopRenamed(w, y, map)
  BY <1>1, RenamedTop, Zenon
<1>3. Len(y.f) = Len(w.f) /\ Local(y) = map
  BY <1>2, Zenon DEF TopRenamed
<1>4. y.f \in Seq(Frames) /\ Len(w.f) # 0
  BY TopIs DEF Renamed, ScriptWorlds
<1>5. y.f # <<>>
  BY <1>3, <1>4, EmptySeq
<1>. QED
  BY <1>3, <1>5

\* Another map for the environment that runs
LEMMA MapIsRenamed ==
  ASSUME NEW w, w \in ScriptWorlds, w.f # <<>>, NEW map \in Maps, NEW y,
         y = [w EXCEPT !.f = [w.f EXCEPT ![Len(w.f)] = [w.f[Len(w.f)] EXCEPT !.local = map]]]
  PROVE  Renamed(w, y, map)
<1>. DEFINE n == Len(w.f)
            fr == [w.f[n] EXCEPT !.local = map]
            f == [w.f EXCEPT ![n] = fr]
<1>1. w.f \in Seq(Frames)
  BY DEF ScriptWorlds
<1>2. n \in DOMAIN w.f /\ w.f[n] \in Frames
  BY <1>1, EmptySeq, LenProperties, ElementOfSeq
<1>3. fr \in Frames
  BY <1>2 DEF Frames
<1>. HIDE DEF fr
<1>4. f \in Seq(Frames)
  BY <1>1, <1>2, <1>3, ExceptSeq
<1>5. y = [w EXCEPT !.f = f]
  BY DEF f, fr
<1>. HIDE DEF f
<1>6. y \in ScriptWorlds /\ y.f = f /\ y.t = w.t /\ y.p = w.p /\ y.r = w.r /\ y.g = w.g
  BY <1>4, <1>5 DEF ScriptWorlds
<1>. QED
  BY <1>6 DEF Renamed, f, fr

\* When transformItem is through, the uid goes over to the new item.
LEMMA FinishTransformRenames ==
  ASSUME NEW w, Good(w), w.f # <<>>, NEW p \in Pends, p.op = "transform",
         p \in [op : {"transform"}, uid : Uids, thing : Goods, new : Goods \cup {NoThing}],
         PendGood(p, Local(w), w.t)
  PROVE  Renames(w, FinishTransform(w, p))
<1>. DEFINE x == IF IsRemoved(w, p.thing) THEN RemoveItemByUID(w, p.uid) ELSE w
            z == FinishTransform(w, p)
<1>0. w \in ScriptWorlds
  BY DEF Good
<1>7. ASSUME NEW v, NEW map \in Maps, Renamed(w, v, map) PROVE Local(v) = map /\ v.f # <<>>
  BY <1>7, RenamedLocal
<1>1. \E map \in Maps : /\ MapGood(map, w.t) /\ Renamed(w, x, map)
                        /\ \A u \in DOMAIN map : u \in DOMAIN Local(w) /\ map[u] = Local(w)[u]
  <2>1. CASE IsRemoved(w, p.thing)
    <3>1. Renames(w, x) /\ \A u \in DOMAIN Local(x) : u \in DOMAIN Local(w) /\ Local(x)[u] = Local(w)[u]
      BY <2>1, RemoveItemByUIDRenames
    <3>2. PICK map \in Maps : MapGood(map, w.t) /\ Renamed(w, x, map)
      BY <3>1 DEF Renames
    <3>. HIDE DEF x
    <3>3. Local(x) = map
      BY <1>7, <3>2
    <3>. QED BY <3>1, <3>2, <3>3
  <2>2. CASE ~IsRemoved(w, p.thing)
    BY <2>2, LocalIsGood, RenamedSelf
  <2>. QED BY <2>1, <2>2
<1>2. z = IF p.new # NoThing /\ p.new # p.thing THEN InsertThing(x, p.uid, p.new) ELSE x
  BY DEF FinishTransform
<1>. HIDE DEF x, z
<1>3. PICK map \in Maps : /\ MapGood(map, w.t) /\ Renamed(w, x, map)
                          /\ \A u \in DOMAIN map : u \in DOMAIN Local(w) /\ map[u] = Local(w)[u]
  BY <1>1
<1>4. Local(x) = map /\ x.f # <<>>
  BY <1>3, <1>7
<1>5. ASSUME z = x PROVE Renames(w, z)
  BY <1>3, <1>5 DEF Renames
<1>6. ASSUME z # x PROVE Renames(w, z)
  <2>1. p.new # NoThing /\ p.new # p.thing /\ p.uid \notin DOMAIN map /\ z = Bind(x, p.uid, p.new)
    BY <1>2, <1>4, <1>6 DEF InsertThing
  <2>2. p.new \in Goods /\ p.uid \in Uids
    BY <2>1
  <2>3. p.new \in Things /\ p.new \notin Beasts
    BY <2>2, ScriptsAssumption DEF Things
  <2>4. p # NoPend
    BY DEF NoPend
  <2>5. /\ p.uid.kind # "creature" /\ Placed(w.t, p.new)
        /\ \A u \in DOMAIN map : map[u] # p.new
    BY <1>3, <2>1, <2>2, <2>4 DEF PendGood
  <2>. DEFINE m == With(map, p.uid, p.new)
  <2>6. m \in Maps /\ MapGood(m, w.t)
    BY <1>3, <2>2, <2>3, <2>5, WithGood
  <2>7. z = [x EXCEPT !.f = [x.f EXCEPT ![Len(x.f)] = [x.f[Len(x.f)] EXCEPT !.local = m]]]
    BY <1>4, <2>1 DEF Bind, Depth, Local
  <2>. HIDE DEF m
  <2>8. x \in ScriptWorlds
    BY <1>3 DEF Renamed
  <2>9. Renamed(x, z, m)
    BY <1>4, <2>6, <2>7, <2>8, MapIsRenamed
  <2>10. Renamed(w, z, m)
    BY <1>0, <1>3, <2>6, <2>9, RenamedTwice
  <2>. QED BY <2>6, <2>10 DEF Renames
<1>. QED
  BY <1>5, <1>6 DEF z

\* What a call does when the scripts it brought on are through is a renaming.
LEMMA FinishedRenames ==
  ASSUME NEW w, Good(w), w.f # <<>>, NEW p, p = w.f[Len(w.f)].pend, p # NoPend
  PROVE  Renames(w, Finished(w, p))
<1>1. p \in Pends /\ PendGood(p, Local(w), w.t)
  BY TopIs DEF Frames, FrameGood, Local, Depth
<1>2. CASE p \in [op : {"create"}, thing : Goods]
  <2>1. p.thing \in Things /\ Finished(w, p) = AddThing(w, p.thing)
    BY <1>2 DEF Things, Finished, FinishCreate
  <2>. QED BY <2>1, AddThingRenames
<1>3. CASE p \in [op : {"summon"}, thing : Beasts]
  <2>1. p.thing \in Things /\ Finished(w, p) = AddThing(w, p.thing)
    BY <1>3 DEF Things, Finished, FinishSummon
  <2>. QED BY <2>1, AddThingRenames
<1>4. CASE p \in [op : {"remove"}, uid : Uids, thing : Goods]
  <2>1. Finished(w, p) = RemoveItemByUID(w, p.uid)
    BY <1>4 DEF Finished, FinishRemove
  <2>. QED BY <2>1, RemoveItemByUIDRenames
<1>5. CASE p \in [op : {"transform"}, uid : Uids, thing : Goods, new : Goods \cup {NoThing}]
  <2>1. Finished(w, p) = FinishTransform(w, p) /\ p.op = "transform"
    BY <1>5 DEF Finished
  <2>2. Renames(w, FinishTransform(w, p))
    BY <1>1, <1>5, <2>1, FinishTransformRenames
  <2>. QED BY <2>1, <2>2
<1>6. CASE p \in [op : {"move"}, thing : Things]
  <2>1. Finished(w, p) = w
    BY <1>6 DEF Finished
  <2>. QED BY <2>1, RenamedSelf
<1>. QED
  BY <1>1, <1>2, <1>3, <1>4, <1>5, <1>6 DEF Pends

-----------------------------------------------------------------------------
(* Environments come and go.                                               *)

\* A new environment names nothing and waits for nothing.
LEMMA NewFrameGood ==
  ASSUME NEW t, NEW stage \in {"load", "event", "timer"}, NEW timer \in 0..MaxTimers
  PROVE  NewFrame(stage, timer) \in Frames /\ FrameGood(NewFrame(stage, timer), t)
<1>. DEFINE map == <<>>
<1>1. map \in Seq(Things) /\ Len(map) = 0
  BY EmptySeq
<1>2. DOMAIN map = {}
  BY <1>1, LenProperties
<1>3. map \in [{} -> Things]
  BY <1>1, <1>2, LenProperties
<1>4. {} \in SUBSET Uids
  OBVIOUS
<1>. HIDE DEF map
<1>5. map \in Maps
  BY <1>3, <1>4 DEF Maps
<1>6. IsFiniteSet(DOMAIN map)
  BY <1>2, FS_EmptySet
<1>7. MapGood(map, t)
  BY <1>2, <1>6 DEF MapGood
<1>8. NoPend \in Pends
  BY DEF Pends
<1>9. PendGood(NoPend, map, t)
  BY DEF PendGood
<1>10. NewFrame(stage, timer) = [stage |-> stage, timer |-> timer, local |-> map, pend |-> NoPend]
  BY DEF NewFrame, map
<1>. QED
  BY <1>5, <1>7, <1>8, <1>9, <1>10 DEF Frames, FrameGood

\* A script starts in an environment of its own.
LEMMA ReserveIsGood ==
  ASSUME NEW w, Good(w), NEW stage \in {"load", "event", "timer"}, NEW timer \in 0..MaxTimers,
         Len(w.f) < MaxDepth, NEW x, x = ReserveScriptEnv(w, stage, timer)
  PROVE  /\ Good(x) /\ x.f \in Seq(Frames) /\ Len(x.f) = Len(w.f) + 1
         /\ \A d \in DOMAIN w.f : x.f[d] = w.f[d]
         /\ x.f[Len(w.f) + 1].timer = timer
<1>. DEFINE n == Len(w.f)
            fr == NewFrame(stage, timer)
            f == Append(w.f, fr)
<1>1. w \in ScriptWorlds /\ w.f \in Seq(Frames) /\ n \in Nat /\ n < MaxDepth /\ MaxDepth \in Nat
  BY LenProperties, ScriptsAssumption DEF Good, ScriptWorlds
<1>2. fr \in Frames /\ FrameGood(fr, w.t) /\ fr.timer = timer
  <2>1. fr.timer = timer
    BY DEF NewFrame
  <2>. QED BY <2>1, NewFrameGood
<1>3. x = [w EXCEPT !.f = f]
  BY <1>1 DEF ReserveScriptEnv, Depth
<1>. HIDE DEF fr
<1>4. /\ f \in Seq(Frames) /\ Len(f) = n + 1 /\ f[n + 1] = fr
      /\ \A d \in 1..n : f[d] = w.f[d]
  BY <1>1, <1>2, AppendProperties
<1>. HIDE DEF f
<1>5. /\ x \in ScriptWorlds /\ x.f = f /\ x.t = w.t /\ x.g = w.g
      /\ x.p = w.p /\ x.r = w.r
  BY <1>1, <1>3, <1>4 DEF ScriptWorlds
<1>6. DOMAIN w.f = 1..n /\ DOMAIN f = 1..(n + 1)
  BY <1>1, <1>4, LenProperties
<1>7. FramesGood(x.f, x.t)
  <2>1. ASSUME NEW d \in DOMAIN f PROVE FrameGood(f[d], w.t)
    <3>1. CASE d = n + 1
      BY <1>2, <1>4, <3>1
    <3>2. CASE d # n + 1
      <4>1. d \in 1..n
        BY <1>1, <1>6, <3>2
      <4>. QED BY <1>4, <1>6, <4>1 DEF Good, FramesGood
    <3>. QED BY <3>1, <3>2
  <2>. QED BY <1>5, <2>1 DEF FramesGood
<1>8. x.f # <<>>
  BY <1>1, <1>4, <1>5, EmptySeq
<1>9. Len(x.f) <= MaxDepth
  BY <1>1, <1>4, <1>5
<1>10. Good(x)
  BY <1>5, <1>7, <1>8, <1>9 DEF Good
<1>. QED
  BY <1>2, <1>4, <1>5, <1>6, <1>10

\* A script ends: its environment goes, and with it what scripts made and left
\* nowhere, which is freed.
LEMMA ReleaseIsGood ==
  ASSUME NEW w, Good(w), w.f # <<>>, NEW x, x = ReleaseScriptEnv(w)
  PROVE  /\ Good(x) /\ x.f \in Seq(Frames) /\ Len(x.f) = Len(w.f) - 1
         /\ \A d \in 1..(Len(w.f) - 1) : x.f[d].timer = w.f[d].timer
<1>. DEFINE n == Len(w.f)
            f == SubSeq(w.f, 1, n - 1)
            t == FreeTemps(w)
            none == {}
            r == [w.r EXCEPT !.open = none]
            lost == {q[2] : q \in w.p}
<1>1. /\ w \in ScriptWorlds /\ w.f \in Seq(Frames) /\ n \in Nat \ {0} /\ DOMAIN w.f = 1..n
      /\ w.t \in [Things -> States] /\ w.p \in SUBSET (Nat \X Things) /\ n <= MaxDepth
      /\ w.r \in [open : SUBSET Nat, made : Nat]
  BY TopIs DEF Good, ScriptWorlds
<1>2. x = [[[[w EXCEPT !.t = t] EXCEPT !.p = none] EXCEPT !.r = r] EXCEPT !.f = f]
  BY <1>1 DEF ReleaseScriptEnv, ResetEnv, ScriptWorlds
<1>3. f \in Seq(Frames) /\ Len(f) = n - 1 /\ \A d \in 1..(n - 1) : f[d] = w.f[d]
  BY <1>1, SubSeqProperties
<1>. HIDE DEF f
<1>4. FreedGood(w.t, w.p)
  BY DEF Good
<1>5. \A z \in lost : z \in Things /\ w.t[z].at = "loose" /\ w.t[z].freed = 0
  BY <1>1, <1>4 DEF FreedGood
<1>6. ASSUME NEW z \in Things, z \in lost
      PROVE  t[z].at = "loose" /\ t[z].freed = 1
  <2>1. IsRemoved(w, z) /\ \E q \in w.p : q[2] = z
    BY <1>5, <1>6 DEF IsRemoved
  <2>2. t[z] = [at |-> w.t[z].at, freed |-> w.t[z].freed + 1]
    BY <2>1 DEF FreeTemps
  <2>. QED BY <1>5, <1>6, <2>2
<1>7. ASSUME NEW z \in Things, z \notin lost
      PROVE  t[z] = w.t[z]
  <2>1. ~\E q \in w.p : q[2] = z
    BY <1>7
  <2>. QED BY <2>1 DEF FreeTemps
<1>. HIDE DEF lost
<1>8. t \in [Things -> States]
  <2>1. t = [z \in Things |-> t[z]]
    BY DEF FreeTemps
  <2>. HIDE DEF t
  <2>2. ASSUME NEW z \in Things PROVE t[z] \in States
    <3>1. CASE z \in lost
      <4>1. w.t[z] \in States
        BY <1>1
      <4>2. t[z].at = "loose" /\ t[z].freed = 1
        BY <1>6, <3>1
      <4>3. t[z] = [at |-> w.t[z].at, freed |-> w.t[z].freed + 1]
        <5>1. IsRemoved(w, z) /\ \E q \in w.p : q[2] = z
          BY <1>5, <3>1 DEF IsRemoved, lost
        <5>. QED BY <5>1 DEF FreeTemps, t
      <4>. QED BY <1>5, <3>1, <4>1, <4>3 DEF States
    <3>2. CASE z \notin lost
      BY <1>1, <1>7, <3>2
    <3>. QED BY <3>1, <3>2
  <2>. QED BY <2>1, <2>2
<1>9. \A z \in Things : t[z].at = w.t[z].at
  <2>1. ASSUME NEW z \in Things PROVE t[z].at = w.t[z].at
    <3>1. CASE z \in lost
      BY <1>5, <1>6, <3>1
    <3>2. CASE z \notin lost
      BY <1>7, <3>2
    <3>. QED BY <3>1, <3>2
  <2>. QED BY <2>1
<1>10. FreedGood(t, none)
  <2>1. ASSUME NEW z \in Things
        PROVE  /\ t[z].freed <= 1 /\ (t[z].freed > 0 => t[z].at = "loose")
               /\ t[z].at = "loose" => t[z].freed > 0
    <3>1. CASE z \in lost
      BY <1>6, <3>1
    <3>2. CASE z \notin lost
      <4>1. ~\E q \in w.p : q[2] = z
        BY <3>2 DEF lost
      <4>. QED BY <1>4, <1>7, <3>2, <4>1 DEF FreedGood
    <3>. QED BY <3>1, <3>2
  <2>. QED BY <2>1 DEF FreedGood
<1>. HIDE DEF t
<1>11. r \in [open : SUBSET Nat, made : Nat] /\ r.open = none
  BY <1>1
<1>. HIDE DEF r
<1>12. none \in SUBSET (Nat \X Things)
  OBVIOUS
<1>13. none = {}
  OBVIOUS
<1>. HIDE DEF none
<1>14. x \in ScriptWorlds /\ x.f = f /\ x.t = t /\ x.g = w.g /\ x.p = none /\ x.r = r
  <2>. DEFINE x1 == [w EXCEPT !.t = t]
  <2>1. x1 \in ScriptWorlds /\ x1.f = w.f /\ x1.t = t /\ x1.g = w.g /\ x1.r = w.r
    BY <1>1, <1>8 DEF ScriptWorlds
  <2>. HIDE DEF x1
  <2>. DEFINE x2 == [x1 EXCEPT !.p = none]
  <2>2. x2 \in ScriptWorlds /\ x2.t = t /\ x2.g = w.g /\ x2.p = none
    BY <1>12, <2>1 DEF ScriptWorlds
  <2>. HIDE DEF x2
  <2>. DEFINE x3 == [x2 EXCEPT !.r = r]
  <2>3. x3 \in ScriptWorlds /\ x3.t = t /\ x3.g = w.g /\ x3.p = none /\ x3.r = r
    BY <1>11, <2>2 DEF ScriptWorlds
  <2>4. x = [x3 EXCEPT !.f = f]
    BY <1>2 DEF x1, x2
  <2>. HIDE DEF x3
  <2>. QED BY <1>3, <2>3, <2>4 DEF ScriptWorlds
<1>15. \A z \in Things : Placed(w.t, z) => Placed(t, z)
  BY <1>9 DEF Placed
<1>16. FramesGood(w.f, t)
  BY <1>1, <1>15, FramesStay DEF Good
<1>17. FramesGood(f, t)
  <2>1. DOMAIN f = 1..(n - 1)
    BY <1>3, LenProperties
  <2>2. \A d \in DOMAIN f : d \in DOMAIN w.f /\ f[d] = w.f[d]
    BY <1>1, <1>3, <2>1
  <2>. QED BY <1>16, <2>2 DEF FramesGood
<1>18. \A g \in w.g : Placed(t, g)
  <2>1. w.g \subseteq Things
    BY <1>1, ScriptsAssumption DEF ScriptWorlds, Things
  <2>. QED BY <1>15, <2>1 DEF Good
<1>19. Len(f) <= MaxDepth
  BY <1>1, <1>3, ScriptsAssumption
<1>20. Good(x)
  BY <1>10, <1>11, <1>13, <1>14, <1>17, <1>18, <1>19 DEF Good
<1>. QED
  BY <1>3, <1>14, <1>20

-----------------------------------------------------------------------------
(* Things come, go and are elsewhere.                                      *)

\* A thing is elsewhere, and was given up as often as before.
LEMMA PlaceIs ==
  ASSUME NEW w, Good(w), NEW x \in Things, NEW at, NEW y, y = At(w, x, at)
  PROVE  y = Put(w, x, State(at, w.t[x].freed))
<1>1. w.t[x] \in States
  BY DEF Good, ScriptWorlds
<1>2. [w.t[x] EXCEPT !.at = at] = State(at, w.t[x].freed)
  BY <1>1 DEF States, State
<1>3. y = [w EXCEPT !.t = [w.t EXCEPT ![x] = [w.t[x] EXCEPT !.at = at]]]
  BY DEF At
<1>. QED
  BY <1>2, <1>3 DEF Put

\* A thing that is not nowhere was not given up.
LEMMA NotFreed ==
  ASSUME NEW w, Good(w), NEW x \in Things, w.t[x].at # "loose"
  PROVE  w.t[x].freed = 0
<1>1. w.t[x] \in States /\ FreedGood(w.t, w.p)
  BY DEF Good, ScriptWorlds
<1>2. w.t[x].freed \in 0..2
  BY <1>1 DEF States
<1>. QED
  BY <1>1, <1>2 DEF FreedGood

\* Where a thing may be next
MayGo(w, x, at) ==
  /\ w.t[x].at \in {"unborn", "tile", "bag"}
  /\ \/ at \in {"tile", "bag", "stray"}
     \/ at = "deleted" /\ w.t[x].at = "unborn"

\* To put a thing on a tile, in a bag or aside keeps a world good.
LEMMA PutIsGood ==
  ASSUME NEW w, Good(w), NEW x \in Things, NEW at, MayGo(w, x, at), NEW y, y = At(w, x, at)
  PROVE  Good(y) /\ y.f = w.f /\ y.t[x].at = at
<1>. DEFINE s == State(at, 0)
<1>1. w.t[x].at # "loose"
  BY DEF MayGo
<1>2. w.t[x].freed = 0
  BY <1>1, NotFreed
<1>3. y = Put(w, x, s)
  BY <1>2, PlaceIs
<1>4. s \in States /\ s.at = at /\ s.freed = 0
  BY DEF State, States, Places, MayGo
<1>. HIDE DEF s
<1>5. Good(y) /\ y.f = w.f /\ y.t[x] = s
  BY <1>3, <1>4, ThingChanges DEF MayGo
<1>. QED
  BY <1>4, <1>5

\* The rest of the world stays as it is.
LEMMA PutLeaves ==
  ASSUME NEW w, Good(w), NEW x \in Things, NEW at, NEW y, y = At(w, x, at)
  PROVE  /\ y.f = w.f /\ y.l = w.l /\ y.g = w.g /\ y.p = w.p /\ y.r = w.r
         /\ \A z \in Things : z # x => y.t[z] = w.t[z]
         /\ y.t[x].at = at /\ y.t[x].freed = w.t[x].freed
<1>. DEFINE s == State(at, w.t[x].freed)
            t == [w.t EXCEPT ![x] = s]
<1>1. w \in ScriptWorlds /\ w.t \in [Things -> States]
  BY DEF Good, ScriptWorlds
<1>2. y = [w EXCEPT !.t = t]
  BY PlaceIs DEF Put
<1>3. t[x] = s /\ \A z \in Things : z # x => t[z] = w.t[z]
  BY <1>1
<1>4. s.at = at /\ s.freed = w.t[x].freed
  BY DEF State
<1>. HIDE DEF t
<1>5. y.f = w.f /\ y.l = w.l /\ y.g = w.g /\ y.p = w.p /\ y.r = w.r /\ y.t = t
  BY <1>1, <1>2 DEF ScriptWorlds
<1>. QED
  BY <1>3, <1>4, <1>5

\* A thing is taken out of the world and given up.
LetGo(w, x) == FreeThing(At(w, x, "loose"), x)

\* To give up a placed thing keeps a world good and disturbs no other thing.
LEMMA GoneIsGood ==
  ASSUME NEW w, Good(w), NEW x \in Things, w.t[x].at \in {"tile", "bag", "unborn"},
         NEW y, y = LetGo(w, x)
  PROVE  /\ Good(y) /\ y.f = w.f /\ y.t[x].at = "loose"
         /\ \A z \in Things : z # x => y.t[z] = w.t[z]
<1>. DEFINE s == State("loose", 1)
            v == At(w, x, "loose")
            t == [w.t EXCEPT ![x] = s]
<1>1. w.t[x].freed = 0
  BY NotFreed
<1>2. v = [w EXCEPT !.t = [w.t EXCEPT ![x] = State("loose", 0)]]
  BY <1>1, PlaceIs DEF Put
<1>3. w \in ScriptWorlds /\ w.t \in [Things -> States]
  BY DEF Good, ScriptWorlds
<1>4. y = [v EXCEPT !.t = [v.t EXCEPT ![x] = [v.t[x] EXCEPT !.freed = v.t[x].freed + 1]]]
  BY DEF LetGo, FreeThing
<1>5. v.t = [w.t EXCEPT ![x] = State("loose", 0)]
  BY <1>2, <1>3 DEF ScriptWorlds
<1>6. v.t[x] = State("loose", 0)
  BY <1>3, <1>5
<1>7. [v.t[x] EXCEPT !.freed = v.t[x].freed + 1] = s
  BY <1>6 DEF State
<1>8. [v.t EXCEPT ![x] = s] = t
  BY <1>3, <1>5
<1>9. y = [v EXCEPT !.t = t]
  BY <1>4, <1>7, <1>8
<1>. HIDE DEF s
<1>10. y = Put(w, x, s)
  <2>. HIDE DEF v, t
  <2>1. y = [w EXCEPT !.t = t]
    BY <1>2, <1>9
  <2>. QED BY <2>1 DEF Put, t
<1>11. s \in States /\ s.at = "loose" /\ s.freed = 1
  BY DEF s, State, States, Places
<1>12. Good(y) /\ y.f = w.f /\ y.t[x] = s
  BY <1>10, <1>11, ThingChanges
<1>13. \A z \in Things : z # x => y.t[z] = w.t[z]
  <2>1. y.t = t
    BY <1>3, <1>10 DEF Put, ScriptWorlds
  <2>. QED BY <1>3, <2>1
<1>. QED
  BY <1>11, <1>12, <1>13

\* The unique ids change.
LEMMA UniquesChange ==
  ASSUME NEW w, Good(w), NEW g \in SUBSET Marked, \A m \in g : Placed(w.t, m),
         NEW y, y = [w EXCEPT !.g = g]
  PROVE  Good(y) /\ y.f = w.f /\ y.t = w.t /\ y.p = w.p /\ y.r = w.r /\ y.g = g
<1>1. w \in ScriptWorlds
  BY DEF Good
<1>2. y \in ScriptWorlds /\ y.f = w.f /\ y.t = w.t /\ y.p = w.p /\ y.r = w.r /\ y.g = g
  BY <1>1 DEF ScriptWorlds
<1>. QED
  BY <1>2 DEF Good

\* What becomes of a new thing
LEMMA CreatedIsGood ==
  ASSUME NEW w, Good(w), NEW x \in Things, w.t[x].at = "unborn",
         NEW at \in {"refused", "stacked", "stray", "tile", "bag"}, NEW y, y = Created(w, x, at)
  PROVE  /\ Good(y) /\ y.f = w.f
         /\ at # "refused" => Placed(y.t, x)
         /\ y.g = w.g
<1>1. CASE at = "refused"
  <2>1. y = At(w, x, "deleted")
    BY <1>1 DEF Created, At
  <2>2. MayGo(w, x, "deleted")
    BY DEF MayGo
  <2>3. Good(y) /\ y.f = w.f
    BY <2>1, <2>2, PutIsGood
  <2>4. y.g = w.g
    BY <2>1, PutLeaves
  <2>. QED BY <1>1, <2>3, <2>4
<1>2. CASE at = "stacked"
  <2>1. y = LetGo(w, x)
    BY <1>2 DEF Created, At, LetGo
  <2>2. Good(y) /\ y.f = w.f /\ y.t[x].at = "loose"
    BY <2>1, GoneIsGood
  <2>3. y.g = w.g
    <3>1. At(w, x, "loose").g = w.g
      BY PutLeaves
    <3>2. LetGo(w, x).g = At(w, x, "loose").g
      <4>. DEFINE v == At(w, x, "loose")
      <4>1. v \in [DOMAIN v -> {v[i] : i \in DOMAIN v}]
        BY DEF At, Good, ScriptWorlds
      <4>. HIDE DEF v
      <4>. QED BY <4>1 DEF LetGo, FreeThing, v
    <3>. QED BY <2>1, <3>1, <3>2
  <2>. QED BY <2>2, <2>3 DEF Placed
<1>3. CASE at \in {"stray", "tile", "bag"}
  <2>1. y = At(w, x, at)
    BY <1>3 DEF Created, At
  <2>2. MayGo(w, x, at)
    BY <1>3 DEF MayGo
  <2>3. Good(y) /\ y.f = w.f /\ y.t[x].at = at
    BY <2>1, <2>2, PutIsGood
  <2>4. y.g = w.g
    BY <2>1, PutLeaves
  <2>. QED BY <1>3, <2>3, <2>4 DEF Placed
<1>. QED
  BY <1>1, <1>2, <1>3

\* A uid a script may name leads to a thing that is there.
LEMMA FoundIsThere ==
  ASSUME ScriptsIInv, frames # <<>>, NEW uid, NEW kinds \in {Goods, Beasts, Things}, Found(uid, kinds),
         NEW x, x = GetThingByUID(World, uid)
  PROVE  /\ x \in kinds /\ x \in Things /\ World.t[x].at \in {"tile", "bag"} /\ Placed(World.t, x)
         /\ uid \in Uids
         /\ x \in Goods => uid.kind # "creature"
<1>1. Good(World) /\ World.f = frames /\ World.t = things
  BY DEF ScriptsIInv, World
<1>2. Local(World) \in Maps /\ MapGood(Local(World), World.t)
  BY <1>1, LocalIsGood
<1>3. x \in kinds /\ x \in Things
  BY ScriptsAssumption DEF Found, Things
<1>4. uid \in DOMAIN Local(World) \/ uid \in [kind : {"unique"}, of : Marked]
  BY DEF Found, Known
<1>5. uid \in Uids
  BY <1>2, <1>4 DEF Maps, Uids
<1>6. x # NoThing
  BY <1>3, ScriptsAssumption DEF Things
<1>7. ~IsRemoved(World, x)
  BY <1>6 DEF GetThingByUID
<1>8. World.t[x].at \in {"tile", "bag"} /\ Placed(World.t, x)
  BY <1>7 DEF IsRemoved, Placed
<1>9. ASSUME x \in Goods, uid.kind = "creature" PROVE FALSE
  <2>1. uid \in DOMAIN Local(World)
    BY <1>4, <1>9
  <2>2. Local(World)[uid] = uid.of
    BY <1>2, <1>9, <2>1 DEF MapGood
  <2>3. x = uid.of
    BY <1>6, <1>9, <2>2 DEF GetThingByUID
  <2>4. uid.of \in Beasts
    BY <1>5, <1>9 DEF Uids
  <2>. QED BY <1>9, <2>3, <2>4, ScriptsAssumption
<1>. QED
  BY <1>3, <1>5, <1>8, <1>9

\* A new item that is nowhere belongs to the environment that made it, and has
\* no uid.
LEMMA TempIsGood ==
  ASSUME NEW w, Good(w), w.f # <<>>, NEW x \in Things, w.t[x].at = "unborn",
         NEW y, y = [At(w, x, "loose") EXCEPT !.p = w.p \cup {<<Len(w.f), x>>}]
  PROVE  Serves(w, y) /\ AddThing(y, x) = y
<1>. DEFINE v == At(w, x, "loose")
            p == w.p \cup {<<Len(w.f), x>>}
            s == State("loose", 0)
            t == [w.t EXCEPT ![x] = s]
<1>1. w.t[x].freed = 0
  BY NotFreed
<1>2. w \in ScriptWorlds /\ w.t \in [Things -> States] /\ w.f \in Seq(Frames) /\ w.p \in SUBSET (Nat \X Things)
  BY DEF Good, ScriptWorlds
<1>3. v = [w EXCEPT !.t = t]
  BY <1>1, PlaceIs DEF Put
<1>4. s \in States /\ s.at = "loose" /\ s.freed = 0
  BY DEF State, States, Places
<1>. HIDE DEF s
<1>5. t \in [Things -> States] /\ t[x] = s /\ \A z \in Things : z # x => t[z] = w.t[z]
  BY <1>2, <1>4
<1>6. p \in SUBSET (Nat \X Things)
  BY <1>2, TopIs
<1>7. \A q \in p : q \in w.p \/ q[2] = x
  OBVIOUS
<1>8. (\A q \in w.p : q \in p) /\ \E q \in p : q[2] = x
  <2>1. <<Len(w.f), x>> \in p /\ <<Len(w.f), x>>[2] = x
    OBVIOUS
  <2>. QED BY <2>1
<1>. HIDE DEF t, p
<1>9. v \in ScriptWorlds /\ v.f = w.f /\ v.t = t /\ v.g = w.g /\ v.r = w.r
  BY <1>2, <1>3, <1>5 DEF ScriptWorlds
<1>10. y = [v EXCEPT !.p = p]
  BY DEF p
<1>. HIDE DEF v
<1>11. y \in ScriptWorlds /\ y.f = w.f /\ y.t = t /\ y.g = w.g /\ y.r = w.r /\ y.p = p
  BY <1>6, <1>9, <1>10 DEF ScriptWorlds
<1>12. ASSUME NEW z \in Things, Placed(w.t, z) PROVE Placed(t, z)
  <2>1. CASE z = x
    BY <1>4, <1>5, <2>1 DEF Placed
  <2>2. CASE z # x
    BY <1>5, <1>12, <2>2 DEF Placed
  <2>. QED BY <2>1, <2>2
<1>13. FramesGood(w.f, t)
  BY <1>2, <1>12, FramesStay DEF Good
<1>14. \A g \in w.g : Placed(t, g)
  <2>1. w.g \subseteq Things
    BY <1>2, ScriptsAssumption DEF ScriptWorlds, Things
  <2>. QED BY <1>12, <2>1 DEF Good
<1>15. FreedGood(w.t, w.p)
  BY DEF Good
<1>16. FreedGood(t, p)
  <2>1. ASSUME NEW z \in Things
        PROVE  /\ t[z].freed <= 1 /\ (t[z].freed > 0 => t[z].at = "loose")
               /\ t[z].at = "loose" => t[z].freed > 0 \/ \E q \in p : q[2] = z
    <3>1. CASE z = x
      BY <1>4, <1>5, <1>8, <3>1
    <3>2. CASE z # x
      BY <1>5, <1>8, <1>15, <3>2 DEF FreedGood
    <3>. QED BY <3>1, <3>2
  <2>2. ASSUME NEW q \in p PROVE t[q[2]].at = "loose" /\ t[q[2]].freed = 0
    <3>1. CASE q[2] = x
      BY <1>4, <1>5, <3>1
    <3>2. CASE q[2] # x
      <4>1. q \in w.p /\ q[2] \in Things
        BY <1>6, <1>7, <3>2
      <4>. QED BY <1>5, <1>15, <3>2, <4>1 DEF FreedGood
    <3>. QED BY <3>1, <3>2
  <2>. QED BY <2>1, <2>2 DEF FreedGood
<1>17. Len(y.f) <= MaxDepth
  BY <1>11 DEF Good
<1>18. Good(y)
  BY <1>11, <1>13, <1>14, <1>16, <1>17 DEF Good
<1>19. Serves(w, y)
  BY <1>11, <1>18 DEF Serves, SameTimers
<1>20. IsRemoved(y, x)
  BY <1>4, <1>5, <1>11 DEF IsRemoved
<1>21. AddThing(y, x) = y
  BY <1>20 DEF AddThing
<1>. QED
  BY <1>19, <1>21

\* Between tasks, what was given up is deleted, and nothing leads to it.
LEMMA CleanupIsGood ==
  ASSUME NEW w, Good(w), w.f = <<>>, NEW x, x = Cleanup(w)
  PROVE  Good(x) /\ x.f = w.f
<1>. DEFINE dead == {y \in Things : w.t[y].freed > 0}
            gone == [at |-> "deleted", freed |-> 0]
            t == [y \in Things |-> IF y \in dead THEN gone ELSE w.t[y]]
            g == w.g \ dead
<1>1. /\ w \in ScriptWorlds /\ w.t \in [Things -> States] /\ w.g \in SUBSET Marked
      /\ w.f \in Seq(Frames)
  BY DEF Good, ScriptWorlds
<1>2. x = [[w EXCEPT !.t = t] EXCEPT !.g = g]
  BY <1>1 DEF Cleanup, ScriptWorlds
<1>3. gone \in States /\ gone.at = "deleted" /\ gone.freed = 0
  BY DEF States, Places
<1>. HIDE DEF gone
<1>4. t \in [Things -> States]
  BY <1>1, <1>3
<1>5. \A y \in Things : (y \in dead => t[y] = gone) /\ (y \notin dead => t[y] = w.t[y])
  OBVIOUS
<1>. HIDE DEF t
<1>6. g \in SUBSET Marked /\ g \subseteq w.g /\ g \cap dead = {}
  BY <1>1
<1>. HIDE DEF g
<1>7. x \in ScriptWorlds /\ x.f = w.f /\ x.t = t /\ x.g = g /\ x.p = w.p /\ x.r = w.r
  <2>. DEFINE v == [w EXCEPT !.t = t]
  <2>1. v \in ScriptWorlds /\ v.f = w.f /\ v.t = t /\ v.p = w.p /\ v.r = w.r
    BY <1>1, <1>4 DEF ScriptWorlds
  <2>2. x = [v EXCEPT !.g = g]
    BY <1>2
  <2>. HIDE DEF v
  <2>. QED BY <1>6, <2>1, <2>2 DEF ScriptWorlds
<1>8. DOMAIN w.f = {}
  BY <1>1, EmptySeq, LenProperties
<1>9. FramesGood(x.f, x.t)
  BY <1>7, <1>8 DEF FramesGood
<1>10. \A m \in x.g : Placed(x.t, m)
  <2>1. \A m \in g : m \in Things /\ m \notin dead /\ m \in w.g
    BY <1>6, ScriptsAssumption DEF Things
  <2>2. \A m \in g : t[m] = w.t[m] /\ Placed(w.t, m)
    BY <1>5, <2>1 DEF Good
  <2>. QED BY <1>7, <2>2 DEF Placed
<1>11. w.p = {}
  BY DEF Good
<1>12. FreedGood(x.t, x.p)
  <2>1. FreedGood(w.t, w.p)
    BY DEF Good
  <2>2. ASSUME NEW y \in Things
        PROVE  /\ t[y].freed <= 1 /\ (t[y].freed > 0 => t[y].at = "loose")
               /\ t[y].at = "loose" => t[y].freed > 0
    <3>1. CASE y \in dead
      BY <1>3, <1>5, <3>1
    <3>2. CASE y \notin dead
      BY <1>5, <1>11, <2>1, <3>2 DEF FreedGood
    <3>. QED BY <3>1, <3>2
  <2>. QED BY <1>7, <1>11, <2>2 DEF FreedGood
<1>13. Len(x.f) <= MaxDepth
  BY <1>7 DEF Good
<1>14. x.f = <<>> => x.p = {} /\ x.r.open = {}
  BY <1>7 DEF Good
<1>. QED
  BY <1>7, <1>9, <1>10, <1>12, <1>13, <1>14 DEF Good

\* Open results are the business of a script that runs.
LEMMA ResultsChange ==
  ASSUME NEW w, Good(w), w.f # <<>>, NEW r \in [open : SUBSET Nat, made : Nat],
         NEW y, y = [w EXCEPT !.r = r]
  PROVE  Serves(w, y)
<1>1. w \in ScriptWorlds
  BY DEF Good
<1>2. y \in ScriptWorlds /\ y.f = w.f /\ y.t = w.t /\ y.p = w.p /\ y.g = w.g
  BY <1>1 DEF ScriptWorlds
<1>3. Good(y)
  BY <1>2 DEF Good
<1>. QED
  BY <1>2, <1>3 DEF Serves, SameTimers

-----------------------------------------------------------------------------
(* Steps.                                                                  *)

\* A running script has an environment that waits for nothing.
LEMMA RunningIs ==
  ASSUME ScriptsIInv, Running
  PROVE  /\ Good(World) /\ World.f = frames /\ World.t = things /\ World.g = uniques
         /\ World.p = temps /\ World.r = results
         /\ World.f # <<>> /\ frames \in Seq(Frames)
         /\ World.f[Len(World.f)].pend = NoPend
<1>1. Good(World)
  BY DEF ScriptsIInv
<1>2. /\ World.f = frames /\ World.t = things /\ World.g = uniques /\ World.p = temps
      /\ World.r = results
  BY DEF World
<1>3. frames \in Seq(Frames)
  BY <1>1, <1>2 DEF Good, ScriptWorlds
<1>. QED
  BY <1>1, <1>2, <1>3 DEF Running, Env

\* A step that serves the running script and leaves the timer events alone
LEMMA ServesStep ==
  ASSUME ScriptsIInv, NEW y, Serves(World, y), ScriptsBecome(y), UNCHANGED timers
  PROVE  ScriptsIInv'
<1>1. World.f = frames /\ Good(World)
  BY DEF World, ScriptsIInv
<1>2. frames \in Seq(Frames) /\ y.f \in Seq(Frames)
  BY <1>1 DEF Good, ScriptWorlds, Serves
<1>3. TimersGood(y.f, timers)
  BY <1>1, <1>2, SameTimersGood DEF Serves, ScriptsIInv
<1>4. TimersGood(y.f, timers')
  BY <1>3
<1>. QED
  BY <1>4, ScriptsGoodBecomes DEF Serves

\* A step by which the running script names things otherwise
LEMMA NamingStep ==
  ASSUME ScriptsIInv, Running, NEW y, Renames(World, y), ScriptsBecome(y), UNCHANGED timers
  PROVE  ScriptsIInv'
<1>1. Good(World) /\ World.f # <<>> /\ World.f[Len(World.f)].pend = NoPend
  BY RunningIs
<1>2. PICK map \in Maps : MapGood(map, World.t) /\ Renamed(World, y, map)
  BY DEF Renames
<1>3. PendGood(World.f[Len(World.f)].pend, map, World.t)
  BY <1>1 DEF PendGood
<1>4. Serves(World, y)
  BY <1>1, <1>2, <1>3, RenamedIsGood
<1>. QED
  BY <1>4, ServesStep

\* A step by which the running script brings on others and waits
LEMMA WaitingStep ==
  ASSUME ScriptsIInv, Running, NEW y, Good(y), y.f = frames, NEW p \in Pends,
         PendGood(p, Local(y), y.t), ScriptsBecome(Pend(y, p)), UNCHANGED timers
  PROVE  ScriptsIInv'
<1>1. y.f # <<>> /\ World.f = frames /\ frames \in Seq(Frames)
  BY RunningIs
<1>2. Local(y) \in Maps /\ MapGood(Local(y), y.t) /\ Renamed(y, y, Local(y))
  BY <1>1, LocalIsGood, RenamedSelf
<1>3. Serves(y, Pend(y, p))
  BY <1>1, <1>2, PendIsGood
<1>4. Serves(World, Pend(y, p))
  BY <1>1, <1>3 DEF Serves
<1>. QED
  BY <1>4, ServesStep

\* Calls that name what is there
LEMMA GetsStep ==
  ASSUME ScriptsIInv, GetTileThing \/ GetPlayerSlotItem \/ GetThing
  PROVE  ScriptsIInv'
<1>0. Running /\ UNCHANGED timers
  BY DEF GetTileThing, GetPlayerSlotItem, GetThing, KeepsTimers
<1>1. Good(World) /\ World.f # <<>>
  BY <1>0, RunningIs
<1>2. CASE GetTileThing \/ GetPlayerSlotItem
  <2>1. PICK t \in Things : ScriptsBecome(AddThing(World, t))
    BY <1>2 DEF GetTileThing, GetPlayerSlotItem, Things
  <2>2. Renames(World, AddThing(World, t))
    BY <1>1, AddThingRenames
  <2>. QED BY <1>0, <2>1, <2>2, NamingStep
<1>3. CASE GetThing
  <2>1. PICK b \in Beasts : ScriptsBecome(Named(World, [kind |-> "creature", of |-> b]))
    BY <1>3 DEF GetThing
  <2>2. Renames(World, Named(World, [kind |-> "creature", of |-> b]))
    BY <1>1, NamedRenames
  <2>. QED BY <1>0, <2>1, <2>2, NamingStep
<1>. QED
  BY <1>2, <1>3

\* A call goes on, with what it held meanwhile.
LEMMA CallReturnsStep ==
  ASSUME ScriptsIInv, CallReturns
  PROVE  ScriptsIInv'
<1>. DEFINE p == Env.pend
            x == Finished(World, p)
<1>1. Good(World) /\ World.f = frames /\ World.f # <<>>
  BY DEF ScriptsIInv, World, CallReturns
<1>2. p = World.f[Len(World.f)].pend /\ p # NoPend
  BY <1>1 DEF Env, CallReturns
<1>. HIDE DEF p
<1>3. Renames(World, x)
  BY <1>1, <1>2, FinishedRenames
<1>. HIDE DEF x
<1>4. PICK map \in Maps : MapGood(map, World.t) /\ Renamed(World, x, map)
  BY <1>3 DEF Renames
<1>5. NoPend \in Pends /\ PendGood(NoPend, map, World.t)
  BY DEF Pends, PendGood
<1>6. Serves(World, Pend(x, NoPend))
  BY <1>1, <1>4, <1>5, PendIsGood
<1>7. ScriptsBecome(Pend(x, NoPend)) /\ UNCHANGED timers
  BY DEF CallReturns, KeepsTimers, x, p
<1>. QED
  BY <1>6, <1>7, ServesStep

\* Calls that name several creatures at once
LEMMA GetCreaturesStep ==
  ASSUME ScriptsIInv, GetCreatures
  PROVE  ScriptsIInv'
<1>. DEFINE n == Len(frames)
            online == {b \in Beasts : things[b].at = "tile"}
            own == Local(World)
            named == {[kind |-> "creature", of |-> b] : b \in online}
            map == [u \in named \cup DOMAIN own |-> IF u \in named THEN u.of ELSE own[u]]
            y == [World EXCEPT !.f = [World.f EXCEPT ![n] = [World.f[n] EXCEPT !.local = map]]]
<1>0. Running /\ UNCHANGED timers
  BY DEF GetCreatures, KeepsTimers
<1>1. /\ Good(World) /\ World.f = frames /\ World.f # <<>> /\ World.t = things
      /\ World \in ScriptWorlds
  BY <1>0, RunningIs DEF Good
<1>2. ScriptsBecome(y)
  <2>1. World.f[n] = frames[n]
    BY <1>1
  <2>. QED BY <1>1 DEF GetCreatures
<1>3. own \in Maps /\ MapGood(own, World.t)
  BY <1>1, LocalIsGood
<1>4. \A u \in named : /\ u.kind = "creature" /\ u.of \in Beasts /\ u \in Uids
                       /\ Placed(World.t, u.of) /\ u = [kind |-> "creature", of |-> u.of]
  BY <1>1 DEF Uids, Placed
<1>5. IsFiniteSet(named)
  <2>. DEFINE h == [u \in named |-> u.of]
  <2>1. h \in [named -> Beasts]
    BY <1>4
  <2>2. \A u, v \in named : h[u] = h[v] => u = v
    BY <1>4
  <2>. HIDE DEF h
  <2>3. h \in Injection(named, Beasts)
    BY <2>1, <2>2 DEF Injection, IsInjective
  <2>. HIDE DEF named
  <2>. QED BY <2>3, FS_Injection, ScriptsAssumption
<1>. HIDE DEF named, own
<1>6. PICK D \in SUBSET Uids : own \in [D -> Things]
  BY <1>3 DEF Maps
<1>7. DOMAIN own = D
  BY <1>6
<1>8. /\ DOMAIN map = named \cup D
      /\ \A u \in named : map[u] = u.of
      /\ \A u \in D : u \notin named => map[u] = own[u]
  BY <1>7
<1>9. map \in Maps
  <2>1. named \cup D \in SUBSET Uids
    BY <1>4
  <2>2. map \in [named \cup D -> Things]
    <3>1. \A u \in named \cup D : (IF u \in named THEN u.of ELSE own[u]) \in Things
      BY <1>4, <1>6 DEF Things
    <3>. QED BY <1>7, <3>1
  <2>. HIDE DEF map
  <2>. QED BY <2>1, <2>2 DEF Maps
<1>. HIDE DEF map
<1>10. MapGood(map, World.t)
  <2>1. IsFiniteSet(DOMAIN map)
    <3>1. IsFiniteSet(D)
      BY <1>3, <1>7 DEF MapGood
    <3>2. IsFiniteSet(named \cup D)
      BY <1>5, <3>1, FS_Union
    <3>. QED BY <1>8, <3>2
  <2>2. \A u \in DOMAIN map : Placed(World.t, map[u])
    BY <1>3, <1>4, <1>7, <1>8 DEF MapGood
  <2>3. \A u \in DOMAIN map : u.kind = "creature" => map[u] = u.of
    BY <1>3, <1>7, <1>8 DEF MapGood
  <2>4. \A u \in DOMAIN map : map[u] \in Beasts => u.kind = "creature"
    BY <1>3, <1>4, <1>7, <1>8 DEF MapGood
  <2>5. ASSUME NEW u \in DOMAIN map, NEW v \in DOMAIN map, map[u] = map[v] PROVE u = v
    <3>1. u \in Uids /\ v \in Uids
      BY <1>4, <1>8
    <3>2. CASE map[u] \in Beasts
      <4>1. u.kind = "creature" /\ v.kind = "creature" /\ u.of = v.of
        BY <2>3, <2>4, <2>5, <3>2
      <4>. QED BY <3>1, <4>1 DEF Uids
    <3>3. CASE map[u] \notin Beasts
      <4>1. u \in D /\ u \notin named /\ v \in D /\ v \notin named
        BY <1>4, <1>8, <2>5, <3>3
      <4>2. own[u] = own[v]
        BY <1>8, <2>5, <4>1
      <4>. QED BY <1>3, <1>7, <4>1, <4>2 DEF MapGood
    <3>. QED BY <3>2, <3>3
  <2>. QED BY <2>1, <2>2, <2>3, <2>4, <2>5 DEF MapGood
<1>11. Renamed(World, y, map)
  <2>1. y = [World EXCEPT !.f = [World.f EXCEPT ![Len(World.f)] = [World.f[Len(World.f)] EXCEPT !.local = map]]]
    BY <1>1
  <2>. HIDE DEF y
  <2>. QED BY <1>1, <1>9, <2>1, MapIsRenamed
<1>12. Renames(World, y)
  <2>. HIDE DEF y
  <2>. QED BY <1>9, <1>10, <1>11 DEF Renames
<1>. HIDE DEF y
<1>. QED
  BY <1>0, <1>2, <1>12, NamingStep

\* A step that changes no environment leaves the script's map alone.
LEMMA SameLocal ==
  ASSUME NEW y, y.f = frames
  PROVE  Local(y) = Local(World)
BY DEF Local, Depth, World

\* Calls that make an item
LEMMA MakeStep ==
  ASSUME ScriptsIInv, NEW outcomes, outcomes \subseteq {"refused", "stacked", "stray", "tile", "bag"},
         Make(outcomes)
  PROVE  ScriptsIInv'
<1>0. Running /\ UNCHANGED timers
  BY DEF Make, Counts
<1>1. Good(World) /\ World.f = frames /\ World.t = things
  BY <1>0, RunningIs
<1>2. PICK t \in Goods, at \in outcomes :
        /\ things[t].at = "unborn"
        /\ LET w == [Created(World, t, at) EXCEPT
                        !.g = IF at \in {"tile", "bag"} /\ t \in Marked THEN @ \cup {t} ELSE @]
           IN ScriptsBecome(IF at = "refused" THEN w
                            ELSE Pend(w, [op |-> "create", thing |-> t]))
  BY DEF Make
<1>. DEFINE c == Created(World, t, at)
            g == IF at \in {"tile", "bag"} /\ t \in Marked THEN c.g \cup {t} ELSE c.g
            w == [c EXCEPT !.g = g]
            p == [op |-> "create", thing |-> t]
<1>3. ScriptsBecome(IF at = "refused" THEN w ELSE Pend(w, p))
  BY <1>2
<1>4. t \in Things /\ at \in {"refused", "stacked", "stray", "tile", "bag"}
  BY DEF Things
<1>5. Good(c) /\ c.f = frames /\ (at # "refused" => Placed(c.t, t))
  BY <1>1, <1>2, <1>4, CreatedIsGood
<1>. HIDE DEF c
<1>6. g \in SUBSET Marked /\ \A m \in g : Placed(c.t, m)
  BY <1>5 DEF Good, ScriptWorlds
<1>. HIDE DEF g
<1>7. Good(w) /\ w.f = frames /\ w.t = c.t
  BY <1>5, <1>6, UniquesChange
<1>. HIDE DEF w
<1>8. p \in Pends /\ p # NoPend /\ p.thing = t /\ p.op = "create"
  BY DEF Pends, NoPend
<1>. HIDE DEF p
<1>9. CASE at = "refused"
  <2>1. World.f # <<>>
    BY <1>0, RunningIs
  <2>2. Serves(World, w)
    BY <1>1, <1>7, <2>1 DEF Serves, SameTimers
  <2>. QED BY <1>0, <1>3, <1>9, <2>2, ServesStep
<1>10. CASE at # "refused"
  <2>1. PendGood(p, Local(w), w.t)
    BY <1>5, <1>7, <1>8, <1>10 DEF PendGood
  <2>. QED BY <1>0, <1>3, <1>7, <1>8, <1>10, <2>1, WaitingStep
<1>. QED
  BY <1>9, <1>10

\* doCreateItemEx: the new item belongs to the script.
LEMMA CreateItemExStep ==
  ASSUME ScriptsIInv, CreateItemEx
  PROVE  ScriptsIInv'
<1>0. Running /\ UNCHANGED timers
  BY DEF CreateItemEx, Counts
<1>1. /\ Good(World) /\ World.f = frames /\ World.t = things /\ World.f # <<>>
      /\ World.p = temps /\ World \in ScriptWorlds
  BY <1>0, RunningIs DEF Good
<1>2. PICK t \in Goods :
        /\ things[t].at = "unborn"
        /\ ScriptsBecome(AddThing([World EXCEPT !.t[t].at = "loose",
                                                !.p = @ \cup {<<Len(frames), t>>}], t))
  BY DEF CreateItemEx
<1>. DEFINE p == World.p \cup {<<Len(frames), t>>}
            y == [At(World, t, "loose") EXCEPT !.p = p]
<1>3. ScriptsBecome(AddThing(y, t))
  <2>1. At(World, t, "loose").p = World.p
    BY <1>1 DEF At, ScriptWorlds
  <2>2. y = [World EXCEPT !.t[t].at = "loose", !.p = World.p \cup {<<Len(frames), t>>}]
    BY <1>1 DEF At, ScriptWorlds
  <2>. QED BY <1>2, <2>2
<1>4. t \in Things
  BY DEF Things
<1>5. Serves(World, y) /\ AddThing(y, t) = y
  BY <1>1, <1>2, <1>4, TempIsGood
<1>. HIDE DEF y
<1>. QED
  BY <1>0, <1>3, <1>5, ServesStep

\* Calls that bring a creature into the world
LEMMA SummonCreatureStep ==
  ASSUME ScriptsIInv, SummonCreature
  PROVE  ScriptsIInv'
<1>0. Running /\ UNCHANGED timers
  BY DEF SummonCreature, Counts
<1>1. Good(World) /\ World.f = frames /\ World.t = things /\ World.f # <<>>
  BY <1>0, RunningIs
<1>2. PICK t \in Beasts, at \in {"refused", "tile"} :
        /\ things[t].at = "unborn"
        /\ ScriptsBecome(IF at = "refused" THEN Created(World, t, at)
                         ELSE Pend(Created(World, t, at), [op |-> "summon", thing |-> t]))
  BY DEF SummonCreature
<1>. DEFINE c == Created(World, t, at)
            p == [op |-> "summon", thing |-> t]
<1>3. t \in Things
  BY DEF Things
<1>4. Good(c) /\ c.f = frames /\ (at # "refused" => Placed(c.t, t))
  BY <1>1, <1>2, <1>3, CreatedIsGood
<1>5. ScriptsBecome(IF at = "refused" THEN c ELSE Pend(c, p))
  BY <1>2
<1>. HIDE DEF c
<1>6. p \in Pends /\ p # NoPend /\ p.thing = t /\ p.op = "summon"
  BY DEF Pends, NoPend
<1>. HIDE DEF p
<1>7. CASE at = "refused"
  <2>1. Serves(World, c)
    BY <1>1, <1>4 DEF Serves, SameTimers
  <2>. QED BY <1>0, <1>5, <1>7, <2>1, ServesStep
<1>8. CASE at # "refused"
  <2>1. PendGood(p, Local(c), c.t)
    BY <1>4, <1>6, <1>8 DEF PendGood
  <2>. QED BY <1>0, <1>4, <1>5, <1>6, <1>8, <2>1, WaitingStep
<1>. QED
  BY <1>7, <1>8

\* Calls that take an item, or some of a stack, out of the world
LEMMA RemoveItemStep ==
  ASSUME ScriptsIInv, RemoveItem
  PROVE  ScriptsIInv'
<1>0. Running /\ UNCHANGED timers /\ frames # <<>>
  BY DEF RemoveItem, Counts, Running
<1>1. Good(World) /\ World.f = frames /\ World.t = things /\ World.f # <<>>
  BY <1>0, RunningIs
<1>2. PICK uid \in Known, all \in BOOLEAN :
        /\ Found(uid, Goods)
        /\ LET t == GetThingByUID(World, uid)
               w == IF all THEN FreeThing([World EXCEPT !.t[t].at = "loose"], t) ELSE World
           IN ScriptsBecome(Pend(w, [op |-> "remove", uid |-> uid, thing |-> t]))
  BY DEF RemoveItem
<1>. DEFINE t == GetThingByUID(World, uid)
            w == IF all THEN LetGo(World, t) ELSE World
            p == [op |-> "remove", uid |-> uid, thing |-> t]
<1>3. ScriptsBecome(Pend(w, p))
  BY <1>2 DEF LetGo, At
<1>4. /\ t \in Goods /\ t \in Things /\ World.t[t].at \in {"tile", "bag"} /\ Placed(World.t, t)
      /\ uid \in Uids /\ uid.kind # "creature"
  BY <1>0, <1>2, FoundIsThere
<1>. HIDE DEF t
<1>5. Good(w) /\ w.f = frames /\ Placed(w.t, t)
  <2>1. CASE all
    <3>1. Good(LetGo(World, t)) /\ LetGo(World, t).f = World.f /\ LetGo(World, t).t[t].at = "loose"
      BY <1>1, <1>4, GoneIsGood
    <3>. QED BY <1>1, <2>1, <3>1 DEF Placed
  <2>2. CASE ~all
    BY <1>1, <1>4, <2>2
  <2>. QED BY <2>1, <2>2
<1>. HIDE DEF w
<1>6. p \in Pends /\ p # NoPend /\ p.thing = t /\ p.op = "remove" /\ p.uid = uid
  BY <1>4 DEF Pends, NoPend
<1>. HIDE DEF p
<1>7. PendGood(p, Local(w), w.t)
  BY <1>4, <1>5, <1>6 DEF PendGood
<1>. QED
  BY <1>0, <1>3, <1>5, <1>6, <1>7, WaitingStep

\* Calls that make another item of one, or none
LEMMA TransformItemStep ==
  ASSUME ScriptsIInv, TransformItem
  PROVE  ScriptsIInv'
<1>0. Running /\ UNCHANGED timers /\ frames # <<>>
  BY DEF TransformItem, Counts, Running
<1>1. Good(World) /\ World.f = frames /\ World.t = things /\ World.f # <<>>
  BY <1>0, RunningIs
<1>2. PICK uid \in Known, new \in Goods \cup {NoThing} :
        /\ Found(uid, Goods)
        /\ LET t == GetThingByUID(World, uid)
               gone == FreeThing([World EXCEPT !.t[t].at = "loose"], t)
           IN /\ new \in Goods => new = t \/ (things[new].at = "unborn" /\ new \notin Marked)
              /\ ScriptsBecome(Pend(IF new = t THEN World
                                    ELSE IF new = NoThing THEN gone
                                    ELSE [gone EXCEPT !.t[new].at = things[t].at],
                                    [op |-> "transform", uid |-> uid, thing |-> t, new |-> new]))
  BY DEF TransformItem
<1>. DEFINE t == GetThingByUID(World, uid)
            gone == LetGo(World, t)
            at == things[t].at
            came == At(gone, new, at)
            w == IF new = t THEN World ELSE IF new = NoThing THEN gone ELSE came
            p == [op |-> "transform", uid |-> uid, thing |-> t, new |-> new]
<1>3. ScriptsBecome(Pend(w, p))
  BY <1>2 DEF LetGo, At
<1>4. /\ t \in Goods /\ t \in Things /\ World.t[t].at \in {"tile", "bag"} /\ Placed(World.t, t)
      /\ uid \in Uids /\ uid.kind # "creature"
  BY <1>0, <1>2, FoundIsThere
<1>5. new \in Goods => new = t \/ things[new].at = "unborn"
  BY <1>2
<1>6. p \in Pends /\ p # NoPend /\ p.thing = t /\ p.op = "transform" /\ p.uid = uid /\ p.new = new
  BY <1>4 DEF Pends, NoPend
<1>. HIDE DEF t, p
<1>7. /\ Good(gone) /\ gone.f = frames /\ gone.t[t].at = "loose"
      /\ \A z \in Things : z # t => gone.t[z] = World.t[z]
  BY <1>1, <1>4, GoneIsGood
<1>. HIDE DEF gone
<1>8. ASSUME Good(w), w.f = frames, Placed(w.t, t),
             new \in Goods /\ new # t => Placed(w.t, new) /\ \A u \in DOMAIN Local(w) : Local(w)[u] # new,
             new = t => Placed(w.t, new)
      PROVE  ScriptsIInv'
  <2>1. PendGood(p, Local(w), w.t)
    <3>. HIDE DEF w
    <3>1. p.new \in Goods => Placed(w.t, p.new) /\ (p.new # p.thing => \A u \in DOMAIN Local(w) : Local(w)[u] # p.new)
      BY <1>6, <1>8
    <3>. QED BY <1>4, <1>6, <1>8, <3>1 DEF PendGood
  <2>. HIDE DEF w
  <2>. QED BY <1>0, <1>3, <1>6, <1>8, <2>1, WaitingStep
<1>9. CASE new = t
  <2>1. w = World
    BY <1>9
  <2>. HIDE DEF w
  <2>. QED BY <1>1, <1>4, <1>8, <1>9, <2>1
<1>10. CASE new = NoThing
  <2>1. w = gone
    BY <1>4, <1>10, ScriptsAssumption
  <2>2. Placed(gone.t, t)
    BY <1>7 DEF Placed
  <2>3. new \notin Goods /\ new # t
    BY <1>4, <1>10, ScriptsAssumption
  <2>. HIDE DEF w
  <2>. QED BY <1>7, <1>8, <2>1, <2>2, <2>3
<1>11. CASE new # t /\ new # NoThing
  <2>1. w = came
    BY <1>11
  <2>2. new \in Goods /\ new \in Things /\ World.t[new].at = "unborn"
    BY <1>1, <1>5, <1>11 DEF Things
  <2>3. at \in {"tile", "bag"}
    BY <1>1, <1>4
  <2>. HIDE DEF at
  <2>4. MayGo(gone, new, at)
    BY <1>7, <1>11, <2>2, <2>3 DEF MayGo
  <2>5. Good(came) /\ came.f = gone.f /\ came.t[new].at = at
    BY <1>7, <2>2, <2>4, PutIsGood
  <2>6. \A z \in Things : z # new => came.t[z] = gone.t[z]
    BY <1>7, <2>2, PutLeaves
  <2>. HIDE DEF came, w
  <2>7. Placed(came.t, t)
    BY <1>4, <1>7, <1>11, <2>6 DEF Placed
  <2>8. Placed(came.t, new)
    BY <2>3, <2>5 DEF Placed
  <2>9. Local(came) = Local(World)
    BY <1>7, <2>5, SameLocal
  <2>10. \A u \in DOMAIN Local(World) : Placed(World.t, Local(World)[u])
    BY <1>1, LocalIsGood DEF MapGood
  <2>11. ~Placed(World.t, new)
    BY <2>2 DEF Placed
  <2>12. \A u \in DOMAIN Local(came) : Local(came)[u] # new
    BY <2>9, <2>10, <2>11
  <2>. QED BY <1>7, <1>8, <1>11, <2>1, <2>5, <2>7, <2>8, <2>12
<1>. QED
  BY <1>9, <1>10, <1>11

\* What a call that moves a thing holds on to
Moves(t) == [op |-> "move", thing |-> t]

\* A call that moves a thing, or takes a creature out, waits for the scripts it
\* brings on.
LEMMA MovesStep ==
  ASSUME ScriptsIInv, Running, NEW t \in Things, NEW y, Good(y), y.f = frames, Placed(y.t, t),
         ScriptsBecome(Pend(y, Moves(t))), UNCHANGED timers
  PROVE  ScriptsIInv'
<1>. DEFINE p == Moves(t)
<1>1. p \in Pends /\ p # NoPend /\ p.thing = t /\ p.op = "move"
  BY DEF Pends, NoPend, Moves
<1>. HIDE DEF p
<1>2. PendGood(p, Local(y), y.t)
  BY <1>1 DEF PendGood
<1>. QED
  BY <1>1, <1>2, WaitingStep DEF p

\* Calls that move what is in the world
LEMMA MoveThingsStep ==
  ASSUME ScriptsIInv, TeleportThing \/ Relocate \/ MoveCreature \/ RemoveCreature
  PROVE  ScriptsIInv'
<1>0. Running /\ UNCHANGED timers /\ frames # <<>>
  BY DEF TeleportThing, Relocate, MoveCreature, RemoveCreature, Counts, Running
<1>1. Good(World) /\ World.f = frames /\ World.t = things /\ World.f # <<>>
  BY <1>0, RunningIs
<1>2. CASE TeleportThing
  <2>1. PICK uid \in DOMAIN Local(World), at \in {"tile", "bag"} :
          /\ Found(uid, Things)
          /\ LET t == GetThingByUID(World, uid)
             IN ScriptsBecome(Pend([World EXCEPT !.t[t].at = at], [op |-> "move", thing |-> t]))
    BY <1>2 DEF TeleportThing
  <2>. DEFINE t == GetThingByUID(World, uid)
              y == At(World, t, at)
  <2>2. ScriptsBecome(Pend(y, Moves(t)))
    BY <2>1 DEF At, Moves
  <2>3. t \in Things /\ World.t[t].at \in {"tile", "bag"}
    BY <1>0, <2>1, FoundIsThere
  <2>. HIDE DEF t
  <2>4. MayGo(World, t, at)
    BY <2>3 DEF MayGo
  <2>5. Good(y) /\ y.f = World.f /\ y.t[t].at = at
    BY <1>1, <2>3, <2>4, PutIsGood
  <2>. HIDE DEF y
  <2>6. Placed(y.t, t)
    BY <2>5 DEF Placed
  <2>. QED BY <1>0, <1>1, <2>2, <2>3, <2>5, <2>6, MovesStep
<1>3. CASE Relocate
  <2>1. PICK t \in Things : things[t].at = "tile" /\ ScriptsBecome(Pend(World, Moves(t)))
    BY <1>3 DEF Relocate, Moves
  <2>2. Placed(World.t, t)
    BY <1>1, <2>1 DEF Placed
  <2>. QED BY <1>0, <1>1, <2>1, <2>2, MovesStep
<1>4. CASE MoveCreature
  <2>1. PICK uid \in DOMAIN Local(World) :
          Found(uid, Beasts) /\ ScriptsBecome(Pend(World, Moves(GetThingByUID(World, uid))))
    BY <1>4 DEF MoveCreature, Moves
  <2>. DEFINE t == GetThingByUID(World, uid)
  <2>2. t \in Things /\ Placed(World.t, t)
    BY <1>0, <2>1, FoundIsThere
  <2>. HIDE DEF t
  <2>. QED BY <1>0, <1>1, <2>1, <2>2, MovesStep DEF t
<1>5. CASE RemoveCreature
  <2>1. PICK uid \in DOMAIN Local(World) :
          /\ Found(uid, Beasts)
          /\ LET t == GetThingByUID(World, uid)
             IN ScriptsBecome(Pend(FreeThing([World EXCEPT !.t[t].at = "loose"], t),
                                   [op |-> "move", thing |-> t]))
    BY <1>5 DEF RemoveCreature
  <2>. DEFINE t == GetThingByUID(World, uid)
              y == LetGo(World, t)
  <2>2. ScriptsBecome(Pend(y, Moves(t)))
    BY <2>1 DEF At, Moves, LetGo
  <2>3. t \in Things /\ World.t[t].at \in {"tile", "bag"}
    BY <1>0, <2>1, FoundIsThere
  <2>. HIDE DEF t
  <2>4. Good(y) /\ y.f = World.f /\ y.t[t].at = "loose"
    BY <1>1, <2>3, GoneIsGood
  <2>. HIDE DEF y
  <2>5. Placed(y.t, t)
    BY <2>4 DEF Placed
  <2>. QED BY <1>0, <1>1, <2>2, <2>3, <2>4, <2>5, MovesStep
<1>. QED
  BY <1>2, <1>3, <1>4, <1>5

\* A blow, for which the creature struck gets its uid
LEMMA StrikeStep ==
  ASSUME ScriptsIInv, Strike
  PROVE  ScriptsIInv'
<1>0. Running /\ UNCHANGED timers
  BY DEF Strike, Counts
<1>1. Good(World) /\ World.f = frames /\ World.t = things /\ World.f # <<>>
  BY <1>0, RunningIs
<1>2. PICK b \in Beasts :
        /\ things[b].at = "tile"
        /\ ScriptsBecome(Pend(Named(World, [kind |-> "creature", of |-> b]), [op |-> "move", thing |-> b]))
  BY DEF Strike
<1>. DEFINE y == Named(World, [kind |-> "creature", of |-> b])
            p == Moves(b)
<1>3. Renames(World, y)
  BY <1>1, NamedRenames
<1>4. ScriptsBecome(Pend(y, p))
  BY <1>2 DEF Moves
<1>. HIDE DEF y
<1>5. PICK map \in Maps : MapGood(map, World.t) /\ Renamed(World, y, map)
  BY <1>3 DEF Renames
<1>6. b \in Things
  BY DEF Things
<1>7. p \in Pends /\ p # NoPend /\ p.thing = b /\ p.op = "move"
  BY <1>6 DEF Pends, NoPend, Moves
<1>. HIDE DEF p
<1>8. Placed(World.t, b)
  BY <1>1, <1>2 DEF Placed
<1>9. PendGood(p, map, World.t)
  BY <1>7, <1>8 DEF PendGood
<1>10. Serves(World, Pend(y, p))
  BY <1>1, <1>5, <1>7, <1>9, PendIsGood
<1>. QED
  BY <1>0, <1>4, <1>10, ServesStep

\* The queries' results
LEMMA ResultsStep ==
  ASSUME ScriptsIInv, StoreQuery \/ ResultFree
  PROVE  ScriptsIInv'
<1>. DEFINE y == [World EXCEPT !.r = results']
<1>0. Running /\ UNCHANGED <<frames, lastUid, things, uniques, temps, timers>>
  BY DEF StoreQuery, ResultFree
<1>1. /\ Good(World) /\ World.f # <<>> /\ World.r = results
      /\ results \in [open : SUBSET Nat, made : Nat]
  BY <1>0, RunningIs DEF Good, ScriptWorlds
<1>2. results' \in [open : SUBSET Nat, made : Nat]
  <2>1. CASE StoreQuery
    BY <1>1, <2>1 DEF StoreQuery
  <2>2. CASE ResultFree
    BY <1>1, <2>2 DEF ResultFree
  <2>. QED BY <2>1, <2>2
<1>3. ScriptsBecome(y)
  BY <1>0 DEF ScriptsBecome, World
<1>4. Serves(World, y)
  BY <1>1, <1>2, ResultsChange
<1>. HIDE DEF y
<1>. QED
  BY <1>0, <1>3, <1>4, ServesStep

\* What was given up is deleted.
LEMMA CleanupStep ==
  ASSUME ScriptsIInv, CleanupTask
  PROVE  ScriptsIInv'
<1>1. Good(World) /\ World.f = frames /\ frames = <<>> /\ UNCHANGED timers
  BY DEF CleanupTask, KeepsTimers, ScriptsIInv, World
<1>2. Good(Cleanup(World)) /\ Cleanup(World).f = frames
  BY <1>1, CleanupIsGood
<1>3. ScriptsBecome(Cleanup(World))
  BY DEF CleanupTask
<1>4. TimersGood(Cleanup(World).f, timers')
  BY <1>1, <1>2 DEF ScriptsIInv
<1>. QED
  BY <1>2, <1>3, <1>4, ScriptsGoodBecomes

\* Scripts that start, by themselves or in a call
LEMMA StartsStep ==
  ASSUME ScriptsIInv, (\E stage \in {"load", "event"} : StartScript(stage)) \/ NestedScript
  PROVE  ScriptsIInv'
<1>1. PICK stage \in {"load", "event"} :
        Len(frames) < MaxDepth /\ ScriptsBecome(ReserveScriptEnv(World, stage, 0)) /\ UNCHANGED timers
  <2>1. frames = <<>> => Len(frames) < MaxDepth
    BY ScriptsAssumption, EmptySeq
  <2>2. CASE NestedScript
    BY <2>2 DEF NestedScript, KeepsTimers
  <2>3. CASE \E stage \in {"load", "event"} : StartScript(stage)
    BY <2>1, <2>3 DEF StartScript, KeepsTimers
  <2>. QED BY <2>2, <2>3
<1>2. Good(World) /\ World.f = frames /\ frames \in Seq(Frames) /\ TimersGood(frames, timers)
  BY DEF ScriptsIInv, World, Good, ScriptWorlds
<1>. DEFINE x == ReserveScriptEnv(World, stage, 0)
            n == Len(frames)
<1>3. 0 \in 0..MaxTimers
  BY ScriptsAssumption
<1>4. /\ Good(x) /\ x.f \in Seq(Frames) /\ Len(x.f) = n + 1
      /\ \A d \in DOMAIN frames : x.f[d] = frames[d]
      /\ x.f[n + 1].timer = 0
  BY <1>1, <1>2, <1>3, ReserveIsGood
<1>5. ScriptsBecome(x)
  BY <1>1
<1>. HIDE DEF x
<1>6. n \in Nat /\ DOMAIN frames = 1..n /\ DOMAIN x.f = 1..(n + 1)
  BY <1>2, <1>4, LenProperties
<1>7. \A d \in DOMAIN x.f : d \in DOMAIN frames \/ d = n + 1
  BY <1>6
<1>8. \A d \in DOMAIN frames : d \in DOMAIN x.f
  BY <1>6
<1>9. TimersGood(x.f, timers)
  <2>1. \A d \in DOMAIN x.f : d > 1 => x.f[d].timer = 0
    BY <1>2, <1>4, <1>7 DEF TimersGood
  <2>2. \A d \in DOMAIN x.f : x.f[d].timer # 0 => x.f[d].timer \in timers.armed
    BY <1>2, <1>4, <1>7 DEF TimersGood
  <2>3. ASSUME NEW i \in timers.armed PROVE i \in timers.due \/ \E d \in DOMAIN x.f : x.f[d].timer = i
    <3>1. CASE i \in timers.due
      BY <3>1
    <3>2. CASE i \notin timers.due
      <4>1. PICK d \in DOMAIN frames : frames[d].timer = i
        BY <1>2, <3>2 DEF TimersGood
      <4>2. d \in DOMAIN x.f /\ x.f[d].timer = i
        BY <1>4, <1>8, <4>1
      <4>. QED BY <4>2
    <3>. QED BY <3>1, <3>2
  <2>. QED BY <1>2, <2>1, <2>2, <2>3 DEF TimersGood
<1>10. TimersGood(x.f, timers')
  BY <1>1, <1>9
<1>. QED
  BY <1>4, <1>5, <1>10, ScriptsGoodBecomes

\* A step that leaves the world alone
LEMMA SameWorld ==
  ASSUME ScriptsIInv, UNCHANGED <<frames, lastUid, things, uniques, temps, results>>,
         TimersGood(frames, timers')
  PROVE  ScriptsIInv'
<1>1. ScriptsBecome(World) /\ World.f = frames /\ Good(World)
  BY DEF ScriptsBecome, World, ScriptsIInv
<1>. QED
  BY <1>1, ScriptsGoodBecomes

\* luaAddEvent: a number that is used for the first time
LEMMA AddEventStep ==
  ASSUME ScriptsIInv, AddEvent
  PROVE  ScriptsIInv'
<1>. DEFINE i == timers.made + 1
            tm == timers'
<1>1. TimersGood(frames, timers) /\ MaxTimers \in Nat
  BY ScriptsAssumption DEF ScriptsIInv
<1>2. /\ timers \in [armed : SUBSET TimerIds, due : SUBSET TimerIds, refs : [TimerIds -> Int], made : 0..MaxTimers]
      /\ \A j \in timers.armed \cup timers.due : j <= timers.made
  BY <1>1 DEF TimersGood
<1>3. i \in TimerIds /\ i \in 0..MaxTimers /\ i \notin timers.armed /\ i \notin timers.due
  BY <1>1, <1>2 DEF AddEvent, TimerIds
<1>4. /\ tm.armed = timers.armed \cup {i} /\ tm.due = timers.due \cup {i}
      /\ tm.refs = [timers.refs EXCEPT ![i] = timers.refs[i] + 1] /\ tm.made = i
      /\ tm = [armed |-> tm.armed, due |-> tm.due, refs |-> tm.refs, made |-> tm.made]
  BY DEF AddEvent
<1>5. \A j \in timers.armed \cup timers.due : j <= i
  BY <1>1, <1>2 DEF TimerIds
<1>. HIDE DEF i, tm
<1>6. tm \in [armed : SUBSET TimerIds, due : SUBSET TimerIds, refs : [TimerIds -> Int], made : 0..MaxTimers]
  <2>1. tm.refs \in [TimerIds -> Int]
    BY <1>2, <1>3, <1>4
  <2>2. tm.armed \in SUBSET TimerIds /\ tm.due \in SUBSET TimerIds /\ tm.made \in 0..MaxTimers
    BY <1>2, <1>3, <1>4
  <2>. QED BY <1>4, <2>1, <2>2
<1>7. \A j \in tm.armed \cup tm.due : j <= tm.made
  BY <1>3, <1>4, <1>5
<1>8. ASSUME NEW j \in TimerIds PROVE tm.refs[j] = (IF j \in tm.armed THEN 1 ELSE 0)
  <2>1. timers.refs[j] = (IF j \in timers.armed THEN 1 ELSE 0)
    BY <1>1 DEF TimersGood
  <2>2. CASE j = i
    BY <1>2, <1>3, <1>4, <2>1, <2>2
  <2>3. CASE j # i
    BY <1>2, <1>3, <1>4, <2>1, <2>3
  <2>. QED BY <2>2, <2>3
<1>9. TimersGood(frames, tm)
  BY <1>1, <1>4, <1>6, <1>7, <1>8 DEF TimersGood
<1>. QED
  BY <1>9, SameWorld DEF AddEvent, KeepsWorld, tm

\* An entry goes that no environment serves.
LEMMA ForgetGood ==
  ASSUME NEW f, NEW i \in timers.armed, NEW e, TimersGood(f, timers),
         \A d \in DOMAIN e : d \in DOMAIN f /\ e[d].timer = f[d].timer /\ e[d].timer # i,
         \A d \in DOMAIN f : f[d].timer # 0 /\ f[d].timer # i => d \in DOMAIN e,
         NEW tm, tm = Forget(i)
  PROVE  TimersGood(e, tm)
<1>1. /\ timers \in [armed : SUBSET TimerIds, due : SUBSET TimerIds, refs : [TimerIds -> Int], made : 0..MaxTimers]
      /\ \A j \in timers.armed \cup timers.due : j <= timers.made
  BY DEF TimersGood
<1>2. i \in TimerIds
  BY <1>1
<1>. DEFINE armed == timers.armed \ {i}
            due == timers.due \ {i}
            refs == [timers.refs EXCEPT ![i] = timers.refs[i] - 1]
<1>3. tm.armed = armed /\ tm.due = due /\ tm.refs = refs /\ tm.made = timers.made
  BY <1>1 DEF Forget
<1>4. tm = [armed |-> armed, due |-> due, refs |-> refs, made |-> timers.made]
  BY <1>1 DEF Forget
<1>5. refs \in [TimerIds -> Int]
  BY <1>1, <1>2
<1>6. tm \in [armed : SUBSET TimerIds, due : SUBSET TimerIds, refs : [TimerIds -> Int], made : 0..MaxTimers]
  BY <1>1, <1>4, <1>5
<1>7. \A j \in tm.armed \cup tm.due : j <= tm.made
  BY <1>1, <1>3
<1>8. ASSUME NEW j \in TimerIds PROVE tm.refs[j] = (IF j \in tm.armed THEN 1 ELSE 0)
  <2>1. timers.refs[j] = (IF j \in timers.armed THEN 1 ELSE 0)
    BY DEF TimersGood
  <2>2. CASE j = i
    BY <1>1, <1>2, <1>3, <2>1, <2>2
  <2>3. CASE j # i
    BY <1>1, <1>2, <1>3, <2>1, <2>3
  <2>. QED BY <2>2, <2>3
<1>9. \A d \in DOMAIN e : d > 1 => e[d].timer = 0
  BY DEF TimersGood
<1>10. \A d \in DOMAIN e : e[d].timer # 0 => e[d].timer \in tm.armed
  BY <1>3 DEF TimersGood
<1>11. ASSUME NEW j \in tm.armed PROVE j \in tm.due \/ \E d \in DOMAIN e : e[d].timer = j
  <2>1. j \in timers.armed /\ j # i
    BY <1>3
  <2>2. j # 0
    BY <1>1, <2>1 DEF TimerIds
  <2>3. CASE j \in timers.due
    BY <1>3, <2>1, <2>3
  <2>4. CASE j \notin timers.due
    <3>1. PICK d \in DOMAIN f : f[d].timer = j
      BY <2>1, <2>4 DEF TimersGood
    <3>2. d \in DOMAIN e /\ e[d].timer = j
      BY <2>1, <2>2, <3>1
    <3>. QED BY <3>2
  <2>. QED BY <2>3, <2>4
<1>. HIDE DEF armed, due, refs
<1>. QED
  BY <1>6, <1>7, <1>8, <1>9, <1>10, <1>11 DEF TimersGood

\* luaStopEvent
LEMMA StopEventStep ==
  ASSUME ScriptsIInv, StopEvent
  PROVE  ScriptsIInv'
<1>1. PICK i \in timers.armed \ Serving : timers' = Forget(i)
  BY DEF StopEvent
<1>2. TimersGood(frames, timers)
  BY DEF ScriptsIInv
<1>3. \A d \in DOMAIN frames : frames[d].timer # i
  BY <1>1 DEF Serving
<1>4. TimersGood(frames, timers')
  BY <1>1, <1>2, <1>3, ForgetGood
<1>. QED
  BY <1>4, SameWorld DEF StopEvent, KeepsWorld

\* The scheduler calls executeTimerEvent.
LEMMA ExecuteTimerEventStep ==
  ASSUME ScriptsIInv, ExecuteTimerEvent
  PROVE  ScriptsIInv'
<1>1. PICK i \in timers.due :
        /\ timers' = [timers EXCEPT !.due = @ \ {i}]
        /\ ScriptsBecome(IF i \in timers.armed THEN ReserveScriptEnv(World, "timer", i) ELSE World)
  BY DEF ExecuteTimerEvent
<1>2. /\ Good(World) /\ World.f = frames /\ frames \in Seq(Frames) /\ frames = <<>> /\ DOMAIN frames = {}
      /\ Len(frames) = 0
  <2>1. frames = <<>> /\ frames \in Seq(Frames) /\ Good(World) /\ World.f = frames
    BY DEF ScriptsIInv, World, Good, ScriptWorlds, ExecuteTimerEvent
  <2>2. Len(frames) = 0
    BY <2>1, EmptySeq
  <2>3. DOMAIN frames = {}
    BY <2>1, <2>2, LenProperties
  <2>. QED BY <2>1, <2>2, <2>3
<1>3. TimersGood(frames, timers)
  BY DEF ScriptsIInv
<1>. DEFINE due == timers.due \ {i}
            tm == timers'
<1>4. /\ timers \in [armed : SUBSET TimerIds, due : SUBSET TimerIds, refs : [TimerIds -> Int], made : 0..MaxTimers]
      /\ \A j \in timers.armed \cup timers.due : j <= timers.made
      /\ \A j \in TimerIds : timers.refs[j] = (IF j \in timers.armed THEN 1 ELSE 0)
      /\ timers.armed \subseteq timers.due
  BY <1>2, <1>3 DEF TimersGood
<1>5. tm = [timers EXCEPT !.due = due]
  BY <1>1
<1>6. due \in SUBSET TimerIds /\ due \subseteq timers.due /\ \A j \in timers.due : j # i => j \in due
  BY <1>4
<1>. HIDE DEF due, tm
<1>7. /\ tm \in [armed : SUBSET TimerIds, due : SUBSET TimerIds, refs : [TimerIds -> Int], made : 0..MaxTimers]
      /\ tm.armed = timers.armed /\ tm.due = due /\ tm.refs = timers.refs /\ tm.made = timers.made
  BY <1>4, <1>5, <1>6
<1>8. \A j \in tm.armed \cup tm.due : j <= tm.made
  BY <1>4, <1>6, <1>7
<1>9. CASE i \in timers.armed
  <2>. DEFINE x == ReserveScriptEnv(World, "timer", i)
  <2>1. ScriptsBecome(x)
    BY <1>1, <1>9
  <2>2. i \in 0..MaxTimers /\ Len(frames) < MaxDepth /\ i \in TimerIds
    BY <1>2, <1>4, ScriptsAssumption DEF TimerIds
  <2>0. Good(World) /\ World.f = frames /\ Len(World.f) < MaxDepth /\ "timer" \in {"load", "event", "timer"}
    BY <1>2, <2>2
  <2>3. /\ Good(x) /\ x.f \in Seq(Frames) /\ Len(x.f) = Len(World.f) + 1
        /\ x.f[Len(World.f) + 1].timer = i
    BY <2>0, <2>2, ReserveIsGood
  <2>. HIDE DEF x
  <2>4. DOMAIN x.f = {1} /\ x.f[1].timer = i
    <3>1. Len(x.f) = 1 /\ x.f[1].timer = i
      BY <1>2, <2>3
    <3>. QED BY <2>3, <3>1, LenProperties
  <2>5. \A j \in tm.armed : j \in tm.due \/ \E d \in DOMAIN x.f : x.f[d].timer = j
    BY <1>4, <1>6, <1>7, <2>4
  <2>6. \A d \in DOMAIN x.f : (d > 1 => x.f[d].timer = 0) /\ x.f[d].timer \in tm.armed
    BY <1>7, <1>9, <2>4
  <2>7. TimersGood(x.f, tm)
    BY <1>4, <1>7, <1>8, <2>5, <2>6 DEF TimersGood
  <2>. QED BY <2>1, <2>3, <2>7, ScriptsGoodBecomes DEF tm
<1>10. CASE i \notin timers.armed
  <2>1. ScriptsBecome(World)
    BY <1>1, <1>10
  <2>2. \A j \in tm.armed : j \in tm.due
    BY <1>4, <1>6, <1>7, <1>10
  <2>3. TimersGood(World.f, tm)
    BY <1>2, <1>4, <1>7, <1>8, <2>2 DEF TimersGood
  <2>. QED BY <1>2, <2>1, <2>3, ScriptsGoodBecomes DEF tm
<1>. QED
  BY <1>9, <1>10

\* A script is through: the event it was run for is one no longer.
LEMMA ScriptEndsStep ==
  ASSUME ScriptsIInv, ScriptEnds
  PROVE  ScriptsIInv'
<1>. DEFINE x == ReleaseScriptEnv(World)
            n == Len(frames)
            i == Env.timer
<1>1. Running /\ ScriptsBecome(x) /\ timers' = IF i # 0 THEN Forget(i) ELSE timers
  BY DEF ScriptEnds
<1>2. Good(World) /\ World.f = frames /\ frames # <<>> /\ TimersGood(frames, timers)
  BY <1>1, RunningIs DEF ScriptsIInv
<1>3. n \in Nat \ {0} /\ DOMAIN frames = 1..n /\ n \in DOMAIN frames
  BY <1>2, TopIs
<1>4. /\ Good(x) /\ x.f \in Seq(Frames) /\ Len(x.f) = n - 1
      /\ \A d \in 1..(n - 1) : x.f[d].timer = frames[d].timer
  BY <1>2, ReleaseIsGood
<1>. HIDE DEF x
<1>5. DOMAIN x.f = 1..(n - 1)
  BY <1>4, LenProperties
<1>6. i = frames[n].timer
  BY DEF Env
<1>. HIDE DEF i, n
<1>9. /\ \A d \in 1..(n - 1) : d \in 1..n
      /\ \A d \in 1..n : d \in 1..(n - 1) \/ d = n
  BY <1>3
<1>7. CASE i # 0
  <2>1. n = 1
    BY <1>2, <1>3, <1>6, <1>7 DEF TimersGood
  <2>2. DOMAIN x.f = {} /\ DOMAIN frames = {1} /\ frames[1].timer = i
    BY <1>3, <1>5, <1>6, <2>1
  <2>3. i \in timers.armed
    BY <1>2, <1>3, <1>6, <1>7 DEF TimersGood
  <2>4. timers' = Forget(i)
    BY <1>1, <1>7
  <2>5. TimersGood(x.f, timers')
    BY <1>2, <2>2, <2>3, <2>4, ForgetGood
  <2>. QED BY <1>1, <1>4, <2>5, ScriptsGoodBecomes
<1>8. CASE i = 0
  <2>1. timers' = timers
    BY <1>1, <1>8
  <2>2. \A d \in DOMAIN x.f : d \in DOMAIN frames /\ x.f[d].timer = frames[d].timer
    BY <1>3, <1>4, <1>5, <1>9
  <2>3. \A d \in DOMAIN frames : d \in DOMAIN x.f \/ frames[d].timer = 0
    BY <1>3, <1>5, <1>6, <1>8, <1>9
  <2>4. ASSUME NEW j \in timers.armed PROVE j \in timers.due \/ \E d \in DOMAIN x.f : x.f[d].timer = j
    <3>1. j # 0
      BY <1>2 DEF TimersGood, TimerIds
    <3>2. CASE j \in timers.due
      BY <3>2
    <3>3. CASE j \notin timers.due
      <4>1. PICK d \in DOMAIN frames : frames[d].timer = j
        BY <1>2, <3>3 DEF TimersGood
      <4>2. d \in DOMAIN x.f /\ x.f[d].timer = j
        BY <2>2, <2>3, <3>1, <4>1
      <4>. QED BY <4>2
    <3>. QED BY <3>2, <3>3
  <2>5. \A d \in DOMAIN x.f : (d > 1 => x.f[d].timer = 0) /\ (x.f[d].timer # 0 => x.f[d].timer \in timers.armed)
    BY <1>2, <2>2 DEF TimersGood
  <2>6. TimersGood(x.f, timers)
    BY <1>2, <2>4, <2>5 DEF TimersGood
  <2>7. TimersGood(x.f, timers')
    BY <2>1, <2>6
  <2>. QED BY <1>1, <1>4, <2>7, ScriptsGoodBecomes
<1>. QED
  BY <1>7, <1>8

\* LuaScriptInterface::reInitState gives every reference back.
LEMMA ReInitStateStep ==
  ASSUME ScriptsIInv, ReInitState
  PROVE  ScriptsIInv'
<1>. DEFINE none == {}
            refs == [i \in TimerIds |-> IF i \in timers.armed THEN timers.refs[i] - 1 ELSE timers.refs[i]]
            tm == timers'
<1>1. TimersGood(frames, timers) /\ frames = <<>> /\ frames \in Seq(Frames)
  BY DEF ReInitState, ScriptsIInv, Good, ScriptWorlds, World
<1>2. DOMAIN frames = {}
  BY <1>1, EmptySeq, LenProperties
<1>3. /\ timers \in [armed : SUBSET TimerIds, due : SUBSET TimerIds, refs : [TimerIds -> Int], made : 0..MaxTimers]
      /\ \A j \in timers.armed \cup timers.due : j <= timers.made
      /\ \A j \in TimerIds : timers.refs[j] = (IF j \in timers.armed THEN 1 ELSE 0)
  BY <1>1 DEF TimersGood
<1>4. tm = [timers EXCEPT !.armed = none, !.refs = refs]
  BY DEF ReInitState
<1>5. refs \in [TimerIds -> Int] /\ \A j \in TimerIds : refs[j] = 0
  BY <1>3
<1>6. none \in SUBSET TimerIds /\ \A j : j \notin none
  OBVIOUS
<1>. HIDE DEF none, refs, tm
<1>7. /\ tm \in [armed : SUBSET TimerIds, due : SUBSET TimerIds, refs : [TimerIds -> Int], made : 0..MaxTimers]
      /\ tm.armed = none /\ tm.due = timers.due /\ tm.refs = refs /\ tm.made = timers.made
  BY <1>3, <1>4, <1>5, <1>6
<1>8. TimersGood(frames, tm)
  BY <1>2, <1>3, <1>5, <1>6, <1>7 DEF TimersGood
<1>. QED
  BY <1>8, SameWorld DEF ReInitState, KeepsWorld, tm

-----------------------------------------------------------------------------
(* The invariant.                                                          *)

\* Before the first script
LEMMA ScriptsInitIInv ==
  ASSUME ScriptsInit
  PROVE  ScriptsIInv
<1>1. /\ frames = <<>> /\ lastUid = [d \in 1..MaxDepth |-> 0]
      /\ things \in [Things -> [at : {"unborn", "tile", "bag"}, freed : {0}]]
      /\ uniques = {g \in Marked : things[g].at # "unborn"}
      /\ temps = {} /\ results \in [open : {{}}, made : 0..MaxResults]
      /\ timers \in [armed : {{}}, due : {{}}, refs : {[i \in TimerIds |-> 0]}, made : 0..MaxTimers]
  BY DEF ScriptsInit
<1>2. frames \in Seq(Frames) /\ DOMAIN frames = {} /\ Len(frames) = 0
  <2>1. frames \in Seq(Frames) /\ Len(frames) = 0
    BY <1>1, EmptySeq
  <2>. QED BY <2>1, LenProperties
<1>3. things \in [Things -> States]
  BY <1>1 DEF States, Places
<1>4. lastUid \in [1..MaxDepth -> Nat]
  BY <1>1
<1>5. uniques \in SUBSET Marked /\ temps \in SUBSET (Nat \X Things)
  BY <1>1
<1>6. results \in [open : SUBSET Nat, made : Nat] /\ results.open = {}
  <2>1. {} \in SUBSET Nat /\ 0..MaxResults \subseteq Nat
    BY ScriptsAssumption
  <2>. QED BY <1>1, <2>1
<1>7. /\ World \in ScriptWorlds /\ World.f = frames /\ World.t = things /\ World.g = uniques
      /\ World.p = temps /\ World.r = results
  BY <1>2, <1>3, <1>4, <1>5, <1>6 DEF World, ScriptWorlds
<1>8. \A x \in Things : things[x].at \in {"unborn", "tile", "bag"} /\ things[x].freed = 0
  BY <1>1
<1>9. FramesGood(World.f, World.t)
  BY <1>2, <1>7 DEF FramesGood
<1>10. \A g \in World.g : Placed(World.t, g)
  <2>1. Marked \subseteq Things
    BY ScriptsAssumption DEF Things
  <2>. QED BY <1>1, <1>7, <1>8, <2>1 DEF Placed
<1>11. FreedGood(World.t, World.p)
  <2>1. ASSUME NEW x \in Things
        PROVE  /\ things[x].freed <= 1 /\ ~(things[x].freed > 0)
               /\ things[x].at # "loose"
    BY <1>8
  <2>. QED BY <1>1, <1>7, <2>1 DEF FreedGood
<1>12. Len(World.f) <= MaxDepth
  BY <1>2, <1>7, ScriptsAssumption
<1>13. Good(World)
  BY <1>1, <1>6, <1>7, <1>9, <1>10, <1>11, <1>12 DEF Good
<1>14. TimersGood(frames, timers)
  <2>. DEFINE none == {}
              zero == [i \in TimerIds |-> 0]
  <2>1. /\ timers.armed = none /\ timers.due = none /\ timers.refs = zero
        /\ timers = [armed |-> timers.armed, due |-> timers.due, refs |-> timers.refs, made |-> timers.made]
        /\ timers.made \in 0..MaxTimers
    BY <1>1
  <2>2. none \in SUBSET TimerIds /\ \A i : i \notin none
    OBVIOUS
  <2>3. zero \in [TimerIds -> Int] /\ \A i \in TimerIds : zero[i] = 0
    OBVIOUS
  <2>. HIDE DEF none, zero
  <2>4. timers \in [armed : SUBSET TimerIds, due : SUBSET TimerIds, refs : [TimerIds -> Int], made : 0..MaxTimers]
    BY <2>1, <2>2, <2>3
  <2>. QED BY <1>2, <2>1, <2>2, <2>3, <2>4 DEF TimersGood
<1>. QED
  BY <1>13, <1>14 DEF ScriptsIInv

\* Every step of a script, and of the scheduler for scripts, keeps it.
LEMMA ScriptsStepIInv ==
  ASSUME ScriptsIInv, [ScriptsNext]_scriptVars
  PROVE  ScriptsIInv'
<1>0. TimersGood(frames, timers)
  BY DEF ScriptsIInv
<1>1. CASE UNCHANGED scriptVars
  BY <1>0, <1>1, SameWorld DEF scriptVars
<1>2. CASE (\E stage \in {"load", "event"} : StartScript(stage)) \/ NestedScript
  BY <1>2, StartsStep
<1>3. CASE CallReturns
  BY <1>3, CallReturnsStep
<1>4. CASE ScriptEnds
  BY <1>4, ScriptEndsStep
<1>5. CASE GetTileThing \/ GetPlayerSlotItem \/ GetThing
  BY <1>5, GetsStep
<1>6. CASE GetCreatures
  BY <1>6, GetCreaturesStep
<1>7. CASE CreateItem \/ PlayerAddItem \/ AddContainerItem \/ CreateTeleport
  BY <1>7, MakeStep DEF CreateItem, PlayerAddItem, AddContainerItem, CreateTeleport
<1>8. CASE CreateItemEx
  BY <1>8, CreateItemExStep
<1>9. CASE SummonCreature
  BY <1>9, SummonCreatureStep
<1>10. CASE RemoveItem
  BY <1>10, RemoveItemStep
<1>11. CASE TransformItem
  BY <1>11, TransformItemStep
<1>12. CASE TeleportThing \/ Relocate \/ MoveCreature \/ RemoveCreature
  BY <1>12, MoveThingsStep
<1>13. CASE CleanupTask
  BY <1>13, CleanupStep
<1>14. CASE StoreQuery \/ ResultFree
  BY <1>14, ResultsStep
<1>15. CASE AddEvent
  BY <1>15, AddEventStep
<1>16. CASE StopEvent
  BY <1>16, StopEventStep
<1>17. CASE ExecuteTimerEvent
  BY <1>17, ExecuteTimerEventStep
<1>18. CASE ReInitState
  BY <1>18, ReInitStateStep
<1>19. CASE CreateCombatObject \/ CreateCombatArea \/ SetCombatArea \/ CreateConditionObject
  <2>1. UNCHANGED <<frames, lastUid, things, uniques, temps, results, timers>>
    BY <1>19 DEF CreateCombatObject, CreateCombatArea, SetCombatArea, CreateConditionObject, KeepsAll
  <2>2. TimersGood(frames, timers')
    BY <1>0, <2>1
  <2>. QED BY <2>1, <2>2, SameWorld
<1>20. CASE DoCombat \/ DoCombatHealth \/ DoCombatCondition
  BY <1>20, StrikeStep DEF DoCombat, DoCombatHealth, DoCombatCondition
<1>. QED
  BY <1>1, <1>2, <1>3, <1>4, <1>5, <1>6, <1>7, <1>8, <1>9, <1>10, <1>11, <1>12, <1>13,
     <1>14, <1>15, <1>16, <1>17, <1>18, <1>19, <1>20 DEF ScriptsNext

\* What it says of scripts
LEMMA ScriptsIInvConsistent ==
  ASSUME ScriptsIInv
  PROVE  ScriptsConsistent
<1>1. /\ Good(World) /\ World.f = frames /\ World.t = things /\ World.g = uniques
      /\ World.p = temps /\ World.r = results /\ TimersGood(frames, timers)
  BY DEF ScriptsIInv, World
<1>2. /\ frames \in Seq(Frames) /\ Len(frames) <= MaxDepth /\ things \in [Things -> States]
      /\ uniques \subseteq Marked /\ FramesGood(frames, things) /\ FreedGood(things, temps)
  BY <1>1 DEF Good, ScriptWorlds
<1>3. ASSUME NEW d \in DOMAIN frames
      PROVE  /\ frames[d].local \in Maps /\ MapGood(frames[d].local, things)
             /\ frames[d].pend # NoPend => Placed(things, frames[d].pend.thing)
  <2>1. frames[d] \in Frames /\ FrameGood(frames[d], things)
    BY <1>2, ElementOfSeq DEF FramesGood
  <2>. QED BY <2>1 DEF Frames, FrameGood, PendGood
<1>4. ScriptsTypeOK
  <2>1. \A d \in DOMAIN frames : DOMAIN frames[d].local \subseteq Uids
    BY <1>3 DEF Maps
  <2>2. timers.armed \cup timers.due \subseteq TimerIds
    BY <1>1 DEF TimersGood
  <2>. QED BY <1>2, <2>1, <2>2 DEF ScriptsTypeOK, States
<1>5. NoDangling
  <2>1. ASSUME NEW d \in DOMAIN frames
        PROVE  /\ \A u \in DOMAIN frames[d].local : things[frames[d].local[u]].at # "deleted"
               /\ frames[d].pend # NoPend => things[frames[d].pend.thing].at # "deleted"
    BY <1>3 DEF MapGood, Placed
  <2>2. \A g \in uniques : things[g].at # "deleted"
    BY <1>1 DEF Good, Placed
  <2>3. \A p \in temps : things[p[2]].at # "deleted"
    BY <1>2 DEF FreedGood
  <2>. QED BY <2>1, <2>2, <2>3 DEF NoDangling
<1>6. FreedOnce
  BY <1>2 DEF FreedOnce, FreedGood
<1>7. OneUid
  BY <1>3 DEF OneUid, MapGood
<1>8. NothingLeft
  BY <1>1 DEF NothingLeft, Good
<1>9. TimersExact
  <2>1. \A i \in timers.armed : i \in timers.due \/ i \in Serving
    BY <1>1 DEF TimersGood, Serving
  <2>2. \A i \in Serving \ {0} : i \in timers.armed
    BY <1>1 DEF TimersGood, Serving
  <2>3. \A i \in TimerIds : timers.refs[i] = (IF i \in timers.armed THEN 1 ELSE 0)
    BY <1>1 DEF TimersGood
  <2>. QED BY <2>1, <2>2, <2>3 DEF TimersExact
<1>. QED
  BY <1>4, <1>5, <1>6, <1>7, <1>8, <1>9 DEF ScriptsConsistent

\* Whatever scripts call, in whatever order they bring each other on: no uid,
\* waiting call, unique id or temporary item leads to a deleted thing, a thing is
\* freed once, a thing that is there has one uid in a script, nothing of a script
\* is left between tasks, and a timer event's function is kept as long as its
\* entry (ScriptEnviroment, luaDo..., executeTimerEvent).
THEOREM ScriptsAlwaysConsistent == ScriptsSpec => []ScriptsConsistent
<1>1. ScriptsInit => ScriptsIInv
  BY ScriptsInitIInv
<1>2. ScriptsIInv /\ [ScriptsNext]_scriptVars => ScriptsIInv'
  BY ScriptsStepIInv
<1>3. ScriptsIInv => ScriptsConsistent
  BY ScriptsIInvConsistent
<1>. QED
  BY <1>1, <1>2, <1>3, PTL DEF ScriptsSpec

-----------------------------------------------------------------------------
(* Least numbers, and functions by recursion on positions.                 *)

\* Among numbers there is a least one.
LEMMA LeastOne ==
  ASSUME NEW S \in SUBSET Nat, S # {}
  PROVE  \E n \in S : \A m \in S : n <= m
<1>. DEFINE R == {q \in Nat \X Nat : q[1] < q[2]}
<1>1. IsWellFoundedOn(R, Nat)
  BY NatLessThanWellFounded DEF OpToRel
<1>2. \A m, n \in Nat : m < n => <<m, n>> \in R
  OBVIOUS
<1>. HIDE DEF R
<1>3. PICK n \in S : \A y \in S : ~(<<y, n>> \in R)
  BY <1>1, WFMin
<1>4. \A m \in S : n <= m
  <2>. SUFFICES ASSUME NEW m \in S PROVE n <= m
    OBVIOUS
  <2>1. m \in Nat /\ n \in Nat
    OBVIOUS
  <2>2. ~(m < n)
    BY <1>2, <1>3, <2>1
  <2>. QED BY <2>1, <2>2
<1>. QED BY <1>4

\* The first place of a sequence that passes is the one found.
LEMMA FirstPlace ==
  ASSUME NEW I \in SUBSET Nat, I # {}
  PROVE  Min(I) \in I /\ \A m \in I : Min(I) <= m
<1>1. \E n \in I : \A m \in I : n <= m
  BY LeastOne
<1>. QED BY <1>1 DEF Min

\* What is kept of the first places of a queue, without a player.
IsKept(q, p, m, f) ==
  f = [n \in 0..m |-> IF n = 0 THEN <<>>
                      ELSE IF q[n] = p THEN f[n - 1] ELSE Append(f[n - 1], q[n])]

\* There is such a function: one step after the other.
LEMMA KeptExists ==
  ASSUME NEW q, NEW p, Len(q) \in Nat
  PROVE  \E f : IsKept(q, p, Len(q), f)
<1>. DEFINE Is(f, m) == f = [n \in 0..m |-> IF n = 0 THEN <<>>
                       ELSE IF q[n] = p THEN f[n - 1] ELSE Append(f[n - 1], q[n])]
            B == {m \in Nat : ~\E f : Is(f, m)}
<1>1. B = {}
  <2>. SUFFICES ASSUME B # {} PROVE FALSE
    OBVIOUS
  <2>1. PICK m \in B : \A j \in B : m <= j
    BY LeastOne
  <2>2. CASE m = 0
    <3>. DEFINE f == [n \in 0..0 |-> <<>>]
    <3>1. Is(f, 0)
      OBVIOUS
    <3>. QED BY <2>1, <2>2, <3>1
  <2>3. CASE m # 0
    <3>. HIDE DEF B
    <3>1. m - 1 \in Nat /\ m - 1 \notin B
      <4>1. m \in Nat
        BY DEF B
      <4>. QED BY <2>1, <2>3, <4>1
    <3>. USE DEF B
    <3>2. PICK g : Is(g, m - 1)
      BY <3>1
    <3>. DEFINE f == [n \in 0..m |-> IF n = 0 THEN <<>>
                       ELSE IF q[n] = p THEN g[n - 1] ELSE Append(g[n - 1], q[n])]
    <3>3. \A n \in 0..(m - 1) : f[n] = g[n]
      <4>. SUFFICES ASSUME NEW n \in 0..(m - 1) PROVE f[n] = g[n]
        OBVIOUS
      <4>1. n \in 0..m
        BY <2>1
      <4>. QED BY <3>2, <4>1
    <3>4. \A n \in 0..m : n # 0 => n - 1 \in 0..(m - 1)
      BY <2>1
    <3>5. \A n \in 0..m : n # 0 => f[n - 1] = g[n - 1]
      BY <3>3, <3>4
    <3>6. Is(f, m)
      BY <3>5
    <3>. QED BY <2>1, <3>6
  <2>. QED BY <2>2, <2>3
<1>2. \E f : Is(f, Len(q))
  BY <1>1
<1>. QED BY <1>2 DEF IsKept
\* What holds at zero and is handed on up to N holds up to N.
LEMMA HandedOn ==
  ASSUME NEW N \in Nat, NEW T, 0 \in T, \A n \in Nat : n \in T /\ n < N => n + 1 \in T
  PROVE  \A n \in 0..N : n \in T
<1>. DEFINE B == (0..N) \ T
<1>. SUFFICES ASSUME B # {} PROVE FALSE
  OBVIOUS
<1>1. B \subseteq Nat
  OBVIOUS
<1>. HIDE DEF B
<1>2. PICK m \in B : \A j \in B : m <= j
  BY <1>1, LeastOne
<1>3. m \in 0..N /\ m \notin T
  BY DEF B
<1>4. m # 0 /\ m - 1 \in Nat /\ m - 1 < N
  BY <1>3
<1>5. m - 1 \in T
  <2>. SUFFICES ASSUME m - 1 \notin T PROVE FALSE
    OBVIOUS
  <2>1. m - 1 \in B
    BY <1>4 DEF B
  <2>. QED BY <1>2, <1>3, <2>1
<1>6. (m - 1) + 1 = m
  BY <1>3
<1>. QED BY <1>3, <1>4, <1>5, <1>6

\* Who is struck off a queue is not in it; the others are, and the first of
\* them is first.
LEMMA StruckOff ==
  ASSUME NEW S, NEW q \in Seq(S), NEW p, NEW v, v = Without(q, p)
  PROVE  /\ v \in Seq(S)
         /\ \A k \in DOMAIN v : v[k] # p /\ \E j \in DOMAIN q : v[k] = q[j]
         /\ q = <<>> => v = <<>>
         /\ q # <<>> /\ Head(q) # p => v # <<>> /\ Head(v) = Head(q)
<1>. DEFINE kept == CHOOSE f : IsKept(q, p, Len(q), f)
<1>0. Len(q) \in Nat /\ DOMAIN q = 1..Len(q) /\ \A n \in 1..Len(q) : q[n] \in S
  OBVIOUS
<1>1. IsKept(q, p, Len(q), kept)
  <2>1. \E f : IsKept(q, p, Len(q), f)
    BY <1>0, KeptExists
  <2>. QED BY <2>1
<1>2. v = kept[Len(q)]
  BY DEF Without, IsKept
<1>. HIDE DEF kept
<1>3. kept[0] = <<>>
  BY <1>0, <1>1 DEF IsKept
<1>4. \A n \in 1..Len(q) : kept[n] = IF q[n] = p THEN kept[n - 1] ELSE Append(kept[n - 1], q[n])
  <2>. SUFFICES ASSUME NEW n \in 1..Len(q)
                PROVE  kept[n] = IF q[n] = p THEN kept[n - 1] ELSE Append(kept[n - 1], q[n])
    OBVIOUS
  <2>1. n \in 0..Len(q) /\ n # 0
    BY <1>0
  <2>. QED BY <1>1, <2>1 DEF IsKept
<1>. DEFINE From(s) == /\ s \in Seq(S)
                       /\ \A k \in DOMAIN s : s[k] # p /\ \E j \in DOMAIN q : s[k] = q[j]
            First(s) == Head(q) # p => s # <<>> /\ Head(s) = Head(q)
            T == {n \in 0..Len(q) : From(kept[n]) /\ (n # 0 => First(kept[n]))}
<1>5. 0 \in T
  <2>1. <<>> \in Seq(S) /\ DOMAIN <<>> = {}
    OBVIOUS
  <2>2. From(<<>>)
    BY <2>1
  <2>3. From(kept[0])
    BY <1>3, <2>2
  <2>4. 0 \in 0..Len(q)
    BY <1>0
  <2>. QED BY <2>3, <2>4
<1>6. ASSUME NEW n \in Nat, n \in T, n < Len(q) PROVE n + 1 \in T
  <2>. DEFINE s == kept[n]
              t == kept[n + 1]
  <2>1. n + 1 \in 1..Len(q) /\ (n + 1) - 1 = n /\ q[n + 1] \in S
    BY <1>0, <1>6
  <2>2. t = IF q[n + 1] = p THEN s ELSE Append(s, q[n + 1])
    BY <1>4, <2>1
  <2>3. From(s) /\ (n # 0 => First(s)) /\ (n = 0 => s = <<>>)
    BY <1>3, <1>6
  <2>. HIDE DEF s, t
  <2>4. From(t)
    <3>1. CASE q[n + 1] = p
      BY <2>2, <2>3, <3>1
    <3>2. CASE q[n + 1] # p
      <4>1. t = Append(s, q[n + 1]) /\ t \in Seq(S)
        BY <2>1, <2>2, <2>3, <3>2
      <4>2. \A k \in DOMAIN t : (k \in DOMAIN s /\ t[k] = s[k]) \/ t[k] = q[n + 1]
        BY <2>1, <2>3, <4>1
      <4>. QED BY <1>0, <2>1, <2>3, <3>2, <4>1, <4>2
    <3>. QED BY <3>1, <3>2
  <2>5. First(t)
    <3>. SUFFICES ASSUME Head(q) # p PROVE t # <<>> /\ Head(t) = Head(q)
      OBVIOUS
    <3>1. CASE n = 0
      <4>1. q[1] # p /\ q[1] = Head(q)
        BY <1>0, <2>1
      <4>2. t = Append(<<>>, q[1])
        BY <2>2, <2>3, <3>1, <4>1
      <4>3. t = <<q[1]>>
        BY <4>2
      <4>. QED BY <4>1, <4>3
    <3>2. CASE n # 0
      <4>1. s # <<>> /\ Head(s) = Head(q) /\ s \in Seq(S)
        BY <2>3, <3>2
      <4>2. CASE q[n + 1] = p
        BY <2>2, <4>1, <4>2
      <4>3. CASE q[n + 1] # p
        <5>1. t = Append(s, q[n + 1])
          BY <2>2, <4>3
        <5>2. t # <<>> /\ Head(t) = Head(s)
          BY <2>1, <4>1, <5>1
        <5>. QED BY <4>1, <5>2
      <4>. QED BY <4>2, <4>3
    <3>. QED BY <3>1, <3>2
  <2>. QED BY <2>1, <2>4, <2>5 DEF t
<1>. HIDE DEF T
<1>7. Len(q) \in T
  <2>1. \A n \in 0..Len(q) : n \in T
    BY <1>0, <1>5, <1>6, HandedOn
  <2>. QED BY <1>0, <2>1
<1>8. From(v) /\ (Len(q) # 0 => First(v))
  BY <1>2, <1>7 DEF T
<1>9. q = <<>> => v = <<>>
  BY <1>2, <1>3
<1>10. q # <<>> => Len(q) # 0
  OBVIOUS
<1>. QED BY <1>8, <1>9, <1>10

-----------------------------------------------------------------------------
(* Conversations.                                                          *)

Talks ==
  [focus : Guests \cup {"nobody"}, queue : Seq(Guests), idle : 0..IdleInterval + 1,
   delay : -1..WalkDelay, handler : Nat]
Whereabouts == [Guests -> Street \cup {-2, -1}]
NpcWorlds == [talk : Talks, at : Whereabouts, failed : BOOLEAN]

\* Who waits has been in the game.
Seen(t, at) == \A k \in DOMAIN t.queue : at[t.queue[k]] # -2

\* The conversation the npc may be in between two calls.
Settled(t, at) ==
  /\ t \in Talks /\ Seen(t, at)
  /\ t.focus = "nobody" => t.queue = <<>>
  /\ t.focus # "nobody" /\ t.idle > IdleInterval => t.queue # <<>> /\ at[Head(t.queue)] = -1

NpcIInv ==
  /\ npcAt \in Zone /\ guestAt \in Whereabouts /\ Settled(talk, guestAt)
  /\ interfaces \in [live : BOOLEAN, made : Nat]
  /\ interfaces.live /\ talk.handler = interfaces.made

\* Who is there is on the street.
LEMMA PresentOnes ==
  ASSUME NEW w \in NpcWorlds, NEW p \in Guests
  PROVE  /\ Present(w, p) <=> w.at[p] \in Street
         /\ ~Present(w, p) <=> w.at[p] \in {-2, -1}
<1>1. w.at[p] \in Street \cup {-2, -1}
  BY DEF NpcWorlds, Whereabouts
<1>2. -1 \notin Street /\ -2 \notin Street
  BY NpcAssumption
<1>. QED BY <1>1, <1>2 DEF Present, Outside, Coming, Gone

\* The focus on one who is there, with the time begun anew, or on nobody with an
\* empty queue.
LEMMA FocusSettles ==
  ASSUME NEW w \in NpcWorlds, Seen(w.talk, w.at), NEW p, NEW v, v = SetNpcFocus(w, p),
         \/ p \in Guests /\ Present(w, p) /\ w.talk.idle <= IdleInterval
         \/ p = "nobody" /\ w.talk.queue = <<>>
  PROVE  v \in NpcWorlds /\ v.at = w.at /\ Settled(v.talk, v.at) /\ v.talk.handler = w.talk.handler
<1>. DEFINE t == [w.talk EXCEPT !.focus = p]
            u == [w.talk EXCEPT !.focus = "nobody", !.delay = WalkDelay]
<1>0. w.talk \in Talks /\ w.at \in Whereabouts /\ IdleInterval \in Nat /\ WalkDelay \in -1..WalkDelay
  BY NpcAssumption DEF NpcWorlds
<1>1. CASE p \in Guests /\ Present(w, p) /\ w.talk.idle <= IdleInterval
  <2>1. p # "nobody"
    BY <1>1, NpcAssumption
  <2>2. v = [w EXCEPT !.talk = t]
    BY <1>1, <2>1 DEF SetNpcFocus, Nobody, NpcWorlds, Talks
  <2>3. t \in Talks /\ t.queue = w.talk.queue /\ t.idle = w.talk.idle /\ t.focus = p
        /\ t.handler = w.talk.handler
    BY <1>0, <1>1 DEF Talks
  <2>. HIDE DEF t
  <2>4. v \in NpcWorlds /\ v.talk = t /\ v.at = w.at
    BY <2>2, <2>3 DEF NpcWorlds
  <2>5. ~(t.idle > IdleInterval)
    BY <1>0, <1>1, <2>3 DEF Talks
  <2>. QED BY <2>1, <2>3, <2>4, <2>5 DEF Settled, Seen
<1>2. CASE p = "nobody" /\ w.talk.queue = <<>>
  <2>2. v = [w EXCEPT !.talk = u]
    BY <1>2 DEF SetNpcFocus, Nobody, NpcWorlds, Talks
  <2>3. u \in Talks /\ u.queue = w.talk.queue /\ u.focus = "nobody" /\ u.handler = w.talk.handler
    BY <1>0 DEF Talks
  <2>. HIDE DEF u
  <2>4. v \in NpcWorlds /\ v.talk = u /\ v.at = w.at
    BY <2>2, <2>3 DEF NpcWorlds
  <2>. QED BY <1>2, <2>3, <2>4 DEF Settled, Seen
<1>. QED BY <1>1, <1>2

\* With its time begun anew a conversation that was settled stays so.
LEMMA IdleSettles ==
  ASSUME NEW w \in NpcWorlds, Seen(w.talk, w.at), NEW v, v = UpdateIdle(w)
  PROVE  /\ v \in NpcWorlds /\ v.at = w.at /\ Seen(v.talk, v.at)
         /\ v.talk.queue = w.talk.queue /\ v.talk.focus = w.talk.focus
         /\ v.talk.handler = w.talk.handler /\ v.talk.idle <= IdleInterval
         /\ (w.talk.focus = "nobody" => w.talk.queue = <<>>) => Settled(v.talk, v.at)
<1>. DEFINE t == [w.talk EXCEPT !.idle = 0]
<1>0. w.talk \in Talks /\ IdleInterval \in Nat
  BY NpcAssumption DEF NpcWorlds
<1>1. v = [w EXCEPT !.talk = t]
  BY DEF UpdateIdle, NpcWorlds, Talks
<1>2. t \in Talks /\ t.queue = w.talk.queue /\ t.idle = 0 /\ t.focus = w.talk.focus
      /\ t.handler = w.talk.handler
  BY <1>0 DEF Talks
<1>. HIDE DEF t
<1>3. v \in NpcWorlds /\ v.talk = t /\ v.at = w.at
  BY <1>1, <1>2 DEF NpcWorlds
<1>4. t.idle <= IdleInterval /\ ~(t.idle > IdleInterval)
  BY <1>0, <1>2
<1>. QED BY <1>2, <1>3, <1>4 DEF Settled, Seen

Requeued(w, s) == [w EXCEPT !.talk.queue = s]

\* A part of a queue keeps who is known.
LEMMA PartOfQueue ==
  ASSUME NEW w \in NpcWorlds, Seen(w.talk, w.at), NEW s \in Seq(Guests),
         \A j \in DOMAIN s : \E k \in DOMAIN w.talk.queue : s[j] = w.talk.queue[k],
         NEW v, v = Requeued(w, s)
  PROVE  /\ v \in NpcWorlds /\ v.at = w.at /\ Seen(v.talk, v.at) /\ v.failed = w.failed
         /\ v.talk.queue = s /\ v.talk.focus = w.talk.focus /\ v.talk.idle = w.talk.idle
         /\ v.talk.handler = w.talk.handler
<1>. DEFINE t == [w.talk EXCEPT !.queue = s]
<1>0. w.talk \in Talks
  BY DEF NpcWorlds
<1>1. v = [w EXCEPT !.talk = t]
  BY DEF NpcWorlds, Talks, Requeued
<1>2. t \in Talks /\ t.queue = s /\ t.idle = w.talk.idle /\ t.focus = w.talk.focus
      /\ t.handler = w.talk.handler
  BY <1>0 DEF Talks
<1>. HIDE DEF t
<1>3. v \in NpcWorlds /\ v.talk = t /\ v.at = w.at /\ v.failed = w.failed
  BY <1>1, <1>2 DEF NpcWorlds
<1>4. Seen(t, w.at)
  BY <1>2 DEF Seen
<1>. QED BY <1>2, <1>3, <1>4

\* The next in the queue who is near gets the word; who went away loses the
\* place; one who left the game stops it, and stays at its head.
LEMMA NextSettles ==
  ASSUME NEW w \in NpcWorlds, Seen(w.talk, w.at), w.talk.focus # "nobody",
         NEW v, v = GetNext(w)
  PROVE  v \in NpcWorlds /\ v.at = w.at /\ Settled(v.talk, v.at) /\ v.talk.handler = w.talk.handler
<1>. DEFINE q == w.talk.queue
            I == {i \in 1..Len(q) : ~Present(w, q[i]) \/ Distance(w, q[i]) <= Near}
            k == IF I # {} THEN Min(I) ELSE 0
<1>0. q \in Seq(Guests) /\ Len(q) \in Nat /\ DOMAIN q = 1..Len(q)
  BY DEF NpcWorlds, Talks
<1>1. v = IF k = 0 THEN ResetIdle(SetNpcFocus([w EXCEPT !.talk.queue = <<>>], Nobody))
          ELSE IF ~Present(w, q[k]) THEN
            [w EXCEPT !.talk.queue = SubSeq(q, k, Len(q)), !.failed = TRUE]
          ELSE SetNpcFocus(UpdateIdle([w EXCEPT !.talk.queue = SubSeq(q, k + 1, Len(q))]), q[k])
  BY DEF GetNext, SelectInSeq
<1>2. k = 0 \/ k \in 1..Len(q)
  <2>1. CASE I = {}
    BY <2>1
  <2>2. CASE I # {}
    <3>1. I \subseteq Nat
      BY <1>0
    <3>. HIDE DEF I
    <3>2. k \in I
      BY <2>2, <3>1, FirstPlace
    <3>. QED BY <3>2 DEF I
  <2>. QED BY <2>1, <2>2
<1>. HIDE DEF k, I
<1>3. CASE k = 0
  <2>. DEFINE a == Requeued(w, <<>>)
              b == SetNpcFocus(a, "nobody")
              t == [b.talk EXCEPT !.idle = IdleInterval + 1]
  <2>1. <<>> \in Seq(Guests) /\ DOMAIN <<>> = {}
    OBVIOUS
  <2>2. a \in NpcWorlds /\ a.at = w.at /\ Seen(a.talk, a.at) /\ a.talk.queue = <<>>
        /\ a.talk.handler = w.talk.handler
    <3>. DEFINE s == <<>>
    <3>1. s \in Seq(Guests) /\ \A j \in DOMAIN s : \E k_1 \in DOMAIN w.talk.queue : s[j] = w.talk.queue[k_1]
      BY <2>1
    <3>2. s = <<>>
      OBVIOUS
    <3>. HIDE DEF s
    <3>. DEFINE c == Requeued(w, s)
    <3>3. c \in NpcWorlds /\ c.at = w.at /\ Seen(c.talk, c.at) /\ c.talk.queue = s
          /\ c.talk.handler = w.talk.handler
      BY <3>1, PartOfQueue
    <3>. QED BY <3>2, <3>3
  <2>. HIDE DEF a
  <2>3. b \in NpcWorlds /\ b.at = w.at /\ Settled(b.talk, b.at) /\ b.talk.handler = w.talk.handler
        /\ b.talk.focus = "nobody"
    <3>1. b \in NpcWorlds /\ b.at = a.at /\ Settled(b.talk, b.at) /\ b.talk.handler = a.talk.handler
      BY <2>2, FocusSettles
    <3>2. b.talk.focus = "nobody"
      BY <2>2 DEF SetNpcFocus, Nobody, NpcWorlds, Talks
    <3>. QED BY <2>2, <3>1, <3>2
  <2>4. v = [b EXCEPT !.talk.idle = IdleInterval + 1]
    BY <1>1, <1>3 DEF ResetIdle, a, Nobody, Requeued
  <2>. HIDE DEF b
  <2>5. v = [b EXCEPT !.talk = t]
    BY <2>3, <2>4 DEF NpcWorlds, Talks
  <2>6. t \in Talks /\ t.queue = b.talk.queue /\ t.focus = "nobody" /\ t.handler = b.talk.handler
    <3>1. IdleInterval + 1 \in 0..IdleInterval + 1
      BY NpcAssumption
    <3>2. b.talk \in Talks
      BY <2>3 DEF NpcWorlds
    <3>. QED BY <2>3, <3>1, <3>2 DEF Talks
  <2>. HIDE DEF t
  <2>7. v \in NpcWorlds /\ v.talk = t /\ v.at = w.at
    BY <2>3, <2>5, <2>6 DEF NpcWorlds
  <2>8. Seen(t, v.at) /\ t.queue = <<>>
    BY <2>3, <2>6, <2>7 DEF Settled, Seen
  <2>. QED BY <2>3, <2>6, <2>7, <2>8 DEF Settled
<1>4. CASE k \in 1..Len(q) /\ ~Present(w, q[k])
  <2>. DEFINE s == SubSeq(q, k, Len(q))
              a == Requeued(w, s)
  <2>1. /\ s \in Seq(Guests) /\ s # <<>> /\ Head(s) = q[k]
        /\ \A j \in DOMAIN s : s[j] = q[j + k - 1] /\ j + k - 1 \in DOMAIN q
    <3>1. k \in 1..Len(q) /\ Len(q) \in 1..Len(q)
      BY <1>0, <1>4
    <3>2. /\ s \in Seq(Guests) /\ Len(s) = Len(q) - k + 1
          /\ \A j \in 1..(Len(q) - k + 1) : s[j] = q[k + j - 1]
      BY <1>0, <3>1, SubSeqProperties
    <3>. HIDE DEF s
    <3>3. 1 \in 1..(Len(q) - k + 1) /\ Len(s) # 0 /\ q[k + 1 - 1] = q[k]
      BY <1>0, <3>1, <3>2
    <3>4. s # <<>> /\ Head(s) = q[k]
      BY <3>2, <3>3
    <3>5. ASSUME NEW j \in DOMAIN s PROVE s[j] = q[j + k - 1] /\ j + k - 1 \in DOMAIN q
      <4>1. j \in 1..(Len(q) - k + 1)
        BY <3>2
      <4>2. s[j] = q[k + j - 1]
        BY <3>2, <4>1, Zenon
      <4>3. Len(q) \in Nat /\ DOMAIN q = 1..Len(q)
        BY <1>0
      <4>4. k + j - 1 = j + k - 1 /\ j + k - 1 \in DOMAIN q
        BY <3>1, <4>1, <4>3
      <4>. QED BY <4>2, <4>4
    <3>. QED BY <3>2, <3>4, <3>5
  <2>. HIDE DEF s
  <2>2. a \in NpcWorlds /\ a.at = w.at /\ Seen(a.talk, a.at) /\ a.talk.queue = s
        /\ a.talk.focus = w.talk.focus /\ a.talk.handler = w.talk.handler
    BY <2>1, PartOfQueue
  <2>3. v = [a EXCEPT !.failed = TRUE]
    BY <1>0, <1>1, <1>4 DEF NpcWorlds, Requeued, s
  <2>. HIDE DEF a
  <2>4. v \in NpcWorlds /\ v.talk = a.talk /\ v.at = w.at
    BY <2>2, <2>3 DEF NpcWorlds
  <2>5. w.at[q[k]] = -1
    <3>1. q[k] \in Guests
      BY <1>0, <1>4
    <3>2. w.at[q[k]] # -2
      BY <1>0, <1>4 DEF Seen
    <3>. QED BY <1>4, <3>1, <3>2, PresentOnes
  <2>. QED BY <2>1, <2>2, <2>4, <2>5 DEF Settled, NpcWorlds
<1>5. CASE k \in 1..Len(q) /\ Present(w, q[k])
  <2>. DEFINE s == SubSeq(q, k + 1, Len(q))
              a == Requeued(w, s)
              b == UpdateIdle(a)
  <2>1. /\ s \in Seq(Guests)
        /\ \A j \in DOMAIN s : s[j] = q[j + k] /\ j + k \in DOMAIN q
    BY <1>0, <1>5
  <2>. HIDE DEF s
  <2>2. a \in NpcWorlds /\ a.at = w.at /\ Seen(a.talk, a.at) /\ a.talk.handler = w.talk.handler
    BY <2>1, PartOfQueue
  <2>3. v = SetNpcFocus(b, q[k])
    BY <1>0, <1>1, <1>5 DEF Requeued, s
  <2>. HIDE DEF a
  <2>4. b \in NpcWorlds /\ b.at = a.at /\ Seen(b.talk, b.at) /\ b.talk.handler = a.talk.handler
        /\ b.talk.idle <= IdleInterval
    BY <2>2, IdleSettles
  <2>. HIDE DEF b
  <2>5. q[k] \in Guests /\ Present(b, q[k])
    BY <1>0, <1>5, <2>2, <2>4 DEF Present
  <2>. QED BY <2>2, <2>3, <2>4, <2>5, FocusSettles
<1>. QED BY <1>2, <1>3, <1>4, <1>5

\* Whoever is seen to leave: the npc turns to the next, or strikes the name off.
LEMMA DisappearSettles ==
  ASSUME NEW w \in NpcWorlds, Settled(w.talk, w.at), NEW p \in Guests, Present(w, p),
         NEW v, v = NpcOnCreatureDisappear(w, p)
  PROVE  v.at = w.at /\ Settled(v.talk, v.at) /\ v.talk.handler = w.talk.handler
<1>0. Seen(w.talk, w.at) /\ w.talk \in Talks /\ p # "nobody"
  BY NpcAssumption DEF Settled
<1>1. CASE w.talk.focus = p
  BY <1>0, <1>1, NextSettles DEF NpcOnCreatureDisappear
<1>2. CASE w.talk.focus # p
  <2>. DEFINE q == w.talk.queue
              s == Without(q, p)
  <2>1. q \in Seq(Guests)
    BY <1>0 DEF Talks
  <2>2. /\ s \in Seq(Guests)
        /\ \A k \in DOMAIN s : s[k] # p /\ \E j \in DOMAIN q : s[k] = q[j]
        /\ q = <<>> => s = <<>>
        /\ q # <<>> /\ Head(q) # p => s # <<>> /\ Head(s) = Head(q)
    BY <2>1, StruckOff
  <2>3. v = Requeued(w, s)
    BY <1>2 DEF NpcOnCreatureDisappear, UnqueuePlayer, Requeued, NpcWorlds, Talks
  <2>. HIDE DEF s
  <2>4. /\ v \in NpcWorlds /\ v.at = w.at /\ Seen(v.talk, v.at)
        /\ v.talk.queue = s /\ v.talk.focus = w.talk.focus /\ v.talk.idle = w.talk.idle
        /\ v.talk.handler = w.talk.handler
    BY <1>0, <2>2, <2>3, PartOfQueue
  <2>5. v.talk \in Talks
    BY <2>4 DEF NpcWorlds
  <2>6. w.at[p] # -1
    BY PresentOnes
  <2>7. w.talk.focus = "nobody" => s = <<>>
    BY <2>2 DEF Settled
  <2>8. w.talk.focus # "nobody" /\ w.talk.idle > IdleInterval => s # <<>> /\ w.at[Head(s)] = -1
    BY <2>2, <2>6 DEF Settled
  <2>. QED BY <2>4, <2>5, <2>7, <2>8 DEF Settled
<1>. QED BY <1>1, <1>2

\* What is said to the npc: the first to greet gets the word, others wait.
LEMMA SaySettles ==
  ASSUME NEW w \in NpcWorlds, Settled(w.talk, w.at), NEW p \in Guests, Present(w, p), NEW msg,
         NEW v, v = NpcOnCreatureSay(w, p, msg)
  PROVE  v.at = w.at /\ Settled(v.talk, v.at) /\ v.talk.handler = w.talk.handler
<1>0. Seen(w.talk, w.at) /\ w.talk \in Talks /\ p # "nobody"
  BY NpcAssumption DEF Settled
<1>1. CASE v = w
  BY <1>1
<1>2. CASE v = SetNpcFocus(UpdateIdle(w), p)
  <2>. DEFINE b == UpdateIdle(w)
  <2>1. b \in NpcWorlds /\ b.at = w.at /\ Seen(b.talk, b.at) /\ b.talk.handler = w.talk.handler
        /\ b.talk.idle <= IdleInterval
    BY <1>0, IdleSettles
  <2>2. v = SetNpcFocus(b, p)
    BY <1>2
  <2>. HIDE DEF b
  <2>3. Present(b, p)
    BY <2>1 DEF Present
  <2>. QED BY <2>1, <2>2, <2>3, FocusSettles
<1>3. CASE v = QueuePlayer(w, p) /\ w.talk.focus # "nobody"
  <2>. DEFINE q == w.talk.queue
              s == Append(q, p)
              t == [w.talk EXCEPT !.queue = s]
  <2>1. q \in Seq(Guests)
    BY <1>0 DEF Talks
  <2>2. ASSUME NEW k \in DOMAIN s PROVE s[k] = p \/ (k \in DOMAIN q /\ s[k] = q[k])
    <3>1. Len(q) \in Nat /\ Len(s) = Len(q) + 1 /\ DOMAIN s = 1..Len(s) /\ DOMAIN q = 1..Len(q)
      BY <2>1
    <3>2. k \in 1..Len(q) \/ k = Len(q) + 1
      BY <3>1
    <3>. QED BY <2>1, <3>1, <3>2
  <2>3. v = [w EXCEPT !.talk = t]
    BY <1>3 DEF QueuePlayer, NpcWorlds, Talks
  <2>4. s \in Seq(Guests)
    BY <2>1
  <2>5. q # <<>> => s # <<>> /\ Head(s) = Head(q)
    BY <2>1
  <2>. HIDE DEF s
  <2>6. t \in Talks /\ t.queue = s /\ t.idle = w.talk.idle /\ t.focus = w.talk.focus
        /\ t.handler = w.talk.handler
    BY <1>0, <2>4 DEF Talks
  <2>. HIDE DEF t
  <2>7. v.talk = t /\ v.at = w.at
    BY <2>3, <2>6 DEF NpcWorlds
  <2>8. w.at[p] # -2
    BY PresentOnes
  <2>9. Seen(t, w.at)
    BY <1>0, <2>2, <2>6, <2>8 DEF Seen
  <2>. QED BY <1>3, <2>5, <2>6, <2>7, <2>9 DEF Settled
<1>4. CASE v = GetNext(w) /\ w.talk.focus # "nobody"
  BY <1>0, <1>4, NextSettles
<1>5. CASE v = UpdateIdle(w)
  BY <1>0, <1>5, IdleSettles DEF Settled
<1>6. v = w \/ v = SetNpcFocus(UpdateIdle(w), p) \/ (v = QueuePlayer(w, p) /\ w.talk.focus # "nobody")
      \/ (v = GetNext(w) /\ w.talk.focus # "nobody") \/ v = UpdateIdle(w)
  BY DEF NpcOnCreatureSay, Nobody
<1>. QED BY <1>1, <1>2, <1>3, <1>4, <1>5, <1>6

\* The npc thinks: of an idle, lost or distant partner it goes on to the next.
LEMMA ThinkSettles ==
  ASSUME NEW w \in NpcWorlds, Seen(w.talk, w.at), w.talk.focus = "nobody" => w.talk.queue = <<>>,
         NEW v, v = NpcOnThink(w)
  PROVE  v.at = w.at /\ Settled(v.talk, v.at) /\ v.talk.handler = w.talk.handler
<1>0. w.talk \in Talks
  BY DEF NpcWorlds
<1>1. CASE w.talk.focus = "nobody"
  <2>1. v = w
    BY <1>1 DEF NpcOnThink, Nobody
  <2>. QED BY <1>0, <1>1, <2>1 DEF Settled
<1>2. CASE w.talk.focus # "nobody" /\ v = GetNext(w)
  BY <1>2, NextSettles
<1>3. CASE w.talk.focus # "nobody" /\ ~IsIdle(w.talk) /\ v \in {w, [w EXCEPT !.failed = TRUE]}
  <2>1. v.talk = w.talk /\ v.at = w.at
    BY <1>3 DEF NpcWorlds
  <2>. QED BY <1>0, <1>3, <2>1 DEF Settled, IsIdle
<1>4. w.talk.focus = "nobody" \/ (w.talk.focus # "nobody" /\ v = GetNext(w))
      \/ (w.talk.focus # "nobody" /\ ~IsIdle(w.talk) /\ v \in {w, [w EXCEPT !.failed = TRUE]})
  BY DEF NpcOnThink, Nobody
<1>. QED BY <1>1, <1>2, <1>3, <1>4

\* The world as scripts see it now.
LEMMA NpcWorldNow ==
  ASSUME NpcIInv, NEW t \in Talks
  PROVE  /\ NpcWorld(t, guestAt) \in NpcWorlds
         /\ NpcWorld(t, guestAt).talk = t /\ NpcWorld(t, guestAt).at = guestAt
  BY DEF NpcIInv, NpcWorld, NpcWorlds

\* A guest that comes, walks or goes unsettles nothing, for who waits or leaves
\* first is found nowhere.
LEMMA WhereaboutsSettle ==
  ASSUME NEW t, NEW at \in Whereabouts, Settled(t, at), NEW p \in Guests,
         NEW x \in Street \cup {-1}, x # -1 => at[p] # -1, NEW to, to = [at EXCEPT ![p] = x]
  PROVE  to \in Whereabouts /\ Settled(t, to)
<1>0. t \in Talks /\ -2 \notin Street \cup {-1} /\ x \in Street \cup {-2, -1}
  BY NpcAssumption DEF Settled
<1>1. to \in Whereabouts
  BY <1>0 DEF Whereabouts
<1>2. \A g \in Guests : to[g] = IF g = p THEN x ELSE at[g]
  BY DEF Whereabouts
<1>3. t.queue \in Seq(Guests) /\ \A k \in DOMAIN t.queue : t.queue[k] \in Guests
  BY <1>0 DEF Talks
<1>4. Seen(t, to)
  BY <1>0, <1>2, <1>3 DEF Seen, Settled
<1>5. t.queue # <<>> => Head(t.queue) \in Guests
  BY <1>3
<1>6. t.queue # <<>> /\ at[Head(t.queue)] = -1 => to[Head(t.queue)] = -1
  BY <1>2, <1>5
<1>. QED BY <1>0, <1>1, <1>4, <1>6 DEF Settled

-----------------------------------------------------------------------------
(* Its actions.                                                            *)

\* At the start nobody is there and nobody talks.
LEMMA NpcStarts == NpcInit => NpcIInv
<1>. SUFFICES ASSUME NpcInit PROVE NpcIInv
  OBVIOUS
<1>1. npcAt \in Zone
  BY NpcAssumption DEF NpcInit
<1>2. guestAt \in Whereabouts
  BY DEF NpcInit, Whereabouts, Coming
<1>3. <<>> \in Seq(Guests) /\ DOMAIN <<>> = {}
  OBVIOUS
<1>4. IdleInterval + 1 \in 0..IdleInterval + 1 /\ -1 \in -1..WalkDelay
  BY NpcAssumption
<1>5. talk \in Talks /\ talk.focus = "nobody" /\ talk.queue = <<>> /\ talk.handler = 1
  BY <1>3, <1>4 DEF NpcInit, Talks, Nobody
<1>6. Settled(talk, guestAt)
  BY <1>3, <1>5 DEF Settled, Seen
<1>7. interfaces \in [live : BOOLEAN, made : Nat] /\ interfaces.live /\ talk.handler = interfaces.made
  BY <1>5 DEF NpcInit
<1>. QED BY <1>1, <1>2, <1>6, <1>7 DEF NpcIInv

\* A reload puts everybody off, and the handler to the new interface.
LEMMA ReloadSettles == ASSUME NpcIInv, NpcReload PROVE NpcIInv'
<1>. DEFINE t == NpcReset(talk)
            now == [live |-> TRUE, made |-> interfaces.made + 1]
            u == [t EXCEPT !.handler = now.made]
<1>1. talk \in Talks /\ interfaces \in [live : BOOLEAN, made : Nat]
  BY DEF NpcIInv, Settled
<1>2. <<>> \in Seq(Guests) /\ DOMAIN <<>> = {}
  OBVIOUS
<1>3. IdleInterval + 1 \in 0..IdleInterval + 1 /\ -1 \in -1..WalkDelay
  BY NpcAssumption
<1>4. t \in Talks /\ t.focus = "nobody" /\ t.queue = <<>>
  BY <1>1, <1>2, <1>3 DEF NpcReset, Talks, Nobody
<1>5. talk' = u /\ interfaces' = now /\ npcAt' = npcAt /\ guestAt' = guestAt
  BY <1>1 DEF NpcReload, NpcLoad
<1>. HIDE DEF t
<1>9. now.made \in Nat
  BY <1>1
<1>. HIDE DEF now
<1>6. u \in Talks /\ u.focus = "nobody" /\ u.queue = <<>> /\ u.handler = now.made
  BY <1>4, <1>9, SMTT(30) DEF Talks
<1>. USE DEF now
<1>7. now \in [live : BOOLEAN, made : Nat] /\ now.live
  BY <1>1
<1>. HIDE DEF u, now
<1>8. Settled(talk', guestAt')
  BY <1>2, <1>5, <1>6 DEF Settled, Seen
<1>. QED BY <1>5, <1>6, <1>7, <1>8 DEF NpcIInv

\* Each action keeps it.
LEMMA NpcStep == ASSUME NpcIInv, NpcNext PROVE NpcIInv'
<1>0. /\ npcAt \in Zone /\ guestAt \in Whereabouts /\ Settled(talk, guestAt) /\ talk \in Talks
      /\ interfaces \in [live : BOOLEAN, made : Nat]
      /\ interfaces.live /\ talk.handler = interfaces.made
  BY DEF NpcIInv, Settled
<1>1. CASE NpcReload
  BY <1>1, ReloadSettles
<1>2. ASSUME NEW p \in Guests, NEW spot \in Street, GuestEnters(p, spot) \/ GuestWalks(p, spot)
      PROVE  NpcIInv'
  <2>1. guestAt[p] # -1 /\ guestAt' = [guestAt EXCEPT ![p] = spot]
        /\ UNCHANGED <<npcAt, talk, interfaces>>
    BY <1>2 DEF GuestEnters, GuestWalks, Coming, Gone, Outside
  <2>2. guestAt' \in Whereabouts /\ Settled(talk, guestAt')
    BY <1>0, <2>1, WhereaboutsSettle
  <2>. QED BY <1>0, <2>1, <2>2 DEF NpcIInv
<1>3. ASSUME NEW p \in Guests, GuestLeaves(p) PROVE NpcIInv'
  <2>. DEFINE w == NpcWorld(talk, guestAt)
  <2>1. w \in NpcWorlds /\ w.talk = talk /\ w.at = guestAt
    BY <1>0, NpcWorldNow
  <2>2. Present(w, p) /\ guestAt' = [guestAt EXCEPT ![p] = -1] /\ UNCHANGED <<npcAt, interfaces>>
        /\ (talk' = NpcOnCreatureDisappear(w, p).talk \/ talk' = talk)
    BY <1>3 DEF GuestLeaves, Handle, Gone
  <2>. HIDE DEF w
  <2>3. Settled(talk', guestAt) /\ talk'.handler = talk.handler
    BY <1>0, <2>1, <2>2, DisappearSettles
  <2>4. guestAt' \in Whereabouts /\ Settled(talk', guestAt')
    BY <1>0, <2>2, <2>3, WhereaboutsSettle
  <2>. QED BY <1>0, <2>2, <2>3, <2>4 DEF NpcIInv
<1>4. ASSUME NEW p \in Guests, NEW msg, GuestSays(p, msg) PROVE NpcIInv'
  <2>. DEFINE w == NpcWorld(talk, guestAt)
  <2>1. w \in NpcWorlds /\ w.talk = talk /\ w.at = guestAt
    BY <1>0, NpcWorldNow
  <2>2. Present(w, p) /\ UNCHANGED <<npcAt, guestAt, interfaces>>
        /\ talk' = NpcOnCreatureSay(w, p, msg).talk
    BY <1>4 DEF GuestSays, Handle
  <2>. HIDE DEF w
  <2>3. Settled(talk', guestAt) /\ talk'.handler = talk.handler
    BY <1>0, <2>1, <2>2, SaySettles
  <2>. QED BY <1>0, <2>2, <2>3 DEF NpcIInv
<1>5. CASE NpcThinks
  <2>. DEFINE later == [talk EXCEPT !.idle  = IF talk.idle > IdleInterval THEN talk.idle ELSE talk.idle + 1,
                                    !.delay = IF talk.delay < 0 THEN talk.delay ELSE talk.delay - 1]
              w == NpcWorld(later, guestAt)
  <2>1. talk' = NpcOnThink(w).talk /\ UNCHANGED <<npcAt, guestAt, interfaces>>
    BY <1>5 DEF NpcThinks, Handle
  <2>2. later \in Talks /\ later.queue = talk.queue /\ later.focus = talk.focus
        /\ later.handler = talk.handler
    <3>1. talk.idle \in 0..IdleInterval + 1 /\ talk.delay \in -1..WalkDelay
      BY <1>0 DEF Talks
    <3>2. IdleInterval \in Nat /\ WalkDelay \in Nat
      BY NpcAssumption
    <3>3. (IF talk.idle > IdleInterval THEN talk.idle ELSE talk.idle + 1) \in 0..IdleInterval + 1
      BY <3>1, <3>2
    <3>4. (IF talk.delay < 0 THEN talk.delay ELSE talk.delay - 1) \in -1..WalkDelay
      BY <3>1, <3>2
    <3>. QED BY <1>0, <3>3, <3>4 DEF Talks
  <2>. HIDE DEF later
  <2>3. w \in NpcWorlds /\ w.talk = later /\ w.at = guestAt
    BY <2>2, NpcWorldNow
  <2>. HIDE DEF w
  <2>4. Seen(w.talk, w.at) /\ (w.talk.focus = "nobody" => w.talk.queue = <<>>)
    BY <1>0, <2>2, <2>3 DEF Settled, Seen
  <2>5. Settled(talk', guestAt) /\ talk'.handler = talk.handler
    BY <2>1, <2>2, <2>3, <2>4, ThinkSettles
  <2>. QED BY <1>0, <2>1, <2>5 DEF NpcIInv
<1>6. ASSUME NEW spot \in Street, NpcWanders(spot) PROVE NpcIInv'
  BY <1>0, <1>6 DEF NpcWanders, CanWalkTo, NpcIInv
<1>. QED BY <1>1, <1>2, <1>3, <1>4, <1>5, <1>6 DEF NpcNext

\* The inductive invariant says what is asked of conversations.
LEMMA NpcHolds == NpcIInv => NpcConsistent
<1>. SUFFICES ASSUME NpcIInv PROVE NpcConsistent
  OBVIOUS
<1>1. talk \in Talks /\ Settled(talk, guestAt)
  BY DEF NpcIInv, Settled
<1>2. NpcTypeOK
  BY <1>1 DEF NpcIInv, NpcTypeOK, Talks, Whereabouts, Outside, Coming, Gone, Nobody
<1>3. NobodyWaitsInVain /\ LateOnlyForTheLost
  BY <1>1 DEF NobodyWaitsInVain, LateOnlyForTheLost, Settled, IsIdle, Nobody, Gone
<1>4. HandlerIsLive
  BY DEF NpcIInv, HandlerIsLive
<1>. QED BY <1>2, <1>3, <1>4 DEF NpcConsistent

\* Nobody waits for an npc that talks to nobody, it is rid of silent partners,
\* and its script's handler is live: for any street, guests and intervals,
\* whoever comes, talks, leaves, and however often scripts are reloaded.
THEOREM NpcAlwaysConsistent == NpcSpec => []NpcConsistent
<1>1. NpcIInv /\ [NpcNext]_npcVars => NpcIInv'
  <2>. SUFFICES ASSUME NpcIInv, [NpcNext]_npcVars PROVE NpcIInv'
    OBVIOUS
  <2>1. CASE NpcNext
    BY <2>1, NpcStep
  <2>2. CASE UNCHANGED npcVars
    BY <2>2 DEF npcVars, NpcIInv, Settled, Seen, Whereabouts
  <2>. QED BY <2>1, <2>2
<1>. QED BY NpcStarts, <1>1, NpcHolds, PTL DEF NpcSpec

-----------------------------------------------------------------------------
(* The registries of scripted events.                                      *)

\* Types: the events made, the registry with its chains, the clock.
Rhythms == {"think", "timer"}
EventObjects ==
  [name : Names, type : Rhythms \cup {"login", "look", "plain"},
   state : {"live", "deleted", "leaked"}, due : Nat, turn : BOOLEAN]
EventWorlds ==
  [made : Seq(EventObjects), held : Seq(Nat),
   chains : [Rhythms -> [id : BOOLEAN, own : BOOLEAN, stray : Nat]]]
Dates == [of : Rhythms, now : Nat, last : [Names -> Nat], early : BOOLEAN]

\* The events that the registry holds.
HeldBy(w) == ToSet(w.held)

\* A timer falls on the same second of each day.
OnTheDay(t) == \E k \in Nat : t = k * Day

LengthOf(d) == IF d.of = "timer" THEN Day ELSE Interval

\* An event is not over; it is due a day or an interval after it last ran,
\* if it was not made in the second it is due.
DueWell(e, d) ==
  /\ e.type = "timer" => OnTheDay(e.due)
  /\ e.type = d.of => /\ e.due >= d.now
                      /\ e.turn \/ d.last[e.name] = 0 \/ e.due >= d.last[e.name] + LengthOf(d)

\* What is held is live, once, the only one found, and kept up by its chain.
HeldWell(w, s, d) ==
  /\ w \in EventWorlds /\ IsInjective(w.held)
  /\ \A i \in HeldBy(w) : i \in DOMAIN w.made /\ w.made[i].state = "live"
  /\ s \notin Appending =>
       \A i, j \in HeldBy(w) :
         w.made[i].name = w.made[j].name /\ (s \in Overwriting \/ w.made[i].type = w.made[j].type) => i = j
  /\ \A i \in HeldBy(w) : w.made[i].type \in Rhythms <=> s = "globalevents"
  /\ s = "globalevents" => \A i \in HeldBy(w) : w.chains[w.made[i].type].id /\ DueWell(w.made[i], d)

\* No live event is lost.
LiveHeld(w) == \A i \in DOMAIN w.made : w.made[i].state = "live" => i \in HeldBy(w)

\* A chain whose id is kept has an event pending; no load leaves more than one.
ChainWell(c, n) == (c.id => Pending(c) > 0) /\ (c.own => c.id) /\ Pending(c) <= n
\* While a file is loaded.
ChainAnew(c, n) == (c.id <=> c.own) /\ c.stray < n

\* The registry between two handlers, and while a file is loaded.
EventsWell(w, s, d, n) ==
  HeldWell(w, s, d) /\ LiveHeld(w) /\ \A k \in Rhythms : ChainWell(w.chains[k], n)
LoadWell(w, s, d, n) ==
  HeldWell(w, s, d) /\ LiveHeld(w) /\ \A k \in Rhythms : ChainAnew(w.chains[k], n)

\* An event last ran in the past, a timer on its second of the day.
DatesWell(s, d) ==
  /\ d \in Dates /\ ~d.early
  /\ s # "globalevents" => d.of = "think"
  /\ \A n \in Names : d.last[n] <= d.now /\ (d.of = "timer" => OnTheDay(d.last[n]))

\* Whoever logged in since the last load has events that are held.
PeopleWell(ps, h, n) ==
  /\ ps \in [Persons -> [online : BOOLEAN, since : Nat, list : Seq(Nat)]]
  /\ \A p \in Persons : /\ ps[p].since <= n
                        /\ ps[p].online /\ ps[p].since = n => ToSet(ps[p].list) \subseteq ToSet(h)

\* The inductive invariant.
RegistryIInv ==
  /\ system \in Systems /\ loads \in [ok : BOOLEAN, n : 0..MaxLoads]
  /\ DatesWell(system, dates)
  /\ EventsWell(EventsWorld, system, dates, loads.n)
  /\ PeopleWell(people, held, loads.n)

\* What is chosen of the first places of a list.
IsChosen(s, S, m, f) ==
  f = [n \in 0..m |-> IF n = 0 THEN <<>>
                      ELSE IF s[n] \in S THEN Append(f[n - 1], s[n]) ELSE f[n - 1]]

\* There is such a function: one step after the other.
LEMMA ChosenExists ==
  ASSUME NEW s, NEW S, Len(s) \in Nat
  PROVE  \E f : IsChosen(s, S, Len(s), f)
<1>. DEFINE B == {m \in Nat : ~\E f : IsChosen(s, S, m, f)}
<1>1. B = {}
  <2>. SUFFICES ASSUME B # {} PROVE FALSE
    OBVIOUS
  <2>0. B \subseteq Nat
    OBVIOUS
  <2>. HIDE DEF B
  <2>1. PICK m \in B : \A j \in B : m <= j
    BY <2>0, LeastOne
  <2>2. m \in Nat /\ ~\E f : IsChosen(s, S, m, f)
    BY DEF B
  <2>3. CASE m = 0
    <3>. DEFINE f == [n \in 0..0 |-> <<>>]
    <3>1. IsChosen(s, S, 0, f)
      BY DEF IsChosen
    <3>. QED BY <2>2, <2>3, <3>1
  <2>4. CASE m # 0
    <3>1. m - 1 \in Nat /\ m - 1 \notin B
      BY <2>1, <2>2, <2>4
    <3>2. PICK g : IsChosen(s, S, m - 1, g)
      BY <3>1 DEF B
    <3>. DEFINE f == [n \in 0..m |-> IF n = 0 THEN <<>>
                       ELSE IF s[n] \in S THEN Append(g[n - 1], s[n]) ELSE g[n - 1]]
    <3>3. \A n \in 0..(m - 1) : f[n] = g[n]
      <4>. SUFFICES ASSUME NEW n \in 0..(m - 1) PROVE f[n] = g[n]
        OBVIOUS
      <4>1. n \in 0..m
        BY <2>2
      <4>. QED BY <3>2, <4>1 DEF IsChosen
    <3>4. \A n \in 0..m : n # 0 => n - 1 \in 0..(m - 1)
      BY <2>2
    <3>5. \A n \in 0..m : n # 0 => f[n - 1] = g[n - 1]
      BY <3>3, <3>4
    <3>6. IsChosen(s, S, m, f)
      BY <3>5 DEF IsChosen
    <3>. QED BY <2>2, <3>6
  <2>. QED BY <2>3, <2>4
<1>2. \E f : IsChosen(s, S, Len(s), f)
  BY <1>1
<1>. QED BY <1>2

\* What is chosen of a list: its ids in the set, each as often as before.
LEMMA ChosenOnes ==
  ASSUME NEW X, NEW s \in Seq(X), NEW S, NEW v, v = Chosen(s, S)
  PROVE  /\ v \in Seq(X) /\ ToSet(v) = ToSet(s) \cap S
         /\ IsInjective(s) => IsInjective(v)
<1>. DEFINE kept == CHOOSE f : IsChosen(s, S, Len(s), f)
<1>0. Len(s) \in Nat /\ DOMAIN s = 1..Len(s) /\ \A n \in 1..Len(s) : s[n] \in X
  OBVIOUS
<1>1. IsChosen(s, S, Len(s), kept)
  <2>1. \E f : IsChosen(s, S, Len(s), f)
    BY <1>0, ChosenExists
  <2>. QED BY <2>1
<1>2. v = kept[Len(s)]
  BY DEF Chosen, IsChosen
<1>. HIDE DEF kept
<1>3. kept[0] = <<>>
  BY <1>0, <1>1 DEF IsChosen
<1>4. \A n \in 1..Len(s) : kept[n] = IF s[n] \in S THEN Append(kept[n - 1], s[n]) ELSE kept[n - 1]
  <2>. SUFFICES ASSUME NEW n \in 1..Len(s)
                PROVE  kept[n] = IF s[n] \in S THEN Append(kept[n - 1], s[n]) ELSE kept[n - 1]
    OBVIOUS
  <2>1. n \in 0..Len(s) /\ n # 0
    BY <1>0
  <2>. QED BY <1>1, <2>1 DEF IsChosen
<1>. DEFINE Sifted(r, n) == /\ r \in Seq(X)
                            /\ \A x : (\E k \in DOMAIN r : r[k] = x) <=> (x \in S /\ \E k \in 1..n : s[k] = x)
                            /\ IsInjective(s) => IsInjective(r)
            T == {n \in 0..Len(s) : Sifted(kept[n], n)}
<1>5. 0 \in T
  <2>1. <<>> \in Seq(X) /\ DOMAIN <<>> = {} /\ 1..0 = {}
    OBVIOUS
  <2>2. Sifted(<<>>, 0)
    BY <2>1 DEF IsInjective
  <2>. HIDE DEF Sifted
  <2>3. 0 \in 0..Len(s)
    BY <1>0
  <2>. QED BY <1>3, <2>2, <2>3
<1>6. ASSUME NEW n \in Nat, n \in T, n < Len(s) PROVE n + 1 \in T
  <2>. DEFINE r == kept[n]
              t == kept[n + 1]
  <2>1. n + 1 \in 1..Len(s) /\ (n + 1) - 1 = n /\ s[n + 1] \in X
    BY <1>0, <1>6
  <2>2. t = IF s[n + 1] \in S THEN Append(r, s[n + 1]) ELSE r
    BY <1>4, <2>1
  <2>3. Sifted(r, n)
    BY <1>6
  <2>. HIDE DEF r, t
  <2>4. \A k \in 1..(n + 1) : k \in 1..n \/ k = n + 1
    BY <1>6
  <2>5. \A k \in 1..n : k \in 1..(n + 1) /\ k # n + 1
    BY <1>6
  <2>6. n + 1 \in 1..(n + 1)
    BY <1>6
  <2>7. Sifted(t, n + 1)
    <3>1. CASE s[n + 1] \notin S
      BY <2>2, <2>3, <2>4, <2>5, <3>1
    <3>2. CASE s[n + 1] \in S
      <4>1. t = Append(r, s[n + 1])
        BY <2>2, <3>2
      <4>2. r \in Seq(X) /\ Len(r) \in Nat /\ DOMAIN r = 1..Len(r)
        BY <2>3
      <4>3. t \in Seq(X) /\ DOMAIN t = 1..(Len(r) + 1) /\ t[Len(r) + 1] = s[n + 1]
            /\ \A k \in 1..Len(r) : t[k] = r[k]
        BY <2>1, <4>1, <4>2
      <4>4. \A k \in DOMAIN t : k \in DOMAIN r \/ k = Len(r) + 1
        BY <4>2, <4>3
      <4>5. \A k \in DOMAIN r : k \in DOMAIN t /\ k # Len(r) + 1
        BY <4>2, <4>3
      <4>6. Len(r) + 1 \in DOMAIN t
        BY <4>2, <4>3
      <4>7. \A x : (\E k \in DOMAIN t : t[k] = x) <=> (x \in S /\ \E k \in 1..(n + 1) : s[k] = x)
        <5>. SUFFICES ASSUME NEW x
                      PROVE  (\E k \in DOMAIN t : t[k] = x) <=> (x \in S /\ \E k \in 1..(n + 1) : s[k] = x)
          OBVIOUS
        <5>1. (\E k \in DOMAIN t : t[k] = x) <=> (\E k \in DOMAIN r : r[k] = x) \/ x = s[n + 1]
          BY <4>2, <4>3, <4>4, <4>5, <4>6
        <5>2. (\E k \in 1..(n + 1) : s[k] = x) <=> (\E k \in 1..n : s[k] = x) \/ x = s[n + 1]
          BY <2>4, <2>5, <2>6
        <5>. QED BY <2>3, <3>2, <5>1, <5>2
      <4>8. IsInjective(s) => IsInjective(t)
        <5>. SUFFICES ASSUME IsInjective(s), NEW a \in DOMAIN t, NEW b \in DOMAIN t, t[a] = t[b]
                      PROVE  a = b
          BY DEF IsInjective
        <5>1. \A k \in DOMAIN r : r[k] # s[n + 1]
          <6>. SUFFICES ASSUME NEW k \in DOMAIN r, r[k] = s[n + 1] PROVE FALSE
            OBVIOUS
          <6>1. PICK m \in 1..n : s[m] = s[n + 1]
            BY <2>3
          <6>2. m \in DOMAIN s /\ n + 1 \in DOMAIN s /\ m # n + 1
            BY <1>0, <2>1, <2>5
          <6>. QED BY <6>1, <6>2 DEF IsInjective
        <5>2. IsInjective(r)
          BY <2>3
        <5>. QED BY <4>2, <4>3, <4>4, <5>1, <5>2 DEF IsInjective
      <4>. QED BY <4>3, <4>7, <4>8
    <3>. QED BY <3>1, <3>2
  <2>. HIDE DEF Sifted
  <2>. QED BY <2>1, <2>7 DEF t
<1>. HIDE DEF T
<1>7. Len(s) \in T
  <2>1. \A n \in 0..Len(s) : n \in T
    BY <1>0, <1>5, <1>6, HandedOn
  <2>. QED BY <1>0, <2>1
<1>8. Sifted(v, Len(s))
  BY <1>2, <1>7 DEF T
<1>9. ToSet(v) = ToSet(s) \cap S
  BY <1>0, <1>8 DEF ToSet
<1>. QED BY <1>8, <1>9


-----------------------------------------------------------------------------
(* Hours of a day.                                                         *)

\* What is left of a time when its days are taken off.
LEMMA DayDivides ==
  ASSUME NEW t \in Nat
  PROVE  /\ t % Day \in Nat /\ t % Day < Day
         /\ \E q \in Nat : t = q * Day + (t % Day)
<1>1. Day \in Nat /\ Day > 0
  BY RegistryAssumption
<1>2. t % Day \in 0..(Day - 1)
  BY <1>1, Z3
<1>3. t \div Day \in Nat /\ t = (t \div Day) * Day + (t % Day)
  BY <1>1, Z3
<1>. QED BY <1>1, <1>2, <1>3

\* A day that is over is one later at least.
LEMMA DaysApart ==
  ASSUME NEW s \in Nat, NEW t \in Nat, OnTheDay(s), OnTheDay(t), s < t
  PROVE  s + Day <= t
<1>0. Day \in Nat /\ Day > 0
  BY RegistryAssumption
<1>1. PICK k \in Nat : s = k * Day
  BY DEF OnTheDay
<1>2. PICK m \in Nat : t = m * Day
  BY DEF OnTheDay
<1>3. ~(m <= k)
  <2>. SUFFICES ASSUME m <= k PROVE FALSE
    OBVIOUS
  <2>1. PICK j \in Nat : k = m + j
    <3>1. k - m \in Nat /\ k = m + (k - m)
      OBVIOUS
    <3>. QED BY <3>1
  <2>2. k * Day = m * Day + j * Day /\ j * Day \in Nat
    BY <1>0, <2>1
  <2>. QED BY <1>1, <1>2, <2>2
<1>4. PICK j \in Nat : m = k + 1 + j
  <2>1. m - k - 1 \in Nat /\ m = k + 1 + (m - k - 1)
    BY <1>3
  <2>. QED BY <2>1
<1>5. m * Day = k * Day + Day + j * Day /\ j * Day \in Nat /\ k * Day \in Nat
  BY <1>0, <1>4
<1>. QED BY <1>0, <1>1, <1>2, <1>5

\* A timer made anew is due when a day begins: now, or later than it ever was.
LEMMA NextDayIs ==
  ASSUME dates.now \in Nat
  PROVE  /\ NextDay \in Nat /\ NextDay >= dates.now /\ OnTheDay(NextDay)
         /\ \A t \in Nat : OnTheDay(t) /\ t <= dates.now /\ NextDay # dates.now => NextDay >= t + Day
<1>. DEFINE now == dates.now
            over == now % Day
            next == now + (IF over = 0 THEN 0 ELSE Day - over)
<1>0. Day \in Nat /\ Day > 0 /\ now \in Nat
  BY RegistryAssumption
<1>1. over \in Nat /\ over < Day
  BY DayDivides
<1>2. PICK q \in Nat : now = q * Day + over
  BY DayDivides
<1>3. NextDay = next
  BY DEF NextDay
<1>. HIDE DEF over, now
<1>4. next \in Nat /\ next >= now
  BY <1>0, <1>1
<1>5. OnTheDay(next)
  <2>1. CASE over = 0
    <3>1. next = q * Day
      BY <1>0, <1>2, <2>1
    <3>. QED BY <3>1 DEF OnTheDay
  <2>2. CASE over # 0
    <3>1. (q + 1) * Day = q * Day + Day /\ q * Day \in Nat
      BY <1>0
    <3>2. next = (q + 1) * Day /\ q + 1 \in Nat
      BY <1>0, <1>1, <1>2, <2>2, <3>1
    <3>. QED BY <3>2 DEF OnTheDay
  <2>. QED BY <2>1, <2>2
<1>6. ASSUME NEW t \in Nat, OnTheDay(t), t <= now, next # now PROVE next >= t + Day
  <2>1. t < next
    BY <1>0, <1>4, <1>6
  <2>. HIDE DEF next
  <2>2. t + Day <= next
    BY <1>4, <1>5, <1>6, <2>1, DaysApart
  <2>. QED BY <1>0, <1>4, <2>2
<1>. QED BY <1>3, <1>4, <1>5, <1>6 DEF now

-----------------------------------------------------------------------------
(* The steps of a load.                                                    *)

Same(e, f) == e.name = f.name /\ e.type = f.type /\ e.due = f.due /\ e.turn = f.turn

\* What is marked changes its state alone.
LEMMA MarkAsIs ==
  ASSUME NEW w \in EventWorlds, NEW ids, NEW state \in {"live", "deleted", "leaked"},
         NEW v, v = MarkAs(w, ids, state)
  PROVE  /\ v \in EventWorlds /\ v.held = w.held /\ v.chains = w.chains
         /\ DOMAIN v.made = DOMAIN w.made /\ Len(v.made) = Len(w.made)
         /\ \A i \in DOMAIN w.made : Same(v.made[i], w.made[i])
         /\ \A i \in DOMAIN w.made : v.made[i].state = IF i \in ids THEN state ELSE w.made[i].state
<1>. DEFINE new == [i \in DOMAIN w.made |-> IF i \in ids THEN [w.made[i] EXCEPT !.state = state]
                                                         ELSE w.made[i]]
<1>1. w.made \in Seq(EventObjects) /\ DOMAIN w.made = 1..Len(w.made) /\ Len(w.made) \in Nat
      /\ \A i \in DOMAIN w.made : w.made[i] \in EventObjects
  BY DEF EventWorlds
<1>2. ASSUME NEW e \in EventObjects, NEW f, f = [e EXCEPT !.state = state]
      PROVE  f \in EventObjects /\ Same(f, e) /\ f.state = state
  BY <1>2 DEF EventObjects, Same
<1>3. \A i \in DOMAIN w.made : new[i] \in EventObjects /\ Same(new[i], w.made[i])
                               /\ new[i].state = IF i \in ids THEN state ELSE w.made[i].state
  <2>. SUFFICES ASSUME NEW i \in DOMAIN w.made
                PROVE  new[i] \in EventObjects /\ Same(new[i], w.made[i])
                       /\ new[i].state = IF i \in ids THEN state ELSE w.made[i].state
    OBVIOUS
  <2>1. CASE i \in ids
    <3>1. new[i] = [w.made[i] EXCEPT !.state = state]
      BY <2>1
    <3>. HIDE DEF new
    <3>. QED BY <1>1, <1>2, <2>1, <3>1
  <2>2. CASE i \notin ids
    <3>1. new[i] = w.made[i]
      BY <2>2
    <3>. HIDE DEF new
    <3>. QED BY <1>1, <2>2, <3>1 DEF Same
  <2>. QED BY <2>1, <2>2
<1>4. DOMAIN new = 1..Len(w.made) /\ new = [i \in 1..Len(w.made) |-> new[i]]
  BY <1>1
<1>5. v = [w EXCEPT !.made = new]
  BY DEF MarkAs
<1>. HIDE DEF new
<1>6. new \in Seq(EventObjects) /\ Len(new) = Len(w.made)
  <2>1. new \in [1..Len(w.made) -> EventObjects]
    BY <1>1, <1>3, <1>4
  <2>2. new \in Seq(EventObjects)
    BY <1>1, <2>1, SeqDef
  <2>. QED BY <1>1, <1>4, <2>2
<1>7. v \in EventWorlds /\ v.held = w.held /\ v.chains = w.chains /\ v.made = new
  BY <1>5, <1>6 DEF EventWorlds
<1>. QED BY <1>1, <1>3, <1>4, <1>6, <1>7

\* An object as its constructor and configureEvent leave it.
LEMMA NewEventIs ==
  ASSUME NEW e \in Entries, DatesWell(system, dates), system \in Systems, NEW x, x = NewEvent(e)
  PROVE  /\ x \in EventObjects /\ x.state = "live" /\ DueWell(x, dates)
         /\ x.type \in Rhythms <=> system = "globalevents"
<1>0. Interval \in Nat /\ Interval > 0 /\ Names # {}
  BY RegistryAssumption
<1>1. dates \in Dates /\ dates.now \in Nat /\ dates.last \in [Names -> Nat] /\ dates.of \in Rhythms
      /\ \A n \in Names : dates.last[n] <= dates.now /\ (dates.of = "timer" => OnTheDay(dates.last[n]))
  BY DEF DatesWell, Dates
<1>2. e.name \in Names /\ e.type \in Types
  <2>1. (CHOOSE n \in Names : TRUE) \in Names
    BY <1>0
  <2>2. (CHOOSE t \in Types : TRUE) \in Types
    BY DEF Types
  <2>3. ASSUME NEW n, NEW t, n \in Names, t \in Types, e = [name |-> n, type |-> t, good |-> FALSE]
        PROVE  e.name \in Names /\ e.type \in Types
    BY <2>3
  <2>4. CASE e \in [name : Names, type : Types, good : {TRUE}]
    BY <2>4
  <2>. QED BY <2>1, <2>2, <2>3, <2>4, Zenon DEF Entries
<1>3. e.type \in Rhythms \cup {"login", "look", "plain"} /\ (e.type \in Rhythms <=> system = "globalevents")
  BY <1>2 DEF Types, Rhythms, Systems, Overwriting, Appending
<1>4. /\ NextDay \in Nat /\ NextDay >= dates.now /\ OnTheDay(NextDay)
      /\ \A t \in Nat : OnTheDay(t) /\ t <= dates.now /\ NextDay # dates.now => NextDay >= t + Day
  BY <1>1, NextDayIs
<1>. DEFINE due == IF e.type = "timer" THEN NextDay ELSE dates.now + Interval
            turn == e.type = "timer" /\ NextDay = dates.now
<1>5. due \in Nat /\ turn \in BOOLEAN
  BY <1>0, <1>1, <1>4
<1>6. x = [name |-> e.name, type |-> e.type, state |-> "live", due |-> due, turn |-> turn]
  BY DEF NewEvent
<1>7. e.type = "timer" => OnTheDay(due)
  BY <1>4
<1>8. ASSUME e.type = dates.of
      PROVE  due >= dates.now /\ (turn \/ dates.last[e.name] = 0 \/ due >= dates.last[e.name] + LengthOf(dates))
  <2>1. dates.last[e.name] \in Nat /\ dates.last[e.name] <= dates.now
    BY <1>1, <1>2
  <2>2. CASE e.type = "timer"
    <3>1. due = NextDay /\ turn = (NextDay = dates.now) /\ LengthOf(dates) = Day
          /\ OnTheDay(dates.last[e.name])
      BY <1>1, <1>2, <1>8, <2>2 DEF LengthOf
    <3>. HIDE DEF due, turn
    <3>. QED BY <1>4, <2>1, <3>1
  <2>3. CASE e.type # "timer"
    <3>1. due = dates.now + Interval /\ LengthOf(dates) = Interval
      BY <1>8, <2>3 DEF LengthOf
    <3>. HIDE DEF due, turn
    <3>. QED BY <1>0, <1>1, <2>1, <3>1
  <2>. QED BY <2>2, <2>3
<1>. HIDE DEF due, turn
<1>9. x \in EventObjects /\ x.state = "live" /\ x.type = e.type /\ x.due = due /\ x.turn = turn /\ x.name = e.name
  BY <1>2, <1>3, <1>5, <1>6 DEF EventObjects
<1>. QED BY <1>3, <1>7, <1>8, <1>9 DEF DueWell

MadeAnew(w, x) == [w EXCEPT !.made = Append(@, x)]

\* A new object takes the next number.
LEMMA MadeAnewIs ==
  ASSUME NEW w \in EventWorlds, NEW x \in EventObjects, NEW v, v = MadeAnew(w, x),
         NEW i, i = Len(v.made)
  PROVE  /\ v \in EventWorlds /\ v.held = w.held /\ v.chains = w.chains
         /\ i \in Nat /\ i \in DOMAIN v.made /\ i \notin DOMAIN w.made /\ v.made[i] = x
         /\ \A j \in DOMAIN w.made : j \in DOMAIN v.made /\ v.made[j] = w.made[j]
         /\ \A j \in DOMAIN v.made : j \in DOMAIN w.made \/ j = i
<1>. DEFINE new == Append(w.made, x)
<1>1. w.made \in Seq(EventObjects) /\ DOMAIN w.made = 1..Len(w.made) /\ Len(w.made) \in Nat
  BY DEF EventWorlds
<1>2. new \in Seq(EventObjects) /\ Len(new) = Len(w.made) + 1 /\ DOMAIN new = 1..(Len(w.made) + 1)
      /\ new[Len(w.made) + 1] = x /\ \A j \in 1..Len(w.made) : new[j] = w.made[j]
  BY <1>1
<1>3. v = [w EXCEPT !.made = new]
  BY DEF MadeAnew
<1>. HIDE DEF new
<1>4. v \in EventWorlds /\ v.held = w.held /\ v.chains = w.chains /\ v.made = new
  BY <1>2, <1>3 DEF EventWorlds
<1>5. i = Len(w.made) + 1
  BY <1>2, <1>4
<1>. QED BY <1>1, <1>2, <1>4, <1>5

\* The chains of v go on, what is in H is in u what it was in v, and an event
\* that comes hides none.
GoesOn(v, u) == \A k \in Rhythms : v.chains[k].id => u.chains[k].id
Stay(H, v, u) == \A j \in H : j \in DOMAIN u.made /\ Same(u.made[j], v.made[j]) /\ u.made[j].state = "live"
Apart(h, v, i, s) ==
  s \notin Appending =>
    \A j \in ToSet(h) : ~(v.made[j].name = v.made[i].name
                          /\ (s \in Overwriting \/ v.made[j].type = v.made[i].type))
Joins(u, h, i) == u.held = Append(h, i)
Wanted(v, u, i, s, d) ==
  /\ v.made[i].type \in Rhythms <=> s = "globalevents"
  /\ s = "globalevents" => u.chains[v.made[i].type].id /\ DueWell(v.made[i], d)

\* What is held stays well as long as its objects do.
LEMMA HeldStays ==
  ASSUME NEW s, NEW d, NEW w, HeldWell(w, s, d), NEW v \in EventWorlds, v.held = w.held,
         GoesOn(w, v), Stay(HeldBy(w), w, v)
  PROVE  HeldWell(v, s, d) /\ HeldBy(v) = HeldBy(w)
<1>0. /\ \A k \in Rhythms : w.chains[k].id => v.chains[k].id
      /\ \A j \in HeldBy(w) : j \in DOMAIN v.made /\ Same(v.made[j], w.made[j])
                              /\ v.made[j].state = "live"
  BY DEF GoesOn, Stay
<1>1. HeldBy(v) = HeldBy(w)
  BY DEF HeldBy
<1>2. \A j \in HeldBy(w) : v.made[j].name = w.made[j].name /\ v.made[j].type = w.made[j].type
                           /\ (DueWell(w.made[j], d) => DueWell(v.made[j], d))
  BY <1>0 DEF Same, DueWell
<1>3. IsInjective(v.held)
  BY DEF HeldWell
<1>4. s \notin Appending =>
       \A i, j \in HeldBy(w) :
         v.made[i].name = v.made[j].name /\ (s \in Overwriting \/ v.made[i].type = v.made[j].type) => i = j
  BY <1>2 DEF HeldWell
<1>5. \A i \in HeldBy(w) : v.made[i].type \in Rhythms <=> s = "globalevents"
  BY <1>2 DEF HeldWell
<1>6. s = "globalevents" => \A i \in HeldBy(w) : v.chains[v.made[i].type].id /\ DueWell(v.made[i], d)
  BY <1>0, <1>2, <1>5 DEF HeldWell
<1>. QED BY <1>0, <1>1, <1>3, <1>4, <1>5, <1>6 DEF HeldWell

\* An event more is held.
LEMMA HeldMore ==
  ASSUME NEW s, NEW d, NEW v, HeldWell(v, s, d), NEW u \in EventWorlds,
         NEW h \in Seq(Nat), IsInjective(h), ToSet(h) \subseteq HeldBy(v),
         NEW i \in Nat, i \notin HeldBy(v), Joins(u, h, i), NEW H, H = ToSet(h) \cup {i},
         GoesOn(v, u), Stay(H, v, u), Apart(h, v, i, s), Wanted(v, u, i, s, d)
  PROVE  HeldWell(u, s, d) /\ HeldBy(u) = H
<1>. USE DEF Joins, GoesOn, Stay, Apart, Wanted
<1>. DEFINE g == Append(h, i)
<1>0. Len(h) \in Nat /\ DOMAIN h = 1..Len(h) /\ g \in Seq(Nat) /\ DOMAIN g = 1..(Len(h) + 1)
      /\ g[Len(h) + 1] = i /\ \A k \in 1..Len(h) : g[k] = h[k]
  OBVIOUS
<1>1. \A k \in DOMAIN g : k \in DOMAIN h \/ k = Len(h) + 1
  BY <1>0
<1>2. \A k \in DOMAIN h : k \in DOMAIN g
  BY <1>0
<1>3. Len(h) + 1 \in DOMAIN g
  BY <1>0
<1>4. u.held = g
  OBVIOUS
<1>. HIDE DEF g
<1>5. HeldBy(u) = ToSet(h) \cup {i}
  BY <1>0, <1>1, <1>2, <1>3, <1>4 DEF HeldBy, ToSet
<1>6. IsInjective(u.held)
  <2>1. \A k \in DOMAIN h : h[k] # i
    BY DEF ToSet
  <2>2. ASSUME NEW a \in DOMAIN g, NEW b \in DOMAIN g, g[a] = g[b] PROVE a = b
    BY <1>0, <1>1, <2>1, <2>2, SMTT(30) DEF IsInjective
  <2>. QED BY <1>4, <2>2 DEF IsInjective
<1>7. \A j \in H : u.made[j].name = v.made[j].name /\ u.made[j].type = v.made[j].type
                   /\ (DueWell(v.made[j], d) => DueWell(u.made[j], d))
  BY DEF Same, DueWell
<1>8. s \notin Appending =>
       \A a, b \in H :
         u.made[a].name = u.made[b].name /\ (s \in Overwriting \/ u.made[a].type = u.made[b].type) => a = b
  <2>. SUFFICES ASSUME s \notin Appending, NEW a \in H, NEW b \in H,
                       v.made[a].name = v.made[b].name /\ (s \in Overwriting \/ v.made[a].type = v.made[b].type)
                PROVE  a = b
    BY <1>7
  <2>1. CASE a \in ToSet(h) /\ b \in ToSet(h)
    BY <2>1 DEF HeldWell
  <2>2. CASE a = i \/ b = i
    BY <2>2
  <2>. QED BY <2>1, <2>2
<1>9. \A j \in H : u.made[j].type \in Rhythms <=> s = "globalevents"
  BY <1>7 DEF HeldWell
<1>10. s = "globalevents" => \A j \in H : u.chains[u.made[j].type].id /\ DueWell(u.made[j], d)
  <2>. SUFFICES ASSUME s = "globalevents", NEW j \in H
                PROVE  u.chains[u.made[j].type].id /\ DueWell(u.made[j], d)
    OBVIOUS
  <2>1. CASE j \in ToSet(h)
    BY <1>7, <1>9, <2>1 DEF HeldWell
  <2>2. CASE j = i
    BY <1>7, <2>2
  <2>. QED BY <2>1, <2>2
<1>11. \A j \in H : j \in DOMAIN u.made /\ u.made[j].state = "live"
  OBVIOUS
<1>12. HeldBy(u) = H
  BY <1>5
<1>. QED BY <1>5, <1>6, <1>8, <1>9, <1>10, <1>11, <1>12 DEF HeldWell

\* The newest object is all but held.
Entered(v, i, s, d, n) ==
  /\ HeldWell(v, s, d) /\ \A k \in Rhythms : ChainAnew(v.chains[k], n)
  /\ i \in Nat /\ i \in DOMAIN v.made /\ i \notin HeldBy(v) /\ v.made[i].state = "live"
  /\ v.made[i].type \in Rhythms <=> s = "globalevents"
  /\ DueWell(v.made[i], d)
  /\ \A j \in DOMAIN v.made : v.made[j].state = "live" => j \in HeldBy(v) \/ j = i

\* So it is when it has been made.
LEMMA ItEnters ==
  ASSUME NEW s, NEW d, NEW n, NEW w, LoadWell(w, s, d, n), NEW x \in EventObjects,
         x.state = "live", x.type \in Rhythms <=> s = "globalevents", DueWell(x, d),
         NEW v, v = MadeAnew(w, x), NEW i, i = Len(v.made)
  PROVE  Entered(v, i, s, d, n)
<1>1. /\ HeldWell(w, s, d) /\ w \in EventWorlds /\ LiveHeld(w)
      /\ \A k \in Rhythms : ChainAnew(w.chains[k], n)
      /\ \A j \in HeldBy(w) : j \in DOMAIN w.made /\ w.made[j].state = "live"
  BY DEF LoadWell, HeldWell
<1>2. /\ v \in EventWorlds /\ v.held = w.held /\ v.chains = w.chains
      /\ i \in Nat /\ i \in DOMAIN v.made /\ i \notin DOMAIN w.made /\ v.made[i] = x
      /\ \A j \in DOMAIN w.made : j \in DOMAIN v.made /\ v.made[j] = w.made[j]
      /\ \A j \in DOMAIN v.made : j \in DOMAIN w.made \/ j = i
  BY <1>1, MadeAnewIs
<1>3. Stay(HeldBy(w), w, v) /\ GoesOn(w, v)
  BY <1>1, <1>2 DEF Same, Stay, GoesOn
<1>4. HeldWell(v, s, d) /\ HeldBy(v) = HeldBy(w)
  BY <1>1, <1>2, <1>3, HeldStays
<1>. QED BY <1>1, <1>2, <1>4 DEF Entered, LiveHeld

\* It is refused.
LEMMA RefusedWell ==
  ASSUME NEW s, NEW d, NEW n, NEW v, NEW i, Entered(v, i, s, d, n),
         NEW u, u = MarkAs(v, {i}, "deleted")
  PROVE  LoadWell(u, s, d, n)
<1>1. HeldWell(v, s, d) /\ v \in EventWorlds /\ i \notin HeldBy(v)
      /\ \A j \in HeldBy(v) : j \in DOMAIN v.made /\ v.made[j].state = "live"
  BY DEF Entered, HeldWell
<1>2. /\ u \in EventWorlds /\ u.held = v.held /\ u.chains = v.chains
      /\ DOMAIN u.made = DOMAIN v.made
      /\ \A j \in DOMAIN v.made : Same(u.made[j], v.made[j])
      /\ \A j \in DOMAIN v.made : u.made[j].state = IF j \in {i} THEN "deleted" ELSE v.made[j].state
  BY <1>1, MarkAsIs
<1>3. Stay(HeldBy(v), v, u) /\ GoesOn(v, u)
  BY <1>1, <1>2 DEF Stay, GoesOn
<1>4. HeldWell(u, s, d) /\ HeldBy(u) = HeldBy(v)
  BY <1>1, <1>2, <1>3, HeldStays
<1>. QED BY <1>2, <1>4 DEF LoadWell, LiveHeld, Entered

ChainSets == [Rhythms -> [id : BOOLEAN, own : BOOLEAN, stray : Nat]]

\* Chains that go on, the one of the newest object among them.
Chained(v, c, i, s, n) ==
  /\ c \in ChainSets /\ \A k \in Rhythms : (v.chains[k].id => c[k].id) /\ ChainAnew(c[k], n)
  /\ s = "globalevents" => c[v.made[i].type].id
Joined(v, i, c) == [v EXCEPT !.held = Append(@, i), !.chains = c]

\* It is held beside the others.
LEMMA AppendedWell ==
  ASSUME NEW s, NEW d, NEW n, NEW v, NEW i, Entered(v, i, s, d, n),
         NEW c, Chained(v, c, i, s, n), Apart(v.held, v, i, s), NEW u, u = Joined(v, i, c)
  PROVE  LoadWell(u, s, d, n)
<1>0. HeldWell(v, s, d) /\ v \in EventWorlds /\ v.held \in Seq(Nat) /\ v.chains \in [Rhythms -> [id : BOOLEAN, own : BOOLEAN, stray : Nat]]
      /\ v.made \in Seq(EventObjects)
      /\ IsInjective(v.held) /\ i \notin HeldBy(v) /\ i \in Nat /\ i \in DOMAIN v.made
      /\ \A j \in HeldBy(v) : j \in DOMAIN v.made /\ v.made[j].state = "live"
  BY DEF Entered, HeldWell, EventWorlds
<1>a. c \in [Rhythms -> [id : BOOLEAN, own : BOOLEAN, stray : Nat]]
       /\ (\A k \in Rhythms : (v.chains[k].id => c[k].id) /\ ChainAnew(c[k], n))
       /\ (s = "globalevents" => c[v.made[i].type].id)
  BY DEF Chained, ChainSets
<1>. DEFINE h == v.held
            g == Append(h, i)
<1>1. g \in Seq(Nat)
  BY <1>0
<1>2. u = [v EXCEPT !.held = g, !.chains = c]
  BY DEF Joined
<1>. HIDE DEF g
<1>3. u \in EventWorlds /\ u.held = g /\ u.chains = c /\ u.made = v.made
  BY <1>0, <1>a, <1>1, <1>2 DEF EventWorlds
<1>. DEFINE H == ToSet(h) \cup {i}
<1>4. Stay(H, v, u)
  BY <1>0, <1>3 DEF Stay, Same, HeldBy, Entered
<1>5. ToSet(h) = HeldBy(v)
  BY DEF HeldBy
<1>6. Wanted(v, u, i, s, d)
  BY <1>a, <1>3 DEF Entered, Wanted
<1>7. GoesOn(v, u) /\ Apart(h, v, i, s)
  BY <1>a, <1>3 DEF GoesOn
<1>8. Joins(u, h, i)
  BY <1>3 DEF g, Joins
<1>. HIDE DEF h
<1>9. h \in Seq(Nat) /\ IsInjective(h)
  BY <1>0 DEF h
<1>10. H = ToSet(h) \cup {i} /\ ToSet(h) \subseteq HeldBy(v)
  BY <1>5
<1>. HIDE DEF H
<1>11. HeldWell(u, s, d) /\ HeldBy(u) = H
  <2>1. u \in EventWorlds
    BY <1>3
  <2>2. HeldWell(v, s, d) /\ i \in Nat /\ i \notin HeldBy(v)
    BY <1>0
  <2>. QED BY <1>4, <1>6, <1>7, <1>8, <1>9, <1>10, <2>1, <2>2, HeldMore
<1>12. HeldWell(u, s, d) /\ HeldBy(u) = HeldBy(v) \cup {i}
  BY <1>5, <1>10, <1>11
<1>. QED BY <1>a, <1>3, <1>12 DEF LoadWell, LiveHeld, Entered

\* Its name is taken from another.
LEMMA OverwrittenWell ==
  ASSUME NEW s \in Overwriting, NEW d, NEW n, NEW v, NEW i, Entered(v, i, s, d, n),
         NEW u, u = Overwrite(v, i)
  PROVE  LoadWell(u, s, d, n)
<1>. DEFINE old == {j \in ToSet(v.held) : v.made[j].name = v.made[i].name}
            m == MarkAs(v, old, "leaked")
            h == Chosen(v.held, ToSet(v.held) \ old)
            g == Append(h, i)
<1>0. HeldWell(v, s, d) /\ v \in EventWorlds /\ v.held \in Seq(Nat)
      /\ IsInjective(v.held) /\ i \notin HeldBy(v) /\ i \in Nat /\ i \in DOMAIN v.made
      /\ v.made[i].state = "live"
      /\ \A j \in HeldBy(v) : j \in DOMAIN v.made /\ v.made[j].state = "live"
  BY DEF Entered, HeldWell, EventWorlds
<1>1. h \in Seq(Nat) /\ ToSet(h) = ToSet(v.held) \cap (ToSet(v.held) \ old)
      /\ (IsInjective(v.held) => IsInjective(h))
  BY <1>0, ChosenOnes
<1>2. u = [m EXCEPT !.held = g]
  BY DEF Overwrite
<1>. HIDE DEF m, h
<1>3. m = MarkAs(v, old, "leaked")
  BY DEF m
<1>4. \A j : j \in old <=> j \in HeldBy(v) /\ v.made[j].name = v.made[i].name
  BY DEF HeldBy
<1>5. \A j : j \in ToSet(h) <=> j \in HeldBy(v) /\ v.made[j].name # v.made[i].name
  BY <1>1 DEF HeldBy
<1>. HIDE DEF old
<1>6. /\ m \in EventWorlds /\ m.held = v.held /\ m.chains = v.chains
      /\ DOMAIN m.made = DOMAIN v.made
      /\ \A j \in DOMAIN v.made : Same(m.made[j], v.made[j])
      /\ \A j \in DOMAIN v.made : m.made[j].state = IF j \in old THEN "leaked" ELSE v.made[j].state
  BY <1>0, <1>3, MarkAsIs
<1>7. g \in Seq(Nat)
  BY <1>0, <1>1
<1>. HIDE DEF g
<1>8. u \in EventWorlds /\ u.held = g /\ u.chains = v.chains /\ u.made = m.made
  BY <1>2, <1>6, <1>7 DEF EventWorlds
<1>. DEFINE H == ToSet(h) \cup {i}
<1>9. Stay(H, v, u)
  <2>. SUFFICES ASSUME NEW j \in ToSet(h) \cup {i}
                PROVE  j \in DOMAIN u.made /\ Same(u.made[j], v.made[j]) /\ u.made[j].state = "live"
    BY DEF Stay
  <2>1. j \in DOMAIN v.made /\ v.made[j].state = "live" /\ j \notin old
    BY <1>0, <1>4, <1>5
  <2>. QED BY <1>6, <1>8, <2>1
<1>10. Joins(u, h, i)
  BY <1>8 DEF g, Joins
<1>11. Wanted(v, u, i, s, d)
  BY DEF Overwriting, Entered, Wanted
<1>12. GoesOn(v, u)
  BY <1>8 DEF GoesOn
<1>13. ToSet(h) \subseteq HeldBy(v)
  BY <1>5
<1>14. Apart(h, v, i, s)
  BY <1>5 DEF Apart
<1>. HIDE DEF H
<1>15. HeldWell(u, s, d) /\ HeldBy(u) = H
  <2>1. H = ToSet(h) \cup {i}
    BY DEF H
  <2>2. IsInjective(h) /\ h \in Seq(Nat)
    BY <1>0, <1>1
  <2>3. u \in EventWorlds
    BY <1>8
  <2>4. HeldWell(v, s, d) /\ i \in Nat /\ i \notin HeldBy(v)
    BY <1>0
  <2>. QED BY <1>9, <1>10, <1>11, <1>12, <1>13, <1>14, <2>1, <2>2, <2>3, <2>4, HeldMore
<1>16. LiveHeld(u)
  <2>. SUFFICES ASSUME NEW j \in DOMAIN u.made, u.made[j].state = "live"
                PROVE  j \in HeldBy(u)
    BY DEF LiveHeld
  <2>1. j \in DOMAIN v.made /\ j \notin old /\ v.made[j].state = "live"
    BY <1>6, <1>8
  <2>2. j \in HeldBy(v) \/ j = i
    BY <2>1 DEF Entered
  <2>. QED BY <1>4, <1>5, <1>15, <2>1, <2>2 DEF H
<1>. QED BY <1>8, <1>15, <1>16 DEF LoadWell, Entered

\* A chain is begun, or goes on.
LEMMA StartsAnew ==
  ASSUME NEW n, NEW c \in [id : BOOLEAN, own : BOOLEAN, stray : Nat], ChainAnew(c, n),
         NEW b, b = StartChain(c)
  PROVE  b \in [id : BOOLEAN, own : BOOLEAN, stray : Nat] /\ b.id /\ ChainAnew(b, n)
<1>1. CASE c.id
  BY <1>1 DEF StartChain
<1>2. CASE ~c.id
  <2>1. b = [c EXCEPT !.id = TRUE, !.own = TRUE]
    BY <1>2 DEF StartChain
  <2>2. b \in [id : BOOLEAN, own : BOOLEAN, stray : Nat] /\ b.id = TRUE /\ b.own = TRUE /\ b.stray = c.stray
    BY <2>1
  <2>. QED BY <2>2 DEF ChainAnew
<1>. QED BY <1>1, <1>2

\* Of a chain that goes on or begins, and the others.
LEMMA ChainsAnew ==
  ASSUME NEW n, NEW cs \in ChainSets, \A k \in Rhythms : ChainAnew(cs[k], n), NEW t \in Rhythms,
         NEW c, c = [cs EXCEPT ![t] = StartChain(cs[t])]
  PROVE  /\ c \in ChainSets /\ c[t].id
         /\ \A k \in Rhythms : (cs[k].id => c[k].id) /\ ChainAnew(c[k], n)
<1>. DEFINE b == StartChain(cs[t])
<1>1. b \in [id : BOOLEAN, own : BOOLEAN, stray : Nat] /\ b.id /\ ChainAnew(b, n)
  BY StartsAnew DEF ChainSets
<1>. HIDE DEF b
<1>2. c = [cs EXCEPT ![t] = b]
  BY DEF b
<1>3. c \in ChainSets /\ c[t] = b /\ \A k \in Rhythms : k # t => c[k] = cs[k]
  BY <1>1, <1>2 DEF ChainSets
<1>. QED BY <1>1, <1>3

\* One entry of a file, whatever becomes of it.
LEMMA LoadEntryWell ==
  ASSUME NEW n, NEW w, LoadWell(w, system, dates, n), DatesWell(system, dates), system \in Systems,
         NEW e \in Entries, NEW u, u = LoadEntry(w, e)
  PROVE  LoadWell(u, system, dates, n)
<1>. DEFINE x == NewEvent(e)
            v == [w EXCEPT !.made = Append(@, NewEvent(e))]
            i == Len(v.made)
            g == Append(v.held, i)
<1>1. v = MadeAnew(w, x)
  BY DEF MadeAnew
<1>2. u = IF ~e.good THEN MarkAs(v, {i}, "deleted")
          ELSE CASE system \in Overwriting -> Overwrite(v, i)
                 [] system \in Appending   -> AppendEvent(v, i)
                 [] OTHER                  -> RegisterGlobal(v, i)
  BY DEF LoadEntry
<1>3. x \in EventObjects /\ x.state = "live" /\ DueWell(x, dates)
      /\ (x.type \in Rhythms <=> system = "globalevents")
  BY NewEventIs
<1>. HIDE DEF x, v
<1>4. Entered(v, i, system, dates, n)
  BY <1>1, <1>3, ItEnters
<1>. HIDE DEF i
<1>5. v \in EventWorlds /\ v.chains \in ChainSets
      /\ (\A k \in Rhythms : ChainAnew(v.chains[k], n))
      /\ (v.made[i].type \in Rhythms <=> system = "globalevents")
  BY <1>4 DEF Entered, HeldWell, EventWorlds, ChainSets
<1>6. \A s \in Overwriting : s \notin Appending /\ s # "globalevents"
  BY DEF Overwriting, Appending
<1>7. "globalevents" \notin Appending /\ "globalevents" \notin Overwriting
  BY DEF Overwriting, Appending
<1>8. CASE ~e.good
  BY <1>2, <1>4, <1>8, RefusedWell
<1>9. CASE e.good /\ system \in Overwriting
  <2>1. u = Overwrite(v, i) /\ system \in Overwriting
    BY <1>2, <1>6, <1>9
  <2>. QED BY <1>4, <2>1, OverwrittenWell
<1>10. CASE e.good /\ system \in Appending
  <2>1. u = AppendEvent(v, i) /\ system \notin Overwriting /\ system # "globalevents"
    BY <1>2, <1>6, <1>7, <1>10
  <2>2. u = Joined(v, i, v.chains)
    <3>0. Joined(v, i, v.chains) = [v EXCEPT !.held = g, !.chains = v.chains]
      BY DEF Joined
    <3>1. u = [v EXCEPT !.held = g]
      BY <2>1 DEF AppendEvent
    <3>. HIDE DEF g
    <3>. QED BY <1>5, <3>0, <3>1 DEF EventWorlds
  <2>3. Apart(v.held, v, i, system)
    BY <1>10 DEF Apart
  <2>4. Chained(v, v.chains, i, system, n)
    BY <1>5, <2>1 DEF Chained
  <2>. QED BY <1>4, <2>2, <2>3, <2>4, AppendedWell
<1>11. CASE e.good /\ system = "globalevents"
  <2>. DEFINE t == v.made[i].type
              c == [v.chains EXCEPT ![t] = StartChain(v.chains[t])]
              dup == \E j \in ToSet(v.held) : v.made[j].name = v.made[i].name /\ v.made[j].type = v.made[i].type
  <2>1. u = RegisterGlobal(v, i)
    BY <1>2, <1>7, <1>11
  <2>2. CASE dup
    <3>1. u = MarkAs(v, {i}, "deleted")
      BY <2>1, <2>2 DEF RegisterGlobal
    <3>. QED BY <1>4, <3>1, RefusedWell
  <2>3. CASE ~dup
    <3>1. u = Joined(v, i, c)
      <4>0. Joined(v, i, c) = [v EXCEPT !.held = g, !.chains = c]
        BY DEF Joined
      <4>1. u = [AppendEvent(v, i) EXCEPT !.chains[t] = StartChain(v.chains[t])]
        BY <2>1, <2>3 DEF RegisterGlobal
      <4>2. AppendEvent(v, i) = [v EXCEPT !.held = g]
        BY DEF AppendEvent
      <4>. HIDE DEF g, t
      <4>. QED BY <1>5, <4>0, <4>1, <4>2 DEF EventWorlds
    <3>2. t \in Rhythms
      BY <1>5, <1>11
    <3>3. Apart(v.held, v, i, system)
      BY <1>7, <1>11, <2>3 DEF Apart
    <3>4. c \in ChainSets /\ c[t].id /\ \A k \in Rhythms : (v.chains[k].id => c[k].id) /\ ChainAnew(c[k], n)
      BY <1>5, <3>2, ChainsAnew
    <3>5. Chained(v, c, i, system, n)
      BY <3>4 DEF Chained
    <3>. HIDE DEF c, t
    <3>. QED BY <1>4, <3>1, <3>3, <3>5, AppendedWell
  <2>. QED BY <2>2, <2>3
<1>. QED BY <1>8, <1>9, <1>10, <1>11 DEF Systems

\* What has come of the first entries of a file.
IsLoading(w, file, m, f) ==
  f = [k \in 0..m |-> IF k = 0 THEN w ELSE LoadEntry(f[k - 1], file[k])]

\* There is such a function: one entry after the other.
LEMMA LoadingExists ==
  ASSUME NEW w, NEW file, NEW m \in Nat
  PROVE  \E f : IsLoading(w, file, m, f)
<1>. DEFINE B == {l \in Nat : ~\E f : IsLoading(w, file, l, f)}
<1>1. B = {}
  <2>. SUFFICES ASSUME B # {} PROVE FALSE
    OBVIOUS
  <2>0. B \subseteq Nat
    OBVIOUS
  <2>. HIDE DEF B
  <2>1. PICK l \in B : \A j \in B : l <= j
    BY <2>0, LeastOne
  <2>2. l \in Nat /\ ~\E f : IsLoading(w, file, l, f)
    BY DEF B
  <2>3. CASE l = 0
    <3>. DEFINE f == [k \in 0..0 |-> w]
    <3>1. IsLoading(w, file, 0, f)
      BY DEF IsLoading
    <3>. QED BY <2>2, <2>3, <3>1
  <2>4. CASE l # 0
    <3>1. l - 1 \in Nat /\ l - 1 \notin B
      BY <2>1, <2>2, <2>4
    <3>2. PICK g : IsLoading(w, file, l - 1, g)
      BY <3>1 DEF B
    <3>. DEFINE f == [k \in 0..l |-> IF k = 0 THEN w ELSE LoadEntry(g[k - 1], file[k])]
    <3>3. \A k \in 0..(l - 1) : f[k] = g[k]
      <4>. SUFFICES ASSUME NEW k \in 0..(l - 1) PROVE f[k] = g[k]
        OBVIOUS
      <4>1. k \in 0..l
        BY <2>2
      <4>. QED BY <3>2, <4>1 DEF IsLoading
    <3>4. \A k \in 0..l : k # 0 => k - 1 \in 0..(l - 1)
      BY <2>2
    <3>5. \A k \in 0..l : k # 0 => f[k - 1] = g[k - 1]
      BY <3>3, <3>4
    <3>6. IsLoading(w, file, l, f)
      BY <3>5 DEF IsLoading
    <3>. QED BY <2>2, <3>6
  <2>. QED BY <2>3, <2>4
<1>. QED BY <1>1

\* A whole file.
LEMMA LoadedWell ==
  ASSUME NEW n, NEW w, LoadWell(w, system, dates, n), DatesWell(system, dates), system \in Systems,
         NEW file \in Files, NEW u, u = Loaded(w, file)
  PROVE  LoadWell(u, system, dates, n)
<1>. DEFINE N == Len(file)
            after == CHOOSE f : IsLoading(w, file, N, f)
            T == {k \in 0..N : LoadWell(after[k], system, dates, n)}
<1>0. N \in Nat /\ \A k \in 1..N : file[k] \in Entries
  <2>1. PICK m \in 0..MaxEntries : file \in [1..m -> Entries]
    BY DEF Files
  <2>2. m \in Nat
    BY RegistryAssumption
  <2>3. file \in Seq(Entries)
    BY <2>1, <2>2, SeqDef
  <2>. QED BY <2>3
<1>1. u = after[N]
  BY DEF Loaded, IsLoading
<1>. HIDE DEF N
<1>2. IsLoading(w, file, N, after)
  <2>1. \E f : IsLoading(w, file, N, f)
    BY <1>0, LoadingExists
  <2>. QED BY <2>1
<1>. HIDE DEF after
<1>3. after[0] = w
  BY <1>0, <1>2 DEF IsLoading
<1>4. \A k \in 1..N : after[k] = LoadEntry(after[k - 1], file[k])
  <2>. SUFFICES ASSUME NEW k \in 1..N PROVE after[k] = LoadEntry(after[k - 1], file[k])
    OBVIOUS
  <2>1. k \in 0..N /\ k # 0
    BY <1>0
  <2>. QED BY <1>2, <2>1 DEF IsLoading
<1>5. 0 \in T
  BY <1>0, <1>3
<1>6. ASSUME NEW k \in Nat, k \in T, k < N PROVE k + 1 \in T
  <2>1. k + 1 \in 1..N /\ (k + 1) - 1 = k /\ k + 1 \in 0..N
    BY <1>0, <1>6
  <2>2. after[k + 1] = LoadEntry(after[k], file[k + 1]) /\ file[k + 1] \in Entries
    BY <1>0, <1>4, <2>1
  <2>3. LoadWell(after[k], system, dates, n)
    BY <1>6
  <2>4. LoadWell(after[k + 1], system, dates, n)
    BY <2>2, <2>3, LoadEntryWell
  <2>. QED BY <2>1, <2>4
<1>. HIDE DEF T
<1>7. N \in T
  <2>1. \A k \in 0..N : k \in T
    BY <1>0, <1>5, <1>6, HandedOn
  <2>. QED BY <1>0, <2>1
<1>. QED BY <1>1, <1>7 DEF T

\* When everything is cleared nothing is live, and what is left pending of a
\* chain is nobody's.
LEMMA ClearWell ==
  ASSUME NEW s, NEW d, NEW n \in Nat, NEW w, EventsWell(w, s, d, n), NEW u, u = ClearEvents(w)
  PROVE  LoadWell(u, s, d, n + 1)
<1>. DEFINE old == ToSet(w.held)
            m == MarkAs(w, old, "deleted")
            c == [k \in DOMAIN w.chains |-> StopChain(w.chains[k])]
<1>0. w \in EventWorlds /\ w.chains \in ChainSets /\ LiveHeld(w) /\ \A k \in Rhythms : ChainWell(w.chains[k], n)
  BY DEF EventsWell, HeldWell, EventWorlds, ChainSets
<1>1. u = [m EXCEPT !.held = <<>>, !.chains = c]
  BY DEF ClearEvents
<1>2. \A k \in Rhythms : c[k] = [id |-> FALSE, own |-> FALSE, stray |-> w.chains[k].stray]
  BY <1>0 DEF ChainSets, StopChain
<1>3. \A k \in Rhythms : w.chains[k].stray \in Nat /\ w.chains[k].stray < n + 1
  <2>. SUFFICES ASSUME NEW k \in Rhythms PROVE w.chains[k].stray \in Nat /\ w.chains[k].stray < n + 1
    OBVIOUS
  <2>. DEFINE a == w.chains[k]
  <2>1. a \in [id : BOOLEAN, own : BOOLEAN, stray : Nat] /\ ChainWell(a, n)
    BY <1>0 DEF ChainSets
  <2>. HIDE DEF a
  <2>2. a.stray \in Nat /\ a.stray < n + 1
    BY <2>1 DEF ChainWell, Pending
  <2>. QED BY <2>2 DEF a
<1>b. ASSUME NEW b, NEW x \in Nat, x < n + 1, b = [id |-> FALSE, own |-> FALSE, stray |-> x]
      PROVE  b \in [id : BOOLEAN, own : BOOLEAN, stray : Nat] /\ ChainAnew(b, n + 1)
  <2>1. b \in [id : BOOLEAN, own : BOOLEAN, stray : Nat] /\ b.id = FALSE /\ b.own = FALSE /\ b.stray = x
    BY <1>b
  <2>. QED BY <1>b, <2>1 DEF ChainAnew
<1>c. DOMAIN c = Rhythms /\ c = [k \in Rhythms |-> c[k]]
  BY <1>0 DEF ChainSets
<1>. HIDE DEF c
<1>d. \A k \in Rhythms : c[k] \in [id : BOOLEAN, own : BOOLEAN, stray : Nat] /\ ChainAnew(c[k], n + 1)
  BY <1>2, <1>3, <1>b
<1>4. c \in ChainSets
  BY <1>c, <1>d DEF ChainSets
<1>5. \A k \in Rhythms : ChainAnew(c[k], n + 1)
  BY <1>d
<1>. HIDE DEF m
<1>6. m = MarkAs(w, old, "deleted")
  BY DEF m
<1>7. \A j : j \in old <=> j \in HeldBy(w)
  BY DEF HeldBy
<1>. HIDE DEF old
<1>8. /\ m \in EventWorlds /\ m.held = w.held /\ m.chains = w.chains
      /\ DOMAIN m.made = DOMAIN w.made
      /\ \A j \in DOMAIN w.made : Same(m.made[j], w.made[j])
      /\ \A j \in DOMAIN w.made : m.made[j].state = IF j \in old THEN "deleted" ELSE w.made[j].state
  BY <1>0, <1>6, MarkAsIs
<1>9. <<>> \in Seq(Nat) /\ DOMAIN <<>> = {}
  OBVIOUS
<1>10. u \in EventWorlds /\ u.held = <<>> /\ u.chains = c /\ u.made = m.made
  BY <1>1, <1>4, <1>8, <1>9 DEF EventWorlds, ChainSets
<1>11. HeldBy(u) = {}
  BY <1>9, <1>10 DEF HeldBy, ToSet
<1>12. HeldWell(u, s, d)
  BY <1>9, <1>10, <1>11 DEF HeldWell, IsInjective
<1>13. LiveHeld(u)
  BY <1>0, <1>7, <1>8, <1>10 DEF LiveHeld
<1>. QED BY <1>5, <1>10, <1>12, <1>13 DEF LoadWell

\* A load that has ended.
LEMMA LoadEnds ==
  ASSUME NEW s, NEW d, NEW n \in Nat, NEW w, LoadWell(w, s, d, n)
  PROVE  EventsWell(w, s, d, n)
<1>1. \A k \in Rhythms : ChainWell(w.chains[k], n)
  <2>. SUFFICES ASSUME NEW k \in Rhythms PROVE ChainWell(w.chains[k], n)
    OBVIOUS
  <2>. DEFINE a == w.chains[k]
  <2>1. a \in [id : BOOLEAN, own : BOOLEAN, stray : Nat] /\ ChainAnew(a, n)
    BY DEF LoadWell, HeldWell, EventWorlds
  <2>. HIDE DEF a
  <2>2. ChainWell(a, n)
    BY <2>1 DEF ChainWell, ChainAnew, Pending
  <2>. QED BY <2>2 DEF a
<1>. QED BY <1>1 DEF LoadWell, EventsWell

-----------------------------------------------------------------------------
(* A second.                                                               *)

\* The events that run when a chain of their type fires.
IsDue(i, type, now) == i \in ToSet(held) /\ made[i].type = type /\ made[i].due <= now

NextDue(e, now) == IF e.type = "timer" THEN e.due + Day ELSE now + Interval

\* An event that ran is the same, but due at t.
RunAt(f, e, t) ==
  f \in EventObjects /\ f.name = e.name /\ f.type = e.type /\ f.state = e.state /\ f.due = t

\* Who runs is due later; nothing else changes.
LEMMA RunDueIs ==
  ASSUME made \in Seq(EventObjects), NEW type, NEW now \in Nat, NEW m, m = RunDue(type, now)
  PROVE  /\ m \in Seq(EventObjects) /\ DOMAIN m = DOMAIN made
         /\ \A i \in DOMAIN made :
              /\ m[i].name = made[i].name /\ m[i].type = made[i].type /\ m[i].state = made[i].state
              /\ IsDue(i, type, now) => m[i].due = NextDue(made[i], now)
              /\ ~IsDue(i, type, now) => m[i] = made[i]
<1>0. Day \in Nat /\ Interval \in Nat
  BY RegistryAssumption
<1>1. DOMAIN made = 1..Len(made) /\ Len(made) \in Nat /\ \A i \in DOMAIN made : made[i] \in EventObjects
  OBVIOUS
<1>2. DOMAIN m = DOMAIN made /\ m = [i \in 1..Len(made) |-> m[i]]
  BY <1>1 DEF RunDue
<1>3. ASSUME NEW e \in EventObjects, NEW f, NEW t \in Nat, f = [e EXCEPT !.due = t, !.turn = FALSE]
      PROVE  RunAt(f, e, t)
  BY <1>3 DEF EventObjects, RunAt
<1>4. \A i \in DOMAIN made :
        /\ IsDue(i, type, now) => m[i] = [made[i] EXCEPT !.due = NextDue(made[i], now), !.turn = FALSE]
        /\ ~IsDue(i, type, now) => m[i] = made[i]
  <2>. SUFFICES ASSUME NEW i \in DOMAIN made
                PROVE  /\ IsDue(i, type, now) => m[i] = [made[i] EXCEPT !.due = NextDue(made[i], now), !.turn = FALSE]
                       /\ ~IsDue(i, type, now) => m[i] = made[i]
    OBVIOUS
  <2>1. CASE IsDue(i, type, now)
    <3>1. made[i].type = type
      BY <2>1 DEF IsDue
    <3>2. m[i] = [made[i] EXCEPT !.due = IF type = "timer" THEN made[i].due + Day ELSE now + Interval,
                                 !.turn = FALSE]
      BY <2>1 DEF RunDue, IsDue
    <3>. QED BY <2>1, <3>1, <3>2 DEF NextDue
  <2>2. CASE ~IsDue(i, type, now)
    BY <2>2 DEF RunDue, IsDue
  <2>. QED BY <2>1, <2>2
<1>5. \A i \in DOMAIN made : NextDue(made[i], now) \in Nat
  BY <1>0, <1>1 DEF NextDue, EventObjects
<1>6. \A i \in DOMAIN made :
        /\ m[i] \in EventObjects
        /\ m[i].name = made[i].name /\ m[i].type = made[i].type /\ m[i].state = made[i].state
        /\ IsDue(i, type, now) => m[i].due = NextDue(made[i], now)
  <2>. SUFFICES ASSUME NEW i \in DOMAIN made
                PROVE  /\ m[i] \in EventObjects
                       /\ m[i].name = made[i].name /\ m[i].type = made[i].type /\ m[i].state = made[i].state
                       /\ IsDue(i, type, now) => m[i].due = NextDue(made[i], now)
    OBVIOUS
  <2>. DEFINE e == made[i]
              f == m[i]
              t == NextDue(e, now)
  <2>1. e \in EventObjects /\ t \in Nat
    BY <1>1, <1>5
  <2>2. /\ IsDue(i, type, now) => f = [e EXCEPT !.due = t, !.turn = FALSE]
        /\ ~IsDue(i, type, now) => f = e
    BY <1>4
  <2>. HIDE DEF e, f, t
  <2>3. f \in EventObjects /\ f.name = e.name /\ f.type = e.type /\ f.state = e.state
        /\ (IsDue(i, type, now) => f.due = t)
    <3>1. CASE IsDue(i, type, now)
      <4>1. f = [e EXCEPT !.due = t, !.turn = FALSE]
        BY <2>2, <3>1
      <4>2. RunAt(f, e, t)
        BY <1>3, <2>1, <4>1, Zenon
      <4>. QED BY <3>1, <4>2, Zenon DEF RunAt
    <3>2. CASE ~IsDue(i, type, now)
      <4>1. f = e
        BY <2>2, <3>2
      <4>. QED BY <2>1, <3>2, <4>1
    <3>. QED BY <3>1, <3>2
  <2>. QED BY <2>3 DEF e, f, t
<1>7. m \in Seq(EventObjects)
  <2>1. m \in [1..Len(made) -> EventObjects]
    BY <1>1, <1>2, <1>6
  <2>. QED BY <1>1, <2>1, SeqDef
<1>. QED BY <1>2, <1>4, <1>6, <1>7

\* By its name and type an event is the only one.
LEMMA OnlyOne ==
  ASSUME HeldWell(EventsWorld, system, dates), system = "globalevents",
         NEW i \in ToSet(held), NEW j \in ToSet(held),
         made[i].name = made[j].name, made[i].type = made[j].type
  PROVE  i = j
<1>1. system \notin Appending
  BY DEF Appending
<1>2. EventsWorld.held = held /\ EventsWorld.made = made
  BY DEF EventsWorld
<1>. QED BY <1>1, <1>2 DEF HeldWell, HeldBy

\* The second a run counts for is over, and not too early.
LEMMA RanForIs ==
  ASSUME HeldWell(EventsWorld, system, dates), system = "globalevents", DatesWell(system, dates),
         NEW now, now = dates.now + 1, NEW i, IsDue(i, dates.of, now), NEW n, n = made[i].name
  PROVE  /\ RanFor(n, now) = IF dates.of = "timer" THEN made[i].due ELSE now
         /\ RanFor(n, now) \in Nat /\ RanFor(n, now) <= now
         /\ dates.of = "timer" => OnTheDay(RanFor(n, now))
         /\ NextDue(made[i], now) = RanFor(n, now) + LengthOf(dates)
         /\ NextDue(made[i], now) >= now
         /\ made[i].turn \/ dates.last[n] = 0 \/ RanFor(n, now) >= dates.last[n] + LengthOf(dates)
<1>0. Day \in Nat /\ Day > 0 /\ Interval \in Nat /\ Interval > 0
  BY RegistryAssumption
<1>1. dates \in Dates /\ dates.now \in Nat /\ dates.of \in Rhythms /\ now \in Nat
  BY DEF DatesWell, Dates
<1>2. i \in ToSet(held) /\ made[i].type = dates.of /\ made[i].due <= now
  BY DEF IsDue
<1>. DEFINE e == made[i]
<1>3. e \in EventObjects /\ DueWell(e, dates)
  <2>1. EventsWorld.held = held /\ EventsWorld.made = made
    BY DEF EventsWorld
  <2>2. made \in Seq(EventObjects) /\ i \in DOMAIN made /\ DueWell(e, dates)
    BY <1>2, <2>1 DEF HeldWell, HeldBy, EventWorlds
  <2>. QED BY <2>2
<1>4. e.due \in Nat /\ e.name \in Names /\ dates.last[n] \in Nat
  BY <1>1, <1>3 DEF EventObjects, Dates
<1>5. /\ e.type = "timer" => OnTheDay(e.due)
      /\ e.due >= dates.now
      /\ e.turn \/ dates.last[n] = 0 \/ e.due >= dates.last[n] + LengthOf(dates)
  BY <1>2, <1>3 DEF DueWell
<1>6. CASE dates.of = "timer"
  <2>. DEFINE P(j) == j \in ToSet(held) /\ made[j].name = n /\ made[j].type = "timer"
  <2>1. P(i)
    BY <1>2, <1>6
  <2>2. \A j : P(j) => j = i
    BY <1>2, <1>6, OnlyOne
  <2>3. (CHOOSE j \in ToSet(held) : made[j].name = n /\ made[j].type = "timer") = i
    BY <2>1, <2>2
  <2>4. RanFor(n, now) = e.due
    BY <1>6, <2>3 DEF RanFor
  <2>5. LengthOf(dates) = Day /\ NextDue(e, now) = e.due + Day /\ e.type = "timer"
    BY <1>2, <1>6 DEF LengthOf, NextDue
  <2>. HIDE DEF e
  <2>6. e.due <= now
    BY <1>2 DEF e
  <2>. QED BY <1>0, <1>1, <1>4, <1>5, <1>6, <2>4, <2>5, <2>6 DEF e
<1>7. CASE dates.of # "timer"
  <2>1. RanFor(n, now) = now
    BY <1>7 DEF RanFor
  <2>2. LengthOf(dates) = Interval /\ NextDue(e, now) = now + Interval
    BY <1>2, <1>7 DEF LengthOf, NextDue
  <2>3. LengthOf(dates) \in Nat
    BY <1>0, <2>2
  <2>4. e.turn \/ dates.last[n] = 0 \/ now >= dates.last[n] + LengthOf(dates)
    BY <1>1, <1>2, <1>4, <1>5, <2>3
  <2>. QED BY <1>0, <1>1, <1>7, <2>1, <2>2, <2>4
<1>. QED BY <1>6, <1>7

\* What fires of a chain adds as much.
LEMMA FireWell ==
  ASSUME NEW n \in Nat, NEW c \in [id : BOOLEAN, own : BOOLEAN, stray : Nat], ChainWell(c, n),
         NEW b, b = Fire(c)
  PROVE  b \in [id : BOOLEAN, own : BOOLEAN, stray : Nat] /\ b.id = c.id /\ ChainWell(b, n)
<1>. DEFINE x == IF c.own THEN c.stray + 1 ELSE c.stray
<1>1. b = [c EXCEPT !.own = FALSE, !.stray = x]
  BY DEF Fire
<1>2. x \in Nat /\ x = Pending(c)
  BY DEF Pending
<1>. HIDE DEF x
<1>3. b \in [id : BOOLEAN, own : BOOLEAN, stray : Nat] /\ b.id = c.id /\ b.own = FALSE /\ b.stray = x
  BY <1>1, <1>2
<1>4. Pending(b) = x
  BY <1>2, <1>3 DEF Pending
<1>. QED BY <1>2, <1>3, <1>4 DEF ChainWell

\* A second, in which the events of a type may run.
LEMMA SecondKeeps ==
  ASSUME RegistryIInv, NEW type \in Rhythms, Second(type)
  PROVE  RegistryIInv'
<1>. DEFINE now == dates.now + 1
            run == Pending(chains[type]) > 0
            Fires(i) == run /\ IsDue(i, type, now)
            who == IF run THEN Ran(type, now) ELSE {}
            last == [n \in Names |-> IF n \in who THEN RanFor(n, now) ELSE dates.last[n]]
            early == dates.early \/ \E n \in who \ AtTheTurn :
                       dates.last[n] # 0 /\ RanFor(n, now) < dates.last[n] + Period
<1>0. /\ system \in Systems /\ loads \in [ok : BOOLEAN, n : 0..MaxLoads]
      /\ DatesWell(system, dates) /\ PeopleWell(people, held, loads.n)
      /\ HeldWell(EventsWorld, system, dates) /\ LiveHeld(EventsWorld)
      /\ \A k \in Rhythms : ChainWell(chains[k], loads.n)
  BY DEF RegistryIInv, EventsWell, EventsWorld
<1>1. /\ system = "globalevents" /\ type = dates.of
      /\ made' = IF run THEN RunDue(type, now) ELSE made
      /\ chains' = [chains EXCEPT ![type] = Fire(chains[type])]
      /\ dates' = [dates EXCEPT !.now = now, !.last = last, !.early = early]
      /\ UNCHANGED <<system, held, loads, people>>
  BY DEF Second
<1>2. dates \in Dates /\ dates.now \in Nat /\ dates.last \in [Names -> Nat] /\ ~dates.early /\ now \in Nat
      /\ loads.n \in Nat
  BY <1>0 DEF DatesWell, Dates
<1>3. made \in Seq(EventObjects) /\ held \in Seq(Nat) /\ IsInjective(held)
      /\ chains \in [Rhythms -> [id : BOOLEAN, own : BOOLEAN, stray : Nat]]
      /\ \A i \in ToSet(held) : /\ i \in DOMAIN made /\ made[i].state = "live" /\ made[i].type \in Rhythms
                                /\ chains[made[i].type].id /\ DueWell(made[i], dates)
  <2>1. EventsWorld.held = held /\ EventsWorld.made = made /\ EventsWorld.chains = chains
    BY DEF EventsWorld
  <2>. QED BY <1>0, <1>1, <2>1 DEF HeldWell, HeldBy, EventWorlds
<1>. HIDE DEF now, run, who, last, early
<1>4. /\ made' \in Seq(EventObjects) /\ DOMAIN made' = DOMAIN made
      /\ \A i \in DOMAIN made :
           /\ made'[i].name = made[i].name /\ made'[i].type = made[i].type /\ made'[i].state = made[i].state
           /\ Fires(i) => made'[i].due = NextDue(made[i], now)
           /\ ~Fires(i) => made'[i] = made[i]
  <2>1. CASE run
    <3>1. made' = RunDue(type, now)
      BY <1>1, <2>1
    <3>. QED BY <1>2, <1>3, <2>1, <3>1, RunDueIs
  <2>2. CASE ~run
    BY <1>1, <1>3, <2>2
  <2>. QED BY <2>1, <2>2
<1>5. \A i \in ToSet(held) : made[i].type = type => run
  BY <1>0, <1>3 DEF ChainWell, run
<1>6. \A n : n \in who <=> \E i : Fires(i) /\ n = made[i].name
  BY DEF who, Ran, IsDue
<1>7. ASSUME NEW i, Fires(i), NEW n, n = made[i].name
      PROVE  /\ RanFor(n, now) \in Nat /\ RanFor(n, now) <= now
             /\ dates.of = "timer" => OnTheDay(RanFor(n, now))
             /\ NextDue(made[i], now) = RanFor(n, now) + LengthOf(dates)
             /\ NextDue(made[i], now) >= now
             /\ made[i].turn \/ dates.last[n] = 0 \/ RanFor(n, now) >= dates.last[n] + LengthOf(dates)
             /\ dates.of = "timer" => NextDue(made[i], now) = RanFor(n, now) + Day
  <2>1. IsDue(i, dates.of, now)
    BY <1>1, <1>7
  <2>2. now = dates.now + 1
    BY DEF now
  <2>. QED BY <1>0, <1>1, <1>7, <2>1, <2>2, RanForIs DEF LengthOf
<1>8. \A n \in Names : /\ n \in who => last[n] = RanFor(n, now)
                       /\ n \notin who => last[n] = dates.last[n]
  BY DEF last
<1>9. \A n \in Names : /\ last[n] \in Nat /\ last[n] <= now
                       /\ dates.of = "timer" => OnTheDay(last[n])
  <2>. SUFFICES ASSUME NEW n \in Names
                PROVE  last[n] \in Nat /\ last[n] <= now /\ (dates.of = "timer" => OnTheDay(last[n]))
    OBVIOUS
  <2>1. CASE n \in who
    <3>1. PICK i : Fires(i) /\ n = made[i].name
      BY <1>6, <2>1
    <3>. QED BY <1>7, <1>8, <2>1, <3>1
  <2>2. CASE n \notin who
    <3>1. last[n] = dates.last[n] /\ dates.last[n] \in Nat /\ dates.last[n] <= dates.now
          /\ (dates.of = "timer" => OnTheDay(dates.last[n]))
      BY <1>0, <1>2, <1>8, <2>2 DEF DatesWell
    <3>. QED BY <1>2, <3>1 DEF now
  <2>. QED BY <2>1, <2>2
<1>10. ~early
  <2>. SUFFICES ASSUME NEW n \in who \ AtTheTurn, dates.last[n] # 0, RanFor(n, now) < dates.last[n] + Period
                PROVE  FALSE
    BY <1>2 DEF early
  <2>1. PICK i : Fires(i) /\ n = made[i].name
    BY <1>6
  <2>2. i \in ToSet(held)
    BY <2>1 DEF IsDue
  <2>3. ~made[i].turn
    BY <2>1, <2>2 DEF AtTheTurn
  <2>4. RanFor(n, now) >= dates.last[n] + LengthOf(dates) /\ RanFor(n, now) \in Nat
    BY <1>7, <2>1, <2>3
  <2>5. Period = LengthOf(dates)
    BY DEF Period, LengthOf
  <2>6. n \in Names /\ dates.last[n] \in Nat /\ Period \in Nat
    <3>1. Period \in Nat
      BY RegistryAssumption DEF Period
    <3>2. made[i] \in EventObjects
      BY <1>3, <2>2
    <3>3. n \in Names
      BY <2>1, <3>2 DEF EventObjects
    <3>. QED BY <1>2, <3>1, <3>3
  <2>. QED BY <2>4, <2>5, <2>6
<1>11. last \in [Names -> Nat] /\ early \in BOOLEAN
  <2>1. last = [n \in Names |-> last[n]]
    BY DEF last
  <2>2. early \in BOOLEAN
    BY <1>2 DEF early, Dates
  <2>. HIDE DEF last
  <2>. QED BY <1>9, <2>1, <2>2
<1>12. dates' \in Dates /\ dates'.of = dates.of /\ dates'.now = now /\ dates'.last = last /\ dates'.early = early
  BY <1>1, <1>2, <1>11 DEF Dates
<1>13. DatesWell(system, dates')
  BY <1>1, <1>9, <1>10, <1>12 DEF DatesWell
<1>14. \A i \in ToSet(held) : DueWell(made'[i], dates')
  <2>. SUFFICES ASSUME NEW i \in ToSet(held) PROVE DueWell(made'[i], dates')
    OBVIOUS
  <2>. DEFINE e == made[i]
              f == made'[i]
              n == e.name
  <2>1. e \in EventObjects /\ f \in EventObjects /\ i \in DOMAIN made /\ DueWell(e, dates)
        /\ f.name = e.name /\ f.type = e.type
        /\ (Fires(i) => f.due = NextDue(e, now)) /\ (~Fires(i) => f = e)
    BY <1>3, <1>4
  <2>2. n \in Names /\ e.due \in Nat /\ LengthOf(dates') = LengthOf(dates) /\ LengthOf(dates) \in Nat
    BY <1>12, <2>1, RegistryAssumption DEF EventObjects, LengthOf
  <2>3. CASE Fires(i)
    <3>1. n \in who /\ last[n] = RanFor(n, now)
      BY <1>6, <1>8, <2>2, <2>3
    <3>2. f.due = last[n] + LengthOf(dates) /\ f.due >= now /\ e.type = dates.of
      BY <1>1, <1>7, <2>1, <2>3, <3>1 DEF IsDue
    <3>3. f.type = "timer" => OnTheDay(f.due)
      <4>. SUFFICES ASSUME f.type = "timer" PROVE OnTheDay(f.due)
        OBVIOUS
      <4>1. dates.of = "timer" /\ OnTheDay(last[n]) /\ LengthOf(dates) = Day
        BY <1>9, <2>1, <2>2, <3>2 DEF LengthOf
      <4>2. PICK k \in Nat : last[n] = k * Day
        BY <4>1 DEF OnTheDay
      <4>3. (k + 1) * Day = k * Day + Day /\ k + 1 \in Nat
        BY RegistryAssumption
      <4>4. f.due = (k + 1) * Day
        BY <3>2, <4>1, <4>2, <4>3
      <4>. QED BY <4>3, <4>4 DEF OnTheDay
    <3>. HIDE DEF e, f
    <3>4. f.name = n /\ f.due >= dates'.last[f.name] + LengthOf(dates') /\ f.due >= dates'.now
      <4>1. f.due \in Nat
        BY <2>1 DEF EventObjects
      <4>. QED BY <1>12, <2>1, <2>2, <3>2, <4>1
    <3>. QED BY <3>3, <3>4 DEF DueWell, f
  <2>4. CASE ~Fires(i)
    <3>. HIDE DEF e, f
    <3>1. f = e
      BY <2>1, <2>4
    <3>2. e.type = "timer" => OnTheDay(e.due)
      BY <2>1 DEF DueWell
    <3>3. ASSUME e.type = dates.of
          PROVE  e.due >= now /\ (e.turn \/ last[n] = 0 \/ e.due >= last[n] + LengthOf(dates))
      <4>1. run /\ made[i].type = type
        BY <1>1, <1>5, <3>3 DEF e
      <4>2. ~(e.due <= now)
        BY <2>4, <4>1 DEF IsDue, e
      <4>3. n \notin who
        <5>. SUFFICES ASSUME n \in who PROVE FALSE
          OBVIOUS
        <5>1. PICK j : Fires(j) /\ n = made[j].name
          BY <1>6
        <5>2. j \in ToSet(held) /\ made[j].type = type
          BY <5>1 DEF IsDue
        <5>3. j = i
          BY <1>0, <1>1, <4>1, <5>1, <5>2, OnlyOne DEF e
        <5>. QED BY <2>4, <5>1, <5>3
      <4>4. last[n] = dates.last[n]
        BY <1>8, <2>2, <4>3
      <4>5. e.turn \/ dates.last[n] = 0 \/ e.due >= dates.last[n] + LengthOf(dates)
        BY <2>1, <3>3 DEF DueWell
      <4>. QED BY <1>2, <2>2, <4>2, <4>4, <4>5
    <3>. QED BY <1>12, <2>2, <3>1, <3>2, <3>3 DEF DueWell, e, f
  <2>. QED BY <2>3, <2>4
<1>15. /\ chains' \in [Rhythms -> [id : BOOLEAN, own : BOOLEAN, stray : Nat]]
       /\ \A k \in Rhythms : chains'[k].id = chains[k].id /\ ChainWell(chains'[k], loads.n)
  <2>. DEFINE b == Fire(chains[type])
  <2>1. b \in [id : BOOLEAN, own : BOOLEAN, stray : Nat] /\ b.id = chains[type].id /\ ChainWell(b, loads.n)
    BY <1>0, <1>2, <1>3, FireWell
  <2>. HIDE DEF b
  <2>2. chains' = [chains EXCEPT ![type] = b]
    BY <1>1 DEF b
  <2>. QED BY <1>0, <1>3, <2>1, <2>2
<1>16. EventsWorld' = [made |-> made', held |-> held, chains |-> chains']
  BY <1>1 DEF EventsWorld
<1>. DEFINE v == EventsWorld'
<1>17. v \in EventWorlds /\ v.made = made' /\ v.held = held /\ v.chains = chains' /\ HeldBy(v) = ToSet(held)
  BY <1>3, <1>4, <1>15, <1>16 DEF EventWorlds, HeldBy
<1>. HIDE DEF v
<1>18. HeldWell(v, system, dates')
  <2>1. \A i \in ToSet(held) : i \in DOMAIN made' /\ made'[i].state = "live" /\ made'[i].type \in Rhythms
                               /\ chains'[made'[i].type].id
    BY <1>3, <1>4, <1>15
  <2>2. \A i, j \in ToSet(held) : made'[i].name = made'[j].name /\ made'[i].type = made'[j].type => i = j
    <3>. SUFFICES ASSUME NEW i \in ToSet(held), NEW j \in ToSet(held),
                         made'[i].name = made'[j].name, made'[i].type = made'[j].type
                  PROVE  i = j
      OBVIOUS
    <3>1. made[i].name = made[j].name /\ made[i].type = made[j].type
      BY <1>3, <1>4
    <3>. QED BY <1>0, <1>1, <3>1, OnlyOne
  <2>3. system \notin Overwriting
    BY <1>1 DEF Overwriting
  <2>. QED BY <1>1, <1>3, <1>14, <1>17, <2>1, <2>2, <2>3 DEF HeldWell
<1>19. LiveHeld(v)
  BY <1>0, <1>4, <1>17 DEF LiveHeld, EventsWorld, HeldBy
<1>20. EventsWell(v, system, dates', loads.n)
  BY <1>15, <1>17, <1>18, <1>19 DEF EventsWell
<1>. QED BY <1>0, <1>1, <1>13, <1>20 DEF RegistryIInv, v

-----------------------------------------------------------------------------
(* The actions.                                                            *)

\* At the start nothing is loaded.
LEMMA RegistryStarts == RegistryInit => RegistryIInv
<1>. SUFFICES ASSUME RegistryInit PROVE RegistryIInv
  OBVIOUS
<1>0. MaxLoads \in Nat /\ Names # {} /\ Day \in Nat
  BY RegistryAssumption
<1>1. /\ system \in Systems /\ made = <<>> /\ held = <<>> /\ loads = [ok |-> FALSE, n |-> 0]
      /\ people = [p \in Persons |-> [online |-> FALSE, since |-> 0, list |-> <<>>]]
      /\ chains = [k \in {"think", "timer"} |-> [id |-> FALSE, own |-> FALSE, stray |-> 0]]
      /\ system # "globalevents" => dates.of = "think"
  BY DEF RegistryInit
<1>2. PICK type \in Rhythms : dates = [of |-> type, now |-> 1, last |-> [n \in Names |-> 0], early |-> FALSE]
  BY DEF RegistryInit, Rhythms
<1>3. loads \in [ok : BOOLEAN, n : 0..MaxLoads] /\ loads.n = 0
  BY <1>0, <1>1
<1>4. <<>> \in Seq(Nat) /\ <<>> \in Seq(EventObjects) /\ DOMAIN <<>> = {}
  OBVIOUS
<1>5. DatesWell(system, dates)
  <2>1. dates \in Dates /\ dates.early = FALSE /\ dates.now = 1 /\ \A n \in Names : dates.last[n] = 0
    BY <1>2 DEF Dates
  <2>2. OnTheDay(0)
    BY <1>0 DEF OnTheDay
  <2>. QED BY <1>1, <2>1, <2>2 DEF DatesWell
<1>6. chains \in ChainSets /\ \A k \in Rhythms : chains[k] = [id |-> FALSE, own |-> FALSE, stray |-> 0]
  BY <1>1 DEF ChainSets, Rhythms
<1>7. EventsWorld \in EventWorlds /\ EventsWorld.made = <<>> /\ EventsWorld.held = <<>> /\ EventsWorld.chains = chains
  BY <1>1, <1>4, <1>6 DEF EventsWorld, EventWorlds, ChainSets
<1>8. HeldBy(EventsWorld) = {}
  BY <1>4, <1>7 DEF HeldBy, ToSet
<1>9. HeldWell(EventsWorld, system, dates) /\ LiveHeld(EventsWorld)
  BY <1>4, <1>7, <1>8 DEF HeldWell, LiveHeld, IsInjective
<1>10. \A k \in Rhythms : ChainWell(chains[k], 0)
  BY <1>6 DEF ChainWell, Pending
<1>11. EventsWell(EventsWorld, system, dates, loads.n)
  BY <1>3, <1>7, <1>9, <1>10 DEF EventsWell
<1>12. PeopleWell(people, held, loads.n)
  BY <1>1, <1>3, <1>4 DEF PeopleWell
<1>. QED BY <1>1, <1>3, <1>5, <1>11, <1>12 DEF RegistryIInv

\* A load or a reload, of any file.
LEMMA ReloadKeeps ==
  ASSUME RegistryIInv, NEW found, NEW file \in Files, ReloadEvents(found, file)
  PROVE  RegistryIInv'
<1>. DEFINE w == ClearEvents(EventsWorld)
            u == Loaded(w, file)
<1>0. /\ system \in Systems /\ loads \in [ok : BOOLEAN, n : 0..MaxLoads] /\ MaxLoads \in Nat
      /\ DatesWell(system, dates) /\ PeopleWell(people, held, loads.n)
      /\ EventsWell(EventsWorld, system, dates, loads.n)
  BY RegistryAssumption DEF RegistryIInv
<1>1. /\ loads.n < MaxLoads /\ RegistryBecome(u)
      /\ loads' = [ok |-> found # "missing", n |-> loads.n + 1]
      /\ UNCHANGED <<system, people, dates>>
  BY DEF ReloadEvents
<1>2. loads.n \in Nat /\ loads' \in [ok : BOOLEAN, n : 0..MaxLoads] /\ loads'.n = loads.n + 1
  BY <1>0, <1>1
<1>. HIDE DEF w
<1>3. LoadWell(w, system, dates, loads.n + 1)
  BY <1>0, <1>2, ClearWell DEF w
<1>. HIDE DEF u
<1>4. LoadWell(u, system, dates, loads.n + 1)
  BY <1>0, <1>3, LoadedWell DEF u
<1>5. EventsWell(u, system, dates, loads.n + 1)
  BY <1>2, <1>4, LoadEnds
<1>6. u \in EventWorlds
  BY <1>4 DEF LoadWell, HeldWell
<1>7. EventsWorld' = u
  <2>1. EventsWorld' = [made |-> u.made, held |-> u.held, chains |-> u.chains]
    BY <1>1 DEF EventsWorld, RegistryBecome
  <2>. QED BY <1>6, <2>1 DEF EventWorlds
<1>8. PeopleWell(people, held', loads.n + 1)
  BY <1>0, <1>2 DEF PeopleWell
<1>. QED BY <1>0, <1>1, <1>2, <1>5, <1>7, <1>8 DEF RegistryIInv

\* Who logs in has live events; who logs out has none.
LEMMA PeopleKeep ==
  ASSUME RegistryIInv, NEW p \in Persons,
         LogOut(p) \/ \E says \in BOOLEAN, wants \in SUBSET Names : LogIn(p, says, wants)
  PROVE  RegistryIInv'
<1>0. /\ system \in Systems /\ loads \in [ok : BOOLEAN, n : 0..MaxLoads] /\ loads.n \in Nat
      /\ DatesWell(system, dates) /\ PeopleWell(people, held, loads.n)
      /\ EventsWell(EventsWorld, system, dates, loads.n) /\ held \in Seq(Nat)
  BY DEF RegistryIInv, EventsWell, HeldWell, EventWorlds, EventsWorld
<1>1. <<>> \in Seq(Nat) /\ ToSet(<<>>) \subseteq ToSet(held)
  BY DEF ToSet
<1>2. \E x \in [online : BOOLEAN, since : Nat, list : Seq(Nat)] :
        /\ people' = [people EXCEPT ![p] = x] /\ x.since <= loads.n
        /\ x.online => ToSet(x.list) \subseteq ToSet(held)
  <2>1. CASE LogOut(p)
    <3>. DEFINE x == [online |-> FALSE, since |-> 0, list |-> <<>>]
    <3>1. people' = [people EXCEPT ![p] = x] /\ x \in [online : BOOLEAN, since : Nat, list : Seq(Nat)]
          /\ x.since = 0 /\ x.online = FALSE
      BY <1>1, <2>1 DEF LogOut
    <3>2. x.since <= loads.n
      BY <1>0, <3>1
    <3>3. x.online => ToSet(x.list) \subseteq ToSet(held)
      BY <3>1
    <3>. HIDE DEF x
    <3>. QED BY <3>1, <3>2, <3>3, Zenon
  <2>2. ASSUME NEW says \in BOOLEAN, NEW wants \in SUBSET Names, LogIn(p, says, wants)
        PROVE  \E x \in [online : BOOLEAN, since : Nat, list : Seq(Nat)] :
                 /\ people' = [people EXCEPT ![p] = x] /\ x.since <= loads.n
                 /\ x.online => ToSet(x.list) \subseteq ToSet(held)
    <3>. DEFINE S == {i \in ToSet(held) : made[i].name \in wants}
                c == Chosen(held, S)
                l == IF says THEN c ELSE <<>>
                x == [online |-> says, since |-> loads.n, list |-> l]
    <3>1. c \in Seq(Nat) /\ ToSet(c) = ToSet(held) \cap S
      BY <1>0, ChosenOnes
    <3>2. people' = [people EXCEPT ![p] = x]
      BY <2>2 DEF LogIn
    <3>. HIDE DEF c
    <3>3. l \in Seq(Nat) /\ ToSet(l) \subseteq ToSet(held)
      BY <1>1, <3>1
    <3>. HIDE DEF l
    <3>4. x \in [online : BOOLEAN, since : Nat, list : Seq(Nat)] /\ x.since = loads.n /\ x.list = l
      BY <1>0, <3>3
    <3>5. x.since <= loads.n
      BY <1>0, <3>4
    <3>6. x.online => ToSet(x.list) \subseteq ToSet(held)
      BY <3>3, <3>4
    <3>. HIDE DEF x
    <3>. QED BY <3>2, <3>4, <3>5, <3>6, Zenon
  <2>. QED BY <2>1, <2>2
<1>3. PICK x \in [online : BOOLEAN, since : Nat, list : Seq(Nat)] :
        /\ people' = [people EXCEPT ![p] = x] /\ x.since <= loads.n
        /\ x.online => ToSet(x.list) \subseteq ToSet(held)
  BY <1>2
<1>4. PeopleWell(people', held, loads.n)
  <2>1. people' \in [Persons -> [online : BOOLEAN, since : Nat, list : Seq(Nat)]] /\ people'[p] = x
        /\ \A q \in Persons : q # p => people'[q] = people[q]
    BY <1>0, <1>3 DEF PeopleWell
  <2>. QED BY <1>0, <1>3, <2>1 DEF PeopleWell
<1>5. UNCHANGED <<system, made, held, loads, chains, dates>>
  BY DEF LogOut, LogIn
<1>. QED BY <1>0, <1>4, <1>5 DEF RegistryIInv, EventsWorld

\* The inductive invariant says what is asked of the events.
LEMMA RegistryHolds == RegistryIInv => RegistryConsistent
<1>. SUFFICES ASSUME RegistryIInv PROVE RegistryConsistent
  OBVIOUS
<1>0. /\ system \in Systems /\ loads \in [ok : BOOLEAN, n : 0..MaxLoads] /\ MaxLoads \in Nat
      /\ DatesWell(system, dates) /\ PeopleWell(people, held, loads.n)
      /\ HeldWell(EventsWorld, system, dates) /\ LiveHeld(EventsWorld)
      /\ \A k \in Rhythms : ChainWell(EventsWorld.chains[k], loads.n)
  BY RegistryAssumption DEF RegistryIInv, EventsWell
<1>1. EventsWorld.made = made /\ EventsWorld.held = held /\ EventsWorld.chains = chains /\ HeldBy(EventsWorld) = ToSet(held)
  BY DEF EventsWorld, HeldBy
<1>2. /\ made \in Seq(EventObjects) /\ held \in Seq(Nat) /\ IsInjective(held)
      /\ chains \in [Rhythms -> [id : BOOLEAN, own : BOOLEAN, stray : Nat]]
      /\ \A i \in ToSet(held) : i \in DOMAIN made /\ made[i].state = "live"
      /\ \A i \in ToSet(held) : made[i].type \in Rhythms <=> system = "globalevents"
      /\ system = "globalevents" => \A i \in ToSet(held) : DueWell(made[i], dates)
  BY <1>0, <1>1 DEF HeldWell, EventWorlds
<1>3. \A i \in DOMAIN made : made[i].state = "live" => i \in ToSet(held)
  BY <1>0, <1>1 DEF LiveHeld
<1>4. RegistryTypeOK
  <2>1. \A i \in DOMAIN made : made[i] \in EventObjects
    BY <1>2
  <2>2. \A i \in DOMAIN made : made[i].state \in {"live", "deleted", "leaked"}
    BY <2>1 DEF EventObjects
  <2>3. ASSUME NEW k \in DOMAIN chains PROVE chains[k].stray \in 0..MaxLoads
    <3>. DEFINE c == chains[k]
    <3>1. c \in [id : BOOLEAN, own : BOOLEAN, stray : Nat] /\ ChainWell(c, loads.n)
      BY <1>0, <1>1, <1>2
    <3>. HIDE DEF c
    <3>2. c.stray \in 0..MaxLoads
      BY <1>0, <3>1 DEF ChainWell, Pending
    <3>. QED BY <3>2 DEF c
  <2>. QED BY <1>0, <2>2, <2>3 DEF RegistryTypeOK
<1>5. HeldIsLive
  <2>1. ToSet(held) = {i \in DOMAIN made : made[i].state = "live"}
    BY <1>2, <1>3
  <2>2. ASSUME system \notin Appending, NEW i \in ToSet(held)
        PROVE  Lookup(made[i].name, made[i].type) = i
    <3>. DEFINE S == {j \in ToSet(held) : made[j].name = made[i].name /\ made[j].type = made[i].type}
                c == Chosen(held, S)
    <3>1. S = {i}
      BY <1>0, <1>1, <2>2 DEF HeldWell
    <3>2. c \in Seq(Nat) /\ ToSet(c) = ToSet(held) \cap S
      BY <1>2, ChosenOnes
    <3>3. Lookup(made[i].name, made[i].type) = IF c = <<>> THEN 0 ELSE Head(c)
      BY DEF Lookup
    <3>. HIDE DEF c, S
    <3>4. ToSet(c) = {i}
      BY <3>1, <3>2
    <3>5. c # <<>>
      BY <3>4 DEF ToSet
    <3>6. Head(c) = c[1] /\ 1 \in DOMAIN c
      BY <3>2, <3>5
    <3>7. Head(c) \in ToSet(c)
      BY <3>6 DEF ToSet
    <3>. QED BY <3>3, <3>4, <3>5, <3>7
  <2>. QED BY <1>2, <2>1, <2>2 DEF HeldIsLive
<1>6. FreshLoginIsLive
  BY <1>0, <1>2 DEF FreshLoginIsLive, PeopleWell
<1>7. RunsWhenDue
  <2>. SUFFICES ASSUME NEW i \in ToSet(held), made[i].type = dates.of PROVE made[i].due >= dates.now
    BY DEF RunsWhenDue
  <2>1. dates.of \in Rhythms
    BY <1>0 DEF DatesWell, Dates
  <2>. QED BY <1>2, <2>1 DEF DueWell
<1>8. NeverEarlier
  BY <1>0 DEF NeverEarlier, DatesWell
<1>. QED BY <1>4, <1>5, <1>6, <1>7, <1>8 DEF RegistryConsistent

\* What is registered is live and found, whoever logged in after the last
\* reload is registered for live events, and a global event runs when it is due
\* and never within its interval or day: whatever the names, files and
\* intervals, and however often the scripts are reloaded.
THEOREM RegistryAlwaysConsistent == RegistrySpec => []RegistryConsistent
<1>1. RegistryIInv /\ [RegistryNext]_registryVars => RegistryIInv'
  <2>. SUFFICES ASSUME RegistryIInv, [RegistryNext]_registryVars PROVE RegistryIInv'
    OBVIOUS
  <2>1. CASE \E file \in Files, found \in {"file", "other", "missing"} : ReloadEvents(found, file)
    BY <2>1, ReloadKeeps
  <2>2. CASE \E p \in Persons, says \in BOOLEAN, wants \in SUBSET Names : LogIn(p, says, wants)
    BY <2>2, PeopleKeep
  <2>3. CASE \E p \in Persons : LogOut(p)
    BY <2>3, PeopleKeep
  <2>4. CASE \E type \in {"think", "timer"} : Second(type)
    BY <2>4, SecondKeeps DEF Rhythms
  <2>5. CASE UNCHANGED registryVars
    BY <2>5 DEF registryVars, RegistryIInv, EventsWorld
  <2>. QED BY <2>1, <2>2, <2>3, <2>4, <2>5 DEF RegistryNext
<1>. QED BY RegistryStarts, <1>1, RegistryHolds, PTL DEF RegistrySpec
=============================================================================
