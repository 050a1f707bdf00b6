----------------------------- MODULE BodyProofs -----------------------------
(***************************************************************************)
(* A walk never stands still, and no request waits for a walk that is      *)
(* over: for any way, any number of commands and of events.                *)
(***************************************************************************)
EXTENDS Walk, FiniteSetTheorems, SequenceTheorems, TLAPS

WalkSpec == WalkInit /\ [][WalkNext]_walkVars

-----------------------------------------------------------------------------
(* A walker as a value: a task makes one of another.                       *)

Steps == {-1, 1}
Asked == Requests \ {"attack"}
Tasks ==
  [do : {"check", "attack"}] \cup [do : {"move"}, dir : Steps]
    \cup [do : {"auto"}, path : Seq(Steps) \ {<<>>}] \cup [do : {"request", "thing"}, what : Asked]
Event == [id : Nat, task : Tasks]
Waiting == [do : {"request"}, what : Asked] \cup {NoTask}
Wish == [what : Requests \cup {NoRequest.what}, calm : BOOLEAN]

WalkRecord ==
  [place : Line, path : Seq(Steps), rested : BOOLEAN, ready : BOOLEAN,
   eventWalk : Nat, walkTask : Waiting, walkTaskEvent : Nat,
   actionTaskEvent : Nat, nextStepEvent : Nat,
   timers : SUBSET Event, queue : Seq(Event), commands : 0..MaxCommands,
   asked : Wish, habit : Asked]

\* The timer of the walk is none of the three others, so that to stop one of
\* them never stops the walk.
Apart(w) ==
  w.eventWalk # NoEvent =>
    w.eventWalk \notin {w.walkTaskEvent, w.actionTaskEvent, w.nextStepEvent}

\* Steps that are left have a timer.
Going(w) == w.path # <<>> => w.eventWalk # NoEvent

\* The timer of the walk has not run.
Checked(w) ==
  w.eventWalk # NoEvent =>
    \E e \in w.timers \cup ToSet(w.queue) : e.id = w.eventWalk /\ e.task.do = "check"

\* What waits for the end of a walk has steps before it, or a walk that is
\* about to begin.
Waits(w) ==
  w.walkTask # NoTask =>
    w.path # <<>> \/ \E e \in ToSet(w.queue) : e.task.do = "auto"

\* What holds of a walker in the middle of a task too.
Base(w) == w \in WalkRecord /\ IsFiniteSet(w.timers) /\ Apart(w) /\ Going(w)

WalkerOK(w) == Base(w) /\ Checked(w) /\ Waits(w)

\* What an operation keeps, of the two parts that a task may have broken.
Keeps(w, v) == Base(v) /\ (Checked(w) => Checked(v)) /\ (Waits(w) => Waits(v))

\* The timer of the walk stays where it was.
TimerStays(w, v) ==
  w.eventWalk # NoEvent => \A e \in w.timers : e.id = w.eventWalk => e \in v.timers

LEMMA KeepsOn ==
  ASSUME NEW u, NEW v, NEW w, Keeps(u, v), Keeps(v, w)
  PROVE  Keeps(u, w)
BY DEF Keeps

\* Operations that leave the way and the queue alone.
LEMMA WayAlone ==
  ASSUME NEW w, Base(w), NEW v \in WalkRecord, IsFiniteSet(v.timers), Apart(v),
         v.path = w.path, v.eventWalk = w.eventWalk, v.queue = w.queue,
         v.walkTask \in {w.walkTask, NoTask}, TimerStays(w, v)
  PROVE  Keeps(w, v)
<1>1. Base(v)
  BY DEF Base, Going
<1>2. Checked(w) => Checked(v)
  BY DEF Checked, TimerStays
<1>3. Waits(w) => Waits(v)
  BY DEF Waits
<1>. QED
  BY <1>1, <1>2, <1>3 DEF Keeps

-----------------------------------------------------------------------------
(* Identifiers.                                                            *)

\* Among one more number than a set has elements one is not in it.
LEMMA OneMore ==
  ASSUME NEW S, IsFiniteSet(S)
  PROVE  \E n \in 1..Cardinality(S) + 1 : n \notin S
<1>. DEFINE c == Cardinality(S)
<1>1. c \in Nat
  BY FS_CardinalityType
<1>2. SUFFICES ASSUME 1..c + 1 \subseteq S PROVE FALSE
  OBVIOUS
<1>3. Cardinality(1..c + 1) <= c
  BY <1>2, FS_Subset
<1>4. Cardinality(1..c + 1) = c + 1
  BY <1>1, FS_Interval
<1>. QED
  BY <1>1, <1>3, <1>4

LEMMA IdsFinite ==
  ASSUME NEW w, w \in WalkRecord, IsFiniteSet(w.timers)
  PROVE  IsFiniteSet(EventIds(w))
<1>. DEFINE T == {e.id : e \in w.timers}
            f == [e \in w.timers |-> e.id]
            Q == {w.queue[k].id : k \in DOMAIN w.queue}
            g == [k \in DOMAIN w.queue |-> w.queue[k].id]
<1>1. IsFiniteSet(T)
  <2>1. f \in Surjection(w.timers, T)
    BY DEF Surjection
  <2>. QED
    BY <2>1, FS_Surjection
<1>2. IsFiniteSet(Q)
  <2>1. w.queue \in Seq(Event)
    BY DEF WalkRecord
  <2>2. DOMAIN w.queue = 1..Len(w.queue) /\ Len(w.queue) \in Nat
    BY <2>1
  <2>3. IsFiniteSet(DOMAIN w.queue)
    BY <2>2, FS_Interval
  <2>4. g \in Surjection(DOMAIN w.queue, Q)
    BY DEF Surjection
  <2>. QED
    BY <2>3, <2>4, FS_Surjection
<1>. HIDE DEF T, Q
<1>3. IsFiniteSet({w.eventWalk, w.walkTaskEvent, w.actionTaskEvent, w.nextStepEvent})
  <2>1. IsFiniteSet({})
    BY FS_EmptySet
  <2>2. IsFiniteSet({} \cup {w.eventWalk})
    BY <2>1, FS_AddElement
  <2>3. IsFiniteSet(({} \cup {w.eventWalk}) \cup {w.walkTaskEvent})
    BY <2>2, FS_AddElement
  <2>4. IsFiniteSet((({} \cup {w.eventWalk}) \cup {w.walkTaskEvent}) \cup {w.actionTaskEvent})
    BY <2>3, FS_AddElement
  <2>5. IsFiniteSet(((({} \cup {w.eventWalk}) \cup {w.walkTaskEvent}) \cup {w.actionTaskEvent})
                      \cup {w.nextStepEvent})
    BY <2>4, FS_AddElement
  <2>6. ((({} \cup {w.eventWalk}) \cup {w.walkTaskEvent}) \cup {w.actionTaskEvent}) \cup {w.nextStepEvent}
          = {w.eventWalk, w.walkTaskEvent, w.actionTaskEvent, w.nextStepEvent}
    OBVIOUS
  <2>. QED
    BY <2>5, <2>6
<1>4. EventIds(w) = (T \cup Q) \cup {w.eventWalk, w.walkTaskEvent, w.actionTaskEvent, w.nextStepEvent}
  BY DEF EventIds, T, Q
<1>5. IsFiniteSet(T \cup Q)
  BY <1>1, <1>2, FS_Union
<1>6. PICK E : E = {w.eventWalk, w.walkTaskEvent, w.actionTaskEvent, w.nextStepEvent}
  OBVIOUS
<1>7. PICK F : F = T \cup Q
  OBVIOUS
<1>8. IsFiniteSet(E) /\ IsFiniteSet(F)
  BY <1>3, <1>5, <1>6, <1>7, Zenon
<1>9. IsFiniteSet(F \cup E)
  BY <1>8, FS_Union, Zenon
<1>. QED
  BY <1>4, <1>6, <1>7, <1>9, Zenon

\* A new event has an identifier of its own.
LEMMA NewIsNew ==
  ASSUME NEW w, w \in WalkRecord, IsFiniteSet(w.timers), NEW n, n = NewEvent(w)
  PROVE  /\ n \in Nat /\ n # NoEvent
         /\ n \notin {w.eventWalk, w.walkTaskEvent, w.actionTaskEvent, w.nextStepEvent}
<1>. DEFINE c == Cardinality(EventIds(w))
<1>1. c \in Nat
  BY IdsFinite, FS_CardinalityType
<1>2. \E k \in 1..c + 1 : k \notin EventIds(w)
  BY IdsFinite, OneMore
<1>3. n \in 1..c + 1 /\ n \notin EventIds(w)
  BY <1>2 DEF NewEvent
<1>. QED
  BY <1>1, <1>3 DEF EventIds, NoEvent

-----------------------------------------------------------------------------
(* The queue of the dispatcher.                                            *)

LEMMA AppendedToSet ==
  ASSUME NEW S, NEW q \in Seq(S), NEW x \in S, NEW r, r = Append(q, x)
  PROVE  r \in Seq(S) /\ \A y \in ToSet(q) \cup {x} : y \in ToSet(r)
<1>1. r \in Seq(S) /\ Len(r) = Len(q) + 1
  OBVIOUS
<1>2. \A k \in 1..Len(q) : r[k] = q[k]
  OBVIOUS
<1>3. r[Len(q) + 1] = x
  OBVIOUS
<1>. QED
  BY <1>1, <1>2, <1>3 DEF ToSet

LEMMA PoppedFromSet ==
  ASSUME NEW S, NEW q \in Seq(S), q # <<>>, NEW x, x = Head(q), NEW r, r = Tail(q)
  PROVE  x \in S /\ r \in Seq(S) /\ \A y \in ToSet(q) : y = x \/ y \in ToSet(r)
<1>1. x \in S /\ r \in Seq(S) /\ Len(r) = Len(q) - 1 /\ x = q[1]
  OBVIOUS
<1>2. \A k \in 1..Len(r) : r[k] = q[k + 1]
  OBVIOUS
<1>3. ASSUME NEW k \in 1..Len(q), k # 1 PROVE q[k] \in ToSet(r)
  <2>1. PICK j : j = k - 1
    OBVIOUS
  <2>2. PICK n : n = Len(q)
    OBVIOUS
  <2>3. j \in 1..Len(r) /\ k = j + 1
    <3>1. n \in Nat
      BY <2>2, LenProperties
    <3>2. k \in 1..n /\ k # 1
      BY <1>3, <2>2
    <3>3. j \in 1..n - 1 /\ k = j + 1
      BY <2>1, <3>1, <3>2
    <3>. QED
      BY <1>1, <2>2, <3>3
  <2>4. r[j] = q[k]
    BY <1>2, <2>3
  <2>5. j \in DOMAIN r
    BY <1>1, <2>3
  <2>6. r[j] \in ToSet(r)
    BY <2>5 DEF ToSet
  <2>. QED
    BY <2>4, <2>6
<1>4. DOMAIN q = 1..Len(q)
  BY LenProperties
<1>. QED
  BY <1>1, <1>3, <1>4 DEF ToSet

-----------------------------------------------------------------------------
(* The operations on the pending tasks of a player.                        *)

\* What the operations of this section leave alone.
SameWay(w, v) ==
  v.path = w.path /\ v.eventWalk = w.eventWalk /\ v.queue = w.queue

\* Timers other than that of the walk may go.
LEMMA StopOther ==
  ASSUME NEW w, Base(w), NEW id \in Nat, NEW v, v = StopEvent(w, id)
  PROVE  /\ v \in WalkRecord /\ IsFiniteSet(v.timers) /\ SameWay(w, v)
         /\ (w.eventWalk # NoEvent => id # w.eventWalk) => TimerStays(w, v)
         /\ v.walkTask = w.walkTask /\ v.walkTaskEvent = w.walkTaskEvent
         /\ v.actionTaskEvent = w.actionTaskEvent /\ v.nextStepEvent = w.nextStepEvent
<1>. DEFINE s == {e \in w.timers : e.id # id}
<1>1. w \in WalkRecord /\ IsFiniteSet(w.timers)
  BY DEF Base
<1>2. v = [w EXCEPT !.timers = s]
  BY DEF StopEvent
<1>3. s \subseteq w.timers /\ s \in SUBSET Event
  BY <1>1 DEF WalkRecord
<1>4. \A e \in w.timers : e.id # id => e \in s
  OBVIOUS
<1>. HIDE DEF s
<1>5. v \in WalkRecord
  BY <1>1, <1>2, <1>3 DEF WalkRecord
<1>6. v.timers = s /\ SameWay(w, v)
  BY <1>1, <1>2 DEF WalkRecord, SameWay
<1>7. /\ v.walkTask = w.walkTask /\ v.walkTaskEvent = w.walkTaskEvent
      /\ v.actionTaskEvent = w.actionTaskEvent /\ v.nextStepEvent = w.nextStepEvent
  BY <1>1, <1>2 DEF WalkRecord
<1>8. IsFiniteSet(v.timers)
  BY <1>1, <1>3, <1>6, FS_Subset
<1>9. ASSUME w.eventWalk # NoEvent => id # w.eventWalk PROVE TimerStays(w, v)
  BY <1>4, <1>6, <1>9 DEF TimerStays
<1>. QED
  BY <1>5, <1>6, <1>7, <1>8, <1>9

\* A new event, with an identifier of its own.
LEMMA AddOther ==
  ASSUME NEW w, w \in WalkRecord, IsFiniteSet(w.timers), NEW t \in Tasks, NEW n \in Nat,
         NEW v, v = AddEvent(w, n, t)
  PROVE  /\ v \in WalkRecord /\ IsFiniteSet(v.timers) /\ SameWay(w, v) /\ TimerStays(w, v)
         /\ v.walkTask = w.walkTask /\ v.walkTaskEvent = w.walkTaskEvent
         /\ v.actionTaskEvent = w.actionTaskEvent /\ v.nextStepEvent = w.nextStepEvent
         /\ \E e \in v.timers : e.id = n /\ e.task = t
<1>. DEFINE x == [id |-> n, task |-> t]
            s == w.timers \cup {x}
<1>1. v = [w EXCEPT !.timers = s]
  BY DEF AddEvent
<1>2. x \in Event /\ x.id = n /\ x.task = t
  BY DEF Event
<1>. HIDE DEF x
<1>3. s \in SUBSET Event /\ IsFiniteSet(s) /\ x \in s
  BY <1>2, FS_AddElement DEF WalkRecord
<1>4. \A e \in w.timers : e \in s
  OBVIOUS
<1>. HIDE DEF s
<1>5. v \in WalkRecord
  BY <1>1, <1>3 DEF WalkRecord
<1>6. v.timers = s /\ SameWay(w, v)
  BY <1>1 DEF WalkRecord, SameWay
<1>7. /\ v.walkTask = w.walkTask /\ v.walkTaskEvent = w.walkTaskEvent
      /\ v.actionTaskEvent = w.actionTaskEvent /\ v.nextStepEvent = w.nextStepEvent
  BY <1>1 DEF WalkRecord
<1>8. TimerStays(w, v)
  BY <1>4, <1>6 DEF TimerStays
<1>. QED
  BY <1>2, <1>3, <1>5, <1>6, <1>7, <1>8

\* One of the three identifiers is set.
LEMMA IdSet ==
  ASSUME NEW w \in WalkRecord, IsFiniteSet(w.timers), NEW n \in Nat, NEW v,
         v \in {[w EXCEPT !.walkTaskEvent = n], [w EXCEPT !.actionTaskEvent = n],
                [w EXCEPT !.nextStepEvent = n]},
         w.eventWalk # NoEvent => n # w.eventWalk
  PROVE  /\ v \in WalkRecord /\ v.timers = w.timers /\ v.walkTask = w.walkTask
         /\ SameWay(w, v) /\ (Apart(w) => Apart(v))
<1>1. CASE v = [w EXCEPT !.walkTaskEvent = n]
  <2>1. v \in WalkRecord
    BY <1>1 DEF WalkRecord
  <2>2. v.timers = w.timers /\ v.walkTask = w.walkTask /\ SameWay(w, v)
    BY <1>1 DEF WalkRecord, SameWay
  <2>3. v.walkTaskEvent = n /\ v.actionTaskEvent = w.actionTaskEvent
        /\ v.nextStepEvent = w.nextStepEvent
    BY <1>1 DEF WalkRecord
  <2>. QED
    BY <2>1, <2>2, <2>3 DEF Apart, SameWay
<1>2. CASE v = [w EXCEPT !.actionTaskEvent = n]
  <2>1. v \in WalkRecord
    BY <1>2 DEF WalkRecord
  <2>2. v.timers = w.timers /\ v.walkTask = w.walkTask /\ SameWay(w, v)
    BY <1>2 DEF WalkRecord, SameWay
  <2>3. v.actionTaskEvent = n /\ v.walkTaskEvent = w.walkTaskEvent
        /\ v.nextStepEvent = w.nextStepEvent
    BY <1>2 DEF WalkRecord
  <2>. QED
    BY <2>1, <2>2, <2>3 DEF Apart, SameWay
<1>3. CASE v = [w EXCEPT !.nextStepEvent = n]
  <2>1. v \in WalkRecord
    BY <1>3 DEF WalkRecord
  <2>2. v.timers = w.timers /\ v.walkTask = w.walkTask /\ SameWay(w, v)
    BY <1>3 DEF WalkRecord, SameWay
  <2>3. v.nextStepEvent = n /\ v.walkTaskEvent = w.walkTaskEvent
        /\ v.actionTaskEvent = w.actionTaskEvent
    BY <1>3 DEF WalkRecord
  <2>. QED
    BY <2>1, <2>2, <2>3 DEF Apart, SameWay
<1>. QED
  BY <1>1, <1>2, <1>3

LEMMA NoEventIsNone == NoEvent \in Nat /\ \A n : n # NoEvent => NoEvent # n
BY DEF NoEvent

\* An operation on the pending tasks alone.
Quiet(w, v) ==
  Base(v) /\ SameWay(w, v) /\ TimerStays(w, v) /\ v.walkTask \in {w.walkTask, NoTask}

LEMMA QuietOn ==
  ASSUME NEW u, NEW v, NEW w, Quiet(u, v), Quiet(v, w)
  PROVE  Quiet(u, w)
BY DEF Quiet, SameWay, TimerStays

LEMMA QuietSelf ==
  ASSUME NEW w, Base(w)
  PROVE  Quiet(w, w)
BY DEF Quiet, SameWay, TimerStays

LEMMA QuietKeeps ==
  ASSUME NEW w, Base(w), NEW v, Quiet(w, v)
  PROVE  Keeps(w, v)
<1>1. v \in WalkRecord /\ IsFiniteSet(v.timers) /\ Apart(v)
  BY DEF Quiet, Base
<1>2. v.path = w.path /\ v.eventWalk = w.eventWalk /\ v.queue = w.queue
  BY DEF Quiet, SameWay
<1>. QED
  BY <1>1, <1>2, WayAlone DEF Quiet

\* What StopOther, AddOther and IdSet show of one of their results.
LEMMA QuietOf ==
  ASSUME NEW w, Base(w), NEW v \in WalkRecord, IsFiniteSet(v.timers), SameWay(w, v), Apart(v),
         TimerStays(w, v), v.walkTask \in {w.walkTask, NoTask}
  PROVE  Quiet(w, v)
BY DEF Quiet, Base, Going, SameWay

LEMMA StopQuiet ==
  ASSUME NEW w, Base(w), NEW id \in Nat, w.eventWalk # NoEvent => id # w.eventWalk,
         NEW v, v = StopEvent(w, id)
  PROVE  Quiet(w, v) /\ v.walkTask = w.walkTask
<1>1. Apart(v)
  BY StopOther DEF Apart, Base, SameWay
<1>. QED
  BY <1>1, StopOther, QuietOf

LEMMA AddQuiet ==
  ASSUME NEW w, Base(w), NEW t \in Tasks, NEW n \in Nat, NEW v, v = AddEvent(w, n, t)
  PROVE  Quiet(w, v) /\ v.walkTask = w.walkTask
<1>1. w \in WalkRecord /\ IsFiniteSet(w.timers)
  BY DEF Base
<1>2. Apart(v)
  BY <1>1, AddOther DEF Apart, Base, SameWay
<1>. QED
  BY <1>1, <1>2, AddOther, QuietOf

LEMMA IdQuiet ==
  ASSUME NEW w, Base(w), NEW n \in Nat, NEW v,
         v \in {[w EXCEPT !.walkTaskEvent = n], [w EXCEPT !.actionTaskEvent = n],
                [w EXCEPT !.nextStepEvent = n]},
         w.eventWalk # NoEvent => n # w.eventWalk
  PROVE  Quiet(w, v) /\ v.walkTask = w.walkTask
<1>1. w \in WalkRecord /\ IsFiniteSet(w.timers) /\ Apart(w)
  BY DEF Base
<1>2. v \in WalkRecord /\ v.timers = w.timers /\ v.walkTask = w.walkTask
      /\ SameWay(w, v) /\ Apart(v)
  BY <1>1, IdSet
<1>3. TimerStays(w, v)
  BY <1>2 DEF TimerStays
<1>. QED
  BY <1>1, <1>2, <1>3, QuietOf

\* Player::setNextWalkTask
LEMMA SetNextWalkQuiet ==
  ASSUME NEW w, Base(w), NEW t \in Tasks \cup {NoTask}, NEW v, v = SetNextWalkTask(w, t)
  PROVE  Quiet(w, v) /\ v.walkTask = w.walkTask
<1>1. PICK s : s = StopEvent(w, w.nextStepEvent)
  OBVIOUS
<1>2. PICK u : u = [s EXCEPT !.nextStepEvent = NoEvent]
  OBVIOUS
<1>3. w.nextStepEvent \in Nat /\ (w.eventWalk # NoEvent => w.nextStepEvent # w.eventWalk)
  BY DEF Base, Apart, WalkRecord
<1>4. Quiet(w, s) /\ s.walkTask = w.walkTask
  BY <1>1, <1>3, StopQuiet
<1>5. Base(s)
  BY <1>4 DEF Quiet
<1>6. Quiet(s, u) /\ u.walkTask = s.walkTask
  BY <1>2, <1>5, IdQuiet, NoEventIsNone
<1>7. Quiet(w, u) /\ u.walkTask = w.walkTask
  BY <1>4, <1>6, QuietOn
<1>8. CASE t = NoTask
  BY <1>1, <1>2, <1>7, <1>8 DEF SetNextWalkTask
<1>9. CASE t # NoTask
  <2>1. PICK n : n = NewEvent(u)
    OBVIOUS
  <2>2. PICK a : a = AddEvent(u, n, t)
    OBVIOUS
  <2>3. Base(u)
    BY <1>6 DEF Quiet
  <2>4. n \in Nat /\ n # u.eventWalk
    BY <2>1, <2>3, NewIsNew DEF Base
  <2>5. Quiet(u, a) /\ a.walkTask = u.walkTask
    BY <2>2, <2>3, <2>4, <1>9, AddQuiet
  <2>6. Base(a) /\ a.eventWalk = u.eventWalk
    BY <2>5 DEF Quiet, SameWay
  <2>7. v = [a EXCEPT !.nextStepEvent = n]
    BY <1>1, <1>2, <1>9, <2>1, <2>2 DEF SetNextWalkTask
  <2>8. Quiet(a, v) /\ v.walkTask = a.walkTask
    BY <2>4, <2>6, <2>7, IdQuiet
  <2>. QED
    BY <1>7, <2>5, <2>8, QuietOn
<1>. QED
  BY <1>8, <1>9

\* Player::setNextActionTask
LEMMA SetNextActionQuiet ==
  ASSUME NEW w, Base(w), NEW t \in Tasks \cup {NoTask}, NEW v, v = SetNextActionTask(w, t)
  PROVE  Quiet(w, v) /\ v.walkTask = w.walkTask
<1>1. PICK s : s = StopEvent(w, w.actionTaskEvent)
  OBVIOUS
<1>2. PICK u : u = [s EXCEPT !.actionTaskEvent = NoEvent]
  OBVIOUS
<1>3. w.actionTaskEvent \in Nat /\ (w.eventWalk # NoEvent => w.actionTaskEvent # w.eventWalk)
  BY DEF Base, Apart, WalkRecord
<1>4. Quiet(w, s) /\ s.walkTask = w.walkTask
  BY <1>1, <1>3, StopQuiet
<1>5. Base(s)
  BY <1>4 DEF Quiet
<1>6. Quiet(s, u) /\ u.walkTask = s.walkTask
  BY <1>2, <1>5, IdQuiet, NoEventIsNone
<1>7. Quiet(w, u) /\ u.walkTask = w.walkTask
  BY <1>4, <1>6, QuietOn
<1>8. CASE t = NoTask
  BY <1>1, <1>2, <1>7, <1>8 DEF SetNextActionTask
<1>9. CASE t # NoTask
  <2>1. PICK n : n = NewEvent(u)
    OBVIOUS
  <2>2. PICK a : a = AddEvent(u, n, t)
    OBVIOUS
  <2>3. Base(u)
    BY <1>6 DEF Quiet
  <2>4. n \in Nat /\ n # u.eventWalk
    BY <2>1, <2>3, NewIsNew DEF Base
  <2>5. Quiet(u, a) /\ a.walkTask = u.walkTask
    BY <2>2, <2>3, <2>4, <1>9, AddQuiet
  <2>6. Base(a) /\ a.eventWalk = u.eventWalk
    BY <2>5 DEF Quiet, SameWay
  <2>7. v = [a EXCEPT !.actionTaskEvent = n]
    BY <1>1, <1>2, <1>9, <2>1, <2>2 DEF SetNextActionTask
  <2>8. Quiet(a, v) /\ v.walkTask = a.walkTask
    BY <2>4, <2>6, <2>7, IdQuiet
  <2>. QED
    BY <1>7, <2>5, <2>8, QuietOn
<1>. QED
  BY <1>8, <1>9

LEMMA TaskSet ==
  ASSUME NEW w, Base(w), NEW t \in Waiting, NEW v, v = [w EXCEPT !.walkTask = t]
  PROVE  Base(v) /\ SameWay(w, v) /\ v.timers = w.timers /\ v.walkTask = t
<1>1. w \in WalkRecord
  BY DEF Base
<1>2. v \in WalkRecord
  BY <1>1 DEF WalkRecord
<1>3. /\ v.walkTask = t /\ v.timers = w.timers /\ v.path = w.path /\ v.eventWalk = w.eventWalk
      /\ v.queue = w.queue /\ v.walkTaskEvent = w.walkTaskEvent
      /\ v.actionTaskEvent = w.actionTaskEvent /\ v.nextStepEvent = w.nextStepEvent
  BY <1>1 DEF WalkRecord
<1>. QED
  BY <1>2, <1>3 DEF Base, Apart, Going, SameWay

\* Player::setNextWalkActionTask
LEMMA SetNextWalkActionOK ==
  ASSUME NEW w, Base(w), NEW t \in Waiting, NEW v, v = SetNextWalkActionTask(w, t)
  PROVE  Base(v) /\ SameWay(w, v) /\ TimerStays(w, v) /\ v.walkTask = t
<1>1. PICK s : s = StopEvent(w, w.walkTaskEvent)
  OBVIOUS
<1>2. PICK u : u = [s EXCEPT !.walkTaskEvent = NoEvent]
  OBVIOUS
<1>3. w.walkTaskEvent \in Nat /\ (w.eventWalk # NoEvent => w.walkTaskEvent # w.eventWalk)
  BY DEF Base, Apart, WalkRecord
<1>4. Quiet(w, s)
  BY <1>1, <1>3, StopQuiet
<1>5. Base(s)
  BY <1>4 DEF Quiet
<1>6. Quiet(s, u)
  BY <1>2, <1>5, IdQuiet, NoEventIsNone
<1>7. Quiet(w, u)
  BY <1>4, <1>6, QuietOn
<1>8. v = [u EXCEPT !.walkTask = t]
  BY <1>1, <1>2 DEF SetNextWalkActionTask
<1>9. Base(u)
  BY <1>7 DEF Quiet
<1>10. Base(v) /\ SameWay(u, v) /\ v.timers = u.timers /\ v.walkTask = t
  BY <1>8, <1>9, TaskSet
<1>. QED
  BY <1>7, <1>10 DEF Quiet, SameWay, TimerStays

LEMMA TasksAndWaiting ==
  /\ NoTask \in Waiting /\ \A t \in Waiting : t # NoTask => t \in Tasks
  /\ \A r \in Asked : RequestTask(r) \in Waiting /\ RequestTask(r) \in Tasks
BY DEF Waiting, Tasks, RequestTask

LEMMA NothingAsked == NoRequest \in Wish
BY DEF Wish, NoRequest

\* Player::onWalkAborted
LEMMA OnWalkAbortedQuiet ==
  ASSUME NEW w, Base(w), NEW v, v = OnWalkAborted(w)
  PROVE  Quiet(w, v) /\ v.walkTask = NoTask
BY SetNextWalkActionOK, TasksAndWaiting DEF OnWalkAborted, Quiet

\* Values that have nothing to do with the walk.
LEMMA Elsewhere ==
  ASSUME NEW w, Base(w), NEW v \in WalkRecord, v.timers = w.timers, SameWay(w, v),
         v.walkTask = w.walkTask, v.walkTaskEvent = w.walkTaskEvent,
         v.actionTaskEvent = w.actionTaskEvent, v.nextStepEvent = w.nextStepEvent
  PROVE  Quiet(w, v)
BY DEF Quiet, Base, Apart, Going, SameWay, TimerStays

\* What the player waits for is no part of the walk.
LEMMA AskedSet ==
  ASSUME NEW w, Base(w), NEW r \in Wish, NEW v, v = [w EXCEPT !.asked = r]
  PROVE  Quiet(w, v) /\ v.walkTask = w.walkTask
<1>1. w \in WalkRecord
  BY DEF Base
<1>2. v \in WalkRecord
  BY <1>1 DEF WalkRecord
<1>3. v.timers = w.timers /\ v.walkTask = w.walkTask /\ SameWay(w, v)
  BY <1>1 DEF WalkRecord, SameWay
<1>4. /\ v.walkTaskEvent = w.walkTaskEvent /\ v.actionTaskEvent = w.actionTaskEvent
      /\ v.nextStepEvent = w.nextStepEvent
  BY <1>1 DEF WalkRecord
<1>. QED
  BY <1>2, <1>3, <1>4, Elsewhere

LEMMA GiveUpQuiet ==
  ASSUME NEW w, Base(w), NEW v, v = GiveUp(w)
  PROVE  Quiet(w, v)
BY AskedSet, NothingAsked DEF GiveUp

\* Player::onWalkComplete
LEMMA OnWalkCompleteQuiet ==
  ASSUME NEW w, Base(w), NEW v, v = OnWalkComplete(w)
  PROVE  Quiet(w, v) /\ v.walkTask = NoTask
<1>1. CASE w.walkTask = NoTask
  BY <1>1, QuietSelf DEF OnWalkComplete
<1>2. CASE w.walkTask # NoTask
  <2>1. PICK n : n = NewEvent(w)
    OBVIOUS
  <2>2. PICK t : t = w.walkTask
    OBVIOUS
  <2>3. t \in Tasks
    BY <1>2, <2>2, TasksAndWaiting DEF Base, WalkRecord
  <2>4. PICK a : a = AddEvent(w, n, t)
    OBVIOUS
  <2>5. PICK u : u = [a EXCEPT !.walkTaskEvent = n]
    OBVIOUS
  <2>6. n \in Nat /\ n # w.eventWalk
    BY <2>1, NewIsNew DEF Base
  <2>7. Quiet(w, a)
    BY <2>3, <2>4, <2>6, AddQuiet
  <2>8. Base(a) /\ a.eventWalk = w.eventWalk
    BY <2>7 DEF Quiet, SameWay
  <2>9. Quiet(a, u)
    BY <2>5, <2>6, <2>8, IdQuiet
  <2>10. Quiet(w, u)
    BY <2>7, <2>9, QuietOn
  <2>11. Base(u)
    BY <2>9 DEF Quiet
  <2>12. PICK x : x = [u EXCEPT !.walkTask = NoTask]
    OBVIOUS
  <2>13. Base(x) /\ SameWay(u, x) /\ x.timers = u.timers /\ x.walkTask = NoTask
    BY <2>11, <2>12, TaskSet, TasksAndWaiting
  <2>14. Quiet(w, x)
    BY <2>10, <2>13 DEF Quiet, SameWay, TimerStays
  <2>15. PICK b : b = (x.asked.calm /\ ~Early(w))
    OBVIOUS
  <2>16. PICK r : r = [x.asked EXCEPT !.calm = b]
    OBVIOUS
  <2>17. r \in Wish
    <3>1. x.asked \in Wish
      BY <2>13 DEF Base, WalkRecord
    <3>2. b \in BOOLEAN
      BY <2>15
    <3>. QED
      BY <2>16, <3>1, <3>2 DEF Wish
  <2>18. v = [x EXCEPT !.asked = r]
    <3>1. v = [a EXCEPT !.walkTaskEvent = n, !.walkTask = NoTask, !.asked.calm = @ /\ ~Early(w)]
      BY <1>2, <2>1, <2>2, <2>4 DEF OnWalkComplete
    <3>2. x = [a EXCEPT !.walkTaskEvent = n, !.walkTask = NoTask]
      BY <2>5, <2>12
    <3>3. v = [x EXCEPT !.asked.calm = @ /\ ~Early(w)]
      BY <3>1, <3>2
    <3>4. v = [x EXCEPT !.asked.calm = b]
      BY <2>15, <3>3
    <3>. QED
      BY <2>16, <3>4
  <2>19. Quiet(x, v) /\ v.walkTask = x.walkTask
    BY <2>13, <2>17, <2>18, AskedSet
  <2>. QED
    BY <2>13, <2>14, <2>19, QuietOn
<1>. QED
  BY <1>1, <1>2

-----------------------------------------------------------------------------
(* The walk itself.                                                        *)

\* Creature::addEventWalk
LEMMA AddEventWalkOK ==
  ASSUME NEW w \in WalkRecord, IsFiniteSet(w.timers), Apart(w), NEW v, v = AddEventWalk(w)
  PROVE  /\ Base(v) /\ v.path = w.path /\ v.queue = w.queue /\ v.walkTask = w.walkTask
         /\ w.eventWalk = NoEvent \/ Checked(w) => Checked(v)
<1>1. CASE w.eventWalk # NoEvent
  BY <1>1 DEF AddEventWalk, Base, Going
<1>2. CASE w.eventWalk = NoEvent
  <2>1. PICK n : n = NewEvent(w)
    OBVIOUS
  <2>2. n \in Nat /\ n # NoEvent /\ n \notin {w.walkTaskEvent, w.actionTaskEvent, w.nextStepEvent}
    BY <2>1, NewIsNew
  <2>3. PICK t : t = [do |-> "check"]
    OBVIOUS
  <2>4. t \in Tasks /\ t.do = "check"
    BY <2>3 DEF Tasks
  <2>5. PICK a : a = AddEvent(w, n, t)
    OBVIOUS
  <2>6. v = [a EXCEPT !.eventWalk = n]
    BY <1>2, <2>1, <2>3, <2>5 DEF AddEventWalk
  <2>7. /\ a \in WalkRecord /\ IsFiniteSet(a.timers) /\ a.path = w.path /\ a.queue = w.queue
        /\ a.walkTask = w.walkTask /\ a.walkTaskEvent = w.walkTaskEvent
        /\ a.actionTaskEvent = w.actionTaskEvent /\ a.nextStepEvent = w.nextStepEvent
        /\ \E e \in a.timers : e.id = n /\ e.task = t
    BY <2>2, <2>4, <2>5, AddOther DEF SameWay
  <2>8. v \in WalkRecord
    BY <2>2, <2>6, <2>7 DEF WalkRecord
  <2>9. /\ v.eventWalk = n /\ v.timers = a.timers /\ v.path = a.path /\ v.queue = a.queue
        /\ v.walkTask = a.walkTask /\ v.walkTaskEvent = a.walkTaskEvent
        /\ v.actionTaskEvent = a.actionTaskEvent /\ v.nextStepEvent = a.nextStepEvent
    BY <2>6, <2>7 DEF WalkRecord
  <2>10. Base(v)
    BY <2>2, <2>7, <2>8, <2>9 DEF Base, Apart, Going
  <2>11. Checked(v)
    BY <2>4, <2>7, <2>9 DEF Checked
  <2>. QED
    BY <2>7, <2>9, <2>10, <2>11
<1>. QED
  BY <1>1, <1>2

\* Creature::stopEventWalk
LEMMA StopEventWalkKeeps ==
  ASSUME NEW w, Base(w), NEW v, v = StopEventWalk(w)
  PROVE  Keeps(w, v)
<1>1. CASE w.eventWalk = NoEvent
  BY <1>1 DEF StopEventWalk, Keeps
<1>2. CASE w.eventWalk # NoEvent
  <2>1. PICK s : s = StopEvent(w, w.eventWalk)
    OBVIOUS
  <2>2. PICK u : u = [s EXCEPT !.eventWalk = NoEvent]
    OBVIOUS
  <2>3. w.eventWalk \in Nat
    BY DEF Base, WalkRecord
  <2>4. /\ s \in WalkRecord /\ IsFiniteSet(s.timers) /\ s.path = w.path /\ s.queue = w.queue
        /\ s.walkTask = w.walkTask
    BY <2>1, <2>3, StopOther DEF SameWay
  <2>5. u \in WalkRecord
    BY <2>2, <2>4, NoEventIsNone DEF WalkRecord
  <2>6. /\ u.timers = s.timers /\ u.path = s.path /\ u.queue = s.queue
        /\ u.walkTask = s.walkTask /\ u.eventWalk = NoEvent
    BY <2>2, <2>4 DEF WalkRecord
  <2>7. CASE w.path = <<>>
    <3>1. v = u
      BY <1>2, <2>1, <2>2, <2>4, <2>6, <2>7 DEF StopEventWalk
    <3>2. Base(u) /\ Checked(u)
      BY <2>4, <2>5, <2>6, <2>7 DEF Base, Apart, Going, Checked
    <3>3. Waits(w) => Waits(u)
      BY <2>4, <2>6 DEF Waits
    <3>. QED
      BY <3>1, <3>2, <3>3 DEF Keeps
  <2>8. CASE w.path # <<>>
    <3>0. PICK p : p = <<>>
      OBVIOUS
    <3>1. PICK x : x = [u EXCEPT !.path = p]
      OBVIOUS
    <3>2. x \in WalkRecord
      <4>1. p \in Seq(Steps)
        BY <3>0, EmptySeq
      <4>. QED
        BY <2>5, <3>1, <4>1 DEF WalkRecord
    <3>3. x.eventWalk = u.eventWalk /\ x.path = p /\ x.timers = u.timers
      BY <2>5, <3>1 DEF WalkRecord
    <3>4. Base(x)
      BY <2>4, <2>6, <3>0, <3>2, <3>3 DEF Base, Apart, Going
    <3>5. v = OnWalkAborted(x)
      BY <1>2, <3>0, <2>1, <2>2, <2>4, <2>6, <2>8, <3>1 DEF StopEventWalk
    <3>6. Base(v) /\ v.eventWalk = NoEvent /\ v.walkTask = NoTask
      BY <2>6, <3>3, <3>4, <3>5, OnWalkAbortedQuiet DEF Quiet, SameWay
    <3>. QED
      BY <3>6 DEF Keeps, Checked, Waits
  <2>. QED
    BY <2>7, <2>8
<1>. QED
  BY <1>1, <1>2

\* Player::stopWalk
LEMMA StopWalkKeeps ==
  ASSUME NEW w, Base(w), NEW v, v = StopWalk(w)
  PROVE  Keeps(w, v)
BY StopEventWalkKeeps DEF StopWalk, Keeps

\* Dispatcher::addTask
LEMMA PostKeeps ==
  ASSUME NEW w, Base(w), NEW t \in Tasks, NEW v, v = Post(w, t)
  PROVE  /\ Keeps(w, v) /\ v.walkTask = w.walkTask
         /\ t.do = "auto" => \E e \in ToSet(v.queue) : e.task.do = "auto"
<1>. DEFINE x == [id |-> NoEvent, task |-> t]
            q == Append(w.queue, x)
<1>1. v = [w EXCEPT !.queue = q]
  BY DEF Post
<1>2. x \in Event /\ x.task = t
  BY NoEventIsNone DEF Event
<1>3. w \in WalkRecord /\ w.queue \in Seq(Event)
  BY DEF Base, WalkRecord
<1>. HIDE DEF x
<1>4. q \in Seq(Event) /\ \A e \in ToSet(w.queue) \cup {x} : e \in ToSet(q)
  <2>1. PICK o : o = w.queue
    OBVIOUS
  <2>2. PICK r : r = Append(o, x)
    OBVIOUS
  <2>3. o \in Seq(Event) /\ q = r
    BY <1>3, <2>1, <2>2
  <2>4. r \in Seq(Event) /\ \A e \in ToSet(o) \cup {x} : e \in ToSet(r)
    BY <1>2, <2>2, <2>3, AppendedToSet
  <2>. QED
    BY <2>1, <2>3, <2>4
<1>. HIDE DEF q
<1>5. v \in WalkRecord
  BY <1>1, <1>3, <1>4 DEF WalkRecord
<1>6. /\ v.queue = q /\ v.timers = w.timers /\ v.path = w.path /\ v.eventWalk = w.eventWalk
      /\ v.walkTask = w.walkTask /\ v.walkTaskEvent = w.walkTaskEvent
      /\ v.actionTaskEvent = w.actionTaskEvent /\ v.nextStepEvent = w.nextStepEvent
  BY <1>1, <1>3 DEF WalkRecord
<1>7. Base(v)
  BY <1>5, <1>6 DEF Base, Apart, Going
<1>8. Checked(w) => Checked(v)
  BY <1>4, <1>6 DEF Checked
<1>9. Waits(w) => Waits(v)
  BY <1>4, <1>6 DEF Waits
<1>. QED
  BY <1>2, <1>4, <1>6, <1>7, <1>8, <1>9 DEF Keeps

\* Creature::startAutoWalk
LEMMA StartAutoWalkOK ==
  ASSUME NEW w, Base(w), NEW p \in Seq(Steps) \ {<<>>}, NEW v, v = StartAutoWalk(w, p)
  PROVE  Base(v) /\ (Checked(w) => Checked(v)) /\ Waits(v)
<1>1. PICK u : u = [w EXCEPT !.path = p]
  OBVIOUS
<1>2. w \in WalkRecord
  BY DEF Base
<1>3. u \in WalkRecord
  BY <1>1, <1>2 DEF WalkRecord
<1>4. /\ u.path = p /\ u.timers = w.timers /\ u.queue = w.queue /\ u.eventWalk = w.eventWalk
      /\ u.walkTaskEvent = w.walkTaskEvent /\ u.actionTaskEvent = w.actionTaskEvent
      /\ u.nextStepEvent = w.nextStepEvent
  BY <1>1, <1>2 DEF WalkRecord
<1>5. IsFiniteSet(u.timers) /\ Apart(u) /\ (Checked(w) => Checked(u))
  BY <1>4 DEF Base, Apart, Checked
<1>6. Base(v) /\ v.path = p /\ (Checked(u) => Checked(v))
  BY <1>1, <1>3, <1>4, <1>5, AddEventWalkOK DEF StartAutoWalk
<1>. QED
  BY <1>5, <1>6 DEF Waits

LEMMA ReadySet ==
  ASSUME NEW w, Base(w), NEW b \in BOOLEAN, NEW v, v = [w EXCEPT !.ready = b]
  PROVE  Quiet(w, v) /\ v.place = w.place
<1>1. w \in WalkRecord
  BY DEF Base
<1>2. v \in WalkRecord
  BY <1>1 DEF WalkRecord
<1>3. v.timers = w.timers /\ v.walkTask = w.walkTask /\ SameWay(w, v) /\ v.place = w.place
  BY <1>1 DEF WalkRecord, SameWay
<1>4. /\ v.walkTaskEvent = w.walkTaskEvent /\ v.actionTaskEvent = w.actionTaskEvent
      /\ v.nextStepEvent = w.nextStepEvent
  BY <1>1 DEF WalkRecord
<1>. QED
  BY <1>2, <1>3, <1>4, Elsewhere

LEMMA RestedSet ==
  ASSUME NEW w, Base(w), NEW b \in BOOLEAN, NEW v, v = [w EXCEPT !.rested = b]
  PROVE  Quiet(w, v) /\ v.place = w.place
<1>1. w \in WalkRecord
  BY DEF Base
<1>2. v \in WalkRecord
  BY <1>1 DEF WalkRecord
<1>3. v.timers = w.timers /\ v.walkTask = w.walkTask /\ SameWay(w, v) /\ v.place = w.place
  BY <1>1 DEF WalkRecord, SameWay
<1>4. /\ v.walkTaskEvent = w.walkTaskEvent /\ v.actionTaskEvent = w.actionTaskEvent
      /\ v.nextStepEvent = w.nextStepEvent
  BY <1>1 DEF WalkRecord
<1>. QED
  BY <1>2, <1>3, <1>4, Elsewhere

LEMMA PlaceSet ==
  ASSUME NEW w, Base(w), NEW q \in Line, NEW v, v = [w EXCEPT !.place = q]
  PROVE  Quiet(w, v)
<1>1. w \in WalkRecord
  BY DEF Base
<1>2. v \in WalkRecord
  BY <1>1 DEF WalkRecord
<1>3. v.timers = w.timers /\ v.walkTask = w.walkTask /\ SameWay(w, v)
  BY <1>1 DEF WalkRecord, SameWay
<1>4. /\ v.walkTaskEvent = w.walkTaskEvent /\ v.actionTaskEvent = w.actionTaskEvent
      /\ v.nextStepEvent = w.nextStepEvent
  BY <1>1 DEF WalkRecord
<1>. QED
  BY <1>2, <1>3, <1>4, Elsewhere

\* The outside interferes once less.
LEMMA CommandsSpent ==
  ASSUME NEW w, Base(w), w.commands > 0, NEW v, v = [w EXCEPT !.commands = w.commands - 1]
  PROVE  Quiet(w, v) /\ v.place = w.place
<1>1. w \in WalkRecord
  BY DEF Base
<1>2. PICK c : c = w.commands - 1
  OBVIOUS
<1>3. c \in 0..MaxCommands
  BY <1>1, <1>2, WalkAssumption DEF WalkRecord
<1>4. v = [w EXCEPT !.commands = c]
  BY <1>2
<1>5. v \in WalkRecord
  BY <1>1, <1>3, <1>4 DEF WalkRecord
<1>6. v.timers = w.timers /\ v.walkTask = w.walkTask /\ SameWay(w, v) /\ v.place = w.place
  BY <1>1, <1>4 DEF WalkRecord, SameWay
<1>7. /\ v.walkTaskEvent = w.walkTaskEvent /\ v.actionTaskEvent = w.actionTaskEvent
      /\ v.nextStepEvent = w.nextStepEvent
  BY <1>1, <1>4 DEF WalkRecord
<1>. QED
  BY <1>5, <1>6, <1>7, Elsewhere

LEMMA TheBooleans == TRUE \in BOOLEAN /\ FALSE \in BOOLEAN
OBVIOUS

\* Player::onWalk
LEMMA OnStepQuiet ==
  ASSUME NEW w, Base(w), NEW v, v = OnStep(w)
  PROVE  Quiet(w, v)
<1>1. PICK u : u = SetNextActionTask(w, NoTask)
  OBVIOUS
<1>2. PICK no : no = FALSE
  OBVIOUS
<1>3. PICK x : x = [u EXCEPT !.ready = no]
  OBVIOUS
<1>4. Quiet(w, u)
  BY <1>1, SetNextActionQuiet
<1>5. Base(u) /\ no \in BOOLEAN
  BY <1>2, <1>4 DEF Quiet
<1>6. Quiet(u, x)
  BY <1>3, <1>5, ReadySet
<1>7. Quiet(w, x) /\ Base(x)
  BY <1>4, <1>6, QuietOn DEF Quiet
<1>8. v = x \/ v = GiveUp(x)
  BY <1>1, <1>2, <1>3 DEF OnStep
<1>. QED
  BY <1>7, <1>8, GiveUpQuiet, QuietOn

\* Game::internalMoveCreature
LEMMA MovesQuiet ==
  ASSUME NEW w, Base(w), NEW d, NEW v \in Moves(w, d)
  PROVE  Quiet(w, v)
<1>1. CASE v = w
  BY <1>1, QuietSelf
<1>2. CASE w.commands > 0 /\ v = [w EXCEPT !.commands = @ - 1]
  <2>1. v = [w EXCEPT !.commands = w.commands - 1]
    BY <1>2
  <2>. QED
    BY <1>2, <2>1, CommandsSpent
<1>3. CASE w.place + d \in Line /\ v = [w EXCEPT !.place = @ + d, !.rested = FALSE]
  <2>1. PICK q : q = w.place + d
    OBVIOUS
  <2>2. PICK no : no = FALSE
    OBVIOUS
  <2>3. PICK x : x = [w EXCEPT !.place = q]
    OBVIOUS
  <2>4. Quiet(w, x)
    BY <1>3, <2>1, <2>3, PlaceSet
  <2>5. Base(x)
    BY <2>4 DEF Quiet
  <2>6. v = [x EXCEPT !.rested = no]
    <3>1. v = [w EXCEPT !.place = q, !.rested = no]
      BY <1>3, <2>1, <2>2
    <3>. QED
      BY <2>3, <3>1
  <2>7. no \in BOOLEAN
    BY <2>2
  <2>8. Quiet(x, v)
    BY <2>5, <2>6, <2>7, RestedSet
  <2>. QED
    BY <2>4, <2>8, QuietOn
<1>. QED
  BY <1>1, <1>2, <1>3 DEF Moves

-----------------------------------------------------------------------------
(* The tasks.                                                              *)

\* Game::checkCreatureWalk: whatever task it is, afterwards the walk has a timer
\* if it has one at all.
LEMMA CheckOK ==
  ASSUME NEW w, Base(w), NEW v \in CheckCreatureWalk(w)
  PROVE  WalkerOK(v)
<1>. DEFINE stepped == IF w.rested /\ w.path # <<>>
                       THEN Moves(OnStep([w EXCEPT !.path = Tail(@)]), Head(w.path)) ELSE {w}
            After(s) == IF s.path = <<>> THEN OnWalkComplete(s) ELSE s
            Again(s) == IF s.eventWalk # NoEvent
                        THEN AddEventWalk([s EXCEPT !.eventWalk = NoEvent]) ELSE s
<1>1. PICK s \in stepped : v = Again(After(s))
  BY DEF CheckCreatureWalk
<1>2. Base(s)
  <2>1. CASE s = w
    BY <2>1
  <2>2. CASE w.path # <<>> /\ s \in Moves(OnStep([w EXCEPT !.path = Tail(@)]), Head(w.path))
    <3>1. PICK p : p = Tail(w.path)
      OBVIOUS
    <3>2. PICK u : u = [w EXCEPT !.path = p]
      OBVIOUS
    <3>3. PICK d : d = Head(w.path)
      OBVIOUS
    <3>4. PICK o : o = OnStep(u)
      OBVIOUS
    <3>5. w \in WalkRecord /\ p \in Seq(Steps)
      BY <2>2, <3>1 DEF Base, WalkRecord
    <3>6. u \in WalkRecord
      BY <3>2, <3>5 DEF WalkRecord
    <3>7. /\ u.timers = w.timers /\ u.eventWalk = w.eventWalk
          /\ u.walkTaskEvent = w.walkTaskEvent /\ u.actionTaskEvent = w.actionTaskEvent
          /\ u.nextStepEvent = w.nextStepEvent
      BY <3>2, <3>5 DEF WalkRecord
    <3>8. Base(u)
      BY <2>2, <3>6, <3>7 DEF Base, Apart, Going
    <3>9. Base(o)
      BY <3>4, <3>8, OnStepQuiet DEF Quiet
    <3>10. s \in Moves(o, d)
      BY <2>2, <3>1, <3>2, <3>3, <3>4
    <3>. QED
      BY <3>9, <3>10, MovesQuiet DEF Quiet
  <2>. QED
    BY <2>1, <2>2
<1>3. PICK a : a = After(s)
  OBVIOUS
<1>4. Base(a) /\ Waits(a)
  <2>1. CASE s.path = <<>>
    <3>1. a = OnWalkComplete(s)
      BY <1>3, <2>1
    <3>2. Quiet(s, a) /\ a.walkTask = NoTask
      BY <1>2, <3>1, OnWalkCompleteQuiet
    <3>. QED
      BY <3>2 DEF Quiet, Waits
  <2>2. CASE s.path # <<>>
    BY <1>2, <1>3, <2>2 DEF Waits
  <2>. QED
    BY <2>1, <2>2
<1>5. v = Again(a)
  BY <1>1, <1>3
<1>. HIDE DEF stepped, After
<1>6. CASE a.eventWalk = NoEvent
  BY <1>4, <1>5, <1>6 DEF WalkerOK, Checked
<1>7. CASE a.eventWalk # NoEvent
  <2>1. PICK z : z = [a EXCEPT !.eventWalk = NoEvent]
    OBVIOUS
  <2>2. a \in WalkRecord /\ IsFiniteSet(a.timers)
    BY <1>4 DEF Base
  <2>3. z \in WalkRecord
    BY <2>1, <2>2, NoEventIsNone DEF WalkRecord
  <2>4. /\ z.eventWalk = NoEvent /\ z.timers = a.timers /\ z.path = a.path /\ z.queue = a.queue
        /\ z.walkTask = a.walkTask
    BY <2>1, <2>2 DEF WalkRecord
  <2>5. v = AddEventWalk(z)
    BY <1>5, <1>7, <2>1
  <2>6. Apart(z) /\ IsFiniteSet(z.timers)
    BY <2>2, <2>4 DEF Apart
  <2>7. /\ Base(v) /\ v.path = z.path /\ v.queue = z.queue /\ v.walkTask = z.walkTask
        /\ Checked(v)
    BY <2>3, <2>4, <2>5, <2>6, AddEventWalkOK
  <2>. QED
    BY <1>4, <2>4, <2>7 DEF WalkerOK, Waits
<1>. QED
  BY <1>6, <1>7

LEMMA QuietOK ==
  ASSUME NEW w, WalkerOK(w), NEW v, Quiet(w, v)
  PROVE  WalkerOK(v)
BY QuietKeeps DEF WalkerOK, Keeps

LEMMA KeepsOK ==
  ASSUME NEW w, WalkerOK(w), NEW v, Keeps(w, v)
  PROVE  WalkerOK(v)
BY DEF WalkerOK, Keeps

\* Game::playerAutoWalk: its own task has left the queue, and there are steps.
LEMMA AutoWalkOK ==
  ASSUME NEW w, Base(w), Checked(w), NEW p \in Seq(Steps) \ {<<>>}, NEW v, v = PlayerAutoWalk(w, p)
  PROVE  WalkerOK(v)
<1>1. PICK u : u = SetNextWalkTask(w, NoTask)
  OBVIOUS
<1>2. Quiet(w, u)
  BY <1>1, SetNextWalkQuiet
<1>3. Base(u) /\ Checked(u)
  BY <1>2, QuietKeeps DEF Keeps
<1>. QED
  BY <1>1, <1>3, StartAutoWalkOK DEF PlayerAutoWalk, WalkerOK

\* Game::playerMove
LEMMA MoveOK ==
  ASSUME NEW w, WalkerOK(w), NEW d \in Steps, NEW v \in PlayerMove(w, d)
  PROVE  WalkerOK(v)
<1>1. PICK u : u = StopWalk(w)
  OBVIOUS
<1>2. WalkerOK(u)
  BY <1>1, StopWalkKeeps, KeepsOK DEF WalkerOK
<1>3. CASE ~u.rested
  <2>1. PICK no : no = FALSE
    OBVIOUS
  <2>2. PICK x : x = [u EXCEPT !.ready = no]
    OBVIOUS
  <2>3. PICK t : t = [do |-> "move", dir |-> d]
    OBVIOUS
  <2>4. t \in Tasks \cup {NoTask}
    BY <2>3 DEF Tasks
  <2>5. no \in BOOLEAN
    BY <2>1
  <2>6. WalkerOK(x)
    BY <1>2, <2>2, <2>5, ReadySet, QuietOK DEF WalkerOK
  <2>7. v = SetNextWalkTask(x, t)
    BY <1>1, <1>3, <2>1, <2>2, <2>3 DEF PlayerMove
  <2>. QED
    BY <2>4, <2>6, <2>7, SetNextWalkQuiet, QuietOK DEF WalkerOK
<1>4. CASE u.rested
  <2>1. PICK x : x = OnStep(u)
    OBVIOUS
  <2>2. v \in Moves(x, d)
    BY <1>1, <1>4, <2>1 DEF PlayerMove
  <2>3. WalkerOK(x)
    BY <1>2, <2>1, OnStepQuiet, QuietOK DEF WalkerOK
  <2>. QED
    BY <2>2, <2>3, MovesQuiet, QuietOK DEF WalkerOK
<1>. QED
  BY <1>3, <1>4

LEMMA GiveUpOK ==
  ASSUME NEW w, WalkerOK(w), NEW v, v = GiveUp(w)
  PROVE  WalkerOK(v)
BY GiveUpQuiet, QuietOK DEF WalkerOK

\* Game::checkCreatureAttack
LEMMA AttackOK ==
  ASSUME NEW w, WalkerOK(w), NEW v, v = CheckCreatureAttack(w)
  PROVE  WalkerOK(v)
<1>1. PICK t : t = [do |-> "attack"]
  OBVIOUS
<1>2. PICK u : u = SetNextActionTask(w, t)
  OBVIOUS
<1>3. t \in Tasks \cup {NoTask}
  BY <1>1 DEF Tasks
<1>4. WalkerOK(u)
  BY <1>2, <1>3, SetNextActionQuiet, QuietOK DEF WalkerOK
<1>5. v = w \/ v = u \/ v = GiveUp(u)
  BY <1>1, <1>2 DEF CheckCreatureAttack
<1>. QED
  BY <1>4, <1>5, GiveUpOK

\* The way to the object, for who is not there yet.
LEMMA PathToOK ==
  ASSUME NEW w, Base(w), ~InRange(w), NEW p, p = PathTo(w)
  PROVE  p \in Seq(Steps) \ {<<>>}
<1>1. PICK k : k = Far - 1 - w.place
  OBVIOUS
<1>2. k \in Nat /\ k > 0
  BY <1>1, WalkAssumption, SMTT(30) DEF InRange, Base, WalkRecord, Line
<1>3. p = [i \in 1..k |-> 1]
  BY <1>1 DEF PathTo
<1>4. p \in Seq(Steps) /\ Len(p) = k
  BY <1>2, <1>3 DEF Steps
<1>. QED
  BY <1>2, <1>4, EmptySeq

\* What waits for a walk is set together with the walk.
LEMMA WalkToOK ==
  ASSUME NEW w, WalkerOK(w), ~InRange(w), NEW r \in Asked, NEW v, v = WalkTo(w, r)
  PROVE  WalkerOK(v)
<1>1. PICK p : p = PathTo(w)
  OBVIOUS
<1>2. PICK t : t = [do |-> "auto", path |-> p]
  OBVIOUS
<1>3. PICK x : x = Post(w, t)
  OBVIOUS
<1>4. PICK q : q = RequestTask(r)
  OBVIOUS
<1>5. Base(w)
  BY DEF WalkerOK
<1>6. t \in Tasks /\ t.do = "auto"
  BY <1>1, <1>2, <1>5, PathToOK DEF Tasks
<1>7. Base(x) /\ Checked(x) /\ \E e \in ToSet(x.queue) : e.task.do = "auto"
  BY <1>3, <1>5, <1>6, PostKeeps DEF WalkerOK, Keeps
<1>8. v = SetNextWalkActionTask(x, q)
  BY <1>1, <1>2, <1>3, <1>4 DEF WalkTo
<1>9. q \in Waiting
  BY <1>4, TasksAndWaiting
<1>10. Base(v) /\ SameWay(x, v) /\ TimerStays(x, v)
  BY <1>7, <1>8, <1>9, SetNextWalkActionOK
<1>11. Checked(v)
  BY <1>7, <1>10 DEF Checked, SameWay, TimerStays
<1>12. Waits(v)
  BY <1>7, <1>10 DEF Waits, SameWay
<1>. QED
  BY <1>10, <1>11, <1>12 DEF WalkerOK

LEMMA DeferOK ==
  ASSUME NEW w, WalkerOK(w), NEW r \in Asked, NEW v, v = Defer(w, r)
  PROVE  WalkerOK(v)
BY TasksAndWaiting, SetNextActionQuiet, QuietOK DEF Defer, WalkerOK

LEMMA DropOK ==
  ASSUME NEW w, WalkerOK(w), NEW v, v = SetNextActionTask(w, NoTask)
  PROVE  WalkerOK(v) /\ v.place = w.place
<1>1. WalkerOK(v)
  BY SetNextActionQuiet, QuietOK DEF WalkerOK
<1>2. v.place = w.place
  BY DEF SetNextActionTask, StopEvent, WalkerOK, Base, WalkRecord
<1>. QED
  BY <1>1, <1>2

LEMMA AnswerOK ==
  ASSUME NEW w, WalkerOK(w), NEW r, NEW v, v = Answer(w, r)
  PROVE  WalkerOK(v)
<1>1. PICK a : a = IF w.asked.what = r THEN NoRequest ELSE w.asked
  OBVIOUS
<1>2. a \in Wish
  BY <1>1, NothingAsked DEF WalkerOK, Base, WalkRecord
<1>3. v = [w EXCEPT !.asked = a]
  BY <1>1 DEF Answer
<1>. QED
  BY <1>2, <1>3, AskedSet, QuietOK DEF WalkerOK

\* Actions::useItem
LEMMA UseItemOK ==
  ASSUME NEW w, WalkerOK(w), NEW r, NEW v, v = UseItem(w, r)
  PROVE  WalkerOK(v)
<1>1. PICK u : u = SetNextActionTask(w, NoTask)
  OBVIOUS
<1>2. PICK x : x = StopWalk(u)
  OBVIOUS
<1>3. PICK no : no = FALSE
  OBVIOUS
<1>4. PICK y : y = [x EXCEPT !.ready = no]
  OBVIOUS
<1>5. WalkerOK(u)
  BY <1>1, DropOK
<1>6. WalkerOK(x)
  BY <1>2, <1>5, StopWalkKeeps, KeepsOK DEF WalkerOK
<1>7. no \in BOOLEAN
  BY <1>3
<1>8. WalkerOK(y)
  BY <1>4, <1>6, <1>7, ReadySet, QuietOK DEF WalkerOK
<1>9. v = Answer(y, r)
  BY <1>1, <1>2, <1>3, <1>4 DEF UseItem
<1>. QED
  BY <1>8, <1>9, AnswerOK

\* Game::playerMoveCreature
LEMMA MoveCreatureOK ==
  ASSUME NEW w, WalkerOK(w), NEW r \in Asked, NEW v, v = PlayerMoveCreature(w, r)
  PROVE  WalkerOK(v)
<1>1. PICK u : u = SetNextActionTask(w, NoTask)
  OBVIOUS
<1>2. WalkerOK(u) /\ u.place = w.place
  BY <1>1, DropOK
<1>3. CASE ~w.ready
  BY <1>3, DeferOK DEF PlayerMoveCreature
<1>4. CASE w.ready /\ ~InRange(w)
  <2>1. v = WalkTo(u, r)
    BY <1>1, <1>4 DEF PlayerMoveCreature
  <2>2. ~InRange(u)
    BY <1>2, <1>4 DEF InRange
  <2>. QED
    BY <1>2, <2>1, <2>2, WalkToOK
<1>5. CASE w.ready /\ InRange(w)
  <2>1. v = Answer(u, r)
    BY <1>1, <1>5 DEF PlayerMoveCreature
  <2>. QED
    BY <1>2, <2>1, AnswerOK
<1>. QED
  BY <1>3, <1>4, <1>5

\* Game::playerMoveThing
LEMMA MoveThingOK ==
  ASSUME NEW w, WalkerOK(w), NEW r \in Asked, NEW v, v = PlayerMoveThing(w, r)
  PROVE  WalkerOK(v)
<1>1. CASE InRange(w)
  BY <1>1, DeferOK DEF PlayerMoveThing
<1>2. CASE ~InRange(w)
  BY <1>2, MoveCreatureOK DEF PlayerMoveThing
<1>. QED
  BY <1>1, <1>2

\* The requests walk, wait or do what was asked.
LEMMA RequestOK ==
  ASSUME NEW w, WalkerOK(w), NEW r \in Asked, NEW v, v = Request(w, r)
  PROVE  WalkerOK(v)
<1>1. r \in {"use", "push", "rotate"}
  BY WalkAssumption DEF Asked
<1>2. CASE r = "use"
  <2>1. v = PlayerUseItem(w, r)
    BY <1>2 DEF Request
  <2>2. CASE ~InRange(w)
    BY <2>1, <2>2, WalkToOK DEF PlayerUseItem
  <2>3. CASE InRange(w) /\ ~w.ready
    BY <2>1, <2>3, DeferOK DEF PlayerUseItem
  <2>4. CASE InRange(w) /\ w.ready
    BY <2>1, <2>4, UseItemOK DEF PlayerUseItem
  <2>. QED
    BY <2>2, <2>3, <2>4
<1>3. CASE r = "push"
  BY <1>3, MoveCreatureOK DEF Request
<1>4. CASE r = "rotate"
  <2>1. v = PlayerRotateItem(w, r)
    BY <1>4 DEF Request
  <2>2. CASE InRange(w)
    BY <2>1, <2>2, AnswerOK DEF PlayerRotateItem
  <2>3. CASE ~InRange(w)
    BY <2>1, <2>3, WalkToOK DEF PlayerRotateItem
  <2>. QED
    BY <2>2, <2>3
<1>. QED
  BY <1>1, <1>2, <1>3, <1>4

\* A walker whose task t has left the queue.
Popped(w, t) ==
  /\ Base(w) /\ t \in Tasks
  /\ t.do # "check" => Checked(w)
  /\ t.do # "auto" => Waits(w)

\* Whatever the task, the walk and the request are in order after it.
LEMMA PerformOK ==
  ASSUME NEW w, NEW t, Popped(w, t), NEW v \in Perform(w, t)
  PROVE  WalkerOK(v)
<1>1. Base(w) /\ t \in Tasks
  BY DEF Popped
<1>2. CASE t \in [do : {"check", "attack"}] /\ t.do = "check"
  BY <1>1, <1>2, CheckOK DEF Perform
<1>3. CASE t \in [do : {"check", "attack"}] /\ t.do = "attack"
  <2>1. WalkerOK(w)
    BY <1>3 DEF Popped, WalkerOK
  <2>. QED
    BY <1>3, <2>1, AttackOK DEF Perform
<1>4. CASE t \in [do : {"move"}, dir : Steps]
  <2>1. t.do = "move" /\ t.dir \in Steps
    BY <1>4
  <2>2. WalkerOK(w)
    BY <2>1 DEF Popped, WalkerOK
  <2>3. v \in PlayerMove(w, t.dir)
    BY <2>1 DEF Perform
  <2>. QED
    BY <2>1, <2>2, <2>3, MoveOK
<1>5. CASE t \in [do : {"auto"}, path : Seq(Steps) \ {<<>>}]
  <2>1. t.do = "auto" /\ t.path \in Seq(Steps) \ {<<>>}
    BY <1>5
  <2>2. Checked(w)
    BY <2>1 DEF Popped
  <2>3. v = PlayerAutoWalk(w, t.path)
    BY <2>1 DEF Perform
  <2>. QED
    BY <1>1, <2>1, <2>2, <2>3, AutoWalkOK
<1>6. CASE t \in [do : {"request", "thing"}, what : Asked]
  <2>1. t.do \in {"request", "thing"} /\ t.what \in Asked
    BY <1>6
  <2>2. WalkerOK(w)
    BY <2>1 DEF Popped, WalkerOK
  <2>3. CASE t.do = "request"
    <3>1. v = Request(w, t.what)
      BY <2>3 DEF Perform
    <3>. QED
      BY <2>1, <2>2, <3>1, RequestOK
  <2>4. CASE t.do = "thing"
    <3>1. v = PlayerMoveThing(w, t.what)
      BY <2>4 DEF Perform
    <3>. QED
      BY <2>1, <2>2, <3>1, MoveThingOK
  <2>. QED
    BY <2>1, <2>3, <2>4
<1>. QED
  BY <1>1, <1>2, <1>3, <1>4, <1>5, <1>6 DEF Tasks

-----------------------------------------------------------------------------
(* The steps of the game.                                                  *)

\* The inductive invariant.
WalkIInv == WalkerOK(Walker)

LEMMA WalkerParts ==
  /\ Walker.place = place /\ Walker.path = path /\ Walker.rested = rested /\ Walker.ready = ready
  /\ Walker.eventWalk = eventWalk /\ Walker.walkTask = walkTask
  /\ Walker.timers = timers /\ Walker.queue = queue /\ Walker.commands = commands
  /\ Walker.asked = asked /\ Walker.habit = habit
BY DEF Walker

\* A walker that has forgotten identifiers of events that have run.
Renamed(w, a, b, c) ==
  [place |-> w.place, path |-> w.path, rested |-> w.rested, ready |-> w.ready,
   eventWalk |-> w.eventWalk, walkTask |-> w.walkTask, walkTaskEvent |-> a,
   actionTaskEvent |-> b, nextStepEvent |-> c, timers |-> w.timers, queue |-> w.queue,
   commands |-> w.commands, asked |-> w.asked, habit |-> w.habit]

LEMMA RenamedOK ==
  ASSUME NEW w, WalkerOK(w), NEW a \in {w.walkTaskEvent, NoEvent},
         NEW b \in {w.actionTaskEvent, NoEvent}, NEW c \in {w.nextStepEvent, NoEvent},
         NEW v, v = Renamed(w, a, b, c)
  PROVE  WalkerOK(v)
<1>1. w \in WalkRecord
  BY DEF WalkerOK, Base
<1>2. a \in Nat /\ b \in Nat /\ c \in Nat
  BY <1>1, NoEventIsNone DEF WalkRecord
<1>3. v \in WalkRecord
  BY <1>1, <1>2 DEF WalkRecord, Renamed
<1>4. /\ v.path = w.path /\ v.eventWalk = w.eventWalk /\ v.walkTask = w.walkTask
      /\ v.timers = w.timers /\ v.queue = w.queue
      /\ v.walkTaskEvent = a /\ v.actionTaskEvent = b /\ v.nextStepEvent = c
  BY DEF Renamed
<1>5. Base(v)
  BY <1>3, <1>4 DEF WalkerOK, Base, Apart, Going
<1>6. Checked(v) /\ Waits(v)
  BY <1>4 DEF WalkerOK, Checked, Waits
<1>. QED
  BY <1>5, <1>6 DEF WalkerOK

\* The variables take the values of a walker.
LEMMA Becomes ==
  ASSUME NEW w, WalkerOK(w), WalkerBecomes(w)
  PROVE  WalkerOK(Walker)'
<1>1. PICK a : a = Live(w, w.walkTaskEvent)
  OBVIOUS
<1>2. PICK b : b = Live(w, w.actionTaskEvent)
  OBVIOUS
<1>3. PICK c : c = Live(w, w.nextStepEvent)
  OBVIOUS
<1>4. a \in {w.walkTaskEvent, NoEvent} /\ b \in {w.actionTaskEvent, NoEvent}
      /\ c \in {w.nextStepEvent, NoEvent}
  BY <1>1, <1>2, <1>3 DEF Live
<1>5. PICK v : v = Renamed(w, a, b, c)
  OBVIOUS
<1>6. Walker' = v
  BY <1>1, <1>2, <1>3, <1>5 DEF WalkerBecomes, Walker, Renamed
<1>7. WalkerOK(v)
  BY <1>4, <1>5, RenamedOK
<1>. QED
  BY <1>6, <1>7

\* The scheduler hands an event over: the timer of the walk is now in the queue.
LEMMA ExpireStep ==
  ASSUME NEW id, WalkIInv, Expire(id)
  PROVE  WalkIInv'
<1>1. PICK w : w = Walker
  OBVIOUS
<1>2. WalkerOK(w) /\ w.timers = timers /\ w.queue = queue
  BY <1>1, WalkerParts DEF WalkIInv
<1>3. PICK e \in timers : WalkerBecomes([Walker EXCEPT !.timers = @ \ {e}, !.queue = Append(@, e)])
  BY DEF Expire
<1>4. PICK s : s = w.timers \ {e}
  OBVIOUS
<1>5. PICK q : q = Append(w.queue, e)
  OBVIOUS
<1>6. PICK v : v = [w EXCEPT !.timers = s, !.queue = q]
  OBVIOUS
<1>7. w \in WalkRecord /\ IsFiniteSet(w.timers) /\ e \in w.timers /\ e \in Event
      /\ w.queue \in Seq(Event)
  BY <1>2 DEF WalkerOK, Base, WalkRecord
<1>8. s \in SUBSET Event /\ IsFiniteSet(s) /\ \A x \in w.timers : x \in s \/ x = e
  BY <1>4, <1>7, FS_Subset DEF WalkRecord
<1>9. q \in Seq(Event) /\ \A x \in ToSet(w.queue) \cup {e} : x \in ToSet(q)
  <2>1. PICK o : o = w.queue
    OBVIOUS
  <2>2. o \in Seq(Event) /\ q = Append(o, e)
    BY <1>5, <1>7, <2>1
  <2>3. q \in Seq(Event) /\ \A x \in ToSet(o) \cup {e} : x \in ToSet(q)
    BY <1>7, <2>2, AppendedToSet
  <2>. QED
    BY <2>1, <2>3
<1>10. v \in WalkRecord
  BY <1>6, <1>7, <1>8, <1>9 DEF WalkRecord
<1>11. /\ v.timers = s /\ v.queue = q /\ v.path = w.path /\ v.eventWalk = w.eventWalk
       /\ v.walkTask = w.walkTask /\ v.walkTaskEvent = w.walkTaskEvent
       /\ v.actionTaskEvent = w.actionTaskEvent /\ v.nextStepEvent = w.nextStepEvent
  BY <1>6, <1>7 DEF WalkRecord
<1>12. Base(v)
  BY <1>2, <1>8, <1>10, <1>11 DEF WalkerOK, Base, Apart, Going
<1>13. Checked(v)
  BY <1>2, <1>8, <1>9, <1>11 DEF WalkerOK, Checked
<1>14. Waits(v)
  BY <1>2, <1>9, <1>11 DEF WalkerOK, Waits
<1>15. WalkerOK(v)
  BY <1>12, <1>13, <1>14 DEF WalkerOK
<1>16. WalkerBecomes(v)
  BY <1>1, <1>3, <1>4, <1>5, <1>6
<1>. QED
  BY <1>15, <1>16, Becomes DEF WalkIInv

\* The dispatcher runs the first task of the queue.
LEMMA RunOneStep ==
  ASSUME WalkIInv, RunOne
  PROVE  WalkIInv'
<1>1. PICK w : w = Walker
  OBVIOUS
<1>2. WalkerOK(w) /\ w.queue = queue /\ queue # <<>>
  BY <1>1, WalkerParts DEF WalkIInv, RunOne
<1>3. PICK e : e = Head(w.queue)
  OBVIOUS
<1>4. PICK q : q = Tail(w.queue)
  OBVIOUS
<1>5. PICK t : t = e.task
  OBVIOUS
<1>6. PICK u : u = [w EXCEPT !.queue = q]
  OBVIOUS
<1>7. w \in WalkRecord /\ w.queue \in Seq(Event) /\ w.queue # <<>>
  BY <1>2 DEF WalkerOK, Base, WalkRecord
<1>8. /\ e \in Event /\ q \in Seq(Event)
      /\ \A x \in ToSet(w.queue) : x = e \/ x \in ToSet(q)
  BY <1>3, <1>4, <1>7, PoppedFromSet
<1>9. u \in WalkRecord
  BY <1>6, <1>7, <1>8 DEF WalkRecord
<1>10. /\ u.queue = q /\ u.timers = w.timers /\ u.path = w.path /\ u.eventWalk = w.eventWalk
       /\ u.walkTask = w.walkTask /\ u.walkTaskEvent = w.walkTaskEvent
       /\ u.actionTaskEvent = w.actionTaskEvent /\ u.nextStepEvent = w.nextStepEvent
  BY <1>6, <1>7 DEF WalkRecord
<1>11. t \in Tasks
  BY <1>5, <1>8 DEF Event
<1>12. Base(u)
  BY <1>2, <1>9, <1>10 DEF WalkerOK, Base, Apart, Going
<1>13. t.do # "check" => Checked(u)
  BY <1>2, <1>5, <1>8, <1>10 DEF WalkerOK, Checked
<1>14. t.do # "auto" => Waits(u)
  BY <1>2, <1>5, <1>8, <1>10 DEF WalkerOK, Waits
<1>15. Popped(u, t)
  BY <1>11, <1>12, <1>13, <1>14 DEF Popped
<1>16. PICK v \in Perform(u, t) : WalkerBecomes(v)
  BY <1>1, <1>2, <1>3, <1>4, <1>5, <1>6 DEF RunOne
<1>. QED
  BY <1>15, <1>16, PerformOK, Becomes DEF WalkIInv

\* The outside interferes: one command less.
LEMMA InterferesStep ==
  ASSUME NEW w, WalkerOK(w), Interferes(w)
  PROVE  WalkIInv'
<1>1. PICK v : v = [w EXCEPT !.commands = w.commands - 1]
  OBVIOUS
<1>2. w.commands > 0
  BY DEF Interferes
<1>3. WalkerOK(v)
  BY <1>1, <1>2, CommandsSpent, QuietOK DEF WalkerOK
<1>4. WalkerBecomes(v)
  <2>1. v = [w EXCEPT !.commands = @ - 1]
    BY <1>1
  <2>. QED
    BY <2>1 DEF Interferes
<1>. QED
  BY <1>3, <1>4, Becomes DEF WalkIInv

\* What the player waits for changes with what the outside does.
LEMMA InterferesAsking ==
  ASSUME NEW w, WalkerOK(w), NEW r \in Wish,
         Interferes([w EXCEPT !.asked = r])
  PROVE  WalkIInv'
<1>1. PICK v : v = [w EXCEPT !.asked = r]
  OBVIOUS
<1>2. WalkerOK(v)
  BY <1>1, AskedSet, QuietOK DEF WalkerOK
<1>3. Interferes(v)
  BY <1>1
<1>. QED
  BY <1>2, <1>3, InterferesStep

\* A packet of the client becomes a task.
LEMMA PacketStep ==
  ASSUME WalkIInv, NEW t \in Tasks, NEW r \in Wish,
         Interferes([Post(Walker, t) EXCEPT !.asked = r])
  PROVE  WalkIInv'
<1>1. PICK w : w = Walker
  OBVIOUS
<1>2. PICK u : u = Post(w, t)
  OBVIOUS
<1>3. WalkerOK(u)
  BY <1>1, <1>2, PostKeeps, KeepsOK DEF WalkIInv, WalkerOK
<1>4. Interferes([u EXCEPT !.asked = r])
  BY <1>1, <1>2
<1>. QED
  BY <1>3, <1>4, InterferesAsking

LEMMA OutsideStep ==
  ASSUME WalkIInv, Outside
  PROVE  WalkIInv'
<1>1. PICK w : w = Walker
  OBVIOUS
<1>2. WalkerOK(w) /\ NoRequest \in Wish
  BY <1>1, NothingAsked DEF WalkIInv
<1>3. ASSUME NEW r \in Requests, ClientRequest(r) PROVE WalkIInv'
  <2>1. r \in Asked
    BY <1>1, <1>2, <1>3, WalkerParts DEF ClientRequest, WalkerOK, Base, WalkRecord
  <2>2. PICK t : t = Packet(r)
    OBVIOUS
  <2>3. t \in Tasks
    BY <2>1, <2>2 DEF Packet, Tasks
  <2>4. PICK b : b = Calm
    OBVIOUS
  <2>5. PICK q : q = [what |-> r, calm |-> b]
    OBVIOUS
  <2>6. b \in BOOLEAN
    BY <2>4 DEF Calm
  <2>7. q \in Wish
    BY <1>3, <2>5, <2>6 DEF Wish
  <2>8. Interferes([Post(Walker, t) EXCEPT !.asked = q])
    BY <1>3, <2>2, <2>4, <2>5 DEF ClientRequest
  <2>. QED
    BY <2>3, <2>7, <2>8, PacketStep
<1>4. ASSUME NEW d \in {-1, 1}, ClientMove(d) PROVE WalkIInv'
  <2>1. PICK t : t = [do |-> "move", dir |-> d]
    OBVIOUS
  <2>2. t \in Tasks
    BY <2>1 DEF Tasks, Steps
  <2>3. Interferes([Post(Walker, t) EXCEPT !.asked = NoRequest])
    BY <1>4, <2>1 DEF ClientMove, GiveUp
  <2>. QED
    BY <1>2, <2>2, <2>3, PacketStep
<1>5. ASSUME NEW d \in {-1, 1}, ClientAutoWalk(<<d>>) PROVE WalkIInv'
  <2>1. PICK p : p = <<d>>
    OBVIOUS
  <2>2. PICK t : t = [do |-> "auto", path |-> p]
    OBVIOUS
  <2>3. p \in Seq(Steps) \ {<<>>}
    BY <2>1 DEF Steps
  <2>4. t \in Tasks
    BY <2>2, <2>3 DEF Tasks
  <2>5. Interferes([Post(Walker, t) EXCEPT !.asked = NoRequest])
    BY <1>5, <2>1, <2>2 DEF ClientAutoWalk, GiveUp
  <2>. QED
    BY <1>2, <2>4, <2>5, PacketStep
<1>6. ASSUME ClientStop PROVE WalkIInv'
  <2>1. PICK u : u = StopWalk(w)
    OBVIOUS
  <2>2. WalkerOK(u)
    BY <1>2, <2>1, StopWalkKeeps, KeepsOK DEF WalkerOK
  <2>3. Interferes([u EXCEPT !.asked = NoRequest])
    BY <1>1, <1>6, <2>1 DEF ClientStop, GiveUp
  <2>. QED
    BY <1>2, <2>2, <2>3, InterferesAsking
<1>7. ASSUME Swing PROVE WalkIInv'
  <2>1. PICK u : u = CheckCreatureAttack(w)
    OBVIOUS
  <2>2. WalkerOK(u)
    BY <1>2, <2>1, AttackOK
  <2>3. Interferes(u)
    BY <1>1, <1>7, <2>1 DEF Swing
  <2>. QED
    BY <2>2, <2>3, InterferesStep
<1>8. ASSUME NEW q \in {0}, Teleported(q) PROVE WalkIInv'
  <2>1. PICK u : u = StopEventWalk(w)
    OBVIOUS
  <2>2. WalkerOK(u)
    BY <1>2, <2>1, StopEventWalkKeeps, KeepsOK DEF WalkerOK
  <2>3. PICK x : x = [u EXCEPT !.place = q]
    OBVIOUS
  <2>4. q \in Line
    BY WalkAssumption DEF Line
  <2>5. WalkerOK(x)
    BY <2>2, <2>3, <2>4, PlaceSet, QuietOK DEF WalkerOK
  <2>6. Interferes(x) \/ Interferes([x EXCEPT !.asked = NoRequest])
    BY <1>1, <1>8, <2>1, <2>3 DEF Teleported, GiveUp
  <2>. QED
    BY <1>2, <2>5, <2>6, InterferesStep, InterferesAsking
<1>. QED
  BY <1>3, <1>4, <1>5, <1>6, <1>7, <1>8 DEF Outside

\* Time passes.
LEMMA ClockStep ==
  ASSUME WalkIInv, Rest \/ Ready
  PROVE  WalkIInv'
<1>1. PICK w : w = Walker
  OBVIOUS
<1>2. PICK yes : yes = TRUE
  OBVIOUS
<1>3. WalkerOK(w)
  BY <1>1 DEF WalkIInv
<1>4. yes \in BOOLEAN
  BY <1>2
<1>5. CASE Rest
  <2>1. PICK v : v = [w EXCEPT !.rested = yes]
    OBVIOUS
  <2>2. WalkerOK(v)
    BY <1>3, <1>4, <2>1, RestedSet, QuietOK DEF WalkerOK
  <2>3. WalkerBecomes(v)
    BY <1>1, <1>2, <1>5, <2>1 DEF Rest
  <2>. QED
    BY <2>2, <2>3, Becomes DEF WalkIInv
<1>6. CASE Ready
  <2>1. PICK v : v = [w EXCEPT !.ready = yes]
    OBVIOUS
  <2>2. WalkerOK(v)
    BY <1>3, <1>4, <2>1, ReadySet, QuietOK DEF WalkerOK
  <2>3. WalkerBecomes(v)
    BY <1>1, <1>2, <1>6, <2>1 DEF Ready
  <2>. QED
    BY <2>2, <2>3, Becomes DEF WalkIInv
<1>. QED
  BY <1>5, <1>6

LEMMA WalkStarts ==
  ASSUME WalkInit
  PROVE  WalkIInv
<1>1. PICK w : w = Walker
  OBVIOUS
<1>2. PICK p : p = <<>>
  OBVIOUS
<1>3. PICK q : q = <<>>
  OBVIOUS
<1>4. p \in Seq(Steps) /\ q \in Seq(Event)
  BY <1>2, <1>3, EmptySeq
<1>5. PICK c : c = MaxCommands
  OBVIOUS
<1>6. 0 \in Line /\ c \in 0..MaxCommands
  BY <1>5, WalkAssumption DEF Line
<1>7. w = [place |-> 0, path |-> p, rested |-> TRUE, ready |-> TRUE,
           eventWalk |-> NoEvent, walkTask |-> NoTask, walkTaskEvent |-> NoEvent,
           actionTaskEvent |-> NoEvent, nextStepEvent |-> NoEvent,
           timers |-> {}, queue |-> q, commands |-> c,
           asked |-> NoRequest, habit |-> habit]
  BY <1>1, <1>2, <1>3, <1>5 DEF WalkInit, Walker
<1>8. habit \in Asked
  BY DEF WalkInit, Asked
<1>9. w \in WalkRecord
  BY <1>4, <1>6, <1>7, <1>8, NoEventIsNone, TasksAndWaiting, NothingAsked DEF WalkRecord
<1>10. w.timers = {} /\ w.path = p /\ w.eventWalk = NoEvent /\ w.walkTask = NoTask
  BY <1>7
<1>11. IsFiniteSet(w.timers)
  BY <1>10, FS_EmptySet
<1>12. WalkerOK(w)
  BY <1>2, <1>9, <1>10, <1>11 DEF WalkerOK, Base, Apart, Going, Checked, Waits
<1>. QED
  BY <1>1, <1>12 DEF WalkIInv

LEMMA WalkStep ==
  ASSUME WalkIInv, [WalkNext]_walkVars
  PROVE  WalkIInv'
<1>1. CASE UNCHANGED walkVars
  <2>1. Walker' = Walker
    BY <1>1 DEF walkVars, Walker
  <2>. QED
    BY <2>1 DEF WalkIInv
<1>2. CASE WalkNext
  BY <1>2, OutsideStep, ExpireStep, RunOneStep, ClockStep DEF WalkNext
<1>. QED
  BY <1>1, <1>2

\* Whatever is stopped, started again or handed to the dispatcher meanwhile, the
\* timer of a walk is apart from the others and has not run.
THEOREM WalkInvariant == WalkSpec => []WalkIInv
<1>1. WalkInit => WalkIInv
  BY WalkStarts
<1>2. WalkIInv /\ [WalkNext]_walkVars => WalkIInv'
  BY WalkStep
<1>. QED
  BY <1>1, <1>2, PTL DEF WalkSpec

LEMMA WalkersWalk ==
  ASSUME WalkIInv
  PROVE  WalkConsistent
<1>1. PICK w : w = Walker
  OBVIOUS
<1>2. /\ w.place = place /\ w.path = path /\ w.rested = rested /\ w.ready = ready
      /\ w.eventWalk = eventWalk /\ w.walkTask = walkTask
      /\ w.timers = timers /\ w.queue = queue /\ w.commands = commands /\ w.asked = asked
  BY <1>1, WalkerParts
<1>3. w \in WalkRecord /\ Going(w) /\ Checked(w) /\ Waits(w)
  BY <1>1 DEF WalkIInv, WalkerOK, Base
<1>4. WalkTypeOK
  <2>1. /\ w.place \in Line /\ w.path \in Seq(Steps) /\ w.rested \in BOOLEAN /\ w.ready \in BOOLEAN
        /\ w.commands \in 0..MaxCommands /\ w.asked \in Wish
    BY <1>3 DEF WalkRecord
  <2>2. \A k \in DOMAIN w.path : w.path[k] \in {-1, 1}
    BY <2>1, ElementOfSeq, LenProperties DEF Steps
  <2>. QED
    BY <1>2, <2>1, <2>2 DEF WalkTypeOK, Wish
<1>5. WalkGoesOn
  BY <1>2, <1>3 DEF WalkGoesOn, Going, Checked
<1>6. WaitsForWalk
  <2>1. CASE w.walkTask = NoTask
    BY <1>2, <2>1 DEF WaitsForWalk
  <2>2. CASE w.path # <<>>
    BY <1>2, <1>3, <2>2 DEF WaitsForWalk, Going
  <2>3. CASE \E e \in ToSet(w.queue) : e.task.do = "auto"
    BY <1>2, <2>3 DEF WaitsForWalk, ToSet
  <2>. QED
    BY <1>3, <2>1, <2>2, <2>3 DEF Waits
<1>. QED
  BY <1>4, <1>5, <1>6 DEF WalkConsistent

\* No walk stands still, and no request waits for a walk that is over: for any
\* distance, any requests and any number of events and commands.
THEOREM WalkAlwaysConsistent == WalkSpec => []WalkConsistent
<1>1. WalkIInv => WalkConsistent
  BY WalkersWalk
<1>. QED
  BY <1>1, WalkInvariant, PTL

=============================================================================
