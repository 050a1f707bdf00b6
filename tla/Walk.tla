-------------------------------- MODULE Walk -----------------------------------
(***************************************************************************)
(* A player walks, and acts at the end of the way: Creature::onWalk and    *)
(* its timer (Source/creature.cpp), the three deferred tasks of a player   *)
(* (player.cpp) and the requests that first walk to their object and are   *)
(* then made again (Game::playerUseItem and its likes, Actions.cpp).       *)
(*                                                                         *)
(* The places are those of a line; the object lies at Far.  A task waits   *)
(* in the scheduler (timers), is then handed to the dispatcher (queue) and *)
(* run.  Scheduler::stopEvent takes back what is still a timer and cannot  *)
(* take back what has been handed over: that race is the subject here.     *)
(***************************************************************************)
EXTENDS Integers, Sequences, FiniteSets, SequencesExt, FiniteSetsExt

CONSTANTS
  Far,         (* where the object of the requests lies                    *)
  Requests,    (* the requests made: some of "use", "push" and "rotate",   *)
               (* and "attack", with a weapon whose swings are actions     *)
               (* (Weapon::interruptSwing)                                 *)
  MaxEvents,   (* bound: events and tasks that wait when the outside       *)
               (* interferes                                               *)
  MaxCommands  (* bound: how often the outside interferes: the client's    *)
               (* commands, swings, teleports, somebody in the way         *)

ASSUME WalkAssumption ==
  /\ {Far, MaxEvents} \subseteq Nat \ {0} /\ MaxCommands \in Nat
  /\ Requests \subseteq {"use", "push", "rotate", "attack"}

Line     == 0..Far
NoEvent  == 0
NoTask   == [do |-> "nothing"]
NoRequest == [what |-> "nothing", calm |-> TRUE]
RequestTask(r) == [do |-> "request", what |-> r]

VARIABLES
  place,           (* where the player is                                  *)
  path,            (* listWalkDir                                          *)
  rested,          (* getWalkDelay() <= 0                                  *)
  ready,           (* canDoAction()                                        *)
  eventWalk, walkTask, walkTaskEvent, actionTaskEvent, nextStepEvent,
  timers,          (* the events of the scheduler                          *)
  queue,           (* the tasks of the dispatcher                          *)
  commands,        (* how often the outside will still interfere           *)
  habit,           (* bound: the one kind of request that this client makes *)
  asked            (* ghost: the request the player waits for, if any, and *)
                   (* whether its way is the only one                      *)

walkVars == <<place, path, rested, ready, eventWalk, walkTask, walkTaskEvent,
              actionTaskEvent, nextStepEvent, timers, queue, commands, habit,
              asked>>

Walker == [place |-> place, path |-> path, rested |-> rested, ready |-> ready,
           eventWalk |-> eventWalk, walkTask |-> walkTask, walkTaskEvent |-> walkTaskEvent,
           actionTaskEvent |-> actionTaskEvent, nextStepEvent |-> nextStepEvent,
           timers |-> timers, queue |-> queue, commands |-> commands,
           asked |-> asked, habit |-> habit]

\* The identifier of an event that has run names nothing any more, so that it
\* is as good as none (except in eventWalk, whose code asks whether it is zero).
Live(w, id) ==
  IF id \in {e.id : e \in w.timers} \cup {w.queue[k].id : k \in DOMAIN w.queue} THEN id ELSE NoEvent

WalkerBecomes(w) ==
  /\ place' = w.place /\ path' = w.path /\ rested' = w.rested /\ ready' = w.ready
  /\ eventWalk' = w.eventWalk /\ walkTask' = w.walkTask
  /\ walkTaskEvent' = Live(w, w.walkTaskEvent)
  /\ actionTaskEvent' = Live(w, w.actionTaskEvent)
  /\ nextStepEvent' = Live(w, w.nextStepEvent) /\ timers' = w.timers /\ queue' = w.queue
  /\ commands' = w.commands /\ asked' = w.asked /\ habit' = w.habit

WalkInit ==
  /\ place = 0 /\ path = <<>> /\ rested = TRUE /\ ready = TRUE
  /\ eventWalk = NoEvent /\ walkTask = NoTask /\ walkTaskEvent = NoEvent
  /\ actionTaskEvent = NoEvent /\ nextStepEvent = NoEvent
  /\ timers = {} /\ queue = <<>> /\ commands = MaxCommands /\ asked = NoRequest
  /\ habit \in Requests \ {"attack"}

-----------------------------------------------------------------------------
(* Events and the tasks a player has pending.                              *)

EventIds(w) == {e.id : e \in w.timers} \cup {w.queue[k].id : k \in DOMAIN w.queue}
                 \cup {w.eventWalk, w.walkTaskEvent, w.actionTaskEvent, w.nextStepEvent}

Identifiers == 1..2 * MaxCommands + 5

\* Scheduler::addEvent; the identifiers are used again here, never in the code.
NewEvent(w) == CHOOSE n \in 1..Cardinality(EventIds(w)) + 1 : n \notin EventIds(w)

AddEvent(w, id, t) == [w EXCEPT !.timers = @ \cup {[id |-> id, task |-> t]}]

\* Scheduler::stopEvent
StopEvent(w, id) == [w EXCEPT !.timers = {e \in @ : e.id # id}]

\* Dispatcher::addTask
Post(w, t) == [w EXCEPT !.queue = Append(@, [id |-> NoEvent, task |-> t])]

\* Player::setNextWalkActionTask
SetNextWalkActionTask(w, t) ==
  [StopEvent(w, w.walkTaskEvent) EXCEPT !.walkTaskEvent = NoEvent, !.walkTask = t]

\* Player::setNextWalkTask
SetNextWalkTask(w, t) ==
  LET v == [StopEvent(w, w.nextStepEvent) EXCEPT !.nextStepEvent = NoEvent]
      n == NewEvent(v)
  IN IF t = NoTask THEN v ELSE [AddEvent(v, n, t) EXCEPT !.nextStepEvent = n]

\* Player::setNextActionTask
SetNextActionTask(w, t) ==
  LET v == [StopEvent(w, w.actionTaskEvent) EXCEPT !.actionTaskEvent = NoEvent]
      n == NewEvent(v)
  IN IF t = NoTask THEN v ELSE [AddEvent(v, n, t) EXCEPT !.actionTaskEvent = n]

\* Creature::addEventWalk
AddEventWalk(w) ==
  LET n == NewEvent(w)
  IN IF w.eventWalk # NoEvent THEN w
     ELSE [AddEvent(w, n, [do |-> "check"]) EXCEPT !.eventWalk = n]

\* Player::onWalkAborted
OnWalkAborted(w) == SetNextWalkActionTask(w, NoTask)

\* The way to the action has not begun.
Early(w) == \E k \in DOMAIN w.queue : w.queue[k].task.do = "auto"

\* Player::onWalkComplete.  The timer of an earlier walk goes on when its steps
\* are done, and may release the action early: then it starts another way.
OnWalkComplete(w) ==
  LET n == NewEvent(w)
  IN IF w.walkTask = NoTask THEN w
     ELSE [AddEvent(w, n, w.walkTask) EXCEPT
             !.walkTaskEvent = n, !.walkTask = NoTask, !.asked.calm = @ /\ ~Early(w)]

\* Seeded fault: the timer is stopped and the steps stay.
StopTimerOnly(w) == [StopEvent(w, w.eventWalk) EXCEPT !.eventWalk = NoEvent]

\* Creature::stopEventWalk
StopEventWalk(w) ==
  IF w.eventWalk = NoEvent THEN w
  ELSE LET v == [StopEvent(w, w.eventWalk) EXCEPT !.eventWalk = NoEvent]
       IN IF w.path = <<>> THEN v ELSE OnWalkAborted([v EXCEPT !.path = <<>>])

\* Player::stopWalk
StopWalk(w) == IF w.path = <<>> THEN w ELSE StopEventWalk(w)

\* Creature::startAutoWalk
StartAutoWalk(w, p) == AddEventWalk([w EXCEPT !.path = p])

\* What the player waits for is not its due any more.
GiveUp(w) == [w EXCEPT !.asked = NoRequest]

\* The request itself is deferred until the player is ready.
IsDeferred(w) ==
  \E e \in w.timers : e.id = w.actionTaskEvent /\ e.task = RequestTask(w.asked.what)

\* Player::onWalk: a step drops the action that is deferred until the player is
\* ready.  Who had another way before it has lost it.
OnStep(w) ==
  LET v == [SetNextActionTask(w, NoTask) EXCEPT !.ready = FALSE]
  IN IF IsDeferred(w) /\ ~w.asked.calm THEN GiveUp(v) ELSE v

\* Game::internalMoveCreature: the step, or somebody in the way.
Moves(w, d) ==
  LET stay == IF w.commands > 0 THEN {[w EXCEPT !.commands = @ - 1]} ELSE {}
  IN IF w.place + d \in Line
     THEN stay \cup {[w EXCEPT !.place = @ + d, !.rested = FALSE]} ELSE {w}

-----------------------------------------------------------------------------
(* The tasks.                                                              *)

\* Game::checkCreatureWalk, Creature::onWalk
CheckCreatureWalk(w) ==
  LET stepped == IF w.rested /\ w.path # <<>>
                 THEN Moves(OnStep([w EXCEPT !.path = Tail(@)]), Head(w.path)) ELSE {w}
      After(v) == IF v.path = <<>> THEN OnWalkComplete(v) ELSE v
      Again(v) == IF v.eventWalk # NoEvent THEN AddEventWalk([v EXCEPT !.eventWalk = NoEvent]) ELSE v
  IN {Again(After(v)) : v \in stepped}

\* Seeded fault: a new way drops what waits for the end of the way.
AutoWalkForgets(w, p) == StartAutoWalk(SetNextWalkActionTask(SetNextWalkTask(w, NoTask), NoTask), p)

\* Game::playerAutoWalk
PlayerAutoWalk(w, p) == StartAutoWalk(SetNextWalkTask(w, NoTask), p)

\* Game::playerMove
PlayerMove(w, d) ==
  LET v == StopWalk(w)
  IN IF ~v.rested THEN {SetNextWalkTask([v EXCEPT !.ready = FALSE], [do |-> "move", dir |-> d])}
     ELSE Moves(OnStep(v), d)

\* Actions::canUse: Position::areInRange<1, 1, 0>
InRange(w) == Far - w.place <= 1

\* Game::getPathToEx
PathTo(w) == [k \in 1..(Far - 1 - w.place) |-> 1]

\* What the player waited for is done, or has been answered.
Answer(w, r) == [w EXCEPT !.asked = IF @.what = r THEN NoRequest ELSE @]

\* The walk is a task of its own, so it starts after what is in the queue.
WalkTo(w, r) == SetNextWalkActionTask(Post(w, [do |-> "auto", path |-> PathTo(w)]), RequestTask(r))

Defer(w, r) == SetNextActionTask(w, RequestTask(r))

\* Actions::useItem: it stops the walk and spends the action.
UseItem(w, r) == Answer([StopWalk(SetNextActionTask(w, NoTask)) EXCEPT !.ready = FALSE], r)

\* Game::playerUseItem, playerUseItemEx, playerUseBattleWindow: first there, then
\* ready.
PlayerUseItem(w, r) ==
  CASE ~InRange(w) -> WalkTo(w, r)
    [] InRange(w) /\ ~w.ready -> Defer(w, r)
    [] OTHER -> UseItem(w, r)

\* Game::playerMoveCreature, playerMoveItem: first ready, then there.
PlayerMoveCreature(w, r) ==
  CASE ~w.ready -> Defer(w, r)
    [] w.ready /\ ~InRange(w) -> WalkTo(SetNextActionTask(w, NoTask), r)
    [] OTHER -> Answer(SetNextActionTask(w, NoTask), r)

\* Game::playerMoveThing: to push a creature that is near takes its time.
PlayerMoveThing(w, r) == IF InRange(w) THEN Defer(w, r) ELSE PlayerMoveCreature(w, r)

\* Game::playerRotateItem never asks whether an action is due.
PlayerRotateItem(w, r) == IF InRange(w) THEN Answer(w, r) ELSE WalkTo(w, r)

Request(w, r) ==
  CASE r = "use" -> PlayerUseItem(w, r)
    [] r = "push" -> PlayerMoveCreature(w, r)
    [] r = "rotate" -> PlayerRotateItem(w, r)

\* Game::checkCreatureAttack, Player::doAttacking: a swing spends no action, but
\* one that has to wait takes the place of the action that is deferred.
CheckCreatureAttack(w) ==
  LET v == SetNextActionTask(w, [do |-> "attack"])
  IN IF w.ready THEN w ELSE IF IsDeferred(w) THEN GiveUp(v) ELSE v

Perform(w, t) ==
  CASE t.do = "check"   -> CheckCreatureWalk(w)
    [] t.do = "attack"  -> {CheckCreatureAttack(w)}
    [] t.do = "move"    -> PlayerMove(w, t.dir)
    [] t.do = "auto"    -> {PlayerAutoWalk(w, t.path)}
    [] t.do = "thing"   -> {PlayerMoveThing(w, t.what)}
    [] t.do = "request" -> {Request(w, t.what)}

-----------------------------------------------------------------------------
(* Who makes them.                                                         *)

\* The scheduler hands an event to the dispatcher.
Expire(id) ==
  \E e \in timers :
    e.id = id /\ WalkerBecomes([Walker EXCEPT !.timers = @ \ {e}, !.queue = Append(@, e)])

\* The dispatcher runs a task.
RunOne ==
  /\ queue # <<>>
  /\ \E w \in Perform([Walker EXCEPT !.queue = Tail(@)], Head(queue).task) : WalkerBecomes(w)

Interferes(w) ==
  /\ w.commands > 0 /\ Cardinality(timers) + Len(queue) < MaxEvents
  /\ WalkerBecomes([w EXCEPT !.commands = @ - 1])

\* The player is on no way, and nothing that it asked for is pending.
Calm ==
  /\ path = <<>> /\ walkTask = NoTask
  /\ \A e \in timers \cup ToSet(queue) : e.task.do \in {"check", "attack"}

\* The packet of a request is a task; that of a push is Game::playerMoveThing.
Packet(r) == [do |-> IF r = "push" THEN "thing" ELSE "request", what |-> r]

\* The client asks.  A new request replaces the old one in what the player
\* waits for.
ClientRequest(r) ==
  r = habit /\ Interferes([Post(Walker, Packet(r)) EXCEPT !.asked = [what |-> r, calm |-> Calm]])

ClientMove(d) == Interferes(GiveUp(Post(Walker, [do |-> "move", dir |-> d])))

ClientAutoWalk(p) == Interferes(GiveUp(Post(Walker, [do |-> "auto", path |-> p])))

\* Game::playerStopAutoWalk
ClientStop == Interferes(GiveUp(StopWalk(Walker)))

\* Creature::onAttacking, for the sake of a target.
Swing == "attack" \in Requests /\ Interferes(CheckCreatureAttack(Walker))

\* Creature::onCreatureMove: a teleport ends the walk, and what waits for its end.
Teleported(q) ==
  LET v == [StopEventWalk(Walker) EXCEPT !.place = q]
  IN q # place /\ Interferes(IF path = <<>> THEN v ELSE GiveUp(v))

\* Time passes.
Rest  == ~rested /\ WalkerBecomes([Walker EXCEPT !.rested = TRUE])
Ready == ~ready  /\ WalkerBecomes([Walker EXCEPT !.ready = TRUE])

Outside ==
  \/ \E r \in Requests : ClientRequest(r)
  \/ \E d \in {-1, 1} : ClientMove(d) \/ ClientAutoWalk(<<d>>)
  \/ ClientStop \/ Swing \/ \E q \in {0} : Teleported(q)

WalkNext == Outside \/ (\E id \in Identifiers : Expire(id)) \/ RunOne \/ Rest \/ Ready

\* The scheduler and the dispatcher go on, and so does the clock.
WalkFairness ==
  /\ \A id \in Identifiers : WF_walkVars(Expire(id))
  /\ WF_walkVars(RunOne)
  /\ WF_walkVars(Rest) /\ WF_walkVars(Ready)

-----------------------------------------------------------------------------

WalkTypeOK ==
  /\ place \in Line /\ rested \in BOOLEAN /\ ready \in BOOLEAN
  /\ \A k \in DOMAIN path : path[k] \in {-1, 1}
  /\ commands \in 0..MaxCommands
  /\ asked \in [what : Requests \cup {NoRequest.what}, calm : BOOLEAN]

\* Steps that are left to go always have a timer that will make them, whatever
\* was stopped, started again or already handed to the dispatcher meanwhile:
\* eventWalk names an event that has not run.
WalkGoesOn ==
  /\ path # <<>> => eventWalk # NoEvent
  /\ eventWalk # NoEvent =>
       \E e \in timers \cup ToSet(queue) : e.id = eventWalk /\ e.task.do = "check"

\* An action that waits for the end of the walk is not lost: as long as it waits
\* there is a walk under way, or about to begin, whose end will make it.
WaitsForWalk ==
  walkTask # NoTask =>
    \/ eventWalk # NoEvent
    \/ \E k \in DOMAIN queue : queue[k].task.do = "auto"

\* No walk stands still and no deferred request waits for a walk that is over.
WalkConsistent == WalkTypeOK /\ WalkGoesOn /\ WaitsForWalk

\* What a player asks for is done in the end, by a walk and as many new attempts
\* as it takes, unless the player asks for something else, is carried off on the
\* way, or a swing takes the place of the action when it is deferred.  Only who
\* asks on the way to somewhere else, or while an earlier request is pending, may
\* lose the action to a step: no step of its own way takes it from a calm player.
RequestAnswered == \A r \in Requests : asked.what = r ~> asked.what # r
================================================================================
