---------------------------- MODULE GameSession ----------------------------
(***************************************************************************)
(* The clients of one character: ProtocolGame::login, connect, logout and  *)
(* releaseProtocol (Source/protocolgame.cpp), the removal of the player    *)
(* (game.cpp, player.cpp) and the reference counts that keep its object.   *)
(*                                                                         *)
(* Everything here runs in the dispatcher, but spread over tasks: a login  *)
(* that takes over a player closes the old client and connects a second    *)
(* later, and in between other clients log in, close, or the player dies.  *)
(* A handler maps a world (protocols, player objects, task list, timers,   *)
(* objects to be freed) to a world.                                        *)
(***************************************************************************)
EXTENDS Naturals, Sequences, FiniteSets

CONSTANTS
  Clients,      (* bound: ProtocolGame objects, one for each connection    *)
  Bodies,       (* bound: Player objects made for the character            *)
  None,         (* the null pointer                                        *)
  KickOnLogin,  (* values of ConfigManager::KICK_ON_LOGIN (it is reloaded) *)
  AllowClones   (* values of ALLOW_CLONES, likewise; FALSE by default      *)

ASSUME SessionAssumption ==
  /\ IsFiniteSet(Clients) /\ IsFiniteSet(Bodies)
  /\ None \notin Clients \cup Bodies
  /\ KickOnLogin \subseteq BOOLEAN /\ KickOnLogin # {}
  /\ AllowClones \subseteq BOOLEAN /\ AllowClones # {}

VARIABLES
  proto,      (* the protocols                                             *)
  body,       (* the player objects                                        *)
  tasks,      (* the dispatcher's list                                     *)
  timers,     (* what the scheduler holds                                  *)
  toRelease,  (* Game::ToReleaseThings, as a bag                           *)
  kicks,      (* players whose kick was scheduled (raw pointers)           *)
  late        (* TRUE: the dispatcher has once been a second behind        *)

vars == <<proto, body, tasks, timers, toRelease, kicks, late>>

World == [proto |-> proto, body |-> body, tasks |-> tasks, timers |-> timers,
          toRelease |-> toRelease]

Becomes(w) ==
  /\ proto' = w.proto
  /\ body' = w.body
  /\ tasks' = w.tasks
  /\ timers' = w.timers
  /\ toRelease' = w.toRelease

\* proto[p].target is the player of the connect task that p waits for, and
\* proto[p].old the client that p has closed for it.
Init ==
  /\ proto = [p \in Clients |->
               [life |-> "idle", player |-> None, refs |-> 0, target |-> None,
                old |-> None]]
  /\ body = [o \in Bodies |->
               [place |-> "none", count |-> 0, client |-> None, connecting |-> FALSE]]
  /\ tasks = <<>>
  /\ timers = {}
  /\ toRelease = [o \in Bodies |-> 0]
  /\ kicks = {}
  /\ late = FALSE

-----------------------------------------------------------------------------
(* Functions on worlds.                                                    *)

WithProto(w, p, r) == [w EXCEPT !.proto[p] = r]
WithBody(w, o, b)  == [w EXCEPT !.body[o] = b]

\* Connection::closeConnection through the protocol, while it has one.
Disconnect(w, p) ==
  IF w.proto[p].life # "open" THEN w
  ELSE [w EXCEPT !.proto[p].life = "requested", !.tasks = Append(@, <<"close", p>>)]

\* Game::FreeThing
FreeThing(w, o) == [w EXCEPT !.toRelease[o] = @ + 1]

\* Seeded fault: a creature that was removed is removed again.
RemoveCreatureTwice(w, o) == FreeThing([w EXCEPT !.body[o].place = "out"], o)

\* Game::removeCreature: once only.
RemoveCreature(w, o) ==
  IF w.body[o].place # "in" THEN w
  ELSE FreeThing([w EXCEPT !.body[o].place = "out"], o)

\* Game::getPlayerByName finds a player that is in the world.
Online(w) == {o \in Bodies : w.body[o].place = "in"}

\* Seeded fault: a second client is let in beside the first.
ConnectBeside(w, p, o) ==
  LET w1 == [w EXCEPT !.proto[p].refs = @ - 1, !.proto[p].target = None]
  IN IF w.body[o].place # "in" THEN Disconnect(w1, p)
     ELSE [w1 EXCEPT !.proto[p].player = o, !.body[o].count = @ + 1,
                     !.body[o].connecting = FALSE, !.body[o].client = p]

\* ProtocolGame::connect to the player o.
Connect(w, p, o) ==
  LET r == [w.proto[p] EXCEPT !.refs = @ - 1, !.target = None]
  IN IF w.body[o].place # "in" \/ w.body[o].client # None
       THEN Disconnect(WithProto(w, p, r), p)
       ELSE WithBody(WithProto(w, p, [r EXCEPT !.player = o]), o,
                     [w.body[o] EXCEPT !.count = @ + 1, !.connecting = FALSE, !.client = p])

\* Login as a character that is not in the world, or as its clone: a new object
\* is loaded and placed, or refused for one of many reasons and left to the
\* protocol.
LoginNew(w, p) ==
  LET unused == {b \in Bodies : w.body[b].place = "none"}
      o  == CHOOSE b \in unused : TRUE
      w1 == WithProto(w, p, [w.proto[p] EXCEPT !.player = o])
      b  == [w.body[o] EXCEPT !.count = 1, !.place = "new", !.client = p]
  IN IF unused = {} THEN {Disconnect(w, p)}                        \* bound
     ELSE {Disconnect(WithBody(w1, o, b), p),
           WithBody(w1, o, [b EXCEPT !.place = "in", !.count = 2])}

\* A login takes the player o over: at once when it has no client, else its
\* client is closed and the takeover waits.
TakeOver(w, p, o) ==
  LET c == w.body[o].client
      r == [w.proto[p] EXCEPT !.refs = @ + 1]
  IN IF c # None
       THEN [WithBody(WithProto(Disconnect(w, c), p, [r EXCEPT !.target = o, !.old = c]),
                      o, [w.body[o] EXCEPT !.connecting = TRUE])
               EXCEPT !.timers = @ \cup {<<"connect", p>>}]
       ELSE Connect(WithProto(w, p, r), p, o)

\* ProtocolGame::login of a character that is in the world.
LoginAgain(w, p) ==
  {IF w.proto[p].target # None \/ kick THEN Disconnect(w, p) ELSE TakeOver(w, p, o) :
     o \in Online(w), kick \in KickOnLogin}

\* ProtocolGame::login
Login(w, p) ==
  UNION {IF Online(w) = {} \/ clones THEN LoginNew(w, p) ELSE LoginAgain(w, p) :
           clones \in AllowClones}

\* ProtocolGame::logout; unless it is forced it may be refused (a fight, the
\* place, a script).
Logout(w, p, forced) ==
  LET o == w.proto[p].player
  IN IF o = None THEN {w}
     ELSE {RemoveCreature(Disconnect(w, p), o)} \cup
          (IF w.body[o].place = "in" /\ ~forced THEN {w} ELSE {})

\* Connection::closeConnectionTask: the protocol loses its connection.
CloseTask(w, p) ==
  IF w.proto[p].life # "requested" THEN w
  ELSE [w EXCEPT !.proto[p].life = "detached", !.tasks = Append(@, <<"release", p>>)]

\* ProtocolGame::releaseProtocol and deleteProtocolTask: the player forgets
\* this client, and the protocol is deleted unless a connect is due.
Release(w, p) ==
  LET o  == w.proto[p].player
      w1 == IF o # None /\ w.body[o].client = p
              THEN WithBody(w, o, [w.body[o] EXCEPT !.client = None]) ELSE w
  IN IF w.proto[p].refs > 0 THEN [w1 EXCEPT !.timers = @ \cup {<<"release", p>>}]
     ELSE LET w2 == WithProto(w1, p, [w.proto[p] EXCEPT !.life = "deleted", !.player = None])
          IN IF o = None THEN w2 ELSE FreeThing(w2, o)

\* Player::kickPlayer
KickPlayer(w, o) ==
  IF w.body[o].client # None THEN Logout(w, w.body[o].client, TRUE)
  ELSE {RemoveCreature(w, o)}

\* Seeded fault: a player without a client is passed over.
PingClientsOnly(w, o) ==
  IF w.body[o].connecting \/ w.body[o].client = None THEN {w}
  ELSE {w} \cup Logout(w, w.body[o].client, TRUE)

\* Player::sendPing, for a player who may log out: one without a client
\* leaves the world, one whose client is silent for long is logged out.
Ping(w, o) ==
  IF w.body[o].connecting THEN {w}
  ELSE IF w.body[o].client = None THEN {RemoveCreature(w, o)}
  ELSE {w} \cup Logout(w, w.body[o].client, TRUE)

-----------------------------------------------------------------------------
\* A client connects and its first packet queues the login.
Arrive ==
  /\ \E p \in Clients : proto[p].life = "idle"
  /\ LET p == CHOOSE q \in Clients : proto[q].life = "idle"
     IN Becomes([World EXCEPT !.proto[p].life = "open", !.tasks = Append(@, <<"login", p>>)])
  /\ UNCHANGED <<kicks, late>>

\* The client asks to log out; packets are accepted once it has a player that
\* was placed.
RequestLogout(p) ==
  /\ proto[p].life \in {"open", "requested"}
  /\ proto[p].player # None /\ body[proto[p].player].place # "new"
  /\ \A i \in 1..Len(tasks) : tasks[i] # <<"logout", p>>    \* bound
  /\ Becomes([World EXCEPT !.tasks = Append(@, <<"logout", p>>)])
  /\ UNCHANGED <<kicks, late>>

\* The client closes its connection.
Hangup(p) ==
  /\ proto[p].life = "open"
  /\ Becomes(Disconnect(World, p))
  /\ UNCHANGED <<kicks, late>>

\* The dispatcher runs its next task.
RunTask ==
  /\ tasks # <<>>
  /\ LET kind == Head(tasks)[1]
         p    == Head(tasks)[2]
         w    == [World EXCEPT !.tasks = Tail(@)]
     IN \E v \in CASE kind = "login"   -> Login(w, p)
                   [] kind = "connect" -> {Connect(w, p, proto[p].target)}
                   [] kind = "logout"  -> Logout(w, p, FALSE)
                   [] kind = "close"   -> {CloseTask(w, p)}
                   [] kind = "release" -> {Release(w, p)} :
          Becomes(v)
  /\ UNCHANGED <<kicks, late>>

\* A timer runs out: its task goes to the end of the list.  The dispatcher is
\* late if the client that was closed a second ago is still there.
TimerEnds(t) ==
  /\ t \in timers
  /\ LET p == t[2]
         o == proto[p].target
     IN late' = (late \/ (t[1] = "connect" /\ body[o].place = "in"
                                           /\ body[o].client = proto[p].old))
  /\ Becomes([World EXCEPT !.timers = @ \ {t}, !.tasks = Append(@, t)])
  /\ UNCHANGED kicks

\* Tasks of the game that concern a player in the world: it thinks, idles too
\* long, is kicked or dies.
Think(o) ==
  /\ body[o].place = "in"
  /\ \E w \in Ping(World, o) : Becomes(w)
  /\ UNCHANGED <<kicks, late>>

CheckIdleTime(o) ==
  /\ body[o].place = "in"
  /\ \E w \in KickPlayer(World, o) : Becomes(w)
  /\ UNCHANGED <<kicks, late>>

\* Game::violationWindow and Player::addUnjustifiedDead: banished, the player
\* is kicked a second later.
Banish(o) ==
  /\ body[o].place = "in"
  /\ kicks' = kicks \cup {o}
  /\ UNCHANGED <<proto, body, tasks, timers, toRelease, late>>

\* The kick comes.  (Its pointer to an object that was deleted meanwhile is
\* undefined behaviour; see the hazards.)
DelayedKick(o) ==
  /\ o \in kicks
  /\ body[o].place # "freed"
  /\ kicks' = kicks \ {o}
  /\ UNCHANGED late
  /\ \E w \in KickPlayer(World, o) : Becomes(w)

\* Game::doDeathDelay
Die(o) ==
  /\ body[o].place = "in"
  /\ Becomes(RemoveCreature(World, o))
  /\ UNCHANGED <<kicks, late>>

\* Game::cleanup: every reference given back is counted, and an object that
\* has none left is deleted.
Cleanup ==
  /\ \E o \in Bodies : toRelease[o] > 0
  /\ body' = [o \in Bodies |->
       LET n == body[o].count - toRelease[o]
       IN IF toRelease[o] = 0 THEN body[o]
          ELSE [body[o] EXCEPT !.count = n, !.place = IF n <= 0 THEN "freed" ELSE @]]
  /\ toRelease' = [o \in Bodies |-> 0]
  /\ UNCHANGED <<proto, tasks, timers, kicks, late>>

Next ==
  \/ Arrive
  \/ \E p \in Clients : RequestLogout(p) \/ Hangup(p)
  \/ RunTask
  \/ \E t \in {"connect", "release"} \X Clients : TimerEnds(t)
  \/ \E o \in Bodies : Think(o) \/ CheckIdleTime(o) \/ Banish(o) \/ DelayedKick(o) \/ Die(o)
  \/ Cleanup

Spec == Init /\ [][Next]_vars

\* The dispatcher and the scheduler go on; every player thinks once a second,
\* and no fight and no tile keeps it from logging out for ever.
Fairness ==
  /\ WF_vars(RunTask)
  /\ \A t \in {"connect", "release"} \X Clients : WF_vars(TimerEnds(t))
  /\ \A o \in Bodies : WF_vars(Think(o))
  /\ WF_vars(Cleanup)

FairSpec == Spec /\ Fairness

-----------------------------------------------------------------------------
\* Types of the variables.
TypeOK ==
  /\ proto \in [Clients -> [life : {"idle", "open", "requested", "detached", "deleted"},
                            player : Bodies \cup {None}, refs : 0..1,
                            target : Bodies \cup {None}, old : Clients \cup {None}]]
  /\ body \in [Bodies -> [place : {"none", "new", "in", "out", "freed"}, count : Nat,
                          client : Clients \cup {None}, connecting : BOOLEAN]]
  /\ tasks \in Seq({"login", "connect", "logout", "close", "release"} \X Clients)
  /\ timers \subseteq {"connect", "release"} \X Clients
  /\ toRelease \in [Bodies -> Nat]
  /\ kicks \subseteq Bodies
  /\ late \in BOOLEAN

Alive(o) == body[o].place \notin {"none", "freed"}

\* Player::client of an object that exists points to a protocol that exists
\* and points back.
ClientIsLive ==
  \A o \in Bodies : Alive(o) /\ body[o].client # None =>
    proto[body[o].client].life # "deleted" /\ proto[body[o].client].player = o

\* ProtocolGame::player points to an object that exists, and no task or timer
\* is left that would run on a protocol that was deleted.
PointersLive ==
  \A p \in Clients :
    /\ proto[p].player # None => Alive(proto[p].player)
    /\ proto[p].life = "deleted" =>
         /\ \A i \in 1..Len(tasks) : tasks[i][2] # p
         /\ \A t \in timers : t[2] # p

\* Players and protocols are of sound types and point, with all tasks and
\* timers, to objects that exist, after any takeovers, kicks and deaths.
NothingDangles == TypeOK /\ ClientIsLive /\ PointersLive

\* A player is never controlled by two connections: the old one has lost its
\* protocol before the new one gets the player.
OneController ==
  \A p, q \in Clients :
    /\ proto[p].life \in {"open", "requested"} /\ proto[q].life \in {"open", "requested"}
    /\ proto[p].player # None /\ proto[p].player = proto[q].player
    => p = q

\* The pointers between clients and players, and who controls whom.
SessionConsistent == NothingDangles /\ OneController

\* A player whose client is gone does not stay behind in the world: it leaves
\* or gets another client, as long as the dispatcher keeps up.
LostPlayerLeaves ==
  \A o \in Bodies :
    (body[o].place = "in" /\ body[o].client = None)
      ~> (body[o].place # "in" \/ body[o].client # None \/ late)
=============================================================================
