-------------------------------- MODULE Npc --------------------------------
(***************************************************************************)
(* Non-player characters (npc.cpp): one that talks to one player at a time *)
(* and keeps the others in a queue, that falls idle, wanders when it talks *)
(* to nobody, and is reloaded while people wait.                           *)
(*                                                                         *)
(* Its script is the one of data/npc/scripts/alexander.lua, by way of the  *)
(* functions npc.cpp registers; what is said, bought and faced is left     *)
(* out.  A Lua error ends the handler and keeps what it did so far.  Places *)
(* are the tiles of a street, so that distance is a difference.            *)
(***************************************************************************)
EXTENDS Integers, Sequences, FiniteSets, SequencesExt

CONSTANTS
  Guests,       (* players, by creature id: who logs in again has a new one  *)
  Street,       (* the tiles, an interval                                    *)
  Zone,         (* the tiles of its spawn                                    *)
  Near,         (* how far away it greets: 4 in the script                   *)
  Sight,        (* how far it sees                                           *)
  IdleInterval, (* idleinterval, in seconds                                  *)
  WalkDelay,    (* the seconds it stands after a conversation: 5             *)
  MaxQueue      (* bound: the length of its queue                            *)

VARIABLES
  npcAt,      (* where the npc stands                                        *)
  guestAt,    (* where each player is: a tile, or not in the game            *)
  talk,       (* its focus, queue, idle time, walk delay and handler         *)
  interfaces  (* Npc::m_scriptInterface: how many there were, and whether it *)
              (* is there                                                    *)

ASSUME NpcAssumption ==
  /\ "nobody" \notin Guests
  /\ Street \subseteq Nat /\ Zone \subseteq Street /\ Zone # {}
  /\ {Near, Sight, IdleInterval, WalkDelay} \subseteq Nat

npcVars == <<npcAt, guestAt, talk, interfaces>>

Nobody  == "nobody"
Coming  == -2
Gone    == -1
Outside == {Coming, Gone}

\* A creature id that getCreatureByUID finds.
Present(w, p) == w.at[p] \notin Outside
Distance(w, p) == IF w.at[p] > npcAt THEN w.at[p] - npcAt ELSE npcAt - w.at[p]

(* Scripts run on what they see of the game: where players are, and the     *)
(* npc's own part.  failed says that the handler ended with an error.        *)
NpcWorld(t, at) == [talk |-> t, at |-> at, failed |-> FALSE]

-----------------------------------------------------------------------------
(* What the script calls.                                                  *)

\* Npc::isIdle and Npc::hasWalkDelay, with the time since and the time left.
IsIdle(t)       == t.idle > IdleInterval
HasWalkDelay(t) == t.delay >= 0

\* Npc::updateIdle, resetIdle
UpdateIdle(w) == [w EXCEPT !.talk.idle = 0]
ResetIdle(w)  == [w EXCEPT !.talk.idle = IdleInterval + 1]

\* luaSetNpcFocus, and Npc::setCreatureFocus
SetNpcFocus(w, p) ==
  IF p # Nobody /\ Present(w, p) THEN [w EXCEPT !.talk.focus = p]
  ELSE [w EXCEPT !.talk.focus = Nobody, !.talk.delay = WalkDelay]

\* luaQueuePlayer: nobody looks whether the player waits already.
QueuePlayer(w, p) == IF Present(w, p) THEN [w EXCEPT !.talk.queue = Append(@, p)] ELSE w

\* std::list::remove
Without(q, p) ==
  LET kept[n \in 0..Len(q)] == IF n = 0 THEN <<>>
                               ELSE IF q[n] = p THEN kept[n - 1] ELSE Append(kept[n - 1], q[n])
  IN kept[Len(q)]

\* luaUnqueuePlayer
UnqueuePlayer(w, p) ==
  IF Present(w, p) THEN [w EXCEPT !.talk.queue = Without(@, p)] ELSE w

(* luaGetQueuedPlayer, as getNext of the script calls it again until it has  *)
(* somebody near: those who went away lose their place.  For one who left    *)
(* the game it takes nothing from the queue and returns one value without    *)
(* having pushed it, of which the script then asks the position: an error.   *)
GetNext(w) ==
  LET q == w.talk.queue
      k == SelectInSeq(q, LAMBDA p : ~Present(w, p) \/ Distance(w, p) <= Near)
  IN IF k = 0 THEN ResetIdle(SetNpcFocus([w EXCEPT !.talk.queue = <<>>], Nobody))
     ELSE IF ~Present(w, q[k]) THEN
       [w EXCEPT !.talk.queue = SubSeq(q, k, Len(q)), !.failed = TRUE]
     ELSE SetNpcFocus(UpdateIdle([w EXCEPT !.talk.queue = SubSeq(q, k + 1, Len(q))]), q[k])

-----------------------------------------------------------------------------
(* Its handlers: NpcScript::on... with the script's functions.  The npc has  *)
(* none when its script did not load.                                        *)

NpcOnCreatureDisappear(w, p) ==
  IF w.talk.focus = p THEN GetNext(w) ELSE UnqueuePlayer(w, p)

\* onCreatureSay of the script: a greeting, a good-bye, or business.
NpcOnCreatureSay(w, p, msg) ==
  IF w.talk.focus = Nobody THEN
    IF msg = "hi" /\ Distance(w, p) <= Near THEN SetNpcFocus(UpdateIdle(w), p) ELSE w
  ELSE IF w.talk.focus # p THEN
    IF msg = "hi" /\ Distance(w, p) <= Near THEN QueuePlayer(w, p) ELSE w
  ELSE CASE msg = "bye"  -> GetNext(w)
         [] msg = "name" -> UpdateIdle(w)
         [] OTHER        -> w

\* onThink of the script: the distance to one who left the game is an error.
NpcOnThink(w) ==
  LET p == w.talk.focus
  IN IF p = Nobody THEN w
     ELSE IF IsIdle(w.talk) THEN GetNext(w)
     ELSE IF ~Present(w, p) THEN [w EXCEPT !.failed = TRUE]
     ELSE IF Distance(w, p) > Near THEN GetNext(w)
     ELSE w

Handle(w) == talk' = w.talk

-----------------------------------------------------------------------------
(* Creation and reload.                                                    *)

\* Seeded fault: a reload lets people wait on.
NpcResetKeepsQueue(t) ==
  [t EXCEPT !.focus = Nobody, !.idle = IdleInterval + 1, !.delay = -1, !.handler = 0]

\* Npc::reset: idleTime 0 is long ago, walkDelay 0 is over.
NpcReset(t) ==
  [t EXCEPT !.focus = Nobody, !.queue = <<>>, !.idle = IdleInterval + 1, !.delay = -1,
            !.handler = 0]

\* Npc::load with loadFromXml and the constructor of NpcScript: an interface is
\* made when there is none, and the handler keeps a pointer to it.
NpcLoad(t, i) ==
  LET now == IF i.live THEN i ELSE [live |-> TRUE, made |-> i.made + 1]
  IN talk' = [t EXCEPT !.handler = now.made] /\ interfaces' = now

NpcInit ==
  /\ npcAt = CHOOSE z \in Zone : TRUE
  /\ guestAt = [p \in Guests |-> Coming]
  /\ talk = [focus |-> Nobody, queue |-> <<>>, idle |-> IdleInterval + 1, delay |-> -1, handler |-> 1]
  /\ interfaces = [live |-> TRUE, made |-> 1]

(* Npcs::reload: the interface is deleted, and every npc reloaded; its script *)
(* sees it appear and does nothing.                                          *)
NpcReload ==
  /\ interfaces.made < 2
  /\ NpcLoad(NpcReset(talk), [interfaces EXCEPT !.live = FALSE])
  /\ UNCHANGED <<npcAt, guestAt>>

-----------------------------------------------------------------------------
(* What players do.                                                        *)
Free(spot) == spot # npcAt /\ \A p \in Guests : guestAt[p] # spot

\* A player enters; onCreatureAppear of the script does nothing.
GuestEnters(p, spot) ==
  /\ guestAt[p] = Coming /\ Free(spot)
  /\ guestAt' = [guestAt EXCEPT ![p] = spot]
  /\ UNCHANGED <<npcAt, talk, interfaces>>

\* A player walks; the npc turns to one it talks to.
GuestWalks(p, spot) ==
  /\ guestAt[p] \notin Outside /\ Free(spot) /\ spot \in {guestAt[p] - 1, guestAt[p] + 1}
  /\ guestAt' = [guestAt EXCEPT ![p] = spot]
  /\ UNCHANGED <<npcAt, talk, interfaces>>

(* Game::removeCreature: those who see the player are told while it can      *)
(* still be found; then it is out of the game.                               *)
GuestLeaves(p) ==
  LET w == NpcWorld(talk, guestAt)
  IN /\ Present(w, p)
     /\ IF Distance(w, p) <= Sight THEN Handle(NpcOnCreatureDisappear(w, p)) ELSE UNCHANGED talk
     /\ guestAt' = [guestAt EXCEPT ![p] = Gone]
     /\ UNCHANGED <<npcAt, interfaces>>

\* Game::internalCreatureSay: those who see the player hear it.
GuestSays(p, msg) ==
  LET w == NpcWorld(talk, guestAt)
  IN /\ Present(w, p) /\ Distance(w, p) <= Sight
     /\ Len(talk.queue) < MaxQueue
     /\ Handle(NpcOnCreatureSay(w, p, msg))
     /\ UNCHANGED <<npcAt, guestAt, interfaces>>

-----------------------------------------------------------------------------
(* What the npc does.                                                      *)

\* A second passes and the npc thinks.
NpcThinks ==
  LET later == [talk EXCEPT !.idle  = IF @ > IdleInterval THEN @ ELSE @ + 1,
                            !.delay = IF @ < 0 THEN @ ELSE @ - 1]
  IN /\ Handle(NpcOnThink(NpcWorld(later, guestAt)))
     /\ UNCHANGED <<npcAt, guestAt, interfaces>>

\* Npc::canWalkTo
CanWalkTo(spot) == spot \in Zone /\ Free(spot)

\* Npc::getNextStep and getRandomStep.
NpcWanders(spot) ==
  /\ ~HasWalkDelay(talk) /\ IsIdle(talk) /\ talk.focus = Nobody
  /\ spot \in {npcAt - 1, npcAt + 1} /\ CanWalkTo(spot)
  /\ npcAt' = spot
  /\ UNCHANGED <<guestAt, talk, interfaces>>

NpcNext ==
  \/ NpcReload
  \/ \E p \in Guests, spot \in Street : GuestEnters(p, spot) \/ GuestWalks(p, spot)
  \/ \E p \in Guests : GuestLeaves(p)
  \/ \E p \in Guests, msg \in {"hi", "bye", "name"} : GuestSays(p, msg)
  \/ NpcThinks
  \/ \E spot \in Street : NpcWanders(spot)

NpcSpec == NpcInit /\ [][NpcNext]_npcVars

-----------------------------------------------------------------------------
NpcTypeOK ==
  /\ npcAt \in Zone /\ guestAt \in [Guests -> Street \cup Outside]
  /\ talk.focus \in Guests \cup {Nobody} /\ talk.queue \in Seq(Guests)
  /\ talk.idle \in 0..IdleInterval + 1 /\ talk.delay \in -1..WalkDelay

\* Nobody waits for an npc that talks to nobody: whoever is asked to wait gets
\* a turn, leaves, or loses the place by going away.
NobodyWaitsInVain == talk.focus = Nobody => talk.queue = <<>>

(* The npc is rid of a silent or lost partner after its idle time, but for    *)
(* one case: the next in its queue left the game where it could not see it.   *)
(* Then it never takes another one (luaGetQueuedPlayer).                      *)
LateOnlyForTheLost ==
  talk.focus # Nobody /\ IsIdle(talk) =>
    talk.queue # <<>> /\ guestAt[Head(talk.queue)] = Gone

\* The script's handler belongs to the interface that is there.
HandlerIsLive == interfaces.live /\ talk.handler = interfaces.made

\* An npc's conversations survive players that come, go and leave the game and
\* reloads of its script.
NpcConsistent == NpcTypeOK /\ NobodyWaitsInVain /\ LateOnlyForTheLost /\ HandlerIsLive
=============================================================================
