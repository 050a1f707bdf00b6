-------------------------------- MODULE Fights ---------------------------------
(***************************************************************************)
(* Players fight each other: whom a player may aim at, the fight that      *)
(* keeps it from logging out, the lock that keeps it out of protection     *)
(* zones, the skulls and what an unjustified kill costs (combat.cpp,       *)
(* player.cpp, creature.cpp, game.cpp under Source/).  Each player may     *)
(* have a summoned creature, which hits for it.  World type PVP.           *)
(*                                                                         *)
(* Health is 0 or 1: a hit kills or does not.  Time is counted in thinks   *)
(* of the creature (EVENT_CREATURE_THINK_INTERVAL).                        *)
(***************************************************************************)
EXTENDS Integers, Sequences, FiniteSets, FiniteSetsExt

CONSTANTS
  Fighters, NoFighter,
  Summoners,      (* the players with a summoned creature                  *)
  Zones,          (* some of "normal", "protection", "nopvp", "pvp"        *)
  FightTime,      (* g_game.getInFightTicks, in thinks                     *)
  FragTime,       (* FRAG_TIME, in thinks                                  *)
  KillsToRed,     (* KILLS_TO_RED                                          *)
  MaxRedTicks     (* bound: redSkullTicks are counted no further           *)

ASSUME FightsAssumption ==
  /\ IsFiniteSet(Fighters) /\ NoFighter \notin Fighters /\ Summoners \subseteq Fighters
  /\ Zones \subseteq {"normal", "protection", "nopvp", "pvp"} /\ "normal" \in Zones
  /\ {FightTime, FragTime, KillsToRed, MaxRedTicks} \subseteq Nat \ {0}

\* Who hits: a player, or what it has summoned.
Hitters == [player : Fighters, summon : {FALSE}] \cup [player : Summoners, summon : {TRUE}]
NoHit   == [player |-> NoFighter, summon |-> FALSE]

VARIABLES
  fighter,       (* the players, in the game and as they were saved        *)
  partners,      (* the players are in one party                           *)
  charges        (* who was charged for the last death, how often          *)

fightVars == <<fighter, partners, charges>>

NewFighter ==
  [online |-> FALSE, zone |-> "normal", health |-> 1, fight |-> 0, pzLocked |-> FALSE,
   skull |-> "none", attacked |-> {}, redTicks |-> 0, target |-> NoFighter,
   hurtBy |-> {}, lastHit |-> NoHit, dying |-> FALSE]

NoCharges == [f \in Fighters |-> 0]

FightsInit ==
  /\ fighter = [f \in Fighters |-> NewFighter]
  /\ partners = FALSE /\ charges = NoCharges

-----------------------------------------------------------------------------
(* Combat.                                                                 *)

\* Combat::isInPvpZone
InPvpZone(w, f, g) == w[f].zone = "pvp" /\ w[g].zone = "pvp"

\* Combat::canDoCombat, of players or their summons.
CanDoCombat(w, g) == w[g].zone # "nopvp"

\* Combat::canTargetCreature
CanTarget(w, f, g, safe) ==
  /\ f # g
  /\ {w[f].zone, w[g].zone} \cap {"protection", "nopvp"} = {}
  /\ safe /\ ~partners => w[g].skull # "none" \/ InPvpZone(w, f, g)
  /\ CanDoCombat(w, g)

\* Player::addInFightTicks, and Creature::addCondition, which keeps the longer.
AddInFight(w, f) == [w EXCEPT ![f].fight = FightTime]

\* Player::addAttacked and the white skull.
Attacks(w, f, g) ==
  [w EXCEPT ![f].attacked = @ \cup {g},
            ![f].skull = IF w[g].skull = "none" /\ @ = "none" THEN "white" ELSE @]

\* Player::onAttackedCreature
OnAttackedCreature(w, f, g) ==
  LET locked   == AddInFight([w EXCEPT ![f].pzLocked = TRUE], f)
      excused  == partners \/ InPvpZone(w, f, g) \/ f \in w[g].attacked
  IN IF excused THEN locked ELSE Attacks(locked, f, g)

\* Creature::setAttackedCreature
SetAttacked(w, f, g) ==
  IF g = NoFighter THEN [w EXCEPT ![f].target = NoFighter]
  ELSE AddInFight(OnAttackedCreature([w EXCEPT ![f].target = g], f, g), g)

\* Creature::addDamagePoints
AddDamagePoints(w, g, h) == [w EXCEPT ![g].hurtBy = @ \cup {h}, ![g].lastHit = h]

\* Creature::blockHit: the attacker and the attacked learn of it, whatever
\* armour and shield leave of the damage.  A summon has no skull to earn.
BlockHit(w, h, g) ==
  AddInFight(IF h.summon THEN w ELSE OnAttackedCreature(w, h.player, g), g)

\* Game::combatChangeHealth: who has no health left cannot be hurt.
ChangeHealth(w, h, g, fatal) ==
  IF w[g].health = 0 THEN w
  ELSE [AddDamagePoints(w, g, h) EXCEPT ![g].health = IF fatal THEN 0 ELSE 1]

-----------------------------------------------------------------------------
(* The end of a fight.                                                     *)

\* Creature::onIdleStatus
OnIdleStatus(x) == IF x.health > 0 THEN [x EXCEPT !.hurtBy = {}] ELSE x

\* Seeded fault: who was attacked is remembered.
KeepAttacked(x) ==
  LET idle == [OnIdleStatus(x) EXCEPT !.pzLocked = FALSE]
  IN IF x.skull = "red" THEN idle ELSE [idle EXCEPT !.skull = "none"]

\* Player::onEndCondition(CONDITION_INFIGHT)
EndOfFight(x) ==
  LET idle == [OnIdleStatus(x) EXCEPT !.pzLocked = FALSE]
  IN IF x.skull = "red" THEN idle ELSE [idle EXCEPT !.attacked = {}, !.skull = "none"]

\* Player::checkRedSkullTicks: the last think is never taken off.
CheckRedSkullTicks(x) ==
  LET y == [x EXCEPT !.redTicks = IF @ - 1 > 0 THEN @ - 1 ELSE @]
  IN IF y.redTicks < 1 /\ x.fight = 0 THEN [y EXCEPT !.skull = "none"] ELSE y

\* Creature::executeConditions, of the fight.
ExecuteFight(x) ==
  CASE x.fight = 0 -> x
    [] x.fight = 1 -> EndOfFight([x EXCEPT !.fight = 0])
    [] OTHER       -> [x EXCEPT !.fight = @ - 1]

-----------------------------------------------------------------------------
(* Death.                                                                  *)

\* Player::addUnjustifiedDead, without the bans.
AddUnjustifiedDead(w, f) ==
  LET ticks == Min({w[f].redTicks + FragTime, MaxRedTicks})
  IN [w EXCEPT ![f].redTicks = ticks,
               ![f].skull = IF ticks >= (KillsToRed - 1) * FragTime THEN "red" ELSE @]

Unjustified(w, f, g) ==
  /\ w[g].zone # "pvp" /\ ~partners
  /\ f \notin w[g].attacked /\ w[g].skull = "none"

\* Player::onKilledCreature; a summon's kill is its master's.  A red skull set
\* here keeps its fight.
OnKilled(w, f, g) ==
  LET charged == IF Unjustified(w, f, g) THEN AddUnjustifiedDead(w, f) ELSE w
  IN IF w[g].zone # "pvp" /\ w[f].fight > 0
     THEN AddInFight([charged EXCEPT ![f].pzLocked = TRUE], f) ELSE charged

\* Creature::getKillers: who hit last, and who did most of the damage.
Existing(w, h) == h # NoHit /\ w[h.player].online

MostDamage(w, g) ==
  LET there == {h \in w[g].hurtBy : Existing(w, h)}
  IN IF there = {} THEN {NoHit} ELSE there

\* Seeded fault: only the same creature is not told twice.
TellBoth(last, most) ==
  (IF last = NoHit THEN <<>> ELSE <<last.player>>)
    \o IF most # NoHit /\ most # last THEN <<most.player>> ELSE <<>>

\* Creature::onDie: the two are told, unless one is the other's master or they
\* have one master.
Killers(last, most) ==
  (IF last = NoHit THEN <<>> ELSE <<last.player>>)
    \o IF most # NoHit /\ most.player # last.player THEN <<most.player>> ELSE <<>>

\* Map::removeCreature and Creature::onCreatureDisappear: whoever aims at it
\* loses its target; hits of what is gone count for nobody.  What is not saved
\* is forgotten: of the skull only a red one is (IOPlayer::savePlayer).
Departed(w, g) ==
  [f \in Fighters |->
     IF f = g THEN [NewFighter EXCEPT !.fight = w[g].fight, !.redTicks = w[g].redTicks,
                      !.skull = IF w[g].skull = "red" THEN "red" ELSE "none"]
     ELSE [w[f] EXCEPT !.target = IF @ = g THEN NoFighter ELSE @,
                       !.attacked = @ \ {g},
                       !.hurtBy = {h \in @ : h.player # g},
                       !.lastHit = IF @.player = g THEN NoHit ELSE @]]

-----------------------------------------------------------------------------
(* The players and the server.                                             *)

\* IOPlayer::loadPlayer: of the skull only a red one whose time is not over;
\* the fight is a stored condition.
FighterLogin(f) ==
  /\ ~fighter[f].online
  /\ \E z \in Zones :
       fighter' = [fighter EXCEPT ![f] =
         [NewFighter EXCEPT !.online = TRUE, !.zone = z, !.fight = fighter[f].fight,
            !.redTicks = fighter[f].redTicks,
            !.skull = IF fighter[f].skull = "red" /\ fighter[f].redTicks > 0 THEN "red" ELSE "none"]]
  /\ UNCHANGED <<partners, charges>>

\* A red skull's time goes by in the database too.
TimeGoesBy(f) ==
  /\ ~fighter[f].online /\ fighter[f].redTicks > 0
  /\ fighter' = [fighter EXCEPT ![f].redTicks = 0]
  /\ UNCHANGED <<partners, charges>>

\* ProtocolGame::logout asks whether there is a fight; a kick does not.
FighterLeaves(f, forced) ==
  /\ fighter[f].online
  /\ forced \/ fighter[f].fight = 0
  /\ fighter' = Departed(fighter, f)
  /\ partners' = FALSE
  /\ UNCHANGED charges

\* Game::playerSetAttackedCreature; what may not be aimed at is aimed at no more.
\* The safe mode is the client's to set at any time (playerSetFightModes).
SetTarget(f, g, safe) ==
  /\ fighter[f].online
  /\ g # NoFighter => fighter[g].online
  /\ fighter' = SetAttacked(fighter, f,
                  IF g # NoFighter /\ CanTarget(fighter, f, g, safe) THEN g ELSE NoFighter)
  /\ UNCHANGED <<partners, charges>>

\* A swing, a rune, a spell, a field or what a condition still deals: some need
\* a place to be thrown from, the last needs none.
Hit(h, g, fatal) ==
  /\ fighter[h.player].online /\ fighter[g].online /\ h.player # g
  /\ CanDoCombat(fighter, g)
  /\ fighter' = ChangeHealth(BlockHit(fighter, h, g), h, g, fatal)
  /\ UNCHANGED <<partners, charges>>

\* Game::checkCreatures
ThinkOf(f) ==
  /\ fighter[f].online
  /\ IF fighter[f].health > 0
       THEN fighter' = [fighter EXCEPT ![f] = ExecuteFight(CheckRedSkullTicks(@))]
       ELSE fighter' = [fighter EXCEPT ![f].dying = TRUE]
  /\ UNCHANGED <<partners, charges>>

\* Game::doDeathDelay
DoDeath(f) ==
  /\ fighter[f].online /\ fighter[f].dying
  /\ \E most \in MostDamage(fighter, f) :
       LET told == Killers(fighter[f].lastHit, most)
           w    == CASE told = <<>>      -> fighter
                     [] Len(told) = 1    -> OnKilled(fighter, told[1], f)
                     [] OTHER            -> OnKilled(OnKilled(fighter, told[1], f), told[2], f)
           Charged(k) == IF told # <<>> /\ Unjustified(fighter, k, f)
                           THEN Cardinality({i \in DOMAIN told : told[i] = k}) ELSE 0
       IN fighter' = Departed(w, f) /\ charges' = [k \in Fighters |-> Charged(k)]
  /\ partners' = FALSE

\* Player::preSave, of every player when the server is saved.
Save ==
  /\ \E f \in Fighters : fighter[f].online /\ fighter[f].health = 0
  /\ fighter' = [f \in Fighters |-> [fighter[f] EXCEPT !.health = 1]]
  /\ UNCHANGED <<partners, charges>>

\* Seeded fault: those who aim at the one who moves are not told.
ChangeOwnZone(w, f, z) ==
  [w EXCEPT ![f].zone = z,
            ![f].target = IF z \in {"protection", "nopvp"} THEN NoFighter ELSE @]

\* Who loses its target by a change of zone (Player::onChangeZone of the one
\* who moves, onAttackedCreatureChangeZone of those who aim at it).
ChangeZone(w, f, z) ==
  [g \in Fighters |->
     LET x == IF g = f THEN [w[f] EXCEPT !.zone = z] ELSE w[g]
     IN IF z \in {"protection", "nopvp"} /\ (g = f \/ x.target = f)
        THEN [x EXCEPT !.target = NoFighter] ELSE x]

\* A step, which Tile::__queryAdd asks about, or a teleport, which asks nothing.
Walks(f, z, teleport) ==
  /\ fighter[f].online /\ z # fighter[f].zone
  /\ teleport \/ ~fighter[f].pzLocked \/ (z = "normal" /\ fighter[f].zone # "pvp")
  /\ fighter' = ChangeZone(fighter, f, z)
  /\ UNCHANGED <<partners, charges>>

\* The party of the players is founded, or left by one out of a fight.
ChangeParty ==
  /\ \A f \in Fighters : fighter[f].online
  /\ partners => \E f \in Fighters : fighter[f].fight = 0
  /\ partners' = ~partners
  /\ UNCHANGED <<fighter, charges>>

FightsNext ==
  \/ \E f \in Fighters :
       \/ FighterLogin(f) \/ TimeGoesBy(f) \/ ThinkOf(f) \/ DoDeath(f)
       \/ \E forced \in BOOLEAN : FighterLeaves(f, forced)
       \/ \E g \in Fighters \cup {NoFighter}, safe \in BOOLEAN : SetTarget(f, g, safe)
       \/ \E h \in Hitters, fatal \in BOOLEAN : Hit(h, f, fatal)
       \/ \E z \in Zones, teleport \in BOOLEAN : Walks(f, z, teleport)
  \/ Save \/ ChangeParty

-----------------------------------------------------------------------------

FightsTypeOK ==
  /\ \A f \in Fighters :
       LET x == fighter[f]
       IN /\ x.zone \in Zones /\ x.health \in 0..1 /\ x.fight \in 0..FightTime
          /\ x.skull \in {"none", "white", "red"} /\ x.attacked \subseteq Fighters \ {f}
          /\ x.redTicks \in 0..MaxRedTicks /\ x.target \in Fighters \cup {NoFighter}
          /\ x.hurtBy \subseteq Hitters /\ x.lastHit \in Hitters \cup {NoHit}
          /\ {x.online, x.pzLocked, x.dying} \subseteq BOOLEAN
  /\ partners \in BOOLEAN /\ charges \in [Fighters -> Nat]

\* When the fight is over nothing of it is left: no lock, no white skull, and
\* nobody who may still be killed for having attacked, a red skull apart.
FightLeavesNothing ==
  \A f \in Fighters : fighter[f].online /\ fighter[f].fight = 0 =>
    /\ ~fighter[f].pzLocked
    /\ fighter[f].skull # "white"
    /\ fighter[f].skull # "red" => fighter[f].attacked = {}

\* Nobody aims out of, or into, a zone where there is no fighting, nor at
\* somebody who is gone, however the two got to where they are.
TargetLegal ==
  \A f \in Fighters : fighter[f].target # NoFighter =>
    LET g == fighter[f].target
    IN /\ fighter[f].online /\ fighter[g].online /\ f # g
       /\ {fighter[f].zone, fighter[g].zone} \cap {"protection", "nopvp"} = {}

\* One death is one unjustified kill for whoever caused it, however it and its
\* summon shared the work.
ChargedOnce == \A f \in Fighters : charges[f] <= 1

\* A red skull is one whose time is not over.
RedIsTimed == \A f \in Fighters : fighter[f].online /\ fighter[f].skull = "red" => fighter[f].redTicks > 0

\* Marks of a fight go with it, targets are legal, and a kill is paid once.
FightsConsistent ==
  FightsTypeOK /\ FightLeavesNothing /\ TargetLegal /\ ChargedOnce /\ RedIsTimed
================================================================================
