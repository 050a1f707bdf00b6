---------------------------- MODULE MCGameThread ----------------------------
(***************************************************************************)
(* The thread of the game: the dispatcher that feeds it, and what its      *)
(* tasks do in scripts, in what is registered with them, in conversations  *)
(* with NPCs, in spells and weapons, and in payments.  An instance of each *)
(* is checked in the same run, one at a time: topic says which.            *)
(***************************************************************************)
EXTENDS Dispatcher, Scripts, Npc, Registry, Magic, Purse, TLC

VARIABLE topic  (* what this behaviour is about                            *)

threadVars == <<vars, scriptVars, npcVars, registryVars, magicVars, purseVars, topic>>

InScripts == {"things", "events", "loading"}

\* Scripts: what they do with things, with events, and while they are loaded.
ScriptsStart ==
  /\ timers.made = IF topic = "events" THEN 0 ELSE MaxTimers
  /\ results.made = IF topic = "events" THEN 0 ELSE MaxResults
  /\ calls = CASE topic = "things" -> 0 [] topic = "loading" -> MaxCalls - 1 [] OTHER -> MaxCalls
  /\ \A g \in Marked : things[g].at = "tile"
  /\ IF topic = "things" THEN \E t \in Things : things[t].at = "unborn"
     ELSE \A t \in Things : things[t].at = IF t \in Beasts \cup Marked THEN "tile" ELSE "bag"

ThreadInit ==
  /\ topic \in {"tasks", "npc", "registry", "magic", "money"} \cup InScripts
  /\ Init /\ ScriptsInit /\ ScriptsStart /\ NpcInit /\ RegistryInit /\ MagicInit /\ PurseInit
  /\ topic # "registry" => dates.of = "think" /\ system = CHOOSE s \in Systems : TRUE
  /\ topic # "magic" => /\ book = CHOOSE b \in Books : b.kind # "rune"
                        /\ gifts = {} /\ mage.mana = 0
                        /\ mage.hands = [left |-> "none", right |-> "none"]
  /\ topic # "money" => accounts /\ hoard = CHOOSE h \in Hoards : TRUE

\* While scripts are loaded they make combats and conditions; nothing is on the
\* map yet, and none calls another.
ScriptsStep ==
  /\ ScriptsNext
  /\ IF topic = "loading" THEN UNCHANGED things /\ Len(frames') <= 1 ELSE UNCHANGED combats

ThreadNext ==
  /\ \/ topic = "tasks" /\ Next
        /\ UNCHANGED <<scriptVars, npcVars, registryVars, magicVars, purseVars>>
     \/ topic \in InScripts /\ ScriptsStep
        /\ UNCHANGED <<vars, npcVars, registryVars, magicVars, purseVars>>
     \/ topic = "npc" /\ NpcNext
        /\ UNCHANGED <<vars, scriptVars, registryVars, magicVars, purseVars>>
     \/ topic = "registry" /\ RegistryNext
        /\ UNCHANGED <<vars, scriptVars, npcVars, magicVars, purseVars>>
     \/ topic = "magic" /\ MagicNext
        /\ UNCHANGED <<vars, scriptVars, npcVars, registryVars, purseVars>>
     \/ topic = "money" /\ PurseNext
        /\ UNCHANGED <<vars, scriptVars, npcVars, registryVars, magicVars>>
  /\ UNCHANGED topic

\* Fairness is that of the dispatcher; of the rest nothing is said to happen.
ThreadSpec == ThreadInit /\ [][ThreadNext]_threadVars /\ Fairness

-----------------------------------------------------------------------------
CONSTANTS t1, t2, t3, t4, shutdown

\* No task but the one that shuts down adds another one.
MCChild == [t \in Tasks |-> IF t = t4 THEN shutdown ELSE NoTask]

\* Spells of every kind with what they need, and weapons by what they use up.
Spell(kind, aim, effect) ==
  [kind |-> kind, aim |-> aim, effect |-> effect, mana |-> 0, percent |-> 0, aggressive |-> FALSE,
   exhaustion |-> TRUE, clear |-> FALSE, prey |-> 0, holds |-> {"none"}]
Weapon(ammo, mana, reach, exhausts, interrupts) ==
  [kind |-> "weapon", ammo |-> ammo, mana |-> mana, percent |-> 0, reach |-> reach,
   exhaustion |-> exhausts, interrupts |-> interrupts, aggressive |-> TRUE, holds |-> {"none", "tool"}]

MCBooks ==
  {[Spell("conjure", "self", "reagent") EXCEPT !.mana = 2, !.holds = {"none", "blank", "blanks"}],
   [Spell("conjure", "self", "food") EXCEPT !.mana = 1],
   [Spell("instant", "param", "illusion") EXCEPT !.mana = 3],
   [Spell("instant", "param", "levitate") EXCEPT !.mana = 1],
   Spell("instant", "param", "house"),
   [Spell("instant", "param", "search") EXCEPT !.mana = 1],
   Spell("rune", "place", "illusion"),
   [Spell("instant", "either", "script") EXCEPT !.percent = 50, !.aggressive = TRUE],
   [Spell("instant", "target", "script") EXCEPT !.percent = 50, !.aggressive = TRUE],
   [Spell("instant", "param", "summon") EXCEPT !.prey = 1],
   [Spell("instant", "place", "script") EXCEPT !.mana = 2, !.clear = TRUE],
   [Spell("rune", "target", "script") EXCEPT !.aggressive = TRUE],
   [Spell("rune", "target", "convince") EXCEPT !.prey = 2],
   [Spell("rune", "place", "script") EXCEPT !.clear = TRUE],
   [Spell("instant", "place", "area") EXCEPT !.aggressive = TRUE] @@ [topmost |-> FALSE, combat |-> "health"],
   [Spell("rune", "target", "area") EXCEPT !.mana = 1] @@ [topmost |-> TRUE, combat |-> "dispel"],
   [Spell("rune", "place", "area") EXCEPT !.aggressive = TRUE] @@ [topmost |-> TRUE, combat |-> "condition"],
   Weapon("none", 0, {"near"}, FALSE, FALSE),
   Weapon("move", 0, {"near", "far"}, FALSE, FALSE),
   Weapon("remove", 0, {"near", "far"}, FALSE, TRUE),
   Weapon("moveBack", 0, {"near"}, FALSE, FALSE),
   Weapon("charges", 1, {"near", "far"}, TRUE, TRUE),
   Weapon("charges", 1, {"near", "far"}, TRUE, FALSE)}

MCBearings ==
  {{}, {"ignoreCheck", "noExhaustion"},
   {"infiniteMana", "ignoreWeapon", "noFight", "convinceAll", "summonAll"}, {"noSpells"}, {"unfit"}}

\* Coins in the hand and in bags within bags, or in a bag and in the depot.
Bare == [h \in Holders |-> << >>]
MCHoards ==
  {[Bare EXCEPT !["body"] = <<Pouch("outer"), Coin("gold", 2)>>,
                !["outer"] = <<Coin("platinum", 1), Pouch("inner")>>,
                !["inner"] = <<Coin("platinum", 1)>>],
   [Bare EXCEPT !["body"] = <<Pouch("outer"), Vacant>>,
                !["outer"] = <<Coin("gold", 1)>>,
                !["depot"] = <<Coin("crystal", 1)>>]}
=============================================================================
