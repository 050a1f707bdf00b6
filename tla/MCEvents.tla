------------------------------ MODULE MCEvents ------------------------------
(***************************************************************************)
(* What makes things happen on the map: the events of the scheduler, the   *)
(* scripts of the items on a tile, the steps a hunting monster takes, and  *)
(* the raids.                                                              *)
(* An instance of each is checked in the same run, one at a time: topic    *)
(* says which.                                                             *)
(***************************************************************************)
EXTENDS Scheduler, StepEvents, Hunt, Raids

VARIABLE topic  (* what this behaviour is about                            *)

mapVars == <<vars, stepVars, huntVars, raidVars, topic>>

Hunting == {"chase", "shove", "ask"}

At(x, y) == <<x, y, 7>>

\* The hunter chases its prey past the beast; has the beast in its way, and
\* shoves it or crates aside; or stands by while the prey asks for its way.
Positions ==
  /\ stand[Hunter] = At(0, 0)
  /\ CASE topic = "shove" -> /\ might # {} /\ fleeing = FALSE
                             /\ stand[Prey] = At(3, 0) /\ stand[Beast] = At(1, 0)
       [] topic = "ask"   -> /\ might = {} /\ fleeing = FALSE
                             /\ stand[Prey] \in {At(3, 0), At(2, 1)} /\ stand[Beast] = At(1, 1)
       [] topic = "chase" -> might = {} /\ stand[Prey] = At(2, 0) /\ stand[Beast] = At(3, 1)
       [] OTHER           -> /\ might = {} /\ fleeing = FALSE
                             /\ stand[Prey] = At(3, 0) /\ stand[Beast] = At(3, 1)

EventsInit ==
  /\ topic \in {"events", "tiles", "raids"} \cup Hunting
  /\ Init /\ StepInit /\ HuntInit /\ Positions /\ RaidsInit
  /\ topic # "events" => lastEventId = 0

\* What the others do meanwhile.
Chase ==
  /\ asked' # NoRequest => asked'.who = Hunter
  /\ fires' \subseteq {At(1, 0)} /\ pillars' \subseteq {At(1, 1)} /\ crates' = {}
  /\ Cardinality(pillars' \cup fires') <= 1
  /\ afire' # afire => fires # {} \/ afire
  /\ fleeing' # fleeing => route = << >>
  /\ stand'[Beast] = stand[Beast] /\ UNCHANGED dying
  /\ stand'[Prey] \in {Nobody, At(2, 0), At(3, 0), At(3, 1)}
Shove ==
  /\ asked' # NoRequest => asked'.who = Hunter
  /\ fires' = {} /\ afire' = FALSE /\ pillars' \subseteq {At(2, 1)}
  /\ Cardinality(crates' \cup pillars') <= 1
  /\ stand'[Prey] = stand[Prey] /\ stand'[Beast] \in {Nobody, stand[Beast], At(1, 0), At(2, 0)}
Ask == stand' = stand /\ quarry' = Nobody /\ afire' = FALSE

EventsNext ==
  /\ \/ topic = "events" /\ Next      /\ UNCHANGED <<stepVars, huntVars, raidVars>>
     \/ topic = "tiles"  /\ StepNext  /\ UNCHANGED <<vars, huntVars, raidVars>>
     \/ topic = "raids"  /\ RaidsNext /\ UNCHANGED <<vars, stepVars, huntVars>>
     \/ /\ topic \in Hunting /\ HuntNext
        /\ CASE topic = "chase" -> Chase [] topic = "shove" -> Shove [] OTHER -> Ask
        /\ UNCHANGED <<vars, stepVars, raidVars>>
  /\ UNCHANGED topic

\* Fairness is that of the scheduler; of the rest nothing is said to happen.
EventsSpec == EventsInit /\ [][EventsNext]_mapVars /\ Fairness

-----------------------------------------------------------------------------
(* One item that always lies on top and has a script for steps, one that is *)
(* carried about and has one for things that fall on its tile.              *)
CONSTANTS plate, altar

MCFirstKinds == [x \in {plate, altar} |-> IF x = altar THEN "tile" ELSE "step"]

\* A raid of four kinds of nodes, two of which are not right; one whose file has
\* none; one of a script; one that raids.xml does not describe in full.
CONSTANTS wolves, feast, dragon, ghosts

RaidNode(k, tags, delay, monsters) ==
  [kind |-> k, tags |-> tags, delay |-> delay, monsters |-> monsters]

MCEntries == [r \in {wolves, feast, dragon, ghosts} |->
                IF r = ghosts THEN {"name", "file"} ELSE {"name", "interval2"}]
MCFiles == [r \in {wolves, feast, dragon, ghosts} |->
  CASE r = wolves ->
         <<RaidNode("announce", {"delay", "message"}, 5000, {}),
           RaidNode("areaspawn", {"delay", "radius", "centerx", "centery", "centerz"}, 10,
                {{"name", "amount"}}),
           RaidNode("areaspawn", {"delay", "fromx", "fromy", "fromz"}, 10, {}),
           RaidNode("singlespawn", {"delay", "name", "x", "y", "z"}, 5000, {}),
           RaidNode("comment", {}, 0, {})>>
    [] r = dragon -> <<RaidNode("script", {"delay", "script"}, 1, {})>>
    [] OTHER      -> << >>]

\* Eight tiles on one floor.
MCHuntTiles == {At(x, y) : x \in 0..3, y \in 0..1}
MCSpots     == {At(1, 0), At(1, 1), At(2, 1)}
MCHavens    == {At(3, 1)}
MCAsks      == {At(0, 1), At(1, 0)}
=============================================================================
