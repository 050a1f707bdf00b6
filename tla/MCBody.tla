------------------------------- MODULE MCBody -------------------------------
(***************************************************************************)
(* What time does to a player: walks and what was put off until they end,  *)
(* conditions and how they are saved, and the items that decay.  An        *)
(* instance of each is checked in the same run, one at a time: topic says  *)
(* which.                                                                  *)
(***************************************************************************)
EXTENDS Walk, Decay, Conditions, SavedConditions

VARIABLE topic  (* what this behaviour is about                            *)

bodyVars == <<walkVars, decayVars, conditionVars, savedVars, topic>>

BodyInit ==
  /\ topic \in {"walk", "decay", "condition", "saved"}
  /\ WalkInit /\ DecayInit /\ ConditionsInit /\ SavedInit
  /\ topic # "walk" => habit = "use"
  /\ topic # "decay" => sticks
  /\ topic # "condition" => kit = CHOOSE k \in Kits : TRUE

\* Conditions are made and changed by scripts before a creature bears them.
Save ==
  /\ SavedNext
  /\ borne' # <<>> => params' <= 1 /\ (draft' # Undrafted => draft'.type \in {"fire", "drunk"})
  /\ phase' # "on" \/ stream # <<>> => draft' = Undrafted

BodyNext ==
  /\ \/ topic = "walk"      /\ WalkNext       /\ UNCHANGED <<decayVars, conditionVars, savedVars>>
     \/ topic = "decay"     /\ DecayNext      /\ UNCHANGED <<walkVars, conditionVars, savedVars>>
     \/ topic = "condition" /\ ConditionsNext /\ UNCHANGED <<walkVars, decayVars, savedVars>>
     \/ topic = "saved"     /\ Save           /\ UNCHANGED <<walkVars, decayVars, conditionVars>>
  /\ UNCHANGED topic

BodySpec == BodyInit /\ [][BodyNext]_bodyVars /\ WalkFairness

-----------------------------------------------------------------------------
(* A torch that is lit and put out by a script, and a ring that is active   *)
(* while it is worn.                                                        *)
Decaying(next, time, stop, gives, equipTo, deEquipTo) ==
  [decayTo |-> next, time |-> time, stop |-> stop, worn |-> gives,
   equipTo |-> equipTo, deEquipTo |-> deEquipTo]

MCKinds ==
  [lit    |-> Decaying("stub", 2, FALSE, FALSE, NoKind, NoKind),
   unlit  |-> Decaying(Never, 0, TRUE, FALSE, NoKind, NoKind),
   stub   |-> Decaying(Gone, 1, FALSE, FALSE, NoKind, NoKind),
   ring   |-> Decaying(Never, 0, TRUE, FALSE, "active", NoKind),
   active |-> Decaying(Gone, 4, FALSE, TRUE, NoKind, "ring")]

MCScripted == {<<"lit", "unlit">>, <<"unlit", "lit">>}

-----------------------------------------------------------------------------
(* Conditions that meet: of speed, of skills, of looks, damage, light.      *)
Plain(type, ticks) ==
  [type |-> type, id |-> ById, ticks |-> ticks, left |-> 0, lapsed |-> FALSE,
   late |-> 0, cut |-> FALSE]

Changing(type, ticks, delta) == Plain(type, ticks) @@ [delta |-> delta]

Burning(n, delayed, force) ==
  Plain("fire", 4 * n) @@
  [rounds |-> [i \in 1..n |-> [interval |-> 4, timeLeft |-> 4, value |-> 1]],
   delayed |-> delayed, force |-> force]

MCKits ==
  {{Changing("haste", 2, 2), Changing("haste", 1, 3), Changing("paralyze", 2, -2)},
   {Changing("attributes", 3, 1), Changing("attributes", 2, 2)},
   {Plain("invisible", 3), Plain("outfit", 3) @@ [look |-> "rat"]},
   {Burning(2, FALSE, FALSE), Burning(1, TRUE, TRUE)},
   {Plain("light", 4) @@ [level |-> 2, internal |-> 0, every |-> 0]},
   {Plain("drunk", 2)}}

\* A ring of speed and skill that keeps its wearer sober, and a stealth ring.
MCGear ==
  <<[speed |-> 1, skill |-> 1, invisible |-> FALSE, suppresses |-> {"drunk"}],
    [speed |-> 0, skill |-> 0, invisible |-> TRUE, suppresses |-> {}]>>
=============================================================================
