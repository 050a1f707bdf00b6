------------------------------ MODULE MCPeople ------------------------------
(***************************************************************************)
(* What players have with each other - parties, chat, houses, fights - and *)
(* what one sees of the others.  No handler of one of them touches the     *)
(* state of another, so an instance of each is checked in the same run,    *)
(* one at a time: topic says which.                                        *)
(***************************************************************************)
EXTENDS Party, Chat, Houses, Fights, ClientView, TLC

VARIABLE topic  (* what this behaviour is about                            *)

peopleVars == <<vars, chatVars, houseVars, fightVars, viewVars, topic>>

PeopleInit ==
  /\ Init /\ ChatInit /\ HouseInit /\ FightsInit /\ ViewInit
  /\ topic \in {"party", "chat", "house", "fight", "view"}

\* Bound: two at most have invited themselves.
PartyTopic == Next /\ Cardinality(selfInvited') <= 2

\* Bounds: gamemasters stay out of the guild channel and found no private one;
\* they are guests, invited or not, in those of the others, and one at most
\* leaves its pointer there.
ChatTopic ==
  /\ ChatNext
  /\ channel'[Guild].users \cap Gamemasters = {}
  /\ \A c \in Slots : /\ channel'[c].owner \notin Gamemasters
                      /\ Cardinality(channel'[c].ghosts) <= 1

\* Bound: somebody is where there is fighting.
FightsTopic ==
  FightsNext /\ ~\A f \in Fighters : fighter'[f].zone = "protection"

PeopleNext ==
  /\ \/ topic = "party" /\ PartyTopic  /\ UNCHANGED <<chatVars, houseVars, fightVars, viewVars>>
     \/ topic = "chat"  /\ ChatTopic   /\ UNCHANGED <<vars, houseVars, fightVars, viewVars>>
     \/ topic = "house" /\ HouseNext   /\ UNCHANGED <<vars, chatVars, fightVars, viewVars>>
     \/ topic = "fight" /\ FightsTopic /\ UNCHANGED <<vars, chatVars, houseVars, viewVars>>
     \/ topic = "view"  /\ ViewNext    /\ UNCHANGED <<vars, chatVars, houseVars, fightVars>>
  /\ UNCHANGED topic

PeopleSpec == PeopleInit /\ [][PeopleNext]_peopleVars

-----------------------------------------------------------------------------
(* A viewer and two others on five tiles, one of them a hole above another  *)
(* floor, one out of the client's sight; two items of changing kinds.       *)
CONSTANTS viewer, other1, other2, piece1, piece2

MCPlaces == {<<1, 7>>, <<2, 7>>, <<2, 8>>, <<4, 10>>, <<2, 5>>}
MCSoft   == {<<1, 7>>}
MCSteps  == {<<<<1, 7>>, <<2, 7>>>>, <<<<2, 8>>, <<1, 7>>>>}
MCFalls  == <<2, 7>> :> <<2, 8>>

MCFirstKinds == {<<piece1, "slime">>, <<piece1, "coins2">>, <<piece2, "ward">>, <<piece2, "blood">>,
                 <<piece2, "opendoor">>}
MCTransforms == {<<"slime", "fire">>, <<"coins1", "coins2">>, <<"coins2", "crate">>}

=============================================================================
