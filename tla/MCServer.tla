------------------------------ MODULE MCServer ------------------------------
(***************************************************************************)
(* What the server keeps: its connections, what is saved of players and    *)
(* houses, and bans.  An instance of each is checked in the same run, one  *)
(* at a time: topic says which.                                            *)
(***************************************************************************)
EXTENDS Connection, Storage, Bans, TLC

VARIABLE topic  (* what this behaviour is about                            *)

serverVars == <<vars, storageVars, bansVars, topic>>

Saving == {"things", "house", "deals"}

ServerInit ==
  /\ topic \in {"connection", "bans", "tries"} \cup Saving
  /\ Init /\ StorageInit /\ BansInit
  /\ mapStorage = IF topic = "things" THEN "relational" ELSE "binary"

\* Players carry things and lay them on the floor, lay them into the chest, or
\* pay and invite.
StorageStep ==
  \/ topic \in Saving  /\ Sessions
  \/ topic = "things"  /\ Handling /\ content'[Chest] = <<>>
  \/ topic = "house"   /\ Handling /\ \A h \in Slots : content'[h] = <<>>
  \/ topic = "deals"   /\ Dealing

\* Who is banned, without wrong passwords; or passwords, with nobody banned.
BansTopic ==
  /\ topic \in {"bans", "tries"} /\ BansNext
  /\ topic = "bans"  => \A i \in Address : attempts'[i].wrong = 0 /\ attempts'[i].number <= 1
  /\ topic = "bans"  => \A i \in Address : attempts'[i].age \in {0, Longest}
  /\ topic = "tries" => UNCHANGED <<bans, inGame>>

ServerNext ==
  /\ \/ topic = "connection" /\ Next /\ UNCHANGED <<storageVars, bansVars>>
     \/ StorageStep /\ UNCHANGED <<vars, bansVars>>
     \/ BansTopic /\ UNCHANGED <<vars, storageVars>>
  /\ UNCHANGED topic

\* Fairness is that of connections; of the rest nothing is said to happen.
ServerSpec == ServerInit /\ [][ServerNext]_serverVars /\ Fairness

-----------------------------------------------------------------------------
\* An account with two characters, one of whom may not be banned.
MCAccountOf == [c \in {2, 6} |-> 1]

\* Two players' bags and depots.
CONSTANTS ann, bob, bag1, bag2, depot1, depot2

MCSlot   == ann :> bag1 @@ bob :> bag2
MCLocker == ann :> depot1 @@ bob :> depot2
=============================================================================
