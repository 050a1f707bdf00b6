----------------------------- MODULE MCSession ------------------------------
(***************************************************************************)
(* What a player who is in the game is to the server, and what its client  *)
(* has open: sessions, and the windows of bags, depots and letters.  An    *)
(* instance of each is checked in the same run: topic says which.          *)
(***************************************************************************)
EXTENDS GameSession, Windows

VARIABLE topic  (* what this behaviour is about                            *)

sessionVars == <<vars, windowVars, topic>>

Playing == {"session", "clones"}
Opened == {"hands", "depot", "letters"}

SessionInit ==
  /\ topic \in Playing \cup Opened
  /\ Init /\ WindowsInit
  /\ topic \notin {"hands", "letters"} => \A n \in Papers : place[n] = Nowhere

\* Bags and papers change hands; a depot is opened here and there; letters are
\* written.  The second person stays where it is until letters are written.
Rummage ==
  /\ topic = "letters" => UNCHANGED windows /\ \A b \in Bags : place'[b] = place[b]
  /\ topic # "letters" => /\ UNCHANGED letters
                          /\ \A p \in Persons \ Lookers : stands'[p] = stands[p]
  /\ topic = "depot" => \A n \in Papers : place'[n] = Nowhere
  /\ topic = "hands" => UNCHANGED depotAt

\* A character is in the world once; or it may be there twice, and nobody is
\* banished and the dispatcher is in time.
Comings ==
  /\ topic = "session" => Cardinality({o \in Bodies : body'[o].place = "in"}) <= 1
  /\ topic = "clones" => UNCHANGED <<kicks, late>>

SessionNext ==
  /\ \/ topic \in Playing /\ Next /\ Comings /\ UNCHANGED windowVars
     \/ topic \in Opened /\ WindowsNext /\ Rummage /\ UNCHANGED vars
  /\ UNCHANGED topic

\* Fairness is that of sessions; of windows nothing is said to happen.
SessionSpec == SessionInit /\ [][SessionNext]_sessionVars /\ Fairness

-----------------------------------------------------------------------------
CONSTANTS ann, bob, box

MCDepotOwner == [d \in {box} |-> ann]
=============================================================================
