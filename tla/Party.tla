------------------------------- MODULE Party --------------------------------
(***************************************************************************)
(* Parties: Source/party.cpp, the Game::player...Party handlers, and what  *)
(* a player's departure does to the parties (Player::onCreatureDisappear). *)
(*                                                                         *)
(* Every handler is a task of the dispatcher, so it is one step.  Players  *)
(* and parties point to each other with raw pointers in four lists; a      *)
(* handler is a function from a world (those lists) to a world.            *)
(***************************************************************************)
EXTENDS Naturals, SequencesExt

CONSTANTS
  Players,      (* the characters                                          *)
  Parties,      (* bound: the Party objects (addresses) there may be       *)
  NoPlayer,     (* the null Player*                                        *)
  NoParty       (* the null Party*                                         *)

ASSUME PartyAssumption ==
  /\ NoPlayer \notin Players
  /\ NoParty \notin Parties

VARIABLES
  online,       (* the players that are in the game                        *)
  group,        (* leader, memberList and inviteList of each Party         *)
  party,        (* Player::party                                           *)
  invited,      (* Player::invitePartyList                                 *)
  selfInvited,  (* ghost: who has invited itself since it logged in        *)
  broken        (* ghost: a method was called of a Party that is deleted   *)

vars == <<online, group, party, invited, selfInvited, broken>>

Group   == [leader : Players, members : Seq(Players), invites : SUBSET Players]
NoGroup == [leader |-> NoPlayer, members |-> <<>>, invites |-> {}]

World == [group |-> group, party |-> party, invited |-> invited]

Becomes(w) ==
  /\ group' = w.group
  /\ party' = w.party
  /\ invited' = w.invited

Init ==
  /\ online = {}
  /\ group = [P \in Parties |-> NoGroup]
  /\ party = [p \in Players |-> NoParty]
  /\ invited = [p \in Players |-> {}]
  /\ selfInvited = {}
  /\ broken = FALSE

-----------------------------------------------------------------------------
(* Party.                                                                  *)

IsMember(g, p) == \E i \in 1..Len(g.members) : g.members[i] = p

\* std::find and erase.
Without(s, p) ==
  IF \E i \in 1..Len(s) : s[i] = p
    THEN RemoveAt(s, CHOOSE i \in 1..Len(s) : s[i] = p)
    ELSE s

\* Party::disbandParty
Deserted(g) == g.members = <<>> /\ g.invites = {}

\* Seeded fault: the invited keep their pointer to the party.
DisbandKeepsInvited(w, P) ==
  LET g == w.group[P]
  IN [group   |-> [w.group EXCEPT ![P] = NoGroup],
      party   |-> [q \in Players |-> IF q = g.leader \/ IsMember(g, q)
                                       THEN NoParty ELSE w.party[q]],
      invited |-> w.invited]

\* Party::disband: forgets the leader, the invited and the members; delete.
Disband(w, P) ==
  LET g == w.group[P]
  IN [group   |-> [w.group EXCEPT ![P] = NoGroup],
      party   |-> [q \in Players |-> IF q = g.leader \/ IsMember(g, q)
                                       THEN NoParty ELSE w.party[q]],
      invited |-> [q \in Players |-> w.invited[q] \ (IF q \in g.invites THEN {P} ELSE {})]]

\* Party::removeInvite of an invited player.
RemoveInvite(w, P, q) ==
  LET w1 == [w EXCEPT !.group[P].invites = @ \ {q}, !.invited[q] = @ \ {P}]
  IN IF Deserted(w1.group[P]) THEN Disband(w1, P) ELSE w1

\* Party::passPartyLeadership: the old leader is now the first member.
PassLeadership(g, p) ==
  [g EXCEPT !.leader = p, !.members = <<g.leader>> \o Without(g.members, p)]

\* Party::leaveParty of the leader or of a member.  The first member succeeds
\* a leader who leaves; the last one to leave, or the last but one when
\* nobody is invited, ends the party.
LeaveParty(w, p) ==
  LET P  == w.party[p]
      g  == w.group[P]
      g1 == IF g.leader = p /\ g.members # <<>>
              THEN PassLeadership(g, Head(g.members)) ELSE g
      g2 == [g1 EXCEPT !.members = Without(g1.members, p), !.invites = @ \ {p}]
      w1 == [w EXCEPT !.group[P] = g2, !.party[p] = NoParty]
  IN IF g1.leader = p \/ Deserted(g2) THEN Disband(w1, P) ELSE w1

-----------------------------------------------------------------------------
(* The handlers of Game.                                                   *)

\* Player::isInviting
IsInviting(p, q) ==
  /\ party[p] # NoParty
  /\ group[party[p]].leader = p
  /\ q \in group[party[p]].invites

Leads(p) == party[p] # NoParty /\ group[party[p]].leader = p

\* Game::playerInviteToParty; a player without a party founds one.  Nothing
\* keeps a client from naming its own player.
InviteToParty(p, q) ==
  /\ {p, q} \subseteq online
  /\ ~IsInviting(q, p)
  /\ party[q] = NoParty
  /\ \E P \in Parties :
       /\ \/ /\ party[p] = NoParty
             /\ group[P] = NoGroup
             /\ group' = [group EXCEPT ![P] =
                           [leader |-> p, members |-> <<>>, invites |-> {q}]]
          \/ /\ Leads(p)
             /\ P = party[p]
             /\ q \notin group[P].invites
             /\ group' = [group EXCEPT ![P].invites = @ \cup {q}]
       /\ party' = [party EXCEPT ![p] = P]
       /\ invited' = [invited EXCEPT ![q] = @ \cup {P}]
  /\ selfInvited' = selfInvited \cup ({p} \cap {q})
  /\ UNCHANGED <<online, broken>>

\* Game::playerJoinParty and Party::joinParty.
JoinParty(p, leader) ==
  LET P == party[leader]
  IN /\ {p, leader} \subseteq online
     /\ IsInviting(leader, p)
     /\ party[p] = NoParty
     /\ group' = [group EXCEPT ![P].members = Append(@, p), ![P].invites = @ \ {p}]
     /\ party' = [party EXCEPT ![p] = P]
     /\ invited' = [invited EXCEPT ![p] = @ \ {P}]
     /\ UNCHANGED <<online, selfInvited, broken>>

\* Game::playerRevokePartyInvitation and Party::revokeInvitation.
RevokeInvitation(p, q) ==
  /\ {p, q} \subseteq online
  /\ IsInviting(p, q)
  /\ Becomes(RemoveInvite(World, party[p], q))
  /\ UNCHANGED <<online, selfInvited, broken>>

\* Game::playerPassPartyLeadership
PassPartyLeadership(p, q) ==
  /\ {p, q} \subseteq online
  /\ Leads(p)
  /\ q # p
  /\ party[q] = party[p]
  /\ IsMember(group[party[p]], q)
  /\ group' = [group EXCEPT ![party[p]] = PassLeadership(@, q)]
  /\ UNCHANGED <<online, party, invited, selfInvited, broken>>

\* Game::playerLeaveParty.  A fight (CONDITION_INFIGHT) only forbids it.
Leave(p) ==
  /\ p \in online
  /\ party[p] # NoParty
  /\ Becomes(LeaveParty(World, p))
  /\ UNCHANGED <<online, selfInvited, broken>>

\* Player::clearPartyInvitations: removeInvite for each party, in any order.
ClearPartyInvitations(w, p) ==
  LET emptied(P) == P \in w.invited[p] /\ w.group[P].invites = {p}
                      /\ w.group[P].members = <<>>
  IN [group   |-> [P \in Parties |->
                     IF emptied(P) THEN NoGroup
                     ELSE [w.group[P] EXCEPT !.invites =
                             IF P \in w.invited[p] THEN @ \ {p} ELSE @]],
      party   |-> [q \in Players |->
                     IF \E P \in Parties : emptied(P) /\ w.group[P].leader = q
                       THEN NoParty ELSE w.party[q]],
      invited |-> [w.invited EXCEPT ![p] = {}]]

\* A player logs in: a new Player object.
Login(p) ==
  /\ p \notin online
  /\ online' = online \cup {p}
  /\ UNCHANGED <<group, party, invited, selfInvited, broken>>

\* An invitation that outlived its party.
Dangles(p) == \E P \in invited[p] : group[P] = NoGroup

\* Player::onCreatureDisappear of the player itself, at logout or death; the
\* Player object is released after it.
Disappear(p) ==
  /\ p \in online
  /\ ~Dangles(p)
  /\ LET w == ClearPartyInvitations(World, p)
     IN Becomes(IF w.party[p] # NoParty THEN LeaveParty(w, p) ELSE w)
  /\ online' = online \ {p}
  /\ selfInvited' = selfInvited \ {p}
  /\ UNCHANGED broken

\* The same with such an invitation: removeInvite of a Party that is deleted.
\* The behaviour is undefined, and the model ends here.
DisappearDangling(p) ==
  /\ p \in online
  /\ Dangles(p)
  /\ broken' = TRUE
  /\ UNCHANGED <<online, group, party, invited, selfInvited>>

Next ==
  /\ ~broken
  /\ \E p \in Players :
    \/ Login(p) \/ Disappear(p) \/ DisappearDangling(p) \/ Leave(p)
    \/ \E q \in Players : \/ InviteToParty(p, q) \/ JoinParty(p, q)
                          \/ RevokeInvitation(p, q) \/ PassPartyLeadership(p, q)

Spec == Init /\ [][Next]_vars

-----------------------------------------------------------------------------
\* Types of the variables.
TypeOK ==
  /\ online \subseteq Players
  /\ group \in [Parties -> Group \cup {NoGroup}]
  /\ party \in [Players -> Parties \cup {NoParty}]
  /\ invited \in [Players -> SUBSET Parties]
  /\ selfInvited \subseteq online
  /\ broken \in BOOLEAN

\* A player points to the party it leads or is a member of, and to no other,
\* in particular to none that was disbanded; nobody is twice in a party.
Membership ==
  /\ \A p \in Players, P \in Parties :
       party[p] = P <=> group[P].leader = p \/ IsMember(group[P], p)
  /\ \A P \in Parties :
       LET m == group[P].members
       IN /\ ~IsMember(group[P], group[P].leader)
          /\ \A i, j \in 1..Len(m) : m[i] = m[j] => i = j

\* Whoever is on an inviteList remembers the party, and strikes itself off it
\* when it goes.  Nobody remembers a party that does not have it on its list,
\* and nobody is invited to the party it is in, but one who has invited itself:
\* leaveParty strikes that one off the list without telling it.  So
\* clearPartyInvitations follows no pointer to a disbanded party as long as
\* nobody invites itself.
Invitations ==
  /\ \A p \in Players, P \in Parties :
       /\ p \in group[P].invites => P \in invited[p]
       /\ p \notin selfInvited =>
            /\ P \in invited[p] => p \in group[P].invites
            /\ ~(party[p] = P /\ p \in group[P].invites)
  /\ broken => selfInvited # {}

\* No party points to a player who is gone: party icons and messages go to
\* Player objects that exist.
OnlyOnline ==
  \A p \in Players \ online, P \in Parties :
    ~IsMember(group[P], p) /\ group[P].leader # p /\ p \notin group[P].invites

\* A party without members and invitations does not stay in the way of its
\* leader, who could not be invited to another one.
NoDesertedParty == \A P \in Parties : group[P] # NoGroup => ~Deserted(group[P])

\* The four lists that hold parties and players together always agree, hold
\* nobody who is gone, and no party outlives its use.
ListsAgree == TypeOK /\ Membership /\ Invitations /\ OnlyOnline /\ NoDesertedParty
=============================================================================
