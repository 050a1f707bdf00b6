-------------------------------- MODULE Chat ----------------------------------
(***************************************************************************)
(* Chat channels and rule violation reports: Source/chat.cpp, the channel  *)
(* and report handlers of Game, and what a departure or a takeover does to *)
(* them (Player::onCreatureDisappear, ProtocolGame::login).                *)
(*                                                                         *)
(* A channel holds raw Player pointers.  Users that have left the game and *)
(* whose pointer stayed behind are kept apart, in ghosts: a new login of   *)
(* the same character is another Player with another id.  What the clients *)
(* show is state as well: the server only tells them the changes.          *)
(***************************************************************************)
EXTENDS Naturals, FiniteSets

CONSTANTS
  Users,        (* the characters                                          *)
  Gamemasters,  (* those with PlayerFlag_CanAnswerRuleViolations           *)
  NoUser,       (* the null Player*, and owner 0                           *)
  Public,       (* the channels that always exist, besides Reports         *)
  Reports,      (* CHANNEL_RULE_REP                                        *)
  Guild,        (* the guild channel (all users of the instance are in it) *)
  Slots         (* bound: the ids of private channels, 100..9999 in code   *)

ASSUME ChatAssumption ==
  /\ Gamemasters \subseteq Users /\ NoUser \notin Users
  /\ Reports # Guild /\ Slots \cap (Public \cup {Reports, Guild}) = {}

Channels == Public \cup {Reports, Guild} \cup Slots

VARIABLES
  present,      (* the users in the game                                   *)
  channel,      (* owner, users, invites (by GUID) and ghosts of a channel *)
                (* and, as a ghost variable, who opened it uninvited       *)
  tabs,         (* the channels a client shows                             *)
  report,       (* ruleViolations: by reporter, its state and gamemaster   *)
  listed,       (* the reports a gamemaster's client shows as waiting      *)
  struck        (* ghost: a method was called of a Player that is released *)

chatVars == <<present, channel, tabs, report, listed, struck>>

NoChannel  == [owner |-> NoUser, users |-> {}, invites |-> {}, ghosts |-> {},
               uninvited |-> {}, exists |-> FALSE]
NewChannel == [NoChannel EXCEPT !.exists = TRUE]
NoReport   == [state |-> "none", gamemaster |-> NoUser]
Open       == [state |-> "open", gamemaster |-> NoUser]

ChatWorld == [channel |-> channel, tabs |-> tabs, report |-> report, listed |-> listed]

ChatBecomes(w) ==
  /\ channel' = w.channel /\ tabs' = w.tabs
  /\ report' = w.report   /\ listed' = w.listed

ChatInit ==
  /\ present = {}
  /\ channel = [c \in Channels |->
                  IF c \in Public \cup {Reports} THEN NewChannel ELSE NoChannel]
  /\ tabs = [u \in Users |-> {}]
  /\ report = [u \in Users |-> NoReport]
  /\ listed = [u \in Users |-> {}]
  /\ struck = FALSE

-----------------------------------------------------------------------------
(* Channels.                                                               *)

\* PrivateChatChannel::isInvited
IsInvited(ch, u) == ch.owner = u \/ u \in ch.invites

\* PrivateChatChannel::addInvited, for the client that asked.
AddInvited(w, c, v) == [w EXCEPT !.channel[c].invites = @ \cup {v}]

\* PrivateChatChannel::excludePlayer: out of the guests, the users and the tab.
ExcludePlayer(w, c, v) ==
  [w EXCEPT !.channel[c].invites = @ \ {v},
            !.channel[c].users = @ \ {v},
            !.tabs[v] = @ \ {c}]

\* ChatChannel::addUser, which does not ask whether the user isInvited.
AddUser(w, u, c) ==
  LET ch == w.channel[c]
  IN [w EXCEPT !.channel[c].users = @ \cup {u},
               !.channel[c].uninvited =
                  @ \cup (IF c \in Slots /\ ~IsInvited(ch, u) THEN {u} ELSE {})]

\* Chat::getChannel finds it; the reports are for gamemasters only.
Reachable(w, u, c) == w.channel[c].exists /\ (c = Reports => u \in Gamemasters)

\* Chat::getPrivateChannel
OwnChannels(w, u) == {c \in Slots : w.channel[c].owner = u}

\* The client is shown a channel.  A gamemaster who opens the reports gets
\* the list of those that nobody has taken (sendRuleViolationsChannel).
ShowTab(w, u, c) ==
  [w EXCEPT !.tabs[u] = @ \cup {c},
            !.listed[u] = IF c = Reports THEN {r \in Users : w.report[r] = Open} ELSE @]

\* Seeded fault: the users of the channel are not told.
DeleteSilently(w, c) == [w EXCEPT !.channel[c] = NoChannel]

\* Chat::deleteChannel of a private channel: closeChannel tells its users.
DeleteChannel(w, c) ==
  [w EXCEPT !.channel[c] = NoChannel,
            !.tabs = [u \in Users |->
                        IF u \in w.channel[c].users THEN @[u] \ {c} ELSE @[u]]]

\* ChatChannel::removeUser, and the end of a channel its owner leaves.
RemoveUser(w, u, c) ==
  LET w1 == [w EXCEPT !.channel[c].users = @ \ {u}]
  IN IF w.channel[c].owner = u THEN DeleteChannel(w1, c) ELSE w1

\* Chat::getChannelList, which founds the guild channel when there is none.
ChannelList(w, u) ==
  {c \in Channels :
     /\ c \in Slots \/ Reachable(w, u, c) \/ c = Guild
     /\ c \in Slots => IsInvited(w.channel[c], u)}

WithGuild(w) == [w EXCEPT !.channel[Guild].exists = TRUE]

\* Seeded fault: the list leaves out the private channels of others.
LeaveOwnAndPublic(w, u) ==
  LET g == WithGuild(w)
  IN [g EXCEPT !.channel =
        [c \in Channels |->
           [g.channel[c] EXCEPT !.users =
              IF c \in ChannelList(w, u) \ (Slots \ OwnChannels(w, u)) THEN @ \ {u} ELSE @]]]

\* Chat::removeUserFromAllChannels: each channel of the list ...
LeaveListed(w, u) ==
  LET g == WithGuild(w)
  IN [g EXCEPT !.channel =
        [c \in Channels |->
           [g.channel[c] EXCEPT !.users = IF c \in ChannelList(w, u) THEN @ \ {u} ELSE @]]]

\* ... and the own one is deleted.
RemoveFromAllChannels(w, u) ==
  LET own == OwnChannels(w, u)
  IN IF own = {} THEN LeaveListed(w, u)
     ELSE DeleteChannel(LeaveListed(w, u), CHOOSE c \in own : TRUE)

-----------------------------------------------------------------------------
(* Rule violation reports.                                                 *)

\* sendRemoveReport to every user of the channel.
Unlist(w, r) ==
  [w EXCEPT !.listed = [u \in Users |->
     IF u \in w.channel[Reports].users THEN @[u] \ {r} ELSE @[u]]]

\* Seeded fault: a report that waits is erased without a word.
CancelSilently(w, r) == [w EXCEPT !.report[r] = NoReport]

\* Game::cancelRuleViolation: the gamemaster who took it is told, or the
\* channel when it still waits.
CancelReport(w, r) ==
  IF w.report[r].state = "none" THEN w
  ELSE LET w1 == [w EXCEPT !.report[r] = NoReport]
       IN IF w.report[r].state = "taken" THEN w1 ELSE Unlist(w1, r)

\* Game::closeRuleViolation
CloseReport(w, r) ==
  IF w.report[r].state = "none" THEN w
  ELSE Unlist([w EXCEPT !.report[r] = NoReport], r)

\* The reports a gamemaster has taken are closed when it leaves.
CloseReportsOf(w, g) ==
  LET mine == {r \in Users : w.report[r].gamemaster = g}
  IN IF g \notin Gamemasters THEN w
     ELSE [w EXCEPT !.report = [r \in Users |-> IF r \in mine THEN NoReport ELSE @[r]],
                    !.listed = [u \in Users |-> IF u \in w.channel[Reports].users
                                                  THEN @[u] \ mine ELSE @[u]]]

-----------------------------------------------------------------------------
(* The handlers.                                                           *)

ChatLogin(u) ==
  /\ u \notin present
  /\ present' = present \cup {u}
  /\ UNCHANGED <<channel, tabs, report, listed, struck>>

\* The channel of u has users who are gone: closeChannel would call them.
Haunted(u) == \E c \in OwnChannels(ChatWorld, u) : channel[c].ghosts # {}

\* A user of a channel talks in it, or its owner leaves it, while a Player that
\* was released is among its users.  The behaviour is undefined, and the model
\* ends here.
ReachGhost(u) ==
  /\ u \in present
  /\ \E c \in Channels : u \in channel[c].users /\ channel[c].ghosts # {}
  /\ struck' = TRUE
  /\ UNCHANGED <<present, channel, tabs, report, listed>>

\* The chat part of Player::onCreatureDisappear.  The Player is released
\* after it: what still points to it points to a ghost.
ChatLeave(u) ==
  /\ u \in present
  /\ ~Haunted(u)
  /\ present' = present \ {u}
  /\ LET w == RemoveFromAllChannels(CloseReportsOf(CancelReport(ChatWorld, u), u), u)
     IN ChatBecomes(
          [w EXCEPT !.tabs[u] = {}, !.listed[u] = {},
             !.channel = [c \in Channels |->
               [w.channel[c] EXCEPT !.users = @ \ {u}, !.ghosts = @ \cup (w.channel[c].users \cap {u})]]])
  /\ UNCHANGED struck

\* ProtocolGame::login of a character that is in the game: it leaves its
\* channels, and the client that takes over shows none.
Takeover(u) ==
  /\ u \in present
  /\ ~Haunted(u)
  /\ ChatBecomes([RemoveFromAllChannels(ChatWorld, u) EXCEPT
                    !.tabs[u] = {}, !.listed[u] = {}])
  /\ UNCHANGED <<present, struck>>

\* Game::playerRequestChannels: only the guild channel may come of it.
RequestChannels(u) ==
  /\ u \in present
  /\ ChatBecomes(WithGuild(ChatWorld))
  /\ UNCHANGED <<present, struck>>

\* Game::playerCreatePrivateChannel: one for each owner, the first free id.
CreatePrivateChannel(u) ==
  /\ u \in present
  /\ OwnChannels(ChatWorld, u) = {}
  /\ \E c \in Slots :
       /\ ~channel[c].exists
       /\ ChatBecomes(ShowTab([ChatWorld EXCEPT !.channel[c] =
                         [NewChannel EXCEPT !.owner = u, !.users = {u}]], u, c))
  /\ UNCHANGED <<present, struck>>

\* Game::playerChannelInvite and PrivateChatChannel::invitePlayer.
ChannelInvite(u, v) ==
  /\ {u, v} \subseteq present /\ u # v
  /\ \E c \in OwnChannels(ChatWorld, u) :
       ChatBecomes(AddInvited(ChatWorld, c, v))
  /\ UNCHANGED <<present, struck>>

\* Seeded fault: the invitation is taken back and the user stays.
ExcludeStays(u, v) ==
  /\ {u, v} \subseteq present /\ u # v
  /\ \E c \in OwnChannels(ChatWorld, u) :
       /\ v \in channel[c].invites
       /\ ChatBecomes([ChatWorld EXCEPT !.channel[c].invites = @ \ {v}, !.tabs[v] = @ \ {c}])
  /\ UNCHANGED <<present, struck>>

\* Game::playerChannelExclude and PrivateChatChannel::excludePlayer.
ChannelExclude(u, v) ==
  /\ {u, v} \subseteq present /\ u # v
  /\ \E c \in OwnChannels(ChatWorld, u) :
       /\ v \in channel[c].invites
       /\ ChatBecomes(ExcludePlayer(ChatWorld, c, v))
  /\ UNCHANGED <<present, struck>>

\* Game::playerOpenChannel of a channel the client need not have been offered.
OpenChannel(u, c) ==
  /\ u \in present
  /\ Reachable(ChatWorld, u, c)
  /\ u \notin channel[c].users
  /\ ChatBecomes(ShowTab(AddUser(ChatWorld, u, c), u, c))
  /\ UNCHANGED <<present, struck>>

\* Game::playerCloseChannel; the client closed the tab itself.
CloseChannel(u, c) ==
  /\ u \in present
  /\ channel[c].owner = u => ~Haunted(u)
  /\ Reachable(ChatWorld, u, c)
  /\ u \in channel[c].users
  /\ ChatBecomes(RemoveUser([ChatWorld EXCEPT !.tabs[u] = @ \ {c},
                       !.listed[u] = IF c = Reports THEN {} ELSE @], u, c))
  /\ UNCHANGED <<present, struck>>

\* Game::playerReportRuleViolation: a new report in the place of the old one.
ReportRuleViolation(u) ==
  /\ u \in present
  /\ LET w == CancelReport(ChatWorld, u)
     IN ChatBecomes([w EXCEPT !.report[u] = Open,
                       !.listed = [v \in Users |-> IF v \in w.channel[Reports].users
                                                     THEN @[v] \cup {u} ELSE @[v]]])
  /\ UNCHANGED <<present, struck>>

\* Game::playerProcessRuleViolation
ProcessRuleViolation(g, r) ==
  /\ {g, r} \subseteq present /\ g \in Gamemasters
  /\ report[r] = Open
  /\ ChatBecomes(Unlist([ChatWorld EXCEPT !.report[r] =
                           [state |-> "taken", gamemaster |-> g]], r))
  /\ UNCHANGED <<present, struck>>

\* Game::playerCloseRuleViolation, which anybody may ask for.
CloseRuleViolation(u, r) ==
  /\ {u, r} \subseteq present
  /\ report[r].state # "none"
  /\ ChatBecomes(CloseReport(ChatWorld, r))
  /\ UNCHANGED <<present, struck>>

\* Game::playerCancelRuleViolation
CancelRuleViolation(r) ==
  /\ r \in present
  /\ report[r].state # "none"
  /\ ChatBecomes(CancelReport(ChatWorld, r))
  /\ UNCHANGED <<present, struck>>

ChatNext ==
  /\ ~struck
  /\ \E u \in Users :
    \/ ReachGhost(u)
    \/ ChatLogin(u) \/ ChatLeave(u) \/ Takeover(u)
    \/ RequestChannels(u) \/ CreatePrivateChannel(u)
    \/ \E v \in Users : ChannelInvite(u, v) \/ ChannelExclude(u, v)
    \/ \E c \in Channels : OpenChannel(u, c) \/ CloseChannel(u, c)
    \/ ReportRuleViolation(u) \/ CancelRuleViolation(u)
    \/ \E r \in Users : ProcessRuleViolation(u, r) \/ CloseRuleViolation(u, r)

-----------------------------------------------------------------------------
ChatTypeOK ==
  /\ present \subseteq Users
  /\ channel \in [Channels -> [owner : Users \cup {NoUser}, users : SUBSET Users,
                    invites : SUBSET Users, ghosts : SUBSET Users,
                    uninvited : SUBSET Users, exists : BOOLEAN]]
  /\ tabs \in [Users -> SUBSET Channels]
  /\ report \in [Users -> [state : {"none", "open", "taken"},
                           gamemaster : Users \cup {NoUser}]]
  /\ listed \in [Users -> SUBSET Users]
  /\ struck \in BOOLEAN

\* No report points to a player who is gone, and no channel but a private one
\* that this player opened uninvited (getChannelList does not name it when the
\* player leaves): all others that talk, closeChannel and sendRemoveReport reach
\* are Player objects that exist.
NoGhosts ==
  /\ \A c \in Channels : /\ channel[c].ghosts \subseteq channel[c].uninvited
                         /\ channel[c].uninvited # {} => c \in Slots
                         /\ channel[c].users \subseteq present
  /\ struck => \E c \in Slots : channel[c].uninvited # {}
  /\ \A r \in Users : report[r].state # "none" =>
       /\ r \in present
       /\ report[r].state = "taken" => report[r].gamemaster \in present

\* A private channel has its owner in it: it is deleted with its owner's leave.
OwnerStays ==
  \A c \in Slots : channel[c].exists => channel[c].owner \in channel[c].users

\* The clients show what the server means them to show: the tabs of a client
\* are the channels its player is a user of, and a gamemaster with the reports
\* open sees those that wait for an answer and no other.  Only a channel opened
\* uninvited may be missing: another client that takes over does not show it.
ClientsAgree ==
  \A u \in present :
    /\ \A c \in Channels :
         /\ c \in tabs[u] => u \in channel[c].users
         /\ u \in channel[c].users \ channel[c].uninvited => c \in tabs[u]
    /\ Reports \in tabs[u] => listed[u] = {r \in Users : report[r] = Open}

\* Channels, clients and reports agree, and keep nobody who has left.
ChatConsistent == ChatTypeOK /\ NoGhosts /\ OwnerStays /\ ClientsAgree
===============================================================================
