-------------------------------- MODULE Bans --------------------------------
(***************************************************************************)
(* Bans and login attempts (Source/ban.cpp): the table `bans`, what adds   *)
(* rows to it (the violation window of a gamemaster, killings, scripts),   *)
(* who is refused by it and when, the warnings of accounts, and the count  *)
(* of attempts by address, which the first packets of the login and of the *)
(* game protocol keep under one lock.                                      *)
(*                                                                         *)
(* First packets run in the network thread, all else in the dispatcher: a  *)
(* login is a task between the two.  The name of a ban's victim is its     *)
(* guid; the texts that go with a ban are left out.                        *)
(***************************************************************************)
EXTENDS Naturals, Sequences

CONSTANTS
  Account, Char,     (* account numbers and guids                          *)
  AccountOf,
  Exempt,            (* who has PlayerFlag_CannotBeBanned                  *)
  Address, NoAddress,
  MaxTries, RetryTimeout, LoginTimeout,
  NotationsToBan, WarningsToDeletion,
  Endless,           (* what the table makes of the time '-1': zero where  *)
                     (* it is unsigned                                     *)
  MaxRows, MaxWarnings  (* bounds                                          *)

ASSUME BansAssumption ==
  /\ Account \subseteq Nat \ {0} /\ Char \subseteq Nat \ {0} /\ AccountOf \in [Char -> Account]
  /\ NoAddress \notin Address
  /\ {MaxTries, RetryTimeout, LoginTimeout, NotationsToBan, WarningsToDeletion} \subseteq Nat
  /\ Endless \in {"zero", "minus"}

VARIABLES
  bans,      (* the table: its rows by their ids                           *)
  warnings,  (* of the accounts                                            *)
  inGame,    (* characters in the game                                     *)
  kicks,     (* those of them that are to be put out in a second           *)
  asking,    (* the login the network thread is about to let through       *)
  asked,     (* logins that were let through to the dispatcher             *)
  lastip,
  attempts,  (* ipLoginMap; age: seconds since lastLoginTime, as far as    *)
             (* they count; wrong: passwords that were wrong since one was *)
             (* right or nothing happened for the LoginTimeout             *)
  spared     (* who was in the game or about to be when its account was    *)
             (* deleted                                                    *)

bansVars == <<bans, warnings, inGame, kicks, asking, asked, lastip, attempts, spared>>

Longest == IF RetryTimeout < LoginTimeout THEN LoginTimeout ELSE RetryTimeout
Rested  == [number |-> 0, age |-> Longest, wrong |-> 0]

-----------------------------------------------------------------------------
(* The table.  A row ends when its time is over; zero is no time.          *)

Rows(t, type, v) == {k \in DOMAIN t : t[k].type = type /\ t[k].value = v /\ t[k].active}
InForce(row)     == row.expires \in {"zero", "running"}

IsIpBanished(t, i) == \E k \in Rows(t, "ip", i) : InForce(t[k])
IsNameLocked(t, c) == Rows(t, "namelock", c) # {}
IsDeleted(t, a)    == Rows(t, "deletion", a) # {}

\* It asks for all rows and looks at the first.
IsBanished(t, a) ==
  LET rows == Rows(t, "banishment", a)
  IN \E k \in rows : InForce(t[k]) /\ \A j \in rows : k <= j

NewRow(t, type, v, expires) ==
  Append(t, [type |-> type, value |-> v, expires |-> expires, active |-> TRUE])

AddIpBanishment(t, i, expires) ==
  IF i = NoAddress \/ IsIpBanished(t, i) THEN t ELSE NewRow(t, "ip", i, expires)

AddNamelock(t, c) == IF IsNameLocked(t, c) THEN t ELSE NewRow(t, "namelock", c, Endless)

AddBanishment(t, c, expires) ==
  IF IsBanished(t, AccountOf[c]) \/ IsDeleted(t, AccountOf[c]) THEN t
  ELSE NewRow(t, "banishment", AccountOf[c], expires)

AddDeletion(t, c) ==
  IF IsDeleted(t, AccountOf[c]) THEN t ELSE NewRow(t, "deletion", AccountOf[c], Endless)

AddNotation(t, c) == NewRow(t, "notation", AccountOf[c], Endless)

Deactivated(t, rows) == [k \in DOMAIN t |-> [t[k] EXCEPT !.active = @ /\ k \notin rows]]

RemoveIpBanishment(t, i) == Deactivated(t, Rows(t, "ip", i))
RemoveBanishment(t, a)   == Deactivated(t, Rows(t, "banishment", a))
ClearTemporaryBans(t)    == Deactivated(t, {k \in DOMAIN t : t[k].expires = "zero"})

-----------------------------------------------------------------------------
(* Attempts.                                                               *)

IsIpDisabled(i) ==
  MaxTries # 0 /\ attempts[i].number >= MaxTries /\ attempts[i].age < LoginTimeout

AddLoginAttempt(i, success) ==
  LET old == attempts[i]
      n   == IF old.number >= MaxTries THEN 0 ELSE old.number
      w   == IF old.age >= LoginTimeout THEN 0 ELSE old.wrong
  IN [attempts EXCEPT ![i] =
        [number |-> IF ~success \/ old.age < RetryTimeout THEN n + 1 ELSE 0,
         age    |-> 0,
         wrong  |-> IF success \/ MaxTries = 0 THEN 0 ELSE w + 1]]

MayTry(i) == ~IsIpDisabled(i) /\ ~IsIpBanished(bans, i)

\* ProtocolLogin::parseFirstPacket, up to the list of characters.
CharacterList(a, i, right) ==
  /\ asking = {} /\ ~IsDeleted(bans, a) /\ MayTry(i)
  /\ attempts' = AddLoginAttempt(i, right)
  /\ UNCHANGED <<bans, warnings, inGame, kicks, asking, asked, lastip>>

\* ProtocolGame::parseFirstPacket, up to the question whether the account is
\* deleted; the dispatcher may delete it before the rest.
ParseFirstPacket(c, i) ==
  /\ asking = {} /\ ~IsDeleted(bans, AccountOf[c])
  /\ asking' = {<<c, i>>}
  /\ UNCHANGED <<bans, warnings, inGame, kicks, asked, lastip, attempts>>

AddLoginTask(c, i, right) ==
  /\ <<c, i>> \in asking /\ asking' = {}
  /\ IF MayTry(i)
     THEN /\ attempts' = AddLoginAttempt(i, right)
          /\ asked' = IF right THEN asked \cup {<<c, i>>} ELSE asked
     ELSE UNCHANGED <<attempts, asked>>
  /\ UNCHANGED <<bans, warnings, inGame, kicks, lastip>>

-----------------------------------------------------------------------------
(* Who comes and goes.                                                     *)

\* Seeded fault: whether the name is locked is not asked.
MayEnterLocked(c) == ~IsBanished(bans, AccountOf[c]) \/ c \in Exempt

MayEnter(c) ==
  /\ ~IsBanished(bans, AccountOf[c]) \/ c \in Exempt
  /\ ~IsNameLocked(bans, c)

\* ProtocolGame::login: a character in the game gets another client and is not
\* looked up in the table.  It may be refused for other reasons.
LoginTask(c, i) ==
  /\ <<c, i>> \in asked /\ asked' = asked \ {<<c, i>>}
  /\ \/ /\ c \in inGame \/ MayEnter(c)
        /\ inGame' = inGame \cup {c} /\ lastip' = [lastip EXCEPT ![c] = i]
     \/ UNCHANGED <<inGame, lastip>>
  /\ UNCHANGED <<bans, warnings, kicks, asking, attempts>>

\* A logout, with the kick that refers to what was in the game; and the kick.
Leave(c) ==
  /\ c \in inGame
  /\ inGame' = inGame \ {c} /\ kicks' = kicks \ {c}
  /\ UNCHANGED <<bans, warnings, asking, asked, lastip, attempts>>

KickPlayer(c) == c \in kicks /\ Leave(c)

-----------------------------------------------------------------------------
(* Who bans.                                                               *)

\* Warnings decide about the account; how long a banishment is they decide too.
Punished(t, c, w) ==
  IF w >= WarningsToDeletion THEN AddDeletion(t, c) ELSE AddBanishment(t, c, "running")

\* getNotationsCount is given the truth of a comparison for an account number.
Counted(c) == IF AccountOf[c] >= NotationsToBan THEN 1 ELSE 0

Sentence(t, w, notation) == [bans |-> t, warnings |-> w, notation |-> notation]

\* Game::violationWindow: the sentence by the action that is chosen.
JudgeNotation(t, c, w) ==
  LET noted == AddNotation(t, c)
  IN IF Rows(noted, "notation", Counted(c)) # {}
     THEN Sentence(Punished(noted, c, w + 1), w + 1, FALSE) ELSE Sentence(noted, w, TRUE)

JudgeNamelock(t, c, w) == Sentence(AddNamelock(t, c), w, FALSE)

JudgeBan(t, c, w, lock) ==
  LET banned == AddBanishment(t, c, "running")
  IN IF w >= WarningsToDeletion THEN Sentence(AddDeletion(t, c), w, FALSE)
     ELSE Sentence(IF lock THEN AddNamelock(banned, c) ELSE banned, w + 1, FALSE)

JudgeFinally(t, c, w, lock) ==
  LET banned == AddBanishment(t, c, "running")
  IN IF w >= WarningsToDeletion THEN Sentence(AddDeletion(t, c), w, FALSE)
     ELSE Sentence(IF lock THEN AddNamelock(banned, c) ELSE banned, WarningsToDeletion, FALSE)

JudgeOtherwise(t, c, w) == Sentence(Punished(t, c, w + 1), w + 1, FALSE)

Sentences(c) ==
  LET w == warnings[AccountOf[c]]
  IN {JudgeNotation(bans, c, w), JudgeNamelock(bans, c, w), JudgeOtherwise(bans, c, w)}
       \cup {JudgeBan(bans, c, w, lock) : lock \in BOOLEAN}
       \cup {JudgeFinally(bans, c, w, lock) : lock \in BOOLEAN}

\* Of a character that is not in the game IOPlayer::hasFlag asks the player
\* whose guid is the number of the account.
MayBeBanned(c) == (IF c \in inGame THEN c ELSE AccountOf[c]) \notin Exempt

\* Game::violationWindow, of a gamemaster whose access is high enough.
ViolationWindow(c, banIp) ==
  /\ MayBeBanned(c)
  /\ \E s \in Sentences(c) :
       /\ bans' = IF banIp THEN AddIpBanishment(s.bans, lastip[c], "running") ELSE s.bans
       /\ warnings' = [warnings EXCEPT ![AccountOf[c]] = s.warnings]
       /\ kicks' = IF c \in inGame /\ ~s.notation THEN kicks \cup {c} ELSE kicks
  /\ UNCHANGED <<inGame, asking, asked, lastip, attempts>>

\* Player::addUnjustifiedDead, of one kill too many.
AddUnjustifiedDead(c) ==
  /\ c \in inGame /\ ~IsBanished(bans, AccountOf[c])
  /\ bans' = Punished(bans, c, warnings[AccountOf[c]])
  /\ kicks' = kicks \cup {c}
  /\ UNCHANGED <<warnings, inGame, asking, asked, lastip, attempts>>

\* What scripts may do: a length of nothing is for ever.
LuaAddBan(c, expires)   == bans' = AddBanishment(bans, c, expires)
LuaAddIPBan(i, expires) == bans' = AddIpBanishment(bans, i, expires)
LuaRemoveBan(c)         == bans' = RemoveBanishment(bans, AccountOf[c])
LuaRemoveIPBan(i)       == bans' = RemoveIpBanishment(bans, i)

LuaStep ==
  /\ \/ \E c \in Char : LuaRemoveBan(c) \/ \E e \in {"zero", "running"} : LuaAddBan(c, e)
     \/ \E i \in Address : LuaRemoveIPBan(i) \/ \E e \in {"zero", "running"} : LuaAddIPBan(i, e)
  /\ UNCHANGED <<warnings, inGame, kicks, asking, asked, lastip, attempts>>

\* Game::saveServer and Game::shutdown
GlobalSave ==
  /\ bans' = ClearTemporaryBans(bans)
  /\ UNCHANGED <<warnings, inGame, kicks, asking, asked, lastip, attempts>>

-----------------------------------------------------------------------------
(* Time.                                                                   *)

Expire(k) ==
  /\ bans[k].expires = "running"
  /\ bans' = [bans EXCEPT ![k].expires = "over"]
  /\ UNCHANGED <<warnings, inGame, kicks, asking, asked, lastip, attempts>>

Second ==
  /\ attempts' = [i \in Address |->
                    [attempts[i] EXCEPT !.age = IF @ < Longest THEN @ + 1 ELSE Longest]]
  /\ UNCHANGED <<bans, warnings, inGame, kicks, asking, asked, lastip>>

-----------------------------------------------------------------------------
BansInit ==
  /\ bans = << >> /\ warnings = [a \in Account |-> 0]
  /\ inGame = {} /\ kicks = {} /\ asking = {} /\ asked = {} /\ spared = {}
  /\ lastip = [c \in Char |-> NoAddress]
  /\ attempts = [i \in Address |-> Rested]

HasAsked(c) == \E i \in Address : <<c, i>> \in asking \cup asked

\* spared follows the rest.
Remember ==
  spared' = {c \in Char :
    /\ c \in inGame' \/ HasAsked(c)'
    /\ \/ c \in spared
       \/ /\ IsDeleted(bans', AccountOf[c]) /\ ~IsDeleted(bans, AccountOf[c])
          /\ HasAsked(c) \/ c \notin kicks'}

BansStep ==
  \/ \E i \in Address, right \in BOOLEAN :
       \/ \E a \in Account : CharacterList(a, i, right)
       \/ \E c \in Char : AddLoginTask(c, i, right)
  \/ \E c \in Char :
       \/ \E i \in Address : ParseFirstPacket(c, i) \/ LoginTask(c, i)
       \/ Leave(c) \/ KickPlayer(c) \/ AddUnjustifiedDead(c)
       \/ \E banIp \in BOOLEAN : ViolationWindow(c, banIp)
  \/ LuaStep \/ GlobalSave \/ Second
  \/ \E k \in DOMAIN bans : Expire(k)

BansNext ==
  /\ BansStep /\ Remember
  /\ Len(bans') <= MaxRows /\ \A a \in Account : warnings'[a] <= MaxWarnings

BansSpec == BansInit /\ [][BansNext]_bansVars

-----------------------------------------------------------------------------
(* Properties.                                                             *)

BansTypeOK ==
  /\ bans \in Seq([type : {"ip", "namelock", "banishment", "notation", "deletion"},
                   value : Address \cup Char \cup Account,
                   expires : {"zero", "minus", "running", "over"}, active : BOOLEAN])
  /\ warnings \in [Account -> Nat]
  /\ inGame \subseteq Char /\ kicks \subseteq inGame /\ spared \subseteq Char
  /\ asking \cup asked \subseteq Char \X Address
  /\ lastip \in [Char -> Address \cup {NoAddress}]
  /\ attempts \in [Address -> [number : Nat, age : Nat, wrong : Nat]]

\* No name is locked twice, no account deleted twice, and no address is under
\* two bans that are in force, whoever bans when.
OneRow ==
  \A j, k \in DOMAIN bans :
    /\ bans[j].active /\ bans[k].active
    /\ bans[j].type = bans[k].type /\ bans[j].value = bans[k].value
    /\ \/ bans[j].type \in {"namelock", "deletion"}
       \/ bans[j].type = "ip" /\ InForce(bans[j]) /\ InForce(bans[k])
    => j = k

\* While an address does not rest for the LoginTimeout it never sends more wrong
\* passwords in a row than are allowed, through either protocol.
FewWrong ==
  MaxTries # 0 => \A i \in Address : /\ attempts[i].wrong <= attempts[i].number
                                     /\ attempts[i].number <= MaxTries

\* Who is in the game under a locked name is about to be put out.
LockedLeave == \A c \in inGame : IsNameLocked(bans, c) => c \in kicks

\* An account is deleted only with the warnings for it.
Warned == \A a \in Account : IsDeleted(bans, a) => warnings[a] >= WarningsToDeletion

\* No character of a deleted account gets into the game any more, except those
\* that were in it or had got past the question when it was deleted: the table is
\* asked for deletions only by the network thread.
NobodyEnters ==
  \A c \in Char : IsDeleted(bans, AccountOf[c]) =>
    /\ c \in inGame => c \in kicks \cup spared
    /\ HasAsked(c) => c \in spared

\* The table, who is in the game in spite of it, and the count of attempts.
BansConsistent == BansTypeOK /\ OneRow /\ FewWrong /\ LockedLeave /\ Warned /\ NobodyEnters
=============================================================================
