# OTServ74: specifications, model checking and proofs

OTServ74 is the server of a massively multiplayer game (the 7.4 protocol of
Tibia), about 57,000 lines of C++ in `src/Source` and the scripts of `src/data`.
This directory holds TLA+ models of it, TLC configurations that check them on
small instances, and proofs of the most important theorems, checked by TLAPS.
`PROJECT.json` is the index: components, runs, mutants, the map from definitions
to source lines, findings, hazards and theorems.

Contents: [the system](#the-system) · [the modules](#the-modules) ·
[the runs](#the-runs) · [fairness](#fairness) · [proofs](#proofs) ·
[what was found](#what-was-found) · [what is not modelled](#what-is-not-modelled) ·
[plan](#plan)

## The system

### Threads

Three threads matter.

* The **network thread** runs `boost::asio`: the completion handlers of every
  socket (`connection.cpp`), each under the connection's lock.
* The **scheduler thread** (`scheduler.cpp`) sleeps until the earliest timed
  event is due and hands its task to the dispatcher.
* The **dispatcher thread** (`tasks.cpp`) runs all of the game, one task at a
  time, and flushes the output messages after each task.

So the game itself is free of data races, but what one would write as one
operation (a takeover of a character, a death, a walk to something that is then
used) is cut into tasks. Between two tasks any other may run, and what the first
one knew may be stale. Within a task, handlers call each other back: a creature
that is removed tells all who see it, a script that moves an item runs the
scripts of others. Objects are shared by raw pointers and hand-kept reference
counts. These three facts are the source of nearly all that is hard here.

### Components

For each: its state, what is hard, and what makes it correct.

**Task dispatcher** (`tasks.cpp`). The list of tasks, the thread's state, one
mutex, one condition variable. `addTask` signals only if the list was empty and
after the unlock; wake-ups may be spurious; the shutdown comes from inside a
task. Correct when no wake-up is lost, every accepted task runs once, none is
stranded, and the end is reached.

**Event scheduler** (`scheduler.cpp`). A heap of events by time, the set of live
ids, the last id given. An earlier event arrives during the sleep; an event is
stopped between the time-out and the pop; the task's id is read after the
unlock; ids wrap. Correct when it is a timer: each event fires at most once, not
early, not after it was stopped, and not never.

**Connections** (`connection.cpp`, `protocol.cpp`, `outputmessage.cpp`). The
connection (close state, pending reads and writes, count), its protocol object,
a pool of output messages that refer to both; network thread and dispatcher meet
here. Correct when nothing is deleted while it is pointed to, and all that is
closed is deleted in the end.

**Game sessions** (`protocolgame.cpp`, parts of `game.cpp`, `player.cpp`). For
each client its protocol object, the player it controls, a scheduled `connect`.
A takeover takes a second, in which everything else may happen. Correct when a
character has one controller, no pointer leads to a freed object, and a player
whose client is gone does not stay behind.

**Parties** (`party.cpp`). Leader, members, invited; raw pointers both ways. A
party deletes itself from inside its own methods. Correct when the four lists
agree, but for a character that its own client has invited, and no party outlives
its use.

**Chat and reports** (`chat.cpp`). Channels with users and invitations, what
clients show, reports between author and gamemaster. Correct when no channel
keeps who has left, but in a private channel who came uninvited, and clients show
what they are in.

**Houses and beds** (`house.cpp`, `beds.cpp`). Owner, three kinds of access
lists, the deed that is traded, rent, the map of sleepers. Every change may take
from somebody inside the right to be there. Correct when no intruder stays, the
deed is in one trade, and beds and sleepers name each other.

**Fights and skulls** (`player.cpp`, `combat.cpp`). Who may be aimed at, the
fight lock, zones, skulls, frags. Correct when the marks of a fight go with it,
targets are legal and a kill is charged once.

**Client view** (`protocolgame.cpp`, `map.cpp`, `tile.cpp`). The client keeps a
copy of each tile and is told of changes by stack position. Correct when copy
and tile agree after each change, and both sides remember the same creatures.

**Items and trade** (`game.cpp`, `player.cpp`, `container.cpp`, `tile.cpp`).
Where each item is, kept twice; the weight of each bag, kept in all bags around
it; trades with an offer that stays where it is. Correct when no item is lost or
made, an offer cannot be changed behind the partner's back, and a trade is fair.

**Containers and windows** (`player.cpp`, `container.cpp`, `Actions.cpp`). Who
looks into which container by which window, windows to write in. Correct when a
window shows a container within reach, and the client counts slots as it is told.

**Money** (`game.cpp`, `player.cpp`). Sums taken coin by coin from bags within
bags, change, balances. Correct when a sum is paid to the coin or not at all.

**Walks and deferred actions** (`creature.cpp`, `player.cpp`). A walk is a chain
of events; a request from a distance waits for its end. `stopEvent` cannot take
back an event already handed over. Correct when no walk stands still, no deferred
request waits for a walk that is over, and what is asked for is done in the end.

**Decay** (`game.cpp`, `movement.cpp`). Items in buckets, counted. Correct when
an item is listed once and decays in time, wherever it goes meanwhile.

**Conditions** (`condition.cpp`). A list with timers; kinds replace, extend and
displace each other, and are written to the database and read back. Correct when
what each added is taken away once, and what is saved is read as it was.

**Creatures and monsters** (`creature.cpp`, `monster.cpp`, `spawn.cpp`,
`game.cpp`). A web of counted and raw pointers, the vectors from which creatures
are made to think, scheduled deaths, spawns; and for a hunting monster a cache
of the cells around it. Creatures take each other out of the very vector that is
being gone through. Correct when references are exact, pointers live, monsters
notice players, the dead leave, and the cache agrees with the map.

**Path search** (`map.cpp`). Sight lines, two searches with limits. Correct when
a way that is found is one, within its limits, and one is found where there is.

**Spells, runes, weapons** (`spells.cpp`, `weapons.cpp`). Correct when an effect
is paid for once and a refusal changes nothing.

**Scripting** (`luascript.cpp`), **events** (`baseevents.cpp`, `globalevent.cpp`,
`creatureevent.cpp`, `movement.cpp`) and **NPCs** (`npc.cpp`). Environments on a
stack, uids of things, callbacks that survive or do not survive a reload, a
queue of customers, a cache of the scripts of one tile. A call of a script runs
other scripts before it returns. Correct when what an environment opened is given
back, nothing freed is asked for its script, and customers are served in turn.

**Item attributes** (`ItemAttributes.cpp`). A flag and an entry for each attribute.
Correct when what is set on an item is there; at this commit it is not, the setters
never add, and no item has an attribute.

**Persistence** (`ioplayer.cpp`, `iomapserialize.cpp`). Rows that name the row of
their container; transactions and crashes. Correct when what is loaded is what some
save wrote, whole.

**Raids** (`raids.cpp`, the commands of `commands.cpp`). The list, the one that
runs, its events, and the numbers of two tasks of the scheduler. A reload deletes
all of it while a task may be on its way. Correct when at most one raid is under
way, one check waits, and a reload leaves nothing that leads to the old list.

**Bans and login attempts** (`ban.cpp`, `violationWindow`, the first packets of
`protocolgame.cpp` and `protocollogin.cpp`). The table, warnings, attempts by
address. The table is asked by the network thread and again by the task of the
login; meanwhile, gamemasters, kills and scripts add to it. Correct when nobody is
locked twice, who is locked or deleted leaves and does not come back, and wrong
passwords are few.

The other components (waiting list, start, loaders, cryptography) are listed in
`PROJECT.json` as not modelled, with the reason.

### How they interact

    client -> Connection -> Protocol --addTask--> Dispatcher --> game handlers
                  ^                                  ^   |       (all of the rest)
                  |                                  |   |
                  +---- OutputMessagePool::sendAll --|---+
                                                     |
                        Scheduler --addTask----------+<-- addEvent -- handlers

Calls from the network thread into the game go through `Dispatcher::addTask`.
Calls that must come later go through `Scheduler::addEvent`. Game handlers share
the world and call each other directly; creatures and players tell each other
of what they see by callbacks (`onCreatureMove`, `onRemoveInventoryItem` and so
on), and objects that leave are freed at `Game::cleanup` between tasks.

## The modules

| Module | Models | State (code) | Actions (code) |
|---|---|---|---|
| `Dispatcher` | `tasks.cpp` | `taskList`, `threadState`, `lockHeld`, `pc`, `running`, `signal` (threads between unlock and notify) | one per critical section: `AddTask`, `Notify`, `LoopTest`, `LockAndTake`, `WakeAndTake`, `SpuriousWakeup`, `Stop`, `Shutdown`, `FlushNext`, `FlushEnd`, `TaskEnd` |
| `Scheduler` | `scheduler.cpp` | `eventList`, `eventIds`, `lastEventId`, `threadState`, the thread's wait, each caller's `addEvent` under way | `Create`, `AddEvent`, `Notify`, `Return`, `StopEvent`, `Wait`, `TimeOut`, `Woken`, `Expired`, `Dispatch`, `Stop`, `Shutdown`, `Tick` |
| `EventTimer` | abstract: what callers of the scheduler count on | `due`, `state` of each event | `Create`, `Accept`, `Refuse`, `Cancel`, `Fire`, `Close` |
| `Connection` | `connection.cpp`, `protocol.cpp`, `outputmessage.cpp` | `conn`, `proto`, `msg`, the tasks and timers of these | handlers of the network thread; `RunTask` and `SendAll` of the dispatcher; `Retry`; `StopDispatcher` |
| `GameSession` | `protocolgame.cpp`, `Player` objects | `proto`, `body` (Player objects), `tasks`, `timers`, `toRelease` | `Arrive`, `RequestLogout`, `Hangup`, `RunTask` (login, connect, logout, close, release), `TimerEnds`, `Think`, `CheckIdleTime`, `Banish`, `DelayedKick`, `Die`, `Cleanup` |
| `Party` | `party.cpp` | `group`, `party`, `invited` | one per `Game::player...Party` handler, `Login`, `Disappear` |
| `Chat` | `chat.cpp`, reports in `game.cpp` | `channel`, `tabs`, reports | logins, takeovers and departures; one per channel and report request |
| `Houses` | `house.cpp`, `housetile.cpp`, `beds.cpp` | `inside`, `houseOwner`, lists, `kicked`, the deed, beds and sleepers, rent | `TenantLogin`, `TenantLeave`, `Enter`, `GoOut`, `BuyHouse`, `HouseKick`, `SellHouse`, `SaleDone`, `SaleFails`, `UpdateHouseWindow`, `UseBed`, `GiveHouse`, `PayHouse` and others |
| `Fights` | fights in `player.cpp`, `combat.cpp`, `creature.cpp` | `fighter` (a record per player, as it is and as it was saved), `charges` | `SetTarget`, `Hit`, `DoDeath`, `Walks`, `TimeGoesBy`, `ThinkOf`, `FighterLogin`, `FighterLeaves`, `Save`, `ChangeParty` |
| `ClientView` | what `protocolgame.cpp`, `map.cpp`, `tile.cpp` send | tiles with their flags, the client's picture, the creatures it knows | appear, walk, teleport, vanish, turn; create, move, remove, transform items |
| `Items`, `Trade` | the `__query...` functions; moving items and trades | `parent`, `held`, `amount`, `weight`, `refs`, `trade`, `tradeItems`, `toRelease` | `MoveItem`, `UseUp`, `RequestTrade`, `AcceptTrade`, `CloseTrade`, `Cleanup` |
| `Windows` | containers and text windows | `place`, `inside`, `depotAt`, `windows`, `letters` | one per client request that opens, moves or closes; `MoveThing`, `RemoveItem`, `ReplaceBag`, `Walk` |
| `Purse` | `removeMoney`, `addMoney`, balances | `hoard`, `balance`, `online` | taking and paying by script, command, rent; deposit, withdraw, transfer |
| `Walk` | walks and deferred actions | `place`, `path`, the walk event and the walk task of the player, events with the scheduler and tasks with the dispatcher; `asked` (what the player waits for) | `Outside` (the client's packets, swings, teleports), `Expire`, `RunOne`, `Rest`, `Ready` |
| `Decay` | `startDecay`, `checkDecay`, equipping | `item`, `decayItems`, `toDecayItems` | `CheckDecay`, `Cleanup`, `PutOn`, `TakeOff`, `Destroy`, `Appear`, `Script`, `OwnerRelogs` |
| `Conditions`, `SavedConditions` | `condition.cpp` | the list and the body; the draft of a script and the stream | `Cast`, `Dispel`, `ExecuteConditions`, `Equip`, `DeEquip`, `Relog`...; `Draft`, `SetConditionParam`, `Give`, `SavePlayer`, `LoadPlayer` |
| `Creatures` | `creature.cpp`, `monster.cpp`, `spawn.cpp`, the check loop | `cr` (a record per object), `vectors`, `last`, `cursor`, `toRelease`, `deathTasks`, `spawnEvent` | `CheckCreatures`, `CheckNext`, `CheckEnd`, `DoDeathDelay`, `CheckCreatureAttack`, `CheckCreatureWalk`, `Login`, `Logout`, `SummonMonster`, `ConvinceCreature`, `CheckSpawn` and others |
| `Paths`, `Hunt` | `map.cpp`; a monster's cache, pursuit and pushing | functions; `stand`, `grid`, `route`, what lies on the tiles | `Think`, `HunterWalk`, steps and arrivals of others, things put and taken |
| `Magic` | `spells.cpp`, `weapons.cpp` | `book`, `gifts`, `mage`, `bill` | `PlayerSaySpell`, `UseRune`, `Attack`, `Rest`, `Move` |
| `Scripts` | `luascript.cpp` | environments, uids, things, timers, results, combats | one per kind of call; `StartScript`, `NestedScript`, `CallReturns`, `ScriptEnds` |
| `Registry`, `StepEvents` | `baseevents.cpp` and the systems; `movement.cpp` | events made and held, those of players, chains; tiles with the cache | `ReloadEvents`, `LogIn`, `LogOut`, `Second`; steps and items that come and go |
| `Npc` | `npc.cpp` with `alexander.lua` | `npcAt`, `guestAt`, `talk` | `GuestEnters`, `GuestWalks`, `GuestSays`, `GuestLeaves`, `NpcThinks`, `NpcWanders`, `NpcReload` |
| `Attributes`, `Storage` | `ItemAttributes.cpp`; `ioplayer.cpp`, `iomapserialize.cpp` | `sample`; memory and database, the statements under way | setters, resets, copies; sessions, saving, crashes, `Handling`, `Dealing` |
| `Raids` | `raids.cpp`, the raid commands | `raidList`, `running`, `raidEvents`, `nextEvent`, `executing`, the events' numbers, `tasks` of the scheduler, `handed` to the dispatcher | `GameInit`, `HandOver` (of the scheduler), `CheckRaids`, `ForceRaid`, `ExecuteRaidEvent`, `Reload` |
| `Bans` | `ban.cpp`, bans in `game.cpp`, first packets | `bans` (rows), `warnings`, `inGame`, `kicks`, `asking` and `asked` (logins between the questions), `attempts` | `CharacterList`, `ParseFirstPacket`, `AddLoginTask`, `LoginTask`, `Leave`, `KickPlayer`, `ViolationWindow`, `AddUnjustifiedDead`, `LuaStep`, `GlobalSave`, `Expire`, `Second` |
| `...Proofs` | theorems about the component of that name; `GameThreadProofs` about `Dispatcher`, `Magic`, `Scripts`, `Npc`, `Registry`; `SchedulerProofs` also about `Raids`, `StepEvents`; `ConnectionProofs` also about `Bans`, `Storage`; `TradeProofs` about `Items` and `Trade`; `PeopleProofs` about `Houses`, `Fights`, `Chat`; `BodyProofs` about `Walk` | | |
| `MC...` | compositions and values of the constants for TLC | | |

Conventions. A critical section under a lock, or a task of the dispatcher, is
one step; where the code unlocks before it is done (the notify of `addTask`, the
read that `addEvent` returns), the rest is a step of its own. Handlers that call
many functions in a row are written as operators from a *world* (a record of
the variables) to a world, or to the set of worlds they may end in, so that each
C++ function is one operator and the order of calls is that of the code.
Definitions commented "Seeded fault" are mutants: each stands before the
definition it may replace, and `PROJECT.json` names the property that must then
fail.

Composition. `Trade` composes `Items`, `Hunt` composes `Paths` (by `EXTENDS`),
and `Scheduler` is shown to implement `EventTimer` (`TimerSpec`, an `INSTANCE`
with a refinement mapping). Components that interact through the dispatcher
have the part of its task list that concerns them, and take from `Dispatcher`
what that module shows: that accepted tasks run once and in order. Components
whose handlers touch no state of each other are checked side by side in one run:
the `MC...` module extends them all, a variable `topic` says which of them this
behaviour is about, and the others stay at an initial state. A `topic` also
splits one component where its operations only meet in parts (`Scripts` in
things, events and loading).

## The runs

A violation run states what a comment of the code says, and TLC finds the
counterexample; see [what was found](#what-was-found). States are distinct ones.

| Run | Topics and instances | What it shows |
|---|---|---|
| `dispatcher` (430,000) | 4 tasks and the shutdown task, 2 producers; scripts two calls deep; 2 guests of an NPC; 2 names to register; 23 spells and weapons; sums of 1 and 3 coins | no lost wake-up, accepted tasks run, the shutdown ends, if tasks add no task; scripts leave nothing behind, customers are served in turn, callbacks survive reloads, effects are paid once, money to the coin |
| `dispatcher_flush` | a task that adds one while it is flushed | **violated**: `ShutdownEnds` |
| `scheduler` (762,000) | 2 events, 2 callers, delays {1, 3}, ids wrap at 2, clock to 3; 2 tiles with 2 items that have scripts; a monster, its prey and another on 8 tiles; four raids, 7 numbers | the scheduler implements the timer, due events leave; the cache of a tile's scripts is exact; the monster's cache agrees with the map, and the ways it finds are ways; raids run one at a time and outlive no reload |
| `server` (263,000) | 2 messages, 3 packets, the dispatcher may stop; 2 players with a bag and a coin, one fault; an account with two characters, one of them exempt from bans | nothing is used after its deletion, what is closed is deleted; what the database holds is whole; who is banned leaves and stays out |
| `connection_refs` | 1 message, 2 packets, a count that starts at 0 or 1 | **violated**: `ReleasedIsDeleted` |
| `session` (959,000) | 3 clients, 2 Player objects, clones allowed or not; 2 bags, a paper, a depot, 3 tiles | no dangling pointer, one controller, the lost player leaves; windows show what is in reach |
| `trade` (107,000) | 2 players, 2 bags, 5 coin objects, stacks of 2, bags of 2 | nothing is lost or made, what bags count and weigh, partners, offers stand, fair exchange |
| `creatures` (1,851,000) | 1 player, 2 monsters, 2 places, 2 vectors | exact references, live pointers, monsters notice |
| `creatures_dead` (297,000) | 1 player, 2 monsters, 1 place, with conditions | the dead leave |
| `people` (834,000) | 3 players and 3 parties; 3 in chat, 2 of them gamemasters; 2 tenants and a bed; 2 fighters, one with a summon; a viewer and 2 others on 5 tiles | parties, channels, houses, fights and clients agree with who is there, whoever invites itself or comes uninvited |
| `body` (584,000) | a target two steps away, 3 commands, requests of one kind, swings; 2 objects that decay; 6 kits of conditions, 2 rings; 7 kinds of saved conditions | walks go on, requests are answered; decay in time; conditions are taken back once and saved as they are |
| `attributes` | a rune, a torch and a vial | **violated**: `SetIsKept` |

Why the bounds are enough.

* Dispatcher: `addTask` distinguishes an empty list from others, so two
  producers and a list that grows past one task give every pattern of pending
  notifies. Scheduler: two events for one to overtake the other, two callers for
  one to stop while the other adds; delays on both sides of
  `SCHEDULER_MINTICKS` (2 here). The clock stops at 3: the latest event is due.
* Scripts: two calls deep is a script that changes what its caller holds. NPC:
  one in focus and one that waits; street and zone are wide enough to be out of
  sight and in it. Registry: two names, so that a reload may lose one and keep
  the other; files of up to two entries (`MaxEntries`); three loads. Magic: every kind of spell with each price it may
  have; two uses, so that the second meets what the first left. Money: coins of
  three worths, a bag in a bag, one hoard that fills and one that overflows.
* Connections: one message on the socket and one that is filled or put off; the
  third packet comes after the login and the first game packet. Storage: one fault (a crash, a lost
  connection) at any statement, a bag and a coin, so that a row holds a row.
* Raids: one of several nodes, two of them wrong; one whose file has none; one of
  a script; one that `raids.xml` does not describe in full. Seven numbers are as
  many as there are tasks and remembered numbers at once. When a raid starts is a
  choice: margin, interval and chance only delay it.
* Bans: two characters of one account, because a ban of one meets the other; two
  rows, so that the first active one hides the second; the first notation bans;
  wrong passwords are counted in a topic of their own, to a limit of two.
* Sessions: the old client, the one that takes over, and one that comes
  between; a second object for a character that logs in again or, where clones are
  allowed (`AllowClones`, off by default), is in the world twice: a topic of its
  own, without banishments and with a dispatcher that is in time. Windows: a bag in
  a bag, a person that carries and one that looks.
* Trade: a bag in a bag, stacks that merge, overflow and split (five objects:
  two stacks for each player and one that splits). `MaxPending` = 0 frees what was
  given up before the next task, while in the code some tasks may come between;
  waiting changes the count of an object and nothing that tasks look at.
* Creatures: a master and its summon, or a monster that changes sides, and a
  player; two vectors, so that the index wraps. Larger instances (13 to 15
  million states) were run by hand with the same result.
* People: a leader, a member who succeeds it, an invited one, who each may lead or
  be invited to another party, or to its own (two at a time); an author, who
  founds the private channel, and two gamemasters, who come to it as guests and of
  whom one answers; one guest at a time leaves its pointer there; two tenants, the
  owner and the guest, in either role; two fighters, not both out of the fighting,
  of whom one may act through its summon, with times and frags that reach each
  limit; a client that may know two creatures, so that a third displaces one.
* Body: a walk of two steps has a first, a last and an event between; one more
  command than it takes to displace a deferred one. A client makes requests of one
  kind (`habit`), a new one takes the place of the old in what it waits for; two
  kinds at a time drop each other's deferrals, which is named under
  [what was found](#what-was-found). Swings meet every kind. An object that decays while
  another one does; kits in which conditions of one kind meet.

`CHECK_DEADLOCK FALSE` stands where the system may stop: after a shutdown, when
a clock or a count has reached its bound, or when objects have been used up.

Every property of a passing run has a mutant, a plausible bug in a mapped
definition that makes TLC find the property violated under the run's own
configuration.

### Properties with an exception

Where the code breaks what one would ask for, the property says what holds
instead, and names the exception. The reasons are under
[what was found](#what-was-found).

* `FairExchange` leaves out an offered bag that lies in another bag and holds a
  bag itself.
* `CreaturesConsistent` names the two ways in which the code leaves a pointer
  behind, through the variable `broken`, after which the model stops.
* `StepConsistent` leaves out what was put on or taken off a tile while its
  cache was being filled, and fields that are replaced.
* `ConditionsConsistent` leaves out haste and paralysis both listed when one is
  over but was not yet executed, and starts of damage above its sum.
* `ViewConsistent` stops at `overrun`: more creatures in sight than a client
  remembers.
* `ListsAgree` says of a character invited by its own client (`selfInvited`) only
  that it remembers the parties that list it; the model ends where such an invitation
  leads to a deleted party (`broken`).
* `ChatConsistent` allows a freed `Player` in a private channel that it had opened
  uninvited, and only there; the model ends where the channel calls it (`struck`).
* `RequestAnswered` leaves out a request that the player replaced, a teleport on the
  way, a swing that takes the place of the deferred action, and a deferred action
  that a step drops (`player.cpp:1480`) when it was asked for on the way or with
  another request pending, or was released early by the timer of an earlier walk.
  Of a player who stood still and had asked for nothing, no step drops it.
* `HouseConsistent` is checked with `BedsAtTheWall = FALSE`.

## Fairness

Weak fairness only, and only of what the code or the platform drives.

* `Dispatcher`: of the dispatcher thread and of each producer's notify; nobody
  has to add a task.
* `Scheduler`: of its thread and of pending notifies; time may pass.
* `Connection`: of the dispatcher, of the game's repeated tasks, of the retries
  the scheduler holds, of writes (which end, if only by a TCP time-out) and of
  reads on a socket that was closed. A client need not send anything.
* `GameSession`: of the dispatcher's tasks, timers, the thinking of players and
  the cleanup. `LostPlayerLeaves` allows for a dispatcher that was a second late.
* `Walk`: of the expiry of each event, of the dispatcher (`RunOne`), and of the
  clock that ends the pauses after a step and an action (`Rest`, `Ready`). The
  player need not ask for anything.
* `Creatures`: every vector has its turn, each round ends, no death is put off
  for good, stated as `[]<>` formulas: the tasks are enabled as long as they
  wait, so these say what weak fairness would, and TLC need not evaluate
  ENABLED of recursive handlers.

## Proofs

TLAPS proves what follows for any values of the constants that satisfy the
modules' assumptions: any number of tasks, events, clients, messages, players,
tenants, fighters and channels, routes of any length. Each module states an
inductive invariant as a conjunction of named parts, has one lemma for each
operator and each action that says which parts it keeps, and ends with the
theorems. Every invariant was a TLC invariant of a run before it was proved.

**`GameThreadProofs`**, the dispatcher: `TypeCorrect`, `NeverLosesWakeup`,
`TasksQueuedOnce`, `ShutdownStrandsNothing`, and together `TasksAlwaysAccounted`
(`TasksAccounted`). That nothing is stranded is not inductive: that the list is
empty at the end rests on the lock being held from `TERMINATED` to the end of
`flush` (`LockInv`), and that no task is left half run on the running task's
fate being "running" and nobody else's (`RunningInv`).

**`GameThreadProofs`**, spells, runes and weapons: `MagicAlwaysConsistent`
(`MagicConsistent`), for any book, gifts and amounts of mana. Between an effect
and its payment the invariant says what is owed, so that each of the many ways
out (refused, exhausted, a level gained, a summon that dies at once) leaves paid
what was done; charges, blanks and ammunition are counted against what became of
them.

**`GameThreadProofs`**, scripts: `ScriptsAlwaysConsistent` (`ScriptsConsistent`),
for any things, depth of calls and stock of numbers. The invariant (`Good`,
`TimersGood`) says of every environment on the stack, not only the top one, that
a uid names one thing that is placed or the environment's own; that a call which
waits for the scripts it started holds only what those scripts cannot free; that
what was given up is nowhere and held by nothing. That a fresh uid is found is a
pigeonhole argument over the finite stock. Timers are served by the bottom
environment only.

**`GameThreadProofs`**, conversations: `NpcAlwaysConsistent` (`NpcConsistent`),
for any street, guests and intervals (`NpcAssumption`). The invariant adds that
whoever is in the queue has been in the game, so that one who is not to be found
is gone for good. What striking a name off the queue leaves is proved by going
along it, position by position (`HandedOn`, `StruckOff`).

**`GameThreadProofs`**, registries: `RegistryAlwaysConsistent`
(`RegistryConsistent`), for any names, files, intervals and any number of loads
(`RegistryAssumption`). The invariant `RegistryIInv`: what is held is held once,
is all that is live, and no two held events have the name and type a lookup goes
by; a chain of global events whose id is kept has an event of the scheduler
pending, and of each load at most one is left over; a held event is due no
earlier than now, and no earlier than an interval or a day after it last ran,
but for one made in that very second (`turn`); who logged in after the last load
(`since`) is registered for held events. `RunsWhenDue` alone is not inductive: a
chain that `clear` forgot to start again would leave an event behind. A file is
registered entry by entry and events are run one by one; what each keeps is
carried along by `HandedOn`.

**`SchedulerProofs`**: `EventsAlwaysLive` (`EventsLive`), `NeverSleepsPast`,
`NeverFiresEarly`, `ReadsLiveTasks`, and `ImplementsTimer`: the thread with its
lock, heap and signal implements `EventTimer`. The invariant relates where each
event is (created, in the heap, popped) to the set of live ids, and the time of
the thread's wait to the top of the heap: it sleeps no longer than that, or a
signal is on its way. The refinement has one step per action: `Expired` with a
live id maps to `Fire`, with a stopped one to a stutter.

**`SchedulerProofs`**, raids: `RaidsAlwaysConsistent` (`RaidsConsistent`), for any
raids and files. `RaidsInv` adds which numbers are live: no two tasks have one
number, a number that is remembered is that of the task it is meant for, and
what was handed to the dispatcher is not stopped any more.

**`SchedulerProofs`**, events of tiles: `StepAlwaysConsistent` (`StepConsistent`),
for any tiles, items, kinds of events, scripts and depth of calls
(`StepAssumption`). The property is about the time between tasks; the invariant
(`StepSound`) speaks of every turn of every loop. Of an undisturbed cache it says
that one call on the stack at most fills it, and that what it has is what this
loop has come past (`Half`); or, when no loop fills it, that it has all that the
tile has but the item passed over and what a call on the stack is still to tell it
of (`Pend`), none of which lies above the loop (`InTurn`). What is left of a tile's
things when some are taken off is again proved position by position (`ThoseLeft`).

**`ConnectionProofs`**: `Invariant`, `DeletedUnused`, `NeverBothUse`,
`AlwaysConsistent` (`ConnectionConsistent`). The strengthening is an exact
account: the count of each object is the number of its holders, where a holder is
a completion handler, a task, a timer or a message; a message has one place, in
the pool, with the filler or on the socket.

**`ConnectionProofs`**, bans: `BansAlwaysConsistent` (`BansConsistent`), for any
accounts, characters, addresses and limits. It is inductive as it stands; the
work is in the handlers, each of which is shown to turn the table into one with
more rows, or fewer of certain kinds, and to leave marked for its kick whoever
the new rows concern.

**`ConnectionProofs`**, what is saved: `NeverByHalves` (`NeverHalf`) is an action
property, for any number of players, things and faults: a transaction leaves the
tables or makes all its statements (`FiveExecuted`), a save writes the player's rows
whatever was there (`SavedIs`), and when several are saved each is saved on what
those before it have left (`PlayersSaved`). Its invariant only says that the tables
are tables and who is online is a player.

**`GameSessionProofs`**: `Invariant`, `NothingEverDangles`, `OneControllerAlways`,
and together `SessionAlwaysConsistent` (`SessionConsistent`). The references of a `Player` object are
those of the world, of its protocol and of the release list; a protocol that
controls a player is the one the player names or one that is being closed.

**`PartyProofs`**: `Inductive`, `ListsAlwaysAgree` (`ListsAgree`) and its parts,
among them `DesertedPartiesEnd`, for any clients. `WorldInv` adds to the four lists
that nobody in a party is invited to it (`NoInsider`), which `Party::leaveParty`
(`party.cpp:206`) needs: it strikes the player off the `inviteList` without telling
the player. `Game::playerInviteToParty` does not compare the two players, so that
`NoInsider` excepts those who have invited themselves, and what the server still
keeps of them is part of the invariant.

**`PeopleProofs`**, houses: `HouseInvariant`, `DeedsAndBedsAgree` (for a house of
any plan), `HouseAlwaysConsistent` (`HouseConsistent`) from
`~BedsAtTheWall`: every bed is reached from inside. Without it the code does
let a stranger into the house: `BedItem::sleep` moves who sleeps onto the bed's
tile without `__queryAdd`. The invariant says of each list who may be in the
house, and of who stands in it that it is let in or about to be kicked.

**`PeopleProofs`**, fights: `FightsInvariant`, `FightsAlwaysConsistent`
(`FightsConsistent`), without a hypothesis: the condition, the lock, the attacked
list and the skull of each player, in the game and as they were saved, and the
hits that may still be charged, agree; a death is charged once, although a
fighter and its summon may both have had a part in it.

**`PeopleProofs`**, chat: `ChatInvariant`, `ChatAlwaysConsistent`
(`ChatConsistent`), without a hypothesis. `playerOpenChannel` does not compare the id
with the list the server sends, and who comes in uninvited is passed over when it logs
out (`chat.cpp:350`); the invariant says that nobody else is, whoever else is in the
channel, and until the server calls the freed `Player` (`StruckInv`).

**`BodyProofs`**: `WalkInvariant`, `WalkAlwaysConsistent` (`WalkConsistent`), for
targets at any distance and any requests. The invariant places every event of a
walk: with the scheduler, handed over, or named by the player, and at most one
of them may go on; the events that can no longer be called back are those whose
tasks look at the player's `eventWalk` when they run.

**`TradeProofs`**: `Invariant`, `StoreAlwaysConsistent` (`StoreConsistent`),
`CoinsAlwaysConserved` (`CoinsConserved`), for any players, bags, coins, sizes of
bags and stacks. In the middle of a handler some items are in no cylinder and a
trade is half carried out; `WInv(w, hand, busy)` says what holds of a world `w`
meanwhile, with the items in hand and the players at it. The references of an
item are exactly those of its cylinder, of the list of offers, of the hand and of
the release list. Coins are counted without a sum, as the set of pairs of a stack
and a number up to its size: a move is a bijection between two such sets.

The hypothesis `~BedsAtTheWall`, the only one, is a value of a Boolean constant:
with the other value the same model takes the step that breaks the property, as TLC
shows.

Only model-checked, and why:

* all liveness (`AcceptedTaskRuns`, `ShutdownEnds`, `DueEventLeaves`,
  `ClosedIsDeleted`, `LostPlayerLeaves`, `RequestAnswered`, `DeadLeave`): fairness
  and ENABLED are beyond the prover;
* `CreaturesConsistent`, `DecayConsistent`, `HuntConsistent`, `WindowsConsistent`,
  `PurseConsistent`: the code is recursive there (a summon repeats what its
  master attacks, bags lie in bags, `checkDecay` loops, A*), the models use
  `RECURSIVE` operators, and the prover cannot reason in a module with one;
* `StorageConsistent`, `SavedConsistent`, `ConditionsConsistent`,
  `ViewConsistent`: the handlers fold over or select from sequences of unbounded
  length (rows, conditions, spectators), and what that yields needs induction over
  the sequence. The theorems of the library for it take an operator as a parameter,
  which none of the installed provers can instantiate. For the queue of an NPC, the
  things of a tile and the players of a save the induction
  is done by hand, from the least number of a set (`LeastOne`, `HandedOn`) and
  recursive functions over positions; it has to be done anew for every such
  selection, and was not for these;
* `BagsConsistent`, `FairExchange`, `OfferStands`: what a bag weighs and what lies
  in it are sums and closures over bags in bags, with the same difficulty.

## What was found

Three places where the code does not do what a comment of it says, each with a
run that TLC finds violated:

1. `dispatcher_flush`: `shutdown` runs the remaining tasks with the task lock
   held (`tasks.cpp:143`); one that adds a task locks it again and the
   dispatcher waits for itself.
2. `connection_refs`: `Protocol::m_refCount` (`protocol.h:87`) is never
   initialised; if it starts above zero, "Reschedule it and try again" goes on
   for ever.
3. `attributes`: `setIntAttr` and `setStrAttr` (`ItemAttributes.cpp:47`, `79`)
   never add an attribute that an item lacks.

Met while modelling and represented in the models or excluded by a named
hypothesis, but contradicted by no comment. By component:

* Scheduler: pending events are dropped at shutdown without being deleted
  (`scheduler.cpp:200`).
* Sessions: a scheduled death keeps a raw pointer for 100 to 200 ms
  (`game.cpp:3686`), a delayed kick for a second (`game.cpp:4692`); the test that
  a connect "has already been scheduled" (`protocolgame.cpp:222`) never holds.
* Creatures: a monster removed by its own `onThink` still attacks in the same
  round, which may put it back into a check vector (`game.cpp:3679`); a convinced
  monster leaves its spawn without `startSpawnCheck` (`spawn.cpp:471`), so the
  block stays empty until another monster of it is gone.
* Trade: the second of two who accept without an offer makes the server follow a
  null pointer (`game.cpp:2774`), and one may accept before there is an offer
  (`game.cpp:2722`); a bag traded out of another bag that holds a bag may carry
  away what was got for it (`player.cpp:2719`).
* Parties: a player invited to its own party leaves an invitation behind.
  Chat: a private channel can be opened uninvited by its id, and keeps a pointer
  to who logs out then (`chat.cpp:456`); `createChannel` does not ask for premium.
* Houses: `rentWarnings` is not reset (`house.cpp:993`); list windows survive a
  new owner (`house.cpp:504`); `wakeUp` looks a GUID up as a creature id
  (`beds.cpp:168`); `sleep` asks no `__queryAdd`.
* Fights: `redSkullTicks` never falls below one think (`player.cpp:3834`); a
  relog adds up to 2 s to it (`ioplayer.cpp:126`); `addUnjustifiedDead` schedules
  a kick with a raw pointer (`player.cpp:3828`); `preSave` in `saveServer`
  revives a dying player.
* View: `checkCreatureAsKnown` forgets one in sight when all 150 are
  (`protocolgame.cpp:812`); the flags of a tile are reset without a look at its
  other items (`tile.cpp:1260`).
* Walks: an event that was handed over cannot be stopped, so a second chain of
  steps may run; an older request may replace a newer deferred one; the next
  shot of a bow replaces a deferred "use" (`player.cpp:3225`); a step drops what is
  deferred (`player.cpp:1480`), whoever is on another way at the time; the timer of
  an earlier walk may release the action before the way to it has begun.
* Decay: `copyAttributes` is called the wrong way round (`game.cpp:1802`), so
  that a transformed item may decay at once; a remaining time of 15.5 to 16 s is
  over early (`game.cpp:4162`).
* Conditions: `hasCondition` does not see what is over but not executed
  (`creature.cpp:1408`); rounds that come late are lost (`condition.cpp:1184`);
  the first round is dealt again after a relog; light of level 0 is divided by;
  one bit of suppression stands for all slots (`player.cpp:338`).
* Saved conditions: `statsPercent`, the bounds of damage, `forceUpdate` and
  `tickInterval` are not saved; SKILLSPERCENT is read into `skills[]`.
* Storage: depot ids from 100 collide;
  a container that cannot be moved is doubled in a house at each restart
  (`iomapserialize.cpp:482`); players and houses are saved in transactions of
  their own (`game.cpp:121`); `m_connected` is never set again; results of
  `savePlayer` are not looked at (`mailbox.cpp:175`, `house.cpp:299`).
* Windows: a container can be in two windows of a player; house windows stay
  usable after they are closed.
* Money: `transferMoneyTo` leaks the loaded target when the balance is too
  small; sums from 2^31 on are negative in `removeMoney` (`player.cpp:3914`).
* Magic: the price is looked up again after the effect; a second hand that
  cannot be conjured is refused after the first was paid (`spells.cpp:1815`);
  `Convince` and `SummonMonster` pay twice.
* Scripts: `setCallbackId` may fail with the thing pushed; the functions whose
  names end in `Ex` (`luascript.cpp:3120`) refuse items without a parent; what
  `doCreateItemEx` (`luascript.cpp:4025`) returns may not name the item.
* Step events: a field that is replaced (`tile.cpp:786`) is freed without a word
  to the cache; an item whose own event fills the cache is skipped
  (`movement.cpp:464`), or cached twice and only the first null written
  (`movement.cpp:502`).
* Raids: `reload` clears the name of the file before it loads it, so that
  "Reloaded raids." leaves no raid and starts no check (`raids.cpp:208`); the first
  event of a raid that was forced keeps no number, and runs after the raid was
  deleted; a forced raid without events stays the running one for ever.
* Bans: `isBanished` looks at the first active row only, so that an expired ban
  hides a later one (`ban.cpp:110`); a misplaced parenthesis makes the violation
  window count the notations of account 1 or 0 (`game.cpp:4578`);
  `IOPlayer::hasFlag(name)` asks the player whose id is the account number
  (`ioplayer.cpp:843`); the time '-1' becomes 0 in a column without sign, and
  `clearTemporaryBans` then ends bans that were for ever (`Endless`); the login
  asks for banishments and name locks again but not for deletions, so that
  characters that had passed the first question enter (`spared`).
* NPCs: scripts call `getFocus` and `setFocus`, which `npc.cpp:626` registers
  under other names; `getQueuedPlayer` pushes nothing when the head has left; the
  idle interval is 30000 and compared with seconds. Registry: `m_loaded` is set
  whatever the file holds; events of players in the game are deleted under them.
* Paths: `checkSightLine` starts with swapped coordinates (`map.cpp:598`);
  `canThrowObjectTo` compares a floor with itself (`map.cpp:522`); the heuristic
  of `getPathTo` is not admissible, so its ways may not be the cheapest. Hunt: nobody
  reads a monster's cache again when one that pushes creatures gets or loses a
  master (`tile.cpp:474`); the monsters of the model have none.

## What is not modelled

Data that no property tells apart: the bytes of messages and their encryption,
names, texts, positions inside a place, damage formulas, the shape of areas,
loot, yells. Of scripts, all but the one NPC that keeps a queue: a script is any
sequence of calls. Out of the models on purpose: `doRefreshMap`; a `stopEvent` of
the very event that runs, which frees it under its own feet; what the code does
on a freed object, where the models stop. `removeNamelock`,
`removeDeletion`, `removeNotations` and `acceptConnection`, which nothing calls;
failures of the database in `ban.cpp`. The waiting list, the order of the start,
the loaders, the status protocol and the tools are components of their own, listed
in `PROJECT.json` as not modelled or in part, with the reason.

## Plan

Modelled in this order, the most central first: dispatcher and scheduler;
parties; connections; sessions; trade; creatures; then houses, chat, fights and
the client's view; walks, decay and conditions; storage and attributes; scripts,
registry, NPCs; magic, money, windows; paths, the hunting monster and step
events; raids and bans. Proved: all that the [proofs](#proofs) list. Next:

1. `SavedConsistent` and `ConditionsConsistent`: their folds as recursive functions
   over positions, as in `Npc`, with what each keeps proved by
   `HandedOn`; then the round trip of the rows in `Storage`.
2. `OfferStands`: the closure of bags in bags as a least set, without recursion.
3. The recursion of `Decay` over its buckets as a recursive function, so that
   `ListedOnce` comes within reach of the prover.
4. The waiting list, and the order in which the server starts.
