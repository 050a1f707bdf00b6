------------------------------- MODULE Raids --------------------------------
(***************************************************************************)
(* Raids (Source/raids.cpp; commands.cpp, game.cpp): the list of raids and *)
(* the file of each, the check that starts one now and then, the raid a    *)
(* gamemaster forces, its events one after the other, and what becomes of  *)
(* them when the raids are loaded again.                                   *)
(*                                                                         *)
(* When the time of a task of the scheduler has come it is handed to the   *)
(* dispatcher, and no number stops it any more.                            *)
(***************************************************************************)
EXTENDS Naturals, Sequences, FiniteSets

CONSTANTS
  Raid, NoRaid,
  Entries,       (* the tags each raid has in raids.xml                    *)
  Files,         (* and the nodes of its own file                          *)
  EventId, NoId  (* numbers of the scheduler, a finite stock of them       *)

ASSUME RaidsAssumption ==
  /\ NoRaid \notin Raid /\ NoId \notin EventId
  /\ Files \in [Raid -> Seq([kind : STRING, tags : SUBSET STRING, delay : Nat,
                             monsters : SUBSET (SUBSET STRING)])]

VARIABLES
  up,            (* the game has been initialised                          *)
  raidsLoaded,   (* Raids: loaded                                          *)
  raidsStarted,  (* started                                                *)
  raidList,
  running,
  checkRaidsEvent,
  raidEvents,    (* Raid: its events, as the places of their nodes         *)
  nextEvent,
  executing,     (* the raids whose state is RAIDSTATE_EXECUTING           *)
  nextEventEvent,
  tasks,         (* what each number of the scheduler is to run            *)
  handed,        (* those that the dispatcher has got                      *)
  wild           (* a raid that is deleted was run                         *)

raidVars == <<up, raidsLoaded, raidsStarted, raidList, running, checkRaidsEvent, raidEvents,
              nextEvent, executing, nextEventEvent, tasks, handed, wild>>

RaidTask(r, e) == [raid |-> r, event |-> e]
Check == RaidTask(NoRaid, 0)   (* Raids::checkRaids                        *)
Idle  == RaidTask(NoRaid, 1)   (* none                                     *)

-----------------------------------------------------------------------------
(* The files.                                                              *)

RaidMinTicks == 1000

\* RaidEvent::configureRaidEvent, and what it makes of the delay.
Timed(n)    == "delay" \in n.tags
GetDelay(n) == IF n.delay < RaidMinTicks THEN RaidMinTicks ELSE n.delay

\* configureRaidEvent of the four kinds
AnnounceRight(n)    == Timed(n) /\ "message" \in n.tags
SingleSpawnRight(n) == Timed(n) /\ {"name", "x", "y", "z"} \subseteq n.tags
AreaSpawnRight(n)   ==
  /\ Timed(n)
  /\ IF "radius" \in n.tags THEN {"centerx", "centery", "centerz"} \subseteq n.tags
     ELSE {"fromx", "fromy", "fromz", "tox", "toy", "toz"} \subseteq n.tags
  /\ \A m \in n.monsters : "name" \in m /\ {"minamount", "maxamount", "amount"} \cap m # {}
ScriptRight(n)      == Timed(n) /\ "script" \in n.tags

Right(n) == CASE n.kind = "announce"    -> AnnounceRight(n)
              [] n.kind = "singlespawn" -> SingleSpawnRight(n)
              [] n.kind = "areaspawn"   -> AreaSpawnRight(n)
              [] n.kind = "script"      -> ScriptRight(n)
              [] OTHER                  -> FALSE

\* Raid::loadFromXml: the nodes that are right, by their delays; those of the
\* same delay in any order.
Orders(r) ==
  LET nodes == {k \in DOMAIN Files[r] : Right(Files[r][k])}
  IN {s \in [1..Cardinality(nodes) -> nodes] :
        \A i, j \in DOMAIN s : i < j => /\ s[i] # s[j]
                                        /\ GetDelay(Files[r][s[i]]) <= GetDelay(Files[r][s[j]])}

\* Raids::loadFromXml: the raids it keeps.
Listed == {r \in Raid : {"name", "interval2"} \subseteq Entries[r]}

\* What executeEvent of each kind may answer.
AnnounceAnswers    == {TRUE}
SingleSpawnAnswers == BOOLEAN
AreaSpawnAnswers(n) == IF n.monsters = {} THEN {TRUE} ELSE BOOLEAN
ScriptAnswers      == BOOLEAN

ExecuteEvent(n) == CASE n.kind = "announce"    -> AnnounceAnswers
                     [] n.kind = "singlespawn" -> SingleSpawnAnswers
                     [] n.kind = "areaspawn"   -> AreaSpawnAnswers(n)
                     [] OTHER                  -> ScriptAnswers

-----------------------------------------------------------------------------
(* The scheduler.                                                          *)

\* Numbers are given out once; one that nobody has is as good as a new one.
InUse   == {i \in EventId : tasks[i] # Idle} \cup {checkRaidsEvent}
             \cup {nextEventEvent[r] : r \in Raid}
NewId   == CHOOSE i \in EventId : i \notin InUse
OtherId == CHOOSE i \in EventId : i \notin InUse \cup {NewId}
Roomy   == \E i, j \in EventId \ InUse : i # j

\* Scheduler::stopEvent of some numbers: only what is not handed over.
Stopped(ids) == [i \in EventId |-> IF i \in ids \ handed THEN Idle ELSE tasks[i]]

HandOver(i) ==
  /\ tasks[i] # Idle /\ i \notin handed
  /\ handed' = handed \cup {i}
  /\ UNCHANGED <<up, raidsLoaded, raidsStarted, raidList, running, checkRaidsEvent,
                 raidEvents, nextEvent, executing, nextEventEvent, tasks, wild>>

-----------------------------------------------------------------------------
(* The list of raids.                                                      *)

RaidsInit ==
  /\ up = FALSE /\ raidsLoaded = FALSE /\ raidsStarted = FALSE
  /\ raidList = {} /\ running = NoRaid /\ checkRaidsEvent = NoId
  /\ raidEvents = [r \in Raid |-> << >>] /\ nextEvent = [r \in Raid |-> 0]
  /\ executing = {} /\ nextEventEvent = [r \in Raid |-> NoId]
  /\ tasks = [i \in EventId |-> Idle] /\ handed = {} /\ wild = FALSE

\* Game::setGameState, Raids::loadFromXml and startup. Any raid may have a
\* file that is not there, and so may the list.
GameInit ==
  /\ ~up /\ up' = TRUE
  /\ \/ /\ raidList' \in SUBSET Listed
        /\ \E o \in [Raid -> UNION {Orders(r) : r \in Raid}] :
             /\ \A r \in Raid : o[r] \in Orders(r)
             /\ raidEvents' = o
        /\ raidsLoaded' = TRUE /\ raidsStarted' = TRUE
        /\ checkRaidsEvent' = NewId /\ tasks' = [tasks EXCEPT ![NewId] = Check]
     \/ UNCHANGED <<raidList, raidEvents, raidsLoaded, raidsStarted, checkRaidsEvent, tasks>>
  /\ UNCHANGED <<running, nextEvent, executing, nextEventEvent, handed, wild>>

GetNextRaidEvent(r, k) == IF k < Len(raidEvents[r]) THEN raidEvents[r][k + 1] ELSE 0

\* Raids::checkRaids with Raid::startRaid: unless one is running, the first
\* whose interval and margin will have it, or none; then the next check.
CheckRaids(i) ==
  /\ i \in handed /\ tasks[i] = Check
  /\ \E r \in raidList \cup {NoRaid} :
       /\ running # NoRaid => r = NoRaid
       /\ running' = IF r = NoRaid THEN running ELSE r
       /\ IF r # NoRaid /\ GetNextRaidEvent(r, nextEvent[r]) # 0
          THEN /\ executing' = executing \cup {r}
               /\ nextEventEvent' = [nextEventEvent EXCEPT ![r] = NewId]
               /\ tasks' = [tasks EXCEPT ![i] = Idle, ![OtherId] = Check,
                             ![NewId] = RaidTask(r, GetNextRaidEvent(r, nextEvent[r]))]
          ELSE /\ tasks' = [tasks EXCEPT ![i] = Idle, ![OtherId] = Check]
               /\ UNCHANGED <<executing, nextEventEvent>>
  /\ checkRaidsEvent' = OtherId /\ handed' = handed \ {i}
  /\ UNCHANGED <<up, raidsLoaded, raidsStarted, raidList, raidEvents, nextEvent, wild>>

\* Commands::forceRaid: it keeps no number, and a raid without events is
\* running from then on.
ForceRaid(r) ==
  /\ r \in raidList /\ running = NoRaid
  /\ running' = r
  /\ IF GetNextRaidEvent(r, nextEvent[r]) # 0
     THEN /\ executing' = executing \cup {r}
          /\ tasks' = [tasks EXCEPT ![NewId] = RaidTask(r, GetNextRaidEvent(r, nextEvent[r]))]
     ELSE UNCHANGED <<executing, tasks>>
  /\ UNCHANGED <<up, raidsLoaded, raidsStarted, raidList, checkRaidsEvent, raidEvents,
                 nextEvent, nextEventEvent, handed, wild>>

\* Raid::resetRaid
ResetRaid(r) ==
  /\ nextEvent' = [nextEvent EXCEPT ![r] = 0]
  /\ executing' = executing \ {r} /\ running' = NoRaid

\* Seeded fault: the number of the next event is not kept.
GoOnLoose(r) ==
  /\ nextEvent' = [nextEvent EXCEPT ![r] = @ + 1]
  /\ UNCHANGED <<nextEventEvent, executing, running>>

\* Raid::executeRaidEvent: there is another event.
GoOn(r) ==
  /\ nextEvent' = [nextEvent EXCEPT ![r] = @ + 1]
  /\ nextEventEvent' = [nextEventEvent EXCEPT ![r] = NewId]
  /\ UNCHANGED <<executing, running>>

\* Raid::executeRaidEvent. That the raid may have been deleted is not seen.
ExecuteRaidEvent(i) ==
  LET r    == tasks[i].raid
      next == GetNextRaidEvent(r, nextEvent[r] + 1)
  IN /\ i \in handed /\ r # NoRaid /\ handed' = handed \ {i}
     /\ IF r \notin raidList
        THEN /\ wild' = TRUE /\ tasks' = [tasks EXCEPT ![i] = Idle]
             /\ UNCHANGED <<nextEvent, nextEventEvent, executing, running>>
        ELSE /\ \E ok \in ExecuteEvent(Files[r][tasks[i].event]) :
                  IF ok /\ next # 0
                  THEN GoOn(r) /\ tasks' = [tasks EXCEPT ![i] = Idle, ![NewId] = RaidTask(r, next)]
                  ELSE /\ ResetRaid(r) /\ tasks' = [tasks EXCEPT ![i] = Idle]
                       /\ UNCHANGED nextEventEvent
             /\ UNCHANGED wild
     /\ UNCHANGED <<up, raidsLoaded, raidsStarted, raidList, checkRaidsEvent, raidEvents>>

\* Raid::stopEvents of the raids that are deleted
StopEvents == nextEventEvent' = [r \in Raid |-> IF r \in raidList THEN NoId ELSE nextEventEvent[r]]

\* Raids::clear
Clear ==
  /\ tasks' = Stopped({checkRaidsEvent} \cup {nextEventEvent[r] : r \in raidList})
  /\ StopEvents
  /\ checkRaidsEvent' = NoId /\ raidList' = {} /\ raidsLoaded' = FALSE
  /\ raidsStarted' = FALSE /\ running' = NoRaid /\ executing' = executing \ raidList

\* Raids::reload and startup, of a command or a script: it has cleared the
\* name of the file to load, so that none is loaded and no check is started.
Reload ==
  /\ up /\ Clear
  /\ UNCHANGED <<up, raidEvents, nextEvent, handed, wild>>

RaidsNext ==
  /\ ~wild /\ Roomy
  /\ \/ GameInit \/ Reload
     \/ \E r \in Raid : ForceRaid(r)
     \/ \E i \in EventId : HandOver(i) \/ CheckRaids(i) \/ ExecuteRaidEvent(i)

RaidsSpec == RaidsInit /\ [][RaidsNext]_raidVars

-----------------------------------------------------------------------------
(* Properties.                                                             *)

RaidsTypeOK ==
  /\ {up, raidsLoaded, raidsStarted, wild} \subseteq BOOLEAN
  /\ raidList \subseteq Raid /\ executing \subseteq Raid /\ running \in Raid \cup {NoRaid}
  /\ raidEvents \in [Raid -> Seq(Nat \ {0})] /\ nextEvent \in [Raid -> Nat]
  /\ checkRaidsEvent \in EventId \cup {NoId}
  /\ nextEventEvent \in [Raid -> EventId \cup {NoId}]
  /\ tasks \in [EventId -> [raid : Raid \cup {NoRaid}, event : Nat]]
  /\ handed \subseteq EventId

Live == {i \in EventId : tasks[i] # Idle}

\* While the raids are started there is always one check to come, and there
\* are never two: each adds the next, and loading again stops it.
OneCheck ==
  /\ \A i, j \in Live : tasks[i] = Check /\ tasks[j] = Check => i = j
  /\ raidsStarted => \E i \in Live : tasks[i] = Check
  /\ \A i \in Live \ handed : tasks[i] = Check => checkRaidsEvent = i

\* At most one event of a raid of the list is to come. It is that of the raid
\* that is running and the next of its file; and a running raid with events
\* has one, so that it ends.
OneRaid ==
  /\ \A i, j \in Live : tasks[i].raid \in raidList /\ tasks[j].raid \in raidList => i = j
  /\ \A i \in Live : tasks[i].raid \in raidList =>
       tasks[i].raid = running /\ tasks[i].event = GetNextRaidEvent(running, nextEvent[running])
  /\ running # NoRaid =>
       /\ running \in raidList
       /\ raidEvents[running] # << >> => \E i \in Live : tasks[i].raid = running
  /\ executing \subseteq {running}
  /\ \A r \in raidList : nextEvent[r] # 0 => r = running

\* A number that is kept leads to no task but the raid's own. What is left of a
\* raid that was deleted was handed over, or it is the first event of a raid
\* that was forced, of which nobody kept the number: that one will run.
NoneLeft ==
  /\ \A r \in Raid : nextEventEvent[r] \in Live => tasks[nextEventEvent[r]].raid = r
  /\ checkRaidsEvent \in Live => tasks[checkRaidsEvent] = Check
  /\ \A i \in Live \ handed :
       LET r == tasks[i].raid
       IN r # NoRaid /\ r \notin raidList => tasks[i].event = GetNextRaidEvent(r, 0)

\* The raids: their tasks, and what is kept of them, across loading them again.
RaidsConsistent == RaidsTypeOK /\ (~wild => OneCheck /\ OneRaid /\ NoneLeft)
=============================================================================
