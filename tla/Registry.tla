------------------------------ MODULE Registry ------------------------------
(***************************************************************************)
(* The events that scripts handle (baseevents.cpp and the classes derived  *)
(* from it): how a file of them is loaded, registered, found and reloaded, *)
(* the creature events a player registered for, and the global events that *)
(* run by an interval or once a day.                                       *)
(*                                                                         *)
(* A behaviour is about one system of events.  A file is what its entries  *)
(* come to: a name - the id, words or position an event is found by -, a   *)
(* type, and whether it configures and its script loads.  Time goes in     *)
(* seconds: a pending event of the scheduler fires once in each.           *)
(***************************************************************************)
EXTENDS Integers, Sequences, FiniteSets, SequencesExt

CONSTANTS
  Names,      (* what events are registered under                            *)
  Persons,    (* players                                                     *)
  Interval,   (* the interval of think events                                *)
  Day,        (* seconds in a day                                            *)
  MaxEntries, (* bound: entries of a file                                    *)
  MaxObjects, (* bound: Event objects ever made                              *)
  MaxLoads,   (* bound: loads, the first included                            *)
  MaxTime     (* bound: the time                                             *)

ASSUME RegistryAssumption ==
  Names # {} /\ Interval \in Nat \ {0} /\ Day \in Nat \ {0} /\ MaxEntries \in Nat /\ MaxLoads \in Nat

VARIABLES
  system,     (* the system this behaviour is about                          *)
  made,       (* every Event object, and what became of it                   *)
  held,       (* the system's map, list or maps, in order                    *)
  loads,      (* BaseEvents::m_loaded, and the number of loads               *)
  people,     (* by player: in the game, its eventsList, the load it logged  *)
              (* in after                                                    *)
  chains,     (* GlobalEvents::thinkEventId and timerEventId: kept id, the   *)
              (* event it is of pending, and events pending without one      *)
  dates       (* the time, and when each global event ran by its name        *)

registryVars == <<system, made, held, loads, people, chains, dates>>

Overwriting == {"actions", "creaturescripts"}  \* a std::map, assigned to
Appending   == {"talkactions", "movements"}    \* lists
Systems     == Overwriting \cup Appending \cup {"globalevents"}

Types == CASE system = "globalevents"    -> {"think", "timer"}
           [] system = "creaturescripts" -> {"login", "look"}
           [] OTHER                      -> {"plain"}

\* The good ones, and one that fails.
Entries == [name : Names, type : Types, good : {TRUE}]
             \cup {[name |-> CHOOSE n \in Names : TRUE, type |-> CHOOSE t \in Types : TRUE, good |-> FALSE]}
Files   == UNION {[1..n -> Entries] : n \in 0..MaxEntries}

EventsWorld == [made |-> made, held |-> held, chains |-> chains]

RegistryBecome(w) == made' = w.made /\ held' = w.held /\ chains' = w.chains

MarkAs(w, ids, state) ==
  [w EXCEPT !.made = [i \in DOMAIN w.made |-> IF i \in ids THEN [w.made[i] EXCEPT !.state = state]
                                                            ELSE w.made[i]]]

\* The ids of a list that are in a set, in their order.
Chosen(s, S) ==
  LET some[n \in 0..Len(s)] == IF n = 0 THEN <<>>
                               ELSE IF s[n] \in S THEN Append(some[n - 1], s[n]) ELSE some[n - 1]
  IN some[Len(s)]

-----------------------------------------------------------------------------
(* Registration.                                                           *)

\* Actions::registerEvent and CreatureEvents::registerEvent: an event of the
\* same name is forgotten, not deleted.
Overwrite(w, i) ==
  LET old == {j \in ToSet(w.held) : w.made[j].name = w.made[i].name}
  IN [MarkAs(w, old, "leaked") EXCEPT !.held = Append(Chosen(w.held, ToSet(w.held) \ old), i)]

\* TalkActions::registerEvent, MoveEvents::registerEvent and addEvent: the
\* first one registered is found first.
AppendEvent(w, i) == [w EXCEPT !.held = Append(@, i)]

\* Scheduler::addEvent for a map's first event.
StartChain(c) == IF c.id THEN c ELSE [c EXCEPT !.id = TRUE, !.own = TRUE]

\* GlobalEvents::registerEvent: a second of a name and type is refused.
RegisterGlobal(w, i) ==
  LET e == w.made[i]
  IN IF \E j \in ToSet(w.held) : w.made[j].name = e.name /\ w.made[j].type = e.type
     THEN MarkAs(w, {i}, "deleted")
     ELSE [AppendEvent(w, i) EXCEPT !.chains[e.type] = StartChain(w.chains[e.type])]

\* GlobalEvent's constructor and configureEvent: a timer's hour that is over is
\* tomorrow's; the hour is the first of the day here.
NextDay  == LET over == dates.now % Day IN dates.now + (IF over = 0 THEN 0 ELSE Day - over)
NewEvent(e) ==
  [name |-> e.name, type |-> e.type, state |-> "live",
   due |-> IF e.type = "timer" THEN NextDay ELSE dates.now + Interval,
   turn |-> e.type = "timer" /\ NextDay = dates.now]

\* BaseEvents::loadFromXml, one entry: an event that does not configure, load or
\* register is deleted.
LoadEntry(w, e) ==
  LET made2 == [w EXCEPT !.made = Append(@, NewEvent(e))]
      i     == Len(made2.made)
  IN IF ~e.good THEN MarkAs(made2, {i}, "deleted")
     ELSE CASE system \in Overwriting -> Overwrite(made2, i)
            [] system \in Appending   -> AppendEvent(made2, i)
            [] OTHER                  -> RegisterGlobal(made2, i)

\* ... and all of them, in the order of the file.
Loaded(w, file) ==
  LET after[n \in 0..Len(file)] == IF n = 0 THEN w ELSE LoadEntry(after[n - 1], file[n])
  IN after[Len(file)]

\* GlobalEvents::clear, stopEvent: only the event whose id was kept stops.
StopChain(c) == [id |-> FALSE, own |-> FALSE, stray |-> c.stray]

\* Seeded fault: clear forgets to give up the ids.
ClearKeepsIds(w) ==
  [MarkAs(w, ToSet(w.held), "deleted") EXCEPT
     !.held = <<>>, !.chains = [k \in DOMAIN @ |-> [@[k] EXCEPT !.own = FALSE]]]

\* Actions::clear, TalkActions::clear, MoveEvents::clear, CreatureEvents::clear,
\* GlobalEvents::clear
ClearEvents(w) ==
  [MarkAs(w, ToSet(w.held), "deleted") EXCEPT
     !.held = <<>>, !.chains = [k \in DOMAIN w.chains |-> StopChain(w.chains[k])]]

(* BaseEvents::reload, by a command or by the task of doReloadInfo: never    *)
(* while an event runs.  The file may be missing, or be another's.           *)
ReloadEvents(found, file) ==
  /\ loads.n < MaxLoads /\ Len(made) + Len(file) <= MaxObjects
  /\ found = "file" \/ file = <<>>
  /\ RegistryBecome(Loaded(ClearEvents(EventsWorld), file))
  /\ loads' = [ok |-> found # "missing", n |-> loads.n + 1]
  /\ UNCHANGED <<system, people, dates>>

-----------------------------------------------------------------------------
(* What runs.                                                              *)

Of(type) == Chosen(held, {i \in ToSet(held) : made[i].type = type})

\* MoveEvents::getEvent, Actions::getAction, CreatureEvents::getEventByName: the
\* first one of its name and type, 0 when there is none.
Lookup(n, type) ==
  LET found == Chosen(held, {i \in ToSet(held) : made[i].name = n /\ made[i].type = type})
  IN IF found = <<>> THEN 0 ELSE Head(found)

(* CreatureEvents::playerLogIn: events run in order until one says no; their *)
(* scripts register the player for events by name                            *)
(* (Creature::registerCreatureEvent, which keeps a pointer to the event).    *)
LogIn(p, says, wants) ==
  /\ system = "creaturescripts" /\ ~people[p].online
  /\ Of("login") = <<>> => says /\ wants = {}
  /\ people' = [people EXCEPT ![p] =
       [online |-> says, since |-> loads.n,
        list |-> IF says THEN Chosen(held, {i \in ToSet(held) : made[i].name \in wants}) ELSE <<>>]]
  /\ UNCHANGED <<system, made, held, loads, chains, dates>>

\* CreatureEvents::playerLogOut: without an event for it here.
LogOut(p) ==
  /\ people[p].online
  /\ people' = [people EXCEPT ![p] = [online |-> FALSE, since |-> 0, list |-> <<>>]]
  /\ UNCHANGED <<system, made, held, loads, chains, dates>>

\* Creature::getCreatureEvents, as Player::onLookEvent runs them.
ToRun(p, type) == Chosen(people[p].list, {i \in DOMAIN made : made[i].type = type})

\* Seeded fault: think does not note when it ran an event.
RunDueUnnoted(type, now) == made

\* GlobalEvents::think and timer, the events that are due: a timer's next time is
\* a day after the last, a think event's an interval after now.
RunDue(type, now) ==
  [i \in DOMAIN made |->
     IF i \in ToSet(held) /\ made[i].type = type /\ made[i].due <= now
     THEN [made[i] EXCEPT !.due = IF type = "timer" THEN @ + Day ELSE now + Interval, !.turn = FALSE]
     ELSE made[i]]

Ran(type, now) == {made[i].name : i \in {i \in ToSet(held) : made[i].type = type /\ made[i].due <= now}}

\* An event that fires adds another one, whose id nobody keeps.
Fire(c) == [c EXCEPT !.own = FALSE, !.stray = IF c.own THEN @ + 1 ELSE @]

Pending(c) == c.stray + (IF c.own THEN 1 ELSE 0)

\* The events made anew in the very second they are due, which are due again.
AtTheTurn == {made[i].name : i \in {i \in ToSet(held) : made[i].turn}}

Period == IF dates.of = "timer" THEN Day ELSE Interval

\* The second a run counts for: the one it was due for, of a timer.
RanFor(n, now) ==
  IF dates.of = "timer"
  THEN LET i == CHOOSE i \in ToSet(held) : made[i].name = n /\ made[i].type = "timer" IN made[i].due
  ELSE now

(* A second passes, and what is pending of one type fires.  However many are *)
(* pending, only the first finds an event due.                               *)
Second(type) ==
  LET now == dates.now + 1
      run == Pending(chains[type]) > 0
      who == IF run THEN Ran(type, now) ELSE {}
  IN /\ system = "globalevents" /\ loads.n > 0 /\ dates.now < MaxTime /\ dates.of = type
     /\ made' = IF run THEN RunDue(type, now) ELSE made
     /\ chains' = [chains EXCEPT ![type] = Fire(@)]
     /\ dates' = [dates EXCEPT !.now = now,
                    !.last  = [n \in Names |-> IF n \in who THEN RanFor(n, now) ELSE @[n]],
                    !.early = @ \/ \E n \in who \ AtTheTurn :
                      dates.last[n] # 0 /\ RanFor(n, now) < dates.last[n] + Period]
     /\ UNCHANGED <<system, held, loads, people>>

-----------------------------------------------------------------------------
RegistryInit ==
  /\ system \in Systems
  /\ made = <<>> /\ held = <<>>
  /\ loads = [ok |-> FALSE, n |-> 0]
  /\ people = [p \in Persons |-> [online |-> FALSE, since |-> 0, list |-> <<>>]]
  /\ chains = [k \in {"think", "timer"} |-> [id |-> FALSE, own |-> FALSE, stray |-> 0]]
  /\ \E type \in {"think", "timer"} :
       dates = [of |-> type, now |-> 1, last |-> [n \in Names |-> 0], early |-> FALSE]
  /\ system # "globalevents" => dates.of = "think"

RegistryNext ==
  \/ \E file \in Files, found \in {"file", "other", "missing"} : ReloadEvents(found, file)
  \/ \E p \in Persons, says \in BOOLEAN, wants \in SUBSET Names : LogIn(p, says, wants)
  \/ \E p \in Persons : LogOut(p)
  \/ \E type \in {"think", "timer"} : Second(type)

RegistrySpec == RegistryInit /\ [][RegistryNext]_registryVars

-----------------------------------------------------------------------------
RegistryTypeOK ==
  /\ system \in Systems /\ loads.n \in 0..MaxLoads /\ loads.ok \in BOOLEAN
  /\ \A i \in DOMAIN made : made[i].state \in {"live", "deleted", "leaked"}
  /\ \A k \in DOMAIN chains : chains[k].stray \in 0..MaxLoads

\* What is held is live and held in one place; every live event is held; and
\* outside of the lists, where an earlier one may hide it, it is found.
HeldIsLive ==
  /\ IsInjective(held)
  /\ ToSet(held) = {i \in DOMAIN made : made[i].state = "live"}
  /\ system \notin Appending =>
       \A i \in ToSet(held) : Lookup(made[i].name, made[i].type) = i

\* A player that logged in after the last reload is registered for live events
\* (those of a player that was in the game are deleted under it).
FreshLoginIsLive ==
  \A p \in Persons : people[p].online /\ people[p].since = loads.n =>
    \A i \in ToSet(people[p].list) : made[i].state = "live"

\* A global event that is registered runs when it is due, whatever reloads did
\* to the pending events of the scheduler.
RunsWhenDue ==
  \A i \in ToSet(held) : made[i].type = dates.of => made[i].due >= dates.now

(* By its name a global event does not run twice within its interval or a     *)
(* day, though reloads leave events of the scheduler behind and make the      *)
(* event anew; but a timer that is made anew in the second it ran runs again. *)
NeverEarlier == ~dates.early

RegistryConsistent ==
  RegistryTypeOK /\ HeldIsLive /\ FreshLoginIsLive /\ RunsWhenDue /\ NeverEarlier
=============================================================================
