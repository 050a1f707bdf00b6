------------------------------ MODULE Scripts ------------------------------
(***************************************************************************)
(* The Lua interface (luascript.cpp): script environments on a stack, the  *)
(* uids by which scripts name things, what they create and remove, their   *)
(* timer events and database results, and the objects they set up while    *)
(* they are loaded.                                                        *)
(*                                                                         *)
(* A script is any sequence of calls.  A call that changes the world has   *)
(* two parts: what it does, after which other scripts may run (onStepIn,   *)
(* onEquip, ...), and what it does when they are through, with the pointers *)
(* it held meanwhile (pend).                                               *)
(***************************************************************************)
EXTENDS Integers, Sequences, FiniteSets

CONSTANTS
  Goods,      (* items                                                      *)
  Beasts,     (* creatures                                                  *)
  Marked,     (* the items that bear a unique id                            *)
  Calls,      (* the kinds of calls scripts make                            *)
  MaxDepth,   (* environments: 15 in the code                               *)
  MaxUid,     (* bound: local uids; 0xFFFFFF in the code                    *)
  MaxTimers,  (* bound: timer events ever made                              *)
  MaxResults, (* bound: results of queries ever made                        *)
  MaxCombats, (* bound: combat objects and areas ever made                  *)
  MaxCalls    (* bound: calls that change the world                         *)

NoThing == "nothing"

ASSUME ScriptsAssumption ==
  /\ Marked \subseteq Goods /\ Goods \cap Beasts = {} /\ NoThing \notin Goods \cup Beasts
  /\ IsFiniteSet(Goods) /\ IsFiniteSet(Beasts)
  /\ MaxDepth \in Nat \ {0} /\ MaxUid \in Nat \ {0}
  /\ MaxTimers \in Nat /\ MaxResults \in Nat

VARIABLES
  frames,     (* the environments in use, the running script's last          *)
  lastUid,    (* by environment: m_lastUID                                   *)
  things,     (* where a thing is, and how often it was given to FreeThing   *)
  uniques,    (* the unique ids of m_globalMap                               *)
  temps,      (* m_tempItems: environments and items                         *)
  results,    (* m_tempResults: open ones, and how many were made            *)
  timers,     (* m_timerEvents and the scheduler's events for them           *)
  combats,    (* combat objects, their areas and the areas by themselves     *)
  calls       (* how many calls changed the world                            *)

scriptVars == <<frames, lastUid, things, uniques, temps, results, timers, combats, calls>>

Things   == Goods \cup Beasts
Places   == {"unborn", "loose", "tile", "bag", "stray", "deleted"}
TimerIds == 1..MaxTimers
Uids     == [kind : {"local"}, of : Nat \ {0}] \cup [kind : {"unique"}, of : Marked]
              \cup [kind : {"creature"}, of : Beasts]
NoPend   == [op |-> "none"]

(* Operators take and give back the parts of the state calls change.        *)
World == [f |-> frames, l |-> lastUid, t |-> things, g |-> uniques, p |-> temps, r |-> results]

ScriptsBecome(w) ==
  /\ frames' = w.f /\ lastUid' = w.l /\ things' = w.t
  /\ uniques' = w.g /\ temps' = w.p /\ results' = w.r

Depth(w)  == Len(w.f)
Local(w)  == w.f[Depth(w)].local
Env       == frames[Len(frames)]
Running   == frames # <<>> /\ Env.pend = NoPend
Loading   == Running /\ Env.stage = "load"

\* Thing::isRemoved: without a parent.
IsRemoved(w, t) == w.t[t].at \notin {"tile", "bag"}

-----------------------------------------------------------------------------
(* Uids.                                                                   *)

\* ScriptEnviroment::addThing, the new number: local uids go round, and skip
\* those in use, over the last one if need be.
FreshUid(w) ==
  LET last     == w.l[Depth(w)]
      first    == IF last >= MaxUid THEN 1 ELSE last + 1
      Taken(n) == [kind |-> "local", of |-> n] \in DOMAIN Local(w)
  IN CHOOSE n \in first..(first + Cardinality(DOMAIN Local(w))) :
       ~Taken(n) /\ \A k \in first..(n - 1) : Taken(k)

\* m_localMap[uid] = thing
With(map, uid, t) == [u \in DOMAIN map \cup {uid} |-> IF u = uid THEN t ELSE map[u]]

Bind(w, uid, t) == [w EXCEPT !.f[Depth(w)].local = With(@, uid, t)]

\* ScriptEnviroment::addThing: a removed thing gets none.
AddThing(w, t) ==
  IF IsRemoved(w, t) \/ \E u \in DOMAIN Local(w) : Local(w)[u] = t THEN w
  ELSE IF t \in Beasts THEN Bind(w, [kind |-> "creature", of |-> t], t)
  ELSE IF t \in Marked /\ w.t[t].at = "tile" THEN Bind(w, [kind |-> "unique", of |-> t], t)
  ELSE LET n == FreshUid(w)
       IN Bind([w EXCEPT !.l[Depth(w)] = n], [kind |-> "local", of |-> n], t)

\* ScriptEnviroment::insertThing: not over a uid in use.
InsertThing(w, uid, t) == IF uid \in DOMAIN Local(w) THEN w ELSE Bind(w, uid, t)

\* ScriptEnviroment::getThingByUID: from the script's own map, the unique ids,
\* or the creatures of the game, which are then in its map.
GetThingByUID(w, uid) ==
  IF uid \in DOMAIN Local(w) /\ ~IsRemoved(w, Local(w)[uid]) THEN Local(w)[uid]
  ELSE IF uid.kind = "unique" /\ uid.of \in w.g /\ ~IsRemoved(w, uid.of) THEN uid.of
  ELSE IF uid.kind = "creature" /\ ~IsRemoved(w, uid.of) THEN uid.of
  ELSE NoThing

Named(w, uid) ==
  IF uid.kind = "creature" /\ GetThingByUID(w, uid) # NoThing THEN Bind(w, uid, uid.of) ELSE w

\* ScriptEnviroment::removeItemByUID
RemoveItemByUID(w, uid) ==
  [w EXCEPT !.f[Depth(w)].local = [u \in DOMAIN @ \ {uid} |-> @[u]],
            !.g = IF uid.kind = "unique" THEN @ \ {uid.of} ELSE @]

-----------------------------------------------------------------------------
(* Environments.                                                           *)

NewFrame(stage, timer) ==
  [stage |-> stage, timer |-> timer, local |-> <<>>, pend |-> NoPend]

\* LuaScriptInterface::reserveScriptEnv, with setScriptId, setCallbackId or
\* setTimerEvent of its caller: not beyond the last environment.
ReserveScriptEnv(w, stage, timer) ==
  IF Depth(w) >= MaxDepth THEN w ELSE [w EXCEPT !.f = Append(@, NewFrame(stage, timer))]

\* Game::FreeThing: to be released when the task is over.
FreeThing(w, t) == [w EXCEPT !.t[t].freed = @ + 1]

\* Temporary items that are nowhere are freed.
FreeTemps(w) ==
  [t \in Things |->
    IF IsRemoved(w, t) /\ \E p \in w.p : p[2] = t
    THEN [at |-> w.t[t].at, freed |-> w.t[t].freed + 1] ELSE w.t[t]]

\* Seeded fault: the lists of temporary items are not emptied.
ResetEnvKeeps(w) == [w EXCEPT !.t = FreeTemps(w), !.r.open = {}]

\* ScriptEnviroment::resetEnv: it frees what every environment made, not only
\* its own, and forgets the results of all.
ResetEnv(w) == [w EXCEPT !.t = FreeTemps(w), !.p = {}, !.r.open = {}]

\* LuaScriptInterface::releaseScriptEnv
ReleaseScriptEnv(w) == [ResetEnv(w) EXCEPT !.f = SubSeq(@, 1, Len(@) - 1)]

-----------------------------------------------------------------------------
(* The second part of a call.                                              *)

Pend(w, p) == [w EXCEPT !.f[Depth(w)].pend = p]

\* Game::internalAddItem: a new item is refused and deleted, put into the world, or
\* stacked with one that is there: freed, or left behind if a part did not fit,
\* for which internalAddItem makes yet another item.
Created(w, t, at) ==
  CASE at = "refused" -> [w EXCEPT !.t[t].at = "deleted"]
    [] at = "stacked" -> FreeThing([w EXCEPT !.t[t].at = "loose"], t)
    [] OTHER          -> [w EXCEPT !.t[t].at = at]

\* Each ends by naming the item, unless it is gone again by then.
FinishCreate(w, p) == AddThing(w, p.thing)

\* luaDoSummonCreature and luaDoPlayerSummonCreature, after placeCreature
FinishSummon(w, p) == AddThing(w, p.thing)

\* luaDoRemoveItem, after internalRemoveItem: also when only some of a stack
\* were removed.
FinishRemove(w, p) == RemoveItemByUID(w, p.uid)

\* luaDoTransformItem and luaDoChangeTypeItem, after transformItem: the uid
\* goes over to the new item.
FinishTransform(w, p) ==
  LET x == IF IsRemoved(w, p.thing) THEN RemoveItemByUID(w, p.uid) ELSE w
  IN IF p.new # NoThing /\ p.new # p.thing THEN InsertThing(x, p.uid, p.new) ELSE x

Finished(w, p) ==
  CASE p.op = "create"    -> FinishCreate(w, p)
    [] p.op = "summon"    -> FinishSummon(w, p)
    [] p.op = "remove"    -> FinishRemove(w, p)
    [] p.op = "transform" -> FinishTransform(w, p)
    [] OTHER              -> w

-----------------------------------------------------------------------------
ScriptsInit ==
  /\ frames = <<>> /\ lastUid = [d \in 1..MaxDepth |-> 0]
  /\ things \in [Things -> [at : {"unborn", "tile", "bag"}, freed : {0}]]
  /\ \A b \in Beasts : things[b].at # "bag"
  /\ uniques = {g \in Marked : things[g].at # "unborn"}
  /\ temps = {} /\ results \in [open : {{}}, made : 0..MaxResults]
  /\ timers \in [armed : {{}}, due : {{}}, refs : {[i \in TimerIds |-> 0]}, made : 0..MaxTimers]
  /\ combats = [objects |-> 0, areas |-> 0, fit |-> {}, stray |-> 0, conditions |-> 0] /\ calls \in 0..MaxCalls

KeepsTimers  == UNCHANGED <<timers, combats, calls>>
Counts       == calls < MaxCalls /\ calls' = calls + 1 /\ UNCHANGED <<timers, combats>>

\* A dispatcher task runs a script: Event::loadScript and
\* LuaScriptInterface::loadFile, or an event's execute...
StartScript(stage) ==
  /\ frames = <<>>
  /\ ScriptsBecome(ReserveScriptEnv(World, stage, 0)) /\ KeepsTimers

\* What a call did brings on another script; at the last environment it is not
\* run.
NestedScript ==
  /\ frames # <<>> /\ Env.pend # NoPend /\ Len(frames) < MaxDepth
  /\ ScriptsBecome(ReserveScriptEnv(World, "event", 0)) /\ KeepsTimers

\* The call returns to its script.
CallReturns ==
  /\ frames # <<>> /\ Env.pend # NoPend
  /\ ScriptsBecome(Pend(Finished(World, Env.pend), NoPend)) /\ KeepsTimers

\* luaGetThingFromPos, luaGetTileItemById, ...Type, ...ThingByPos,
\* ...ThingByTopOrder and luaGetTopCreature
GetTileThing ==
  /\ Running /\ \E t \in Things : things[t].at = "tile" /\ ScriptsBecome(AddThing(World, t))
  /\ KeepsTimers

\* luaGetPlayerSlotItem, luaGetPlayerItemById and luaGetContainerItem
GetPlayerSlotItem ==
  /\ Running /\ \E g \in Goods : things[g].at = "bag" /\ ScriptsBecome(AddThing(World, g))
  /\ KeepsTimers

\* luaGetPlayersOnlineList, luaGetMonsterTargetList, luaGetMonsterFriendList,
\* luaGetCreatureMaster and luaGetCreatureSummons: all of several creatures.
GetCreatures ==
  /\ Running
  /\ LET online == {b \in Beasts : things[b].at = "tile"}
         own    == Local(World)
         named  == {[kind |-> "creature", of |-> b] : b \in online}
     IN ScriptsBecome([World EXCEPT !.f[Len(frames)].local =
          [u \in named \cup DOMAIN own |-> IF u \in named THEN u.of ELSE own[u]]])
  /\ KeepsTimers

\* luaGetThing, and the many calls that only look a creature up
GetThing ==
  /\ Running /\ \E b \in Beasts : ScriptsBecome(Named(World, [kind |-> "creature", of |-> b]))
  /\ KeepsTimers

\* The first part of the calls that create. An earlier item of a longer list
\* that went well stays where it is.
Make(outcomes) ==
  /\ Running /\ "create" \in Calls /\ Counts
  /\ \E t \in Goods, at \in outcomes :
       /\ things[t].at = "unborn"
       /\ LET w == [Created(World, t, at) EXCEPT
                       !.g = IF at \in {"tile", "bag"} /\ t \in Marked THEN @ \cup {t} ELSE @]
          IN ScriptsBecome(IF at = "refused" THEN w
                           ELSE Pend(w, [op |-> "create", thing |-> t]))

\* luaDoCreateItem: on a tile
CreateItem == Make({"refused", "stacked", "stray", "tile"})

\* luaDoPlayerAddItem: with a player, or under it if that may be
PlayerAddItem == Make({"refused", "stacked", "stray", "bag", "tile"})

\* luaDoAddContainerItem
AddContainerItem == Make({"refused", "stacked", "stray", "bag"})

\* luaDoCreateTeleport: an item of another kind is deleted.
CreateTeleport == Make({"refused", "tile"})

\* luaDoCreateItemEx: the item has no parent, and so gets no uid.
CreateItemEx ==
  /\ Running /\ "create" \in Calls /\ Counts
  /\ \E t \in Goods :
       /\ things[t].at = "unborn"
       /\ ScriptsBecome(AddThing([World EXCEPT !.t[t].at = "loose",
                                               !.p = @ \cup {<<Len(frames), t>>}], t))

\* luaDoSummonCreature, luaDoPlayerSummonCreature: Game::placeCreature
SummonCreature ==
  /\ Running /\ "create" \in Calls /\ Counts
  /\ \E t \in Beasts, at \in {"refused", "tile"} :
       /\ things[t].at = "unborn"
       /\ ScriptsBecome(IF at = "refused" THEN Created(World, t, at)
                        ELSE Pend(Created(World, t, at), [op |-> "summon", thing |-> t]))

\* The uids a script may name an item by: its own, and the unique ones.
Known == DOMAIN Local(World) \cup [kind : {"unique"}, of : Marked]

Found(uid, kinds) == uid \in Known /\ GetThingByUID(World, uid) \in kinds

\* luaDoRemoveItem: Game::internalRemoveItem, of all or some of a stack
RemoveItem ==
  /\ Running /\ "remove" \in Calls /\ Counts
  /\ \E uid \in Known, all \in BOOLEAN :
       /\ Found(uid, Goods)
       /\ LET t == GetThingByUID(World, uid)
              w == IF all THEN FreeThing([World EXCEPT !.t[t].at = "loose"], t) ELSE World
          IN ScriptsBecome(Pend(w, [op |-> "remove", uid |-> uid, thing |-> t]))

\* luaDoTransformItem, luaDoChangeTypeItem: Game::transformItem changes the
\* item, replaces it by a new one, or removes it.
TransformItem ==
  /\ Running /\ "transform" \in Calls /\ Counts
  /\ \E uid \in Known, new \in Goods \cup {NoThing} :
       /\ Found(uid, Goods)
       /\ LET t == GetThingByUID(World, uid)
              gone == FreeThing([World EXCEPT !.t[t].at = "loose"], t)
          IN /\ new \in Goods => new = t \/ (things[new].at = "unborn" /\ new \notin Marked)
             /\ ScriptsBecome(Pend(IF new = t THEN World
                                   ELSE IF new = NoThing THEN gone
                                   ELSE [gone EXCEPT !.t[new].at = things[t].at],
                                   [op |-> "transform", uid |-> uid, thing |-> t, new |-> new]))

\* luaDoTeleportThing: a thing is elsewhere.
TeleportThing ==
  /\ Running /\ "move" \in Calls /\ Counts
  /\ \E uid \in DOMAIN Local(World), at \in {"tile", "bag"} :
       /\ Found(uid, Things)
       /\ LET t == GetThingByUID(World, uid)
          IN /\ t \in Beasts => at = "tile"
             /\ ScriptsBecome(Pend([World EXCEPT !.t[t].at = at], [op |-> "move", thing |-> t]))

\* luaDoRelocate: what lies or stands on a tile is on another.
Relocate ==
  /\ Running /\ "move" \in Calls /\ Counts
  /\ \E t \in Things :
       things[t].at = "tile" /\ ScriptsBecome(Pend(World, [op |-> "move", thing |-> t]))

\* luaDoMoveCreature: Game::internalMoveCreature
MoveCreature ==
  /\ Running /\ "move" \in Calls /\ Counts
  /\ \E uid \in DOMAIN Local(World) :
       /\ Found(uid, Beasts)
       /\ ScriptsBecome(Pend(World, [op |-> "move", thing |-> GetThingByUID(World, uid)]))

\* luaDoRemoveCreature: Game::removeCreature
RemoveCreature ==
  /\ Running /\ "remove" \in Calls /\ Counts
  /\ \E uid \in DOMAIN Local(World) :
       /\ Found(uid, Beasts)
       /\ LET t == GetThingByUID(World, uid)
          IN ScriptsBecome(Pend(FreeThing([World EXCEPT !.t[t].at = "loose"], t),
                                [op |-> "move", thing |-> t]))

\* Game::cleanup with Thing::releaseThing2 and ~Item, which takes its unique id
\* out of the map.
Cleanup(w) ==
  LET dead == {t \in Things : w.t[t].freed > 0}
  IN [w EXCEPT !.t = [t \in Things |-> IF t \in dead THEN [at |-> "deleted", freed |-> 0] ELSE w.t[t]],
               !.g = @ \ dead]

\* checkCreatureWalk, checkCreatures, checkDecay: a task of its own.
CleanupTask ==
  /\ frames = <<>> /\ \E t \in Things : things[t].freed > 0
  /\ ScriptsBecome(Cleanup(World)) /\ KeepsTimers

-----------------------------------------------------------------------------
(* Database results.                                                       *)

\* luaDatabaseStoreQuery with addResult
StoreQuery ==
  /\ Running /\ results.made < MaxResults
  /\ results' = [open |-> results.open \cup {results.made + 1}, made |-> results.made + 1]
  /\ UNCHANGED <<frames, lastUid, things, uniques, temps, timers, combats, calls>>

\* luaResultFree with removeResult
ResultFree ==
  /\ Running /\ \E i \in results.open : results' = [results EXCEPT !.open = @ \ {i}]
  /\ UNCHANGED <<frames, lastUid, things, uniques, temps, timers, combats, calls>>

-----------------------------------------------------------------------------
(* Timer events.                                                           *)

KeepsWorld == UNCHANGED <<frames, lastUid, things, uniques, temps, results, combats, calls>>

\* luaAddEvent: the function and its parameters are kept in the registry.
AddEvent ==
  /\ Running /\ timers.made < MaxTimers
  /\ LET i == timers.made + 1
     IN timers' = [armed |-> timers.armed \cup {i}, due |-> timers.due \cup {i},
                   refs |-> [timers.refs EXCEPT ![i] = @ + 1], made |-> i]
  /\ KeepsWorld

Forget(i) ==
  [timers EXCEPT !.armed = @ \ {i}, !.due = @ \ {i}, !.refs[i] = @ - 1]

\* The timer event a script of the stack runs for.
Serving == {frames[d].timer : d \in DOMAIN frames}

\* luaStopEvent, of another event than one that is being run, whose entry
\* executeTimerEvent still uses when the script is through
StopEvent ==
  /\ Running
  /\ \E i \in timers.armed \ Serving : timers' = Forget(i)
  /\ KeepsWorld

\* LuaScriptInterface::executeTimerEvent, from the scheduler: nothing is left to
\* do for an event whose interface was closed.
ExecuteTimerEvent ==
  /\ frames = <<>>
  /\ \E i \in timers.due :
       /\ timers' = [timers EXCEPT !.due = @ \ {i}]
       /\ ScriptsBecome(IF i \in timers.armed THEN ReserveScriptEnv(World, "timer", i) ELSE World)
  /\ UNCHANGED <<combats, calls>>

\* A script ends: releaseScriptEnv, and the entry of a timer event goes.
ScriptEnds ==
  /\ Running /\ ScriptsBecome(ReleaseScriptEnv(World))
  /\ timers' = IF Env.timer # 0 THEN Forget(Env.timer) ELSE timers
  /\ UNCHANGED <<combats, calls>>

\* LuaScriptInterface::reInitState: closeState gives the references back; the
\* scheduler keeps its events, and their numbers are not used again.
ReInitState ==
  /\ frames = <<>> /\ "reload" \in Calls /\ timers.armed # {}
  /\ timers' = [timers EXCEPT !.armed = {}, !.refs = [i \in TimerIds |->
                                            IF i \in timers.armed THEN @[i] - 1 ELSE @[i]]]
  /\ KeepsWorld

-----------------------------------------------------------------------------
(* What scripts set up while they are loaded.                              *)

KeepsAll == UNCHANGED <<frames, lastUid, things, uniques, temps, results, timers, calls>>

\* luaCreateCombatObject
CreateCombatObject ==
  /\ Loading /\ combats.objects < MaxCombats
  /\ combats' = [combats EXCEPT !.objects = @ + 1] /\ KeepsAll

\* luaCreateCombatArea: a table that is no area leaves the new object behind.
CreateCombatArea ==
  /\ Loading /\ combats.areas + combats.stray < MaxCombats
  /\ combats' \in {[combats EXCEPT !.areas = @ + 1], [combats EXCEPT !.stray = @ + 1]} /\ KeepsAll

\* luaSetCombatArea: Combat::setArea takes a copy, and drops the one it had.
SetCombatArea ==
  /\ Loading
  /\ \E c \in 1..combats.objects, a \in 1..combats.areas :
       combats' = [combats EXCEPT !.fit = {p \in @ : p[1] # c} \cup {<<c, a>>}]
  /\ KeepsAll

\* luaCreateConditionObject
CreateConditionObject ==
  /\ Loading /\ combats.conditions < MaxCombats
  /\ combats' = [combats EXCEPT !.conditions = @ + 1] /\ KeepsAll

\* A blow at a creature that is there, by one that is, or by nobody: other
\* scripts may run.
Strike ==
  /\ Running /\ "combat" \in Calls /\ Counts
  /\ \E b \in Beasts :
       /\ things[b].at = "tile"
       /\ ScriptsBecome(Pend(Named(World, [kind |-> "creature", of |-> b]),
                             [op |-> "move", thing |-> b]))

\* luaDoCombat: with an object that was set up
DoCombat == combats.objects > 0 /\ Strike

\* luaDoAreaCombatHealth, luaDoTargetCombatHealth, luaDoAreaCombatMana and
\* luaDoTargetCombatMana: in no area or in one that was set up
DoCombatHealth == Strike

\* luaDoAreaCombatCondition, luaDoTargetCombatCondition: with a condition that was
\* set up
DoCombatCondition == combats.conditions > 0 /\ Strike

-----------------------------------------------------------------------------
ScriptsNext ==
  \/ \E stage \in {"load", "event"} : StartScript(stage)
  \/ NestedScript \/ CallReturns \/ ScriptEnds
  \/ GetTileThing \/ GetPlayerSlotItem \/ GetCreatures \/ GetThing
  \/ CreateItem \/ PlayerAddItem \/ AddContainerItem \/ CreateTeleport \/ CreateItemEx
  \/ SummonCreature \/ RemoveItem \/ TransformItem
  \/ TeleportThing \/ Relocate \/ MoveCreature \/ RemoveCreature \/ CleanupTask
  \/ StoreQuery \/ ResultFree
  \/ AddEvent \/ StopEvent \/ ExecuteTimerEvent \/ ReInitState
  \/ CreateCombatObject \/ CreateCombatArea \/ SetCombatArea \/ CreateConditionObject
  \/ DoCombat \/ DoCombatHealth \/ DoCombatCondition

-----------------------------------------------------------------------------
(* Properties.                                                             *)

ScriptsTypeOK ==
  /\ Len(frames) <= MaxDepth
  /\ \A d \in DOMAIN frames : DOMAIN frames[d].local \subseteq Uids
  /\ things \in [Things -> [at : Places, freed : 0..2]] /\ uniques \subseteq Marked
  /\ timers.armed \cup timers.due \subseteq TimerIds

\* No script, waiting call, unique id or list of temporary items leads to a
\* thing that was deleted.
NoDangling ==
  /\ \A d \in DOMAIN frames :
       /\ \A u \in DOMAIN frames[d].local : things[frames[d].local[u]].at # "deleted"
       /\ frames[d].pend # NoPend => things[frames[d].pend.thing].at # "deleted"
  /\ \A g \in uniques : things[g].at # "deleted"
  /\ \A p \in temps : things[p[2]].at # "deleted"

\* A thing is freed once, and only when it is no longer in the world; a thing
\* that is nowhere is freed, or belongs to a script that runs.
FreedOnce ==
  \A t \in Things :
    /\ things[t].freed <= 1 /\ (things[t].freed > 0 => things[t].at = "loose")
    /\ things[t].at = "loose" => things[t].freed > 0 \/ \E p \in temps : p[2] = t

\* In a script, a uid stands for one thing and a thing that is there has one uid.
OneUid ==
  \A d \in DOMAIN frames : \A u, v \in DOMAIN frames[d].local :
    (frames[d].local[u] = frames[d].local[v] /\ ~IsRemoved(World, frames[d].local[u])) => u = v

\* Between tasks nothing of a script is left: no environment, no temporary item,
\* no open result.
NothingLeft == frames = <<>> => temps = {} /\ results.open = {}

\* The registry holds the function of each timer event in the table once, and an
\* event in the table is either to come or being run.
TimersExact ==
  /\ \A i \in TimerIds : timers.refs[i] = (IF i \in timers.armed THEN 1 ELSE 0)
  /\ timers.armed \subseteq timers.due \cup Serving
  /\ Serving \ {0} \subseteq timers.armed

\* luascript.cpp:4025, "Returns uid of the created item": whatever a running script
\* made with doCreateItemEx has a uid it can use.
CreatedIsNamed ==
  \A p \in temps : \E u \in DOMAIN frames[p[1]].local : frames[p[1]].local[u] = p[2]

\* What is asked of the interface.
ScriptsConsistent ==
  ScriptsTypeOK /\ NoDangling /\ FreedOnce /\ OneUid /\ NothingLeft /\ TimersExact
=============================================================================
